---------------------------- MODULE DownloadProofs ----------------------------
(***************************************************************************)
(* What Download says of the pieces of a file and of the files of an       *)
(* archive, whatever the torrent and the selection.                        *)
(***************************************************************************)
EXTENDS Download, ListProofs

-----------------------------------------------------------------------------
(* Division                                                                *)

LEMMA Division ==
  ASSUME NEW a \in Nat, NEW l \in Nat \ {0}
  PROVE  /\ a \div l \in Nat /\ a = (a \div l) * l + (a % l)
         /\ a % l \in Nat /\ a % l < l
OBVIOUS

LEMMA Times ==
  ASSUME NEW a \in Int, NEW b \in Int, NEW l \in Nat \ {0}, a * l < (b + 1) * l
  PROVE  a <= b
<1> SUFFICES ASSUME b + 1 <= a PROVE FALSE
  OBVIOUS
<1>1. (b + 1) * l <= a * l
  OBVIOUS
<1> QED
  BY <1>1

LEMMA Monotone ==
  ASSUME NEW a \in Nat, NEW b \in Nat, a <= b, NEW l \in Nat \ {0}
  PROVE  a \div l <= b \div l
<1> DEFINE q == a \div l
           r == b \div l
<1>1. q \in Nat /\ r \in Nat /\ q * l <= a /\ b < r * l + l
  BY Division
<1> HIDE DEF q, r
<1>2. (r + 1) * l = r * l + l
  BY <1>1
<1>3. q * l < (r + 1) * l
  BY <1>1, <1>2
<1>4. q <= r
  BY <1>1, <1>3, Times
<1> QED
  BY <1>4 DEF q, r

LEMMA Scale ==
  ASSUME NEW a \in Nat, NEW b \in Nat, a <= b, NEW l \in Nat \ {0}
  PROVE  a * l <= b * l
OBVIOUS

LEMMA Multiple ==
  ASSUME NEW q \in Nat, NEW l \in Nat \ {0}
  PROVE  q * l \in Nat /\ (q * l) \div l = q
<1> DEFINE a == q * l
           d == a \div l
<1>1. a \in Nat
  OBVIOUS
<1>2. d \in Nat /\ d * l <= a /\ a < d * l + l
  BY <1>1, Division
<1>3. a = q * l
  OBVIOUS
<1> HIDE DEF d, a
<1>4. (d + 1) * l = d * l + l /\ (q + 1) * l = q * l + l
  BY <1>2
<1>5. q * l < (d + 1) * l /\ d * l < (q + 1) * l
  BY <1>1, <1>2, <1>3, <1>4
<1>6. q <= d /\ d <= q
  BY <1>2, <1>5, Times
<1> QED
  BY <1>1, <1>2, <1>6 DEF a, d

\* Of size bytes from start on, first is the first piece and last the last, which
\* may have none of them.
CutInto(start, size, l, first, last) ==
  /\ first \in Nat /\ last \in Nat /\ first <= last
  /\ last * l <= start + size /\ start + size < (last + 1) * l
  /\ \A b \in start..(start + size - 1) : b \div l \in first..last
  /\ \A q \in first..(last - 1) : \E b \in start..(start + size - 1) : b \div l = q

LEMMA Cut ==
  ASSUME NEW start \in Nat, NEW size \in Nat, NEW l \in Nat \ {0}
  PROVE  CutInto(start, size, l, start \div l, (start + size) \div l)
<1> DEFINE first == start \div l
           last == (start + size) \div l
           end == start + size
<1>1. end \in Nat /\ start <= end
  OBVIOUS
<1>2. first \in Nat /\ first * l <= start /\ start < first * l + l
  BY Division
<1>3. last \in Nat /\ last * l <= end /\ end < last * l + l
  <2>1. last = end \div l
    OBVIOUS
  <2> HIDE DEF end
  <2> QED
    BY <2>1, <1>1, Division
<1>4. first <= last
  BY <1>1, Monotone
<1> HIDE DEF end, first, last
<1>5. (last + 1) * l = last * l + l
  BY <1>3
<1>6. end < (last + 1) * l
  BY <1>3, <1>5
<1>7. ASSUME NEW b \in start..(end - 1) PROVE b \div l \in first..last
  <2>1. b \in Nat /\ start <= b /\ b <= end
    BY <1>1
  <2>2. first <= b \div l /\ b \div l <= last
    BY <1>1, <2>1, Monotone DEF end, first, last
  <2>3. b \div l \in Nat
    BY <2>1, Division
  <2> QED
    BY <1>2, <1>3, <2>2, <2>3
<1>8. ASSUME NEW q \in first..(last - 1) PROVE \E b \in start..(end - 1) : b \div l = q
  <2>1. q \in Nat /\ first <= q /\ q + 1 <= last
    BY <1>2, <1>3
  <2>2. (q + 1) * l = q * l + l /\ q * l \in Nat /\ (first + 1) * l = first * l + l
    BY <2>1, <1>2
  <2>3. (q + 1) * l <= last * l
    BY <2>1, <1>3, Scale
  <2>4. q * l < end
    BY <2>2, <2>3, <1>1, <1>3
  <2>5. CASE q = first
    <3>1. start < (q + 1) * l
      BY <2>5, <1>2, <2>2
    <3>2. start \in start..(end - 1)
      BY <3>1, <2>2, <2>3, <1>1, <1>3
    <3> QED
      BY <2>5, <3>2 DEF first
  <2>6. CASE q # first
    <3>1. first + 1 <= q
      BY <2>1, <2>6, <1>2
    <3>2. (first + 1) * l <= q * l
      BY <3>1, <2>1, <1>2, Scale
    <3>3. q * l \in start..(end - 1)
      BY <3>2, <2>2, <2>4, <1>1, <1>2
    <3>4. (q * l) \div l = q
      BY <2>1, Multiple
    <3> QED
      BY <3>3, <3>4
  <2> QED
    BY <2>5, <2>6
<1> QED
  BY <1>2, <1>3, <1>4, <1>6, <1>7, <1>8 DEF end, first, last, CutInto

-----------------------------------------------------------------------------
(* The pieces                                                              *)

\* The files before the i-th, and that one, are together not more than all.
LEMMA Offsets ==
  ASSUME NEW files \in Seq(File), NEW i \in DOMAIN files
  PROVE  /\ offset(files, i) \in Nat /\ files[i].size \in Nat
         /\ Size(files, DOMAIN files) \in Nat
         /\ offset(files, i) + files[i].size <= Size(files, DOMAIN files)
         /\ i = Len(files) => offset(files, i) + files[i].size = Size(files, DOMAIN files)
<1> DEFINE before == 1..(i - 1)
           upTo == before \cup {i}
<1>1. i \in 1..Len(files) /\ Len(files) \in Nat /\ files[i] \in File
  OBVIOUS
<1>2. before \cap {i} = {} /\ upTo \subseteq DOMAIN files
  BY <1>1
<1> HIDE DEF before
<1>3. /\ Size(files, before) \in Nat
      /\ Size(files, upTo) = Size(files, before) + Size(files, {i})
  BY <1>2, FilesSized, SizeUnion
<1>4. Size(files, {i}) = files[i].size
  BY FilesSized, SizeOne
<1>8. i = Len(files) => upTo = DOMAIN files
  BY <1>1 DEF before
<1> HIDE DEF upTo
<1>5. Size(files, DOMAIN files) \in Nat /\ Size(files, upTo) <= Size(files, DOMAIN files)
  BY <1>2, FilesSized, SizeGrows
<1>6. files[i].size \in Nat
  BY <1>1 DEF File
<1>7. offset(files, i) = Size(files, before)
  BY DEF offset, before
<1> QED
  BY <1>3, <1>4, <1>5, <1>6, <1>7, <1>8

\* The pieces of a file are one more than those its bytes are in, at most.
LEMMA FewPieces ==
  ASSUME NEW first \in Nat, NEW last \in Nat, first <= last, NEW bytes,
         bytes \subseteq first..last, first..(last - 1) \subseteq bytes
  PROVE  Cardinality(first..last) <= Cardinality(bytes) + 1
<1>1. IsFiniteSet(first..last) /\ Cardinality(first..last) = last - first + 1
  BY FS_Interval
<1>2. Cardinality(first..(last - 1)) = last - first
  <2>1. CASE first = last
    <3>1. first..(last - 1) = {}
      BY <2>1
    <3> QED
      BY <3>1, <2>1, FS_EmptySet
  <2>2. CASE first < last
    BY <2>2, FS_Interval
  <2> QED
    BY <2>1, <2>2
<1>3. IsFiniteSet(bytes)
  BY <1>1, FS_Subset
<1>4. Cardinality(first..(last - 1)) <= Cardinality(bytes) /\ Cardinality(bytes) \in Nat
  BY <1>3, FS_Subset, FS_CardinalityType
<1> QED
  BY <1>1, <1>2, <1>4

\* A torrent is one that may be, and stays what it is.
LEMMA TorrentStays == Spec => [](torrent \in Torrent)
<1>1. Init => torrent \in Torrent
  BY DEF Init
<1>2. torrent \in Torrent /\ [Next]_vars => (torrent \in Torrent)'
  BY DEF Next, GetList, NextPage, GetExport, Show, vars
<1> QED
  BY <1>1, <1>2, PTL DEF Spec

\* What a file takes, in a torrent whose pieces have a length.
LEMMA Taken ==
  ASSUME NEW files \in Seq(File), NEW i \in DOMAIN files, NEW l \in Nat \ {0}
  PROVE  CutInto(offset(files, i), files[i].size, l,
                 Pieces(files, l, i).first, Pieces(files, l, i).last)
<1>1. offset(files, i) \in Nat /\ files[i].size \in Nat
  BY Offsets
<1> QED
  BY <1>1, Cut DEF Pieces

\* There is room for a piece if the bytes of the one after it are not reached.
LEMMA Room ==
  ASSUME NEW end \in Nat, NEW last \in Nat, NEW n \in Nat, NEW l \in Nat \ {0},
         last * l <= end, end < (last + 1) * l
  PROVE  last <= n <=> end < (n + 1) * l
<1>1. ASSUME last <= n PROVE end < (n + 1) * l
  <2>1. (last + 1) * l <= (n + 1) * l
    BY <1>1, Scale
  <2> QED
    BY <2>1
<1>2. ASSUME end < (n + 1) * l PROVE last <= n
  <2>1. last * l < (n + 1) * l
    BY <1>2
  <2> QED
    BY <2>1, Times
<1> QED
  BY <1>1, <1>2

\* The last file decides: it reaches to the end.
LEMMA Panics ==
  ASSUME NEW files \in Seq(File), NEW l \in Nat, NEW n \in Nat
  PROVE  parsePanics(files, l, n)
           <=> files # <<>> /\ (l = 0 \/ Size(files, DOMAIN files) >= (n + 1) * l)
<1> DEFINE total == Size(files, DOMAIN files)
           last(i) == Pieces(files, l, i).last
           end(i) == offset(files, i) + files[i].size
<1>1. parsePanics(files, l, n)
        <=> \E i \in DOMAIN files : l = 0 \/ last(i) + 1 > n + 1
  BY DEF parsePanics, splitPieces
<1>2. files # <<>> => Len(files) \in DOMAIN files
  OBVIOUS
<1>3. CASE l = 0
  BY <1>1, <1>2, <1>3
<1>4. CASE l # 0
  <2>1. ASSUME NEW i \in DOMAIN files
        PROVE  /\ end(i) \in Nat /\ end(i) <= total /\ total \in Nat
               /\ i = Len(files) => end(i) = total
               /\ last(i) \in Nat /\ (last(i) <= n <=> end(i) < (n + 1) * l)
    <3>1. /\ end(i) \in Nat /\ end(i) <= total /\ total \in Nat
          /\ i = Len(files) => end(i) = total
      BY Offsets
    <3>2. /\ last(i) \in Nat /\ last(i) * l <= end(i) /\ end(i) < (last(i) + 1) * l
      BY <1>4, Taken DEF CutInto
    <3> HIDE DEF last, end, total
    <3>3. last(i) <= n <=> end(i) < (n + 1) * l
      BY <1>4, <3>1, <3>2, Room
    <3> QED
      BY <3>1, <3>2, <3>3
  <2> HIDE DEF last, end, total
  <2> DEFINE room == (n + 1) * l
  <2>2. room \in Nat
    OBVIOUS
  <2>3. \A i \in DOMAIN files : last(i) <= n <=> end(i) < room
    BY <2>1
  <2> HIDE DEF room
  <2>4. ASSUME NEW i \in DOMAIN files, last(i) + 1 > n + 1 PROVE total >= room
    <3>1. last(i) \in Nat /\ end(i) \in Nat /\ total \in Nat /\ end(i) <= total
      BY <2>1
    <3>2. ~ (last(i) <= n)
      BY <2>4, <3>1
    <3>3. ~ (end(i) < room)
      BY <2>3, <3>2
    <3> QED
      BY <2>2, <3>1, <3>3
  <2>5. ASSUME files # <<>>, total >= room
        PROVE  \E i \in DOMAIN files : last(i) + 1 > n + 1
    <3> DEFINE k == Len(files)
    <3>1. k \in DOMAIN files
      BY <1>2, <2>5
    <3>2. last(k) \in Nat /\ end(k) \in Nat /\ end(k) = total
      BY <2>1, <3>1
    <3>3. ~ (end(k) < room)
      BY <2>2, <2>5, <3>2
    <3>4. ~ (last(k) <= n)
      BY <2>3, <3>1, <3>3
    <3> HIDE DEF k
    <3>5. last(k) + 1 > n + 1
      BY <3>2, <3>4
    <3> QED
      BY <3>1, <3>5
  <2>6. parsePanics(files, l, n) => files # <<>> /\ total >= room
    BY <1>1, <1>4, <2>4
  <2>7. files # <<>> /\ total >= room => parsePanics(files, l, n)
    BY <1>1, <2>5
  <2> QED
    BY <1>4, <2>6, <2>7 DEF total, room
<1> QED
  BY <1>3, <1>4

\* Parsing a torrent, whatever it says of its files, pieces and hashes, panics only if
\* its pieces have no length or the hash of a whole piece is missing; and then the
\* pieces of a file are those its bytes are in, and at most one more
\* (resource.go:54, 132-144).
THEOREM PiecesAlwaysCover == Spec => []PiecesCover
<1>1. ASSUME torrent \in Torrent PROVE PiecesCover
  <2>1. torrent \in Seq(File)
    BY <1>1, ListAssumptions
  <2> SUFFICES ASSUME NEW l \in Piece, NEW n \in Hashes
               PROVE  LET total == Size(torrent, DOMAIN torrent)
                      IN  /\ parsePanics(torrent, l, n)
                               <=> torrent # <<>> /\ (l = 0 \/ total >= (n + 1) * l)
                          /\ ~parsePanics(torrent, l, n) => \A i \in DOMAIN torrent :
                               LET p     == Pieces(torrent, l, i)
                                   start == offset(torrent, i)
                                   bytes == {b \div l : b \in start..(start + torrent[i].size - 1)}
                               IN  /\ bytes \subseteq p.first..p.last
                                   /\ Cardinality(p.first..p.last) <= Cardinality(bytes) + 1
                                   /\ \/ p.last < n
                                      \/ total > n * l
                                      \/ start + torrent[i].size = n * l
    BY DEF PiecesCover
  <2> DEFINE total == Size(torrent, DOMAIN torrent)
  <2>2. l \in Nat /\ n \in Nat
    BY DownloadAssumptions
  <2>3. parsePanics(torrent, l, n) <=> torrent # <<>> /\ (l = 0 \/ total >= (n + 1) * l)
    BY <2>1, <2>2, Panics
  <2>4. ASSUME ~parsePanics(torrent, l, n), NEW i \in DOMAIN torrent
        PROVE  LET p     == Pieces(torrent, l, i)
                   start == offset(torrent, i)
                   bytes == {b \div l : b \in start..(start + torrent[i].size - 1)}
               IN  /\ bytes \subseteq p.first..p.last
                   /\ Cardinality(p.first..p.last) <= Cardinality(bytes) + 1
                   /\ \/ p.last < n
                      \/ total > n * l
                      \/ start + torrent[i].size = n * l
    <3> DEFINE start == offset(torrent, i)
               size  == torrent[i].size
               first == Pieces(torrent, l, i).first
               last  == Pieces(torrent, l, i).last
               bytes == {b \div l : b \in start..(start + size - 1)}
    <3>1. start \in Nat /\ size \in Nat /\ total \in Nat /\ start + size <= total
      BY <2>1, Offsets
    <3>2. l # 0 /\ ~ (last + 1 > n + 1)
      BY <2>4 DEF parsePanics, splitPieces
    <3>3. CutInto(start, size, l, first, last)
      BY <2>1, <2>2, <3>2, Taken
    <3> HIDE DEF start, size, total, first, last
    <3>4. bytes \subseteq first..last /\ first..(last - 1) \subseteq bytes
      BY <3>3 DEF CutInto
    <3> HIDE DEF bytes
    <3>5. Cardinality(first..last) <= Cardinality(bytes) + 1
      BY <3>3, <3>4, FewPieces DEF CutInto
    <3>6. last < n \/ total > n * l \/ start + size = n * l
      <4>1. last \in Nat /\ last * l <= start + size
        BY <3>3 DEF CutInto
      <4>2. last < n \/ last = n
        BY <2>2, <3>2, <4>1
      <4> DEFINE m == n * l
      <4>3. m \in Nat /\ (last = n => m <= start + size)
        BY <2>2, <4>1
      <4> HIDE DEF m
      <4>4. last = n => total > m \/ start + size = m
        BY <3>1, <4>3
      <4> QED
        BY <4>2, <4>4 DEF m
    <3> QED
      BY <3>4, <3>5, <3>6 DEF start, size, first, last, bytes
  <2> QED
    BY <2>3, <2>4
<1> QED
  BY <1>1, TorrentStays, PTL

-----------------------------------------------------------------------------
(* The paths of an archive                                                 *)

\* What a client sends: a value of ?paths=, split.
Component == Name \cup {"", Nul}
Sendable  == Seq(Component)

LEMMA TrimType ==
  ASSUME NEW v \in Sendable
  PROVE  Trim(v) \in Sendable
<1> DEFINE named == {k \in DOMAIN v : v[k] # ""}
           n == Len(v)
           low == Min(named)
           high == Max(named)
           rests == {r \in Nat : n - r \in named}
<1>1. n \in Nat /\ named \subseteq 1..n /\ \A k \in 1..n : v[k] \in Component
  <2>1. v \in Seq(Component)
    BY DEF Sendable
  <2> HIDE DEF named
  <2>2. Len(v) \in Nat /\ DOMAIN v = 1..Len(v) /\ \A k \in 1..Len(v) : v[k] \in Component
    BY <2>1
  <2> QED
    BY <2>2 DEF named
<1>5. Trim(v) = IF named = {} THEN <<>> ELSE SubSeq(v, low, high)
  BY DEF Trim
<1>2. CASE named = {}
  <2>1. <<>> \in Seq(Component)
    OBVIOUS
  <2> QED
    BY <1>2, <1>5, <2>1 DEF Sendable
<1>3. CASE named # {}
  <2> HIDE DEF named, n
  <2>1. PICK x \in named : \A y \in named : x <= y
    <3>1. named \subseteq Nat
      BY <1>1
    <3>2. PICK x \in named : \A y \in named : ~(y < x)
      BY <1>3, <3>1, LeastNatural
    <3> QED
      BY <3>1, <3>2
  <2>2. low \in named
    BY <2>1 DEF Min
  <2>3. PICK r \in rests : \A s \in rests : ~(s < r)
    <3>1. \A k \in named : n - k \in Nat /\ n - (n - k) = k
      BY <1>1
    <3>2. rests # {} /\ rests \subseteq Nat
      BY <1>3, <3>1
    <3> QED
      BY <3>2, LeastNatural
  <2>4. \A y \in named : y <= n - r
    <3> SUFFICES ASSUME NEW y \in named PROVE y <= n - r
      OBVIOUS
    <3>1. y \in Nat /\ n - y \in Nat /\ n - (n - y) = y /\ r \in Nat
      BY <1>1, <2>3
    <3>2. n - y \in rests
      BY <3>1
    <3>3. ~(n - y < r)
      BY <2>3, <3>2
    <3> QED
      BY <1>1, <3>1, <3>3
  <2>5. high \in named
    <3>1. n - r \in named
      BY <2>3
    <3> QED
      BY <2>4, <3>1 DEF Max
  <2>6. Trim(v) = SubSeq(v, low, high)
    BY <1>3, <1>5
  <2> HIDE DEF low, high
  <2>7. \A k \in low..high : v[k] \in Component
    BY <1>1, <2>2, <2>5
  <2>8. low \in Int /\ high \in Int
    BY <1>1, <2>2, <2>5
  <2>9. SubSeq(v, low, high) \in Seq(Component)
    BY <2>7, <2>8, SubSeqProperties
  <2> QED
    BY <2>6, <2>9 DEF Sendable
<1> QED
  BY <1>2, <1>3

\* What getSelectedPaths carries from one value to the next.
Acc == [status : {200, 400, 404}, len : Nat, paths : SUBSET Sendable]

\* The values that are refused.
AtFault(files, base, v) == Bad(files, base, v) \/ Missing(files, v)

LEMMA SelectStays ==
  ASSUME NEW files, NEW base, NEW acc \in Acc, NEW v \in Sendable
  PROVE  selectPath(files, base, acc, v) \in Acc
<1> DEFINE p == Trim(v)
           add == EncodedLen(p)
<1>1. p \in Sendable /\ add \in Nat
  <2>1. p \in Sendable
    BY TrimType
  <2> HIDE DEF p
  <2> QED
    BY <2>1 DEF EncodedLen, Sendable
<1>2. selectPath(files, base, acc, v) \in
        {acc, [acc EXCEPT !.status = 400], [acc EXCEPT !.status = 404],
         [acc EXCEPT !.len = @ + add, !.paths = @ \cup {p}]}
  BY DEF selectPath
<1> HIDE DEF p, add
<1>3. acc.len + add \in Nat /\ acc.paths \cup {p} \in SUBSET Sendable
  BY <1>1 DEF Acc
<1>4. /\ [acc EXCEPT !.status = 400] \in Acc /\ [acc EXCEPT !.status = 404] \in Acc
      /\ [acc EXCEPT !.len = @ + add, !.paths = @ \cup {p}] \in Acc
  <2> DEFINE sum == acc.len + add
             more == acc.paths \cup {p}
  <2>1. sum \in Nat /\ more \in SUBSET Sendable
    BY <1>3
  <2>2. [acc EXCEPT !.len = @ + add, !.paths = @ \cup {p}]
          = [acc EXCEPT !.len = sum, !.paths = more]
    OBVIOUS
  <2> HIDE DEF sum, more
  <2>3. [acc EXCEPT !.len = sum, !.paths = more] \in Acc
    BY <2>1 DEF Acc
  <2>4. [acc EXCEPT !.status = 400] \in Acc /\ [acc EXCEPT !.status = 404] \in Acc
    BY DEF Acc
  <2> QED
    BY <2>2, <2>3, <2>4
<1> QED
  BY <1>2, <1>4

\* What is carried from the first n of the values, for every n.
Selects(upTo, files, base, values) ==
  /\ upTo \in [0..Len(values) -> Acc] /\ upTo[0] = [status |-> 200, len |-> 0, paths |-> {}]
  /\ \A n \in 1..Len(values) : upTo[n] = selectPath(files, base, upTo[n - 1], values[n])

LEMMA SelectRuns ==
  ASSUME NEW files, NEW base, NEW values \in Seq(Sendable)
  PROVE  \E upTo :
           /\ Selects(upTo, files, base, values)
           /\ getSelectedPaths(files, base, values)
                = IF Len(values) > maxSelectedPaths THEN [status |-> 400, paths |-> {}]
                  ELSE [status |-> upTo[Len(values)].status, paths |-> upTo[Len(values)].paths]
<1> DEFINE N == Len(values)
           none == [status |-> 200, len |-> 0, paths |-> {}]
           Select(acc, n) == selectPath(files, base, acc, values[n])
           Is(g) == g = [n \in 0..N |-> IF n = 0 THEN none ELSE Select(g[n - 1], n)]
           step == [n \in 1..N |-> [acc \in Acc |-> Select(acc, n)]]
           upTo == CHOOSE g : Is(g)
<1>1. N \in Nat /\ none \in Acc /\ \A n \in 1..N : values[n] \in Sendable
  BY DEF Acc
<1>2. ASSUME NEW n \in 1..N, NEW acc \in Acc PROVE Select(acc, n) \in Acc
  BY <1>1, SelectStays
<1>3. Steps(step, N, Acc)
  BY <1>2 DEF Steps
<1>4. \A n \in 1..N, acc \in Acc : step[n][acc] = Select(acc, n)
  OBVIOUS
<1> HIDE DEF step, Select, N, none
<1>5. PICK g : Runs(g, step, none, N, Acc)
  BY <1>1, <1>3, Loop
<1>6. Is(g)
  <2>1. ASSUME NEW n \in 0..N, n # 0 PROVE g[n] = Select(g[n - 1], n)
    <3>1. n \in 1..N /\ n - 1 \in 0..N
      BY <2>1, <1>1
    <3> QED
      BY <3>1, <1>4, <1>5 DEF Runs
  <2> QED
    BY <1>5, <2>1 DEF Runs
<1>7. Is(upTo)
  BY <1>6
<1> HIDE DEF upTo
<1>8. /\ upTo = [n \in 0..N |-> upTo[n]] /\ upTo[0] = none
      /\ \A n \in 1..N : upTo[n] = Select(upTo[n - 1], n)
  <2>1. 0 \in 0..N /\ \A n \in 1..N : n \in 0..N /\ n # 0
    BY <1>1
  <2> QED
    BY <1>7, <2>1
<1>9. Runs(upTo, step, none, N, Acc)
  <2>1. Written(upTo, step, none, N, Acc)
    BY <1>4, <1>8 DEF Written
  <2> QED
    BY <1>1, <1>3, <2>1, LoopStays
<1>10. getSelectedPaths(files, base, values)
         = IF Len(values) > maxSelectedPaths THEN [status |-> 400, paths |-> {}]
           ELSE [status |-> upTo[N].status, paths |-> upTo[N].paths]
  BY DEF getSelectedPaths, upTo, Select, N, none
<1>11. Selects(upTo, files, base, values)
  BY <1>8, <1>9 DEF Selects, Runs, Select, N, none
<1> QED
  BY <1>10, <1>11 DEF N

\* The values as they are taken, and those of the first n that are not all slashes.
Sent(values)  == [k \in DOMAIN values |-> Trim(values[k])]
Ticks(sent, n) == {k \in 1..n : sent[k] # <<>>}

\* How paths are told from one another in UrlLen.
Lengths(paths) == [k \in DOMAIN paths |-> [size |-> EncodedLen(paths[k])]]

LEMMA LengthsSized ==
  ASSUME NEW paths \in Seq(Sendable)
  PROVE  /\ Sized(Lengths(paths)) /\ Len(Lengths(paths)) = Len(paths)
         /\ \A k \in 1..Len(paths) : Lengths(paths)[k].size = EncodedLen(paths[k])
         /\ \A S : UrlLen(paths, S) = Size(Lengths(paths), S)
<1> DEFINE n == Len(paths)
<1>1. n \in Nat /\ DOMAIN paths = 1..n /\ \A k \in 1..n : paths[k] \in Seq(Component)
  BY DEF Sendable
<1>2. \A k \in 1..n : EncodedLen(paths[k]) \in Nat
  BY <1>1 DEF EncodedLen
<1>3. Lengths(paths) = [k \in 1..n |-> [size |-> EncodedLen(paths[k])]]
  BY <1>1 DEF Lengths
<1> HIDE DEF n
<1>4. Len(Lengths(paths)) = n /\ DOMAIN Lengths(paths) = 1..n
  BY <1>1, <1>3
<1>5. \A k \in 1..n : Lengths(paths)[k].size = EncodedLen(paths[k])
  BY <1>3
<1> QED
  BY <1>1, <1>2, <1>4, <1>5 DEF n, Sized, UrlLen, Lengths

LEMMA SentType ==
  ASSUME NEW values \in Seq(Sendable)
  PROVE  /\ Sent(values) \in Seq(Sendable) /\ Len(Sent(values)) = Len(values)
         /\ \A k \in 1..Len(values) : Sent(values)[k] = Trim(values[k])
<1> DEFINE n == Len(values)
<1>1. n \in Nat /\ DOMAIN values = 1..n /\ \A k \in 1..n : values[k] \in Sendable
  OBVIOUS
<1>2. \A k \in 1..n : Trim(values[k]) \in Sendable
  BY <1>1, TrimType
<1>3. Sent(values) = [k \in 1..n |-> Trim(values[k])]
  BY <1>1 DEF Sent
<1> HIDE DEF n
<1> QED
  BY <1>1, <1>2, <1>3 DEF n

\* What is carried, told without an order: the first n are let through if none of
\* them is refused and they are not too long together.
Tells(acc, files, base, values, n) ==
  /\ acc.status = 200 <=>
       /\ \A k \in 1..n : ~AtFault(files, base, values[k])
       /\ UrlLen(Sent(values), Ticks(Sent(values), n)) <= maxSelectedPathsEncodedLen
  /\ acc.status = 200 =>
       /\ acc.len = UrlLen(Sent(values), Ticks(Sent(values), n))
       /\ acc.paths = {Sent(values)[k] : k \in Ticks(Sent(values), n)}

LEMMA Bounds == maxSelectedPaths \in Nat /\ maxSelectedPathsEncodedLen \in Nat
<1>1. /\ maxSelectedPaths \in {maxSelectedPaths, maxSelectedPathsEncodedLen}
      /\ maxSelectedPathsEncodedLen \in {maxSelectedPaths, maxSelectedPathsEncodedLen}
  OBVIOUS
<1>2. {maxSelectedPaths, maxSelectedPathsEncodedLen} \subseteq Nat
  BY DownloadAssumptions
<1> QED
  BY <1>1, <1>2

\* One more path adds its length, if it is not all slashes.
LEMMA UrlGrows ==
  ASSUME NEW sent \in Seq(Sendable), NEW n \in Nat, n + 1 <= Len(sent)
  PROVE  /\ UrlLen(sent, Ticks(sent, n)) \in Nat
         /\ sent[n + 1] = <<>> => Ticks(sent, n + 1) = Ticks(sent, n)
         /\ sent[n + 1] # <<>> =>
              /\ Ticks(sent, n + 1) = Ticks(sent, n) \cup {n + 1}
              /\ UrlLen(sent, Ticks(sent, n + 1))
                   = UrlLen(sent, Ticks(sent, n)) + EncodedLen(sent[n + 1])
<1> DEFINE w == Lengths(sent)
           m == n + 1
           T == Ticks(sent, n)
<1>1. /\ Sized(w) /\ Len(w) = Len(sent) /\ DOMAIN w = 1..Len(sent)
      /\ \A k \in 1..Len(sent) : w[k].size = EncodedLen(sent[k])
      /\ \A S : UrlLen(sent, S) = Size(w, S)
  BY LengthsSized DEF Sized
<1>2. m \in 1..Len(sent)
  OBVIOUS
<1>3. \A k : k \in 1..m <=> k \in 1..n \/ k = m
  OBVIOUS
<1>4. T \cap {m} = {}
  BY DEF Ticks
<1>5. sent[m] = <<>> => Ticks(sent, m) = T
  BY <1>3 DEF Ticks
<1>6. sent[m] # <<>> => Ticks(sent, m) = T \cup {m}
  BY <1>3 DEF Ticks
<1> HIDE DEF w, m, T
<1>7. /\ Size(w, T) \in Nat
      /\ Size(w, T \cup {m}) = Size(w, T) + Size(w, {m})
  BY <1>1, <1>4, SizeUnion
<1>8. Size(w, {m}) = EncodedLen(sent[m])
  BY <1>1, <1>2, SizeOne
<1>9. UrlLen(sent, T) \in Nat /\ UrlLen(sent, T \cup {m}) = UrlLen(sent, T) + EncodedLen(sent[m])
  BY <1>1, <1>7, <1>8
<1> QED
  BY <1>5, <1>6, <1>9 DEF m, T

LEMMA TellsMore ==
  ASSUME NEW files, NEW base, NEW values \in Seq(Sendable), NEW acc \in Acc,
         NEW n \in Nat, n + 1 <= Len(values), Tells(acc, files, base, values, n)
  PROVE  Tells(selectPath(files, base, acc, values[n + 1]), files, base, values, n + 1)
<1> DEFINE sent == Sent(values)
           m == n + 1
           v == values[m]
           p == sent[m]
           len == UrlLen(sent, Ticks(sent, n))
           more == UrlLen(sent, Ticks(sent, m))
           next == selectPath(files, base, acc, v)
           Fine(k) == ~AtFault(files, base, values[k])
           P(k) == {sent[j] : j \in Ticks(sent, k)}
<1>1. /\ sent \in Seq(Sendable) /\ Len(sent) = Len(values) /\ p = Trim(v)
      /\ m \in 1..Len(values) /\ v \in Sendable
  BY SentType
<1>2. /\ len \in Nat
      /\ p = <<>> => Ticks(sent, m) = Ticks(sent, n)
      /\ p # <<>> => Ticks(sent, m) = Ticks(sent, n) \cup {m} /\ more = len + EncodedLen(p)
  <2> HIDE DEF sent
  <2> QED
    BY <1>1, UrlGrows
<1>3. p = <<>> => more = len /\ P(m) = P(n)
  BY <1>2
<1>4. p # <<>> => P(m) = P(n) \cup {p}
  BY <1>2
<1>5. (\A k \in 1..m : Fine(k)) <=> (\A k \in 1..n : Fine(k)) /\ Fine(m)
  <2>1. \A k : k \in 1..m <=> k \in 1..n \/ k = m
    OBVIOUS
  <2> HIDE DEF Fine, m
  <2> QED
    BY <2>1
<1>6. /\ acc.status = 200 <=> (\A k \in 1..n : Fine(k)) /\ len <= maxSelectedPathsEncodedLen
      /\ acc.status = 200 => acc.len = len /\ acc.paths = P(n)
  BY DEF Tells
<1>7. Fine(m) <=> ~Bad(files, base, v) /\ ~Missing(files, v)
  BY DEF AtFault
<1>8. p = <<>> => ~Missing(files, v)
  BY <1>1 DEF Missing
<1>9. next = IF acc.status # 200 \/ (p = <<>> /\ ~Bad(files, base, v)) THEN acc
             ELSE IF Bad(files, base, v) THEN [acc EXCEPT !.status = 400]
             ELSE IF Missing(files, v) THEN [acc EXCEPT !.status = 404]
             ELSE IF acc.len + EncodedLen(p) > maxSelectedPathsEncodedLen
             THEN [acc EXCEPT !.status = 400]
             ELSE [acc EXCEPT !.len = @ + EncodedLen(p), !.paths = @ \cup {p}]
  BY <1>1 DEF selectPath
<1>10. EncodedLen(p) \in Nat /\ maxSelectedPathsEncodedLen \in Nat
  <2>1. p \in Seq(Component)
    BY <1>1 DEF Sendable
  <2> HIDE DEF p
  <2> QED
    BY <2>1, Bounds DEF EncodedLen
<1> SUFFICES /\ next.status = 200 <=>
                  (\A k \in 1..m : Fine(k)) /\ more <= maxSelectedPathsEncodedLen
             /\ next.status = 200 => next.len = more /\ next.paths = P(m)
  BY DEF Tells
<1> HIDE DEF next, Fine, P, len, more, p, v, m, sent
<1>11. CASE acc.status # 200
  <2>1. next = acc
    BY <1>9, <1>11
  <2>2. len <= more
    BY <1>2, <1>3, <1>10
  <2>3. more \in Nat
    BY <1>2, <1>3, <1>10
  <2> QED
    BY <1>2, <1>5, <1>6, <1>10, <1>11, <2>1, <2>2, <2>3
<1>12. CASE acc.status = 200 /\ p = <<>> /\ ~Bad(files, base, v)
  <2>1. next = acc
    BY <1>9, <1>12
  <2> QED
    BY <1>3, <1>5, <1>6, <1>7, <1>8, <1>12, <2>1
<1>13. CASE acc.status = 200 /\ Bad(files, base, v)
  <2>1. next = [acc EXCEPT !.status = 400]
    BY <1>9, <1>13
  <2>2. next.status = 400
    BY <2>1 DEF Acc
  <2> QED
    BY <1>5, <1>7, <1>13, <2>2
<1>14. CASE acc.status = 200 /\ p # <<>> /\ ~Bad(files, base, v) /\ Missing(files, v)
  <2>1. next = [acc EXCEPT !.status = 404]
    BY <1>9, <1>14
  <2>2. next.status = 404
    BY <2>1 DEF Acc
  <2> QED
    BY <1>5, <1>7, <1>14, <2>2
<1>15. CASE acc.status = 200 /\ p # <<>> /\ ~Bad(files, base, v) /\ ~Missing(files, v)
  <2>1. acc.len = len /\ acc.paths = P(n) /\ more = len + EncodedLen(p)
    BY <1>2, <1>6, <1>15
  <2>2. CASE acc.len + EncodedLen(p) > maxSelectedPathsEncodedLen
    <3>1. next = [acc EXCEPT !.status = 400]
      BY <1>9, <1>15, <2>2
    <3>2. next.status = 400
      BY <3>1 DEF Acc
    <3>3. ~(more <= maxSelectedPathsEncodedLen)
      BY <1>2, <1>10, <2>1, <2>2
    <3> QED
      BY <3>2, <3>3
  <2>3. CASE ~(acc.len + EncodedLen(p) > maxSelectedPathsEncodedLen)
    <3>1. next = [acc EXCEPT !.len = @ + EncodedLen(p), !.paths = @ \cup {p}]
      BY <1>9, <1>15, <2>3
    <3>2. /\ next.status = 200 /\ next.len = acc.len + EncodedLen(p)
          /\ next.paths = acc.paths \cup {p}
      BY <3>1, <1>15 DEF Acc
    <3>3. more <= maxSelectedPathsEncodedLen
      BY <1>2, <1>10, <2>1, <2>3
    <3> QED
      BY <1>4, <1>5, <1>6, <1>7, <1>15, <2>1, <3>2, <3>3
  <2> QED
    BY <2>2, <2>3
<1> QED
  BY <1>11, <1>12, <1>13, <1>14, <1>15

\* What getSelectedPaths lets through, and what it then returns.
LEMMA Outcome ==
  ASSUME NEW files, NEW base, NEW values \in Seq(Sendable)
  PROVE  LET sel  == getSelectedPaths(files, base, values)
             sent == Sent(values)
             all  == Ticks(sent, Len(values))
         IN  /\ sel.status = 200 <=>
                  /\ Len(values) <= maxSelectedPaths
                  /\ \A k \in 1..Len(values) : ~AtFault(files, base, values[k])
                  /\ UrlLen(sent, all) <= maxSelectedPathsEncodedLen
             /\ sel.status = 200 =>
                  sel = [status |-> 200, paths |-> {sent[k] : k \in all}]
<1> DEFINE N == Len(values)
<1>1. PICK upTo :
        /\ Selects(upTo, files, base, values)
        /\ getSelectedPaths(files, base, values)
             = IF N > maxSelectedPaths THEN [status |-> 400, paths |-> {}]
               ELSE [status |-> upTo[N].status, paths |-> upTo[N].paths]
  BY SelectRuns
<1> DEFINE P == {n \in Nat : n <= N => Tells(upTo[n], files, base, values, n)}
<1>2. N \in Nat
  OBVIOUS
<1>3. 0 \in P
  <2>1. Ticks(Sent(values), 0) = {} /\ 1..0 = {}
    BY DEF Ticks
  <2>2. UrlLen(Sent(values), {}) = 0
    <3> DEFINE w == Lengths(Sent(values))
    <3>1. Sized(w) /\ UrlLen(Sent(values), {}) = Size(w, {})
      BY SentType, LengthsSized
    <3> HIDE DEF w
    <3> QED
      BY <3>1, SizeNone
  <2>3. upTo[0].status = 200 /\ upTo[0].len = 0 /\ upTo[0].paths = {}
    BY <1>1 DEF Selects
  <2>4. 0 <= maxSelectedPathsEncodedLen
    BY Bounds
  <2>5. {Sent(values)[k] : k \in Ticks(Sent(values), 0)} = {}
    BY <2>1
  <2>6. \A k \in 1..0 : ~AtFault(files, base, values[k])
    BY <2>1
  <2>7. Tells(upTo[0], files, base, values, 0)
    BY <2>1, <2>2, <2>3, <2>4, <2>5, <2>6, Zenon DEF Tells
  <2> QED
    BY <2>7
<1>4. ASSUME NEW n \in Nat, n \in P PROVE n + 1 \in P
  <2> SUFFICES ASSUME n + 1 <= N PROVE Tells(upTo[n + 1], files, base, values, n + 1)
    OBVIOUS
  <2>1. n + 1 \in 1..N /\ (n + 1) - 1 = n /\ n \in 0..N /\ Tells(upTo[n], files, base, values, n)
    BY <1>2, <1>4
  <2>2. upTo[n] \in Acc /\ upTo[n + 1] = selectPath(files, base, upTo[n], values[n + 1])
    BY <1>1, <2>1 DEF Selects
  <2>3. Tells(selectPath(files, base, upTo[n], values[n + 1]), files, base, values, n + 1)
    BY <2>1, <2>2, TellsMore
  <2> QED
    BY <2>2, <2>3
<1> HIDE DEF P
<1>5. N \in P
  BY <1>2, <1>3, <1>4, Induct
<1>6. Tells(upTo[N], files, base, values, N)
  BY <1>2, <1>5 DEF P
<1>7. N > maxSelectedPaths <=> ~(N <= maxSelectedPaths)
  BY <1>2, Bounds
<1> DEFINE sel == getSelectedPaths(files, base, values)
           paths == {Sent(values)[k] : k \in Ticks(Sent(values), N)}
           fine == \A k \in 1..N : ~AtFault(files, base, values[k])
           len == UrlLen(Sent(values), Ticks(Sent(values), N))
<1>8. /\ upTo[N].status = 200 <=> fine /\ len <= maxSelectedPathsEncodedLen
      /\ upTo[N].status = 200 => upTo[N].paths = paths
  BY <1>6 DEF Tells
<1>9. sel = IF N > maxSelectedPaths THEN [status |-> 400, paths |-> {}]
            ELSE [status |-> upTo[N].status, paths |-> upTo[N].paths]
  BY <1>1
<1> HIDE DEF sel, paths, fine, len, N
<1>10. /\ sel.status = 200 <=> N <= maxSelectedPaths /\ fine /\ len <= maxSelectedPathsEncodedLen
       /\ sel.status = 200 => sel = [status |-> 200, paths |-> paths]
  <2>1. CASE N > maxSelectedPaths
    <3>1. sel.status = 400
      BY <1>9, <2>1
    <3> QED
      BY <1>7, <2>1, <3>1
  <2>2. CASE ~(N > maxSelectedPaths)
    <3>1. sel = [status |-> upTo[N].status, paths |-> upTo[N].paths]
      BY <1>9, <2>2
    <3> QED
      BY <1>7, <1>8, <2>2, <3>1
  <2> QED
    BY <2>1, <2>2
<1> QED
  BY <1>10 DEF sel, paths, fine, len, N

-----------------------------------------------------------------------------
(* The archive                                                             *)

\* What the values add up to, what is refused of them and what is ticked, do not
\* depend on their order.
LEMMA AnyOrder ==
  ASSUME NEW files, NEW base, NEW values \in Seq(Sendable),
         getSelectedPaths(files, base, values).status = 200
  PROVE  getSelectedPaths(files, base, Reverse(values)) = getSelectedPaths(files, base, values)
<1> DEFINE N == Len(values)
           back == Reverse(values)
           sent == Sent(values)
           tnes == Sent(back)
           T == Ticks(sent, N)
           p == [k \in 1..N |-> N + 1 - k]
           w == Lengths(sent)
           u == Lengths(tnes)
<1>1. N \in Nat /\ DOMAIN values = 1..N /\ \A k \in 1..N : values[k] \in Sendable
  OBVIOUS
<1>2. /\ \A k \in 1..N : p[k] = N + 1 - k /\ p[k] \in 1..N /\ p[p[k]] = k
      /\ p \in [1..N -> 1..N]
  BY <1>1
<1>3. back = [k \in 1..N |-> values[p[k]]]
  <2>1. \A k \in 1..N : (N - k) + 1 = p[k]
    BY <1>1
  <2> QED
    BY <2>1 DEF Reverse
<1>4. /\ back \in Seq(Sendable) /\ Len(back) = N
      /\ \A k \in 1..N : back[k] = values[p[k]]
  <2> HIDE DEF p
  <2> QED
    BY <1>1, <1>2, <1>3
<1> HIDE DEF p, back
<1>5. /\ sent \in Seq(Sendable) /\ Len(sent) = N
      /\ tnes \in Seq(Sendable) /\ Len(tnes) = N
      /\ \A k \in 1..N : tnes[k] = sent[p[k]]
  <2>1. \A k \in 1..N : sent[k] = Trim(values[k]) /\ tnes[k] = Trim(back[k])
    BY <1>4, SentType
  <2> QED
    BY <1>2, <1>4, <2>1, SentType
<1> HIDE DEF sent, tnes
<1>6. /\ Sized(w) /\ Len(w) = N /\ \A k \in 1..N : w[k].size = EncodedLen(sent[k])
      /\ Sized(u) /\ Len(u) = N /\ \A k \in 1..N : u[k].size = EncodedLen(tnes[k])
      /\ \A S : UrlLen(sent, S) = Size(w, S) /\ UrlLen(tnes, S) = Size(u, S)
  BY <1>5, LengthsSized
<1> HIDE DEF w, u
<1>7. Takes(p, Len(u), Len(w), T) /\ Resized(u, w, p)
  BY <1>2, <1>5, <1>6 DEF Takes, Resized, Ticks
<1>8. Takers(p, T, N) = Ticks(tnes, N)
  BY <1>2, <1>5 DEF Takers, Ticks
<1>9. UrlLen(tnes, Ticks(tnes, N)) = UrlLen(sent, T)
  <2>1. Size(u, Takers(p, T, Len(u))) = Size(w, T)
    BY <1>6, <1>7, SizeTaken
  <2> QED
    BY <1>6, <1>8, <2>1
<1>10. {tnes[k] : k \in Ticks(tnes, N)} = {sent[k] : k \in T}
  <2>1. \A k \in Ticks(tnes, N) : p[k] \in T /\ tnes[k] = sent[p[k]]
    BY <1>2, <1>5 DEF Ticks
  <2>2. \A k \in T : p[k] \in Ticks(tnes, N) /\ sent[k] = tnes[p[k]]
    BY <1>2, <1>5 DEF Ticks
  <2> HIDE DEF T
  <2> QED
    BY <2>1, <2>2
<1>11. (\A k \in 1..N : ~AtFault(files, base, values[k]))
         => \A k \in 1..N : ~AtFault(files, base, back[k])
  BY <1>2, <1>4
<1>12. /\ N <= maxSelectedPaths
       /\ \A k \in 1..N : ~AtFault(files, base, values[k])
       /\ UrlLen(sent, T) <= maxSelectedPathsEncodedLen
       /\ getSelectedPaths(files, base, values)
            = [status |-> 200, paths |-> {sent[k] : k \in T}]
  BY Outcome DEF sent
<1>13. getSelectedPaths(files, base, back).status = 200
  BY <1>4, <1>9, <1>11, <1>12, Outcome DEF tnes
<1>14. getSelectedPaths(files, base, back)
         = [status |-> 200, paths |-> {tnes[k] : k \in Ticks(tnes, N)}]
  BY <1>4, <1>13, Outcome DEF tnes
<1> QED
  BY <1>10, <1>12, <1>14 DEF back

\* A finite set made a sequence holds each of its members once.
LEMMA InSequence ==
  ASSUME NEW S, IsFiniteSet(S)
  PROVE  /\ Cardinality(S) \in Nat /\ SetToSeq(S) \in [1..Cardinality(S) -> S]
         /\ \A k, l \in 1..Cardinality(S) : SetToSeq(S)[k] = SetToSeq(S)[l] => k = l
<1>1. PICK n \in Nat : ExistsBijection(1..n, S)
  BY FS_NatBijection
<1>2. Cardinality(S) = n
  BY <1>1, FS_CountingElements
<1>3. PICK f : f \in Bijection(1..n, S)
  BY <1>1 DEF ExistsBijection
<1>4. f \in [1..n -> S] /\ IsInjective(f)
  BY <1>3 DEF Bijection, Injection
<1>5. SetToSeq(S) \in [1..n -> S] /\ IsInjective(SetToSeq(S))
  BY <1>2, <1>4 DEF SetToSeq
<1> QED
  BY <1>2, <1>5 DEF IsInjective

\* The paths that are left are together no longer than those that were sent.
LEMMA UrlFits ==
  ASSUME NEW sent \in Seq(Sendable), NEW T, \A k \in T : k \in 1..Len(sent), NEW paths,
         paths = {sent[k] : k \in T}
  PROVE  /\ UrlLen(SetToSeq(paths), DOMAIN SetToSeq(paths)) \in Nat
         /\ UrlLen(sent, T) \in Nat
         /\ UrlLen(SetToSeq(paths), DOMAIN SetToSeq(paths)) <= UrlLen(sent, T)
<1> DEFINE url == SetToSeq(paths)
           c == Cardinality(paths)
           p == [k \in 1..c |-> CHOOSE j \in T : sent[j] = url[k]]
           S == {p[k] : k \in 1..c}
           w == Lengths(sent)
           u == Lengths(url)
<1>1. Len(sent) \in Nat /\ \A k \in 1..Len(sent) : sent[k] \in Sendable
  OBVIOUS
<1>2. IsFiniteSet(paths)
  <2>1. IsFiniteSet(T)
    <3>1. IsFiniteSet(1..Len(sent)) /\ T \subseteq 1..Len(sent)
      BY <1>1, FS_Interval
    <3> QED
      BY <3>1, FS_Subset
  <2> DEFINE f == [k \in T |-> sent[k]]
  <2>2. f \in Surjection(T, paths)
    BY DEF Surjection
  <2> HIDE DEF f
  <2> QED
    BY <2>1, <2>2, FS_Surjection
<1>3. /\ c \in Nat /\ url \in [1..c -> paths]
      /\ \A k, l \in 1..c : url[k] = url[l] => k = l
  BY <1>2, InSequence
<1>4. \A x \in paths : x \in Sendable /\ \E j \in T : x = sent[j]
  BY <1>1
<1> HIDE DEF url, c
<1>5. url \in Seq(Sendable) /\ Len(url) = c /\ DOMAIN url = 1..c
  BY <1>3, <1>4
<1>6. \A k \in 1..c : p[k] \in T /\ sent[p[k]] = url[k]
  <2> SUFFICES ASSUME NEW k \in 1..c
               PROVE  p[k] \in T /\ sent[p[k]] = url[k]
    OBVIOUS
  <2>1. \E j \in T : sent[j] = url[k]
    BY <1>3, <1>4
  <2> QED
    BY <2>1
<1>7. /\ Sized(w) /\ Len(w) = Len(sent) /\ \A k \in 1..Len(sent) : w[k].size = EncodedLen(sent[k])
      /\ Sized(u) /\ Len(u) = c /\ \A k \in 1..c : u[k].size = EncodedLen(url[k])
      /\ \A R : UrlLen(sent, R) = Size(w, R) /\ UrlLen(url, R) = Size(u, R)
  BY <1>5, LengthsSized
<1>8. p \in [1..c -> 1..Len(sent)]
  BY <1>6
<1> HIDE DEF w, u, p
<1>9. \A j \in S : j \in T /\ \E k \in 1..c : p[k] = j
  BY <1>6
<1>10. \A k \in 1..c : p[k] \in S
  OBVIOUS
<1> HIDE DEF S
<1>11. Takes(p, Len(u), Len(w), S) /\ Resized(u, w, p)
  BY <1>3, <1>6, <1>7, <1>8, <1>9 DEF Takes, Resized
<1>12. Takers(p, S, c) = 1..c
  BY <1>10 DEF Takers
<1>13. Size(u, 1..c) = Size(w, S)
  <2>1. Size(u, Takers(p, S, Len(u))) = Size(w, S)
    BY <1>7, <1>11, SizeTaken
  <2> QED
    BY <1>7, <1>12, <2>1
<1>14. Size(w, S) \in Nat /\ Size(w, T) \in Nat /\ Size(w, S) <= Size(w, T)
  <2>1. S \subseteq T
    BY <1>9
  <2> QED
    BY <1>7, <2>1, SizeGrows
<1> QED
  BY <1>5, <1>7, <1>13, <1>14 DEF url

LEMMA PrefixOfPrefix ==
  ASSUME NEW S, NEW a \in Seq(S), NEW b \in Seq(S), NEW c \in Seq(S),
         IsPrefix(a, b), IsPrefix(b, c)
  PROVE  IsPrefix(a, c)
<1>1. Len(a) \in Nat /\ Len(b) \in Nat /\ Len(c) \in Nat
  OBVIOUS
<1>2. Len(a) <= Len(b) /\ \A k \in 1..Len(a) : a[k] = b[k]
  BY PrefixIs
<1>3. Len(b) <= Len(c) /\ \A k \in 1..Len(b) : b[k] = c[k]
  BY PrefixIs
<1>4. Len(a) <= Len(c) /\ \A k \in 1..Len(a) : a[k] = c[k]
  BY <1>1, <1>2, <1>3
<1> QED
  BY <1>4, PrefixIs

\* With paths below a directory, an archive of it holds the files below them.
LEMMA ArchivedBelow ==
  ASSUME torrent \in Seq(File), NEW base \in Sendable, NEW paths, paths \subseteq Sendable,
         \A p \in paths : IsPrefix(base, p)
  PROVE  Archived(torrent, base, paths)
           = IF paths = {} THEN Below(base) ELSE UNION {Below(p) : p \in paths}
<1>1. CASE paths = {}
  BY <1>1 DEF Archived, Below
<1>2. CASE paths # {}
  <2>1. ASSUME NEW p \in paths, NEW i \in DOMAIN torrent, IsPrefix(p, torrent[i].path)
        PROVE  IsPrefix(base, torrent[i].path)
    <3>1. torrent[i].path \in Seq(Name)
      BY FilesAreFiles
    <3> DEFINE f == torrent[i].path
    <3>2. f \in Seq(Component) /\ p \in Seq(Component) /\ base \in Seq(Component)
      <4>1. Name \subseteq Component
        BY DEF Component
      <4> HIDE DEF f
      <4>2. f \in Seq(Name)
        BY <3>1 DEF f
      <4>3. f \in Seq(Component)
        BY <4>1, <4>2
      <4> QED
        BY <4>3 DEF Sendable
    <3>3. IsPrefix(base, p) /\ IsPrefix(p, f)
      BY <2>1
    <3> HIDE DEF f
    <3>4. IsPrefix(base, f)
      BY <3>2, <3>3, PrefixOfPrefix
    <3> QED
      BY <3>4 DEF f
  <2>2. \A i : i \in Archived(torrent, base, paths) <=>
          /\ i \in DOMAIN torrent /\ IsPrefix(base, torrent[i].path)
          /\ \E p \in paths : IsPrefix(p, torrent[i].path)
    BY <1>2 DEF Archived
  <2>3. \A i : i \in UNION {Below(p) : p \in paths} <=>
          \E p \in paths : i \in DOMAIN torrent /\ IsPrefix(p, torrent[i].path)
    BY DEF Below
  <2>4. \A i : i \in Archived(torrent, base, paths) <=> i \in UNION {Below(p) : p \in paths}
    BY <2>1, <2>2, <2>3
  <2> QED
    BY <1>2, <2>4
<1> QED
  BY <1>1, <1>2

\* What is refused is at fault, in the words of ArchiveIsSelection.
LEMMA FaultIs ==
  ASSUME torrent \in Seq(File), NEW base, NEW v
  PROVE  AtFault(torrent, base, v) <=>
           \/ Nul \in ToSet(v)
           \/ Trim(v) # <<>> /\ (~IsPrefix(base, Trim(v)) \/ Below(Trim(v)) = {})
<1> DEFINE p == Trim(v)
<1>1. (\A f \in ToSet(torrent) : ~IsPrefix(p, f.path)) <=> Below(p) = {}
  BY DEF ToSet, Below
<1> QED
  BY <1>1 DEF AtFault, Bad, Missing

\* An archive of a directory holds what was ticked in it and nothing else, in any
\* order and however often, and its URL is never longer than the edge takes; only a
\* path that is not there, or too many, is refused (url_builder.go:359-425).
THEOREM ArchiveIsAlwaysSelection == Spec => []ArchiveIsSelection
<1>1. ASSUME torrent \in Torrent PROVE ArchiveIsSelection
  <2>1. torrent \in Seq(File)
    BY <1>1, ListAssumptions
  <2> SUFFICES ASSUME NEW base \in {<<>>} \cup Directories(<<>>), NEW values \in Selection
               PROVE  LET sel    == getSelectedPaths(torrent, base, values)
                          sent   == [k \in DOMAIN values |-> Trim(values[k])]
                          ticked == ToSet(sent) \ {<<>>}
                          url    == SetToSeq(sel.paths)
                      IN  /\ sel.status = 200 =>
                               /\ Archived(torrent, base, sel.paths)
                                    = IF ticked = {} THEN Below(base)
                                      ELSE UNION {Below(p) : p \in ticked}
                               /\ \A p \in ticked : Below(p) # {}
                               /\ UrlLen(url, DOMAIN url) <= maxSelectedPathsEncodedLen
                               /\ getSelectedPaths(torrent, base, Reverse(values)) = sel
                          /\ sel.status # 200 =>
                               \/ Len(values) > maxSelectedPaths
                               \/ UrlLen(sent, {k \in DOMAIN sent : sent[k] # <<>>})
                                    > maxSelectedPathsEncodedLen
                               \/ \E v \in ToSet(values) : Nul \in ToSet(v)
                               \/ \E p \in ticked : ~IsPrefix(base, p) \/ Below(p) = {}
    BY DEF ArchiveIsSelection
  <2> DEFINE sel    == getSelectedPaths(torrent, base, values)
             sent   == Sent(values)
             ticked == ToSet(sent) \ {<<>>}
             url    == SetToSeq(sel.paths)
             N      == Len(values)
             all    == Ticks(sent, N)
             len    == UrlLen(sent, all)
  <2>2. values \in Seq(Sendable)
    BY DownloadAssumptions DEF Sendable, Component
  <2>3. base \in Sendable
    <3>1. <<>> \in Seq(Component)
      OBVIOUS
    <3>2. ASSUME base \in Directories(<<>>) PROVE base \in Seq(Component)
      <4>1. PICK i \in Below(<<>>) :
              \E k \in (Len(<<>>) + 1)..(Len(torrent[i].path) - 1) :
                base = SubSeq(torrent[i].path, 1, k)
        BY <3>2, InDirectories
      <4>7. PICK k \in (Len(<<>>) + 1)..(Len(torrent[i].path) - 1) :
              base = SubSeq(torrent[i].path, 1, k)
        BY <4>1
      <4> DEFINE f == torrent[i].path
      <4>2. f \in Seq(Name)
        BY <2>1, FilesAreFiles DEF Below
      <4> HIDE DEF f
      <4>3. k \in Nat /\ k <= Len(f)
        BY <4>2 DEF f
      <4>4. Name \subseteq Component
        BY DEF Component
      <4>5. f \in Seq(Component)
        BY <4>2, <4>4
      <4>6. SubSeq(f, 1, k) \in Seq(Component)
        BY <4>3, <4>5, FirstFew
      <4> QED
        BY <4>6, <4>7 DEF f
    <3> QED
      BY <3>1, <3>2 DEF Sendable
  <2>4. /\ sent \in Seq(Sendable) /\ Len(sent) = N /\ DOMAIN values = 1..N /\ N \in Nat
        /\ \A k \in 1..N : sent[k] = Trim(values[k])
    BY <2>2, SentType
  <2>5. /\ sel.status = 200 <=>
             /\ N <= maxSelectedPaths /\ len <= maxSelectedPathsEncodedLen
             /\ \A k \in 1..N : ~AtFault(torrent, base, values[k])
        /\ sel.status = 200 => sel = [status |-> 200, paths |-> {sent[k] : k \in all}]
    BY <2>2, Outcome
  <2>6. sel.status = 200 => getSelectedPaths(torrent, base, Reverse(values)) = sel
    BY <2>2, AnyOrder
  <2>7. sent = [k \in DOMAIN values |-> Trim(values[k])]
    BY DEF Sent
  <2> HIDE DEF sent, sel, N
  <2>8. DOMAIN sent = 1..N
    BY <2>4
  <2>9. all = {k \in DOMAIN sent : sent[k] # <<>>} /\ ticked = {sent[k] : k \in all}
    BY <2>8 DEF Ticks, ToSet
  <2>10. \A p \in ticked : p \in Sendable /\ \E k \in 1..N : p = Trim(values[k]) /\ p # <<>>
    BY <2>4, <2>8 DEF ToSet
  <2>11. \A k \in 1..N : AtFault(torrent, base, values[k]) <=>
           \/ Nul \in ToSet(values[k])
           \/ sent[k] # <<>> /\ (~IsPrefix(base, sent[k]) \/ Below(sent[k]) = {})
    BY <2>1, <2>4, FaultIs
  <2>12. N \in Nat /\ len \in Nat
    <3> DEFINE w == Lengths(sent)
    <3>1. Sized(w) /\ len = Size(w, all)
      BY <2>4, LengthsSized
    <3> HIDE DEF w, all
    <3>2. Size(w, all) \in Nat
      BY <3>1, SizeGrows
    <3> QED
      BY <2>4, <3>1, <3>2
  <2>13. ASSUME sel.status = 200
         PROVE  /\ Archived(torrent, base, sel.paths)
                     = IF ticked = {} THEN Below(base) ELSE UNION {Below(p) : p \in ticked}
                /\ \A p \in ticked : Below(p) # {}
                /\ UrlLen(url, DOMAIN url) <= maxSelectedPathsEncodedLen
    <3>1. sel.paths = ticked /\ len <= maxSelectedPathsEncodedLen
      BY <2>5, <2>9, <2>13
    <3>2. \A p \in ticked : IsPrefix(base, p) /\ Below(p) # {}
      <4> SUFFICES ASSUME NEW p \in ticked PROVE IsPrefix(base, p) /\ Below(p) # {}
        OBVIOUS
      <4>1. PICK k \in 1..N : p = Trim(values[k]) /\ p # <<>>
        BY <2>10
      <4>2. ~AtFault(torrent, base, values[k]) /\ sent[k] = p
        BY <2>4, <2>5, <2>13, <4>1
      <4> QED
        BY <2>11, <4>1, <4>2
    <3>3. Archived(torrent, base, ticked)
            = IF ticked = {} THEN Below(base) ELSE UNION {Below(p) : p \in ticked}
      <4> HIDE DEF ticked
      <4>1. ticked \subseteq Sendable
        BY <2>10
      <4> QED
        BY <2>1, <2>3, <3>2, <4>1, ArchivedBelow
    <3>4. UrlLen(url, DOMAIN url) \in Nat /\ UrlLen(url, DOMAIN url) <= len
      <4>1. \A k \in all : k \in 1..Len(sent)
        BY <2>4, <2>8, <2>9
      <4> HIDE DEF all, ticked
      <4> QED
        BY <2>4, <2>9, <3>1, <4>1, UrlFits
    <3>5. UrlLen(url, DOMAIN url) <= maxSelectedPathsEncodedLen
      BY <2>12, <3>1, <3>4, Bounds
    <3> QED
      BY <3>1, <3>2, <3>3, <3>5
  <2>14. ASSUME sel.status # 200
         PROVE  \/ N > maxSelectedPaths
                \/ len > maxSelectedPathsEncodedLen
                \/ \E v \in ToSet(values) : Nul \in ToSet(v)
                \/ \E p \in ticked : ~IsPrefix(base, p) \/ Below(p) = {}
    <3>1. CASE ~(N <= maxSelectedPaths)
      BY <2>12, <3>1, Bounds
    <3>2. CASE ~(len <= maxSelectedPathsEncodedLen)
      BY <2>12, <3>2, Bounds
    <3>3. CASE \E k \in 1..N : AtFault(torrent, base, values[k])
      <4>1. PICK k \in 1..N : AtFault(torrent, base, values[k])
        BY <3>3
      <4>2. values[k] \in ToSet(values) /\ (sent[k] # <<>> => sent[k] \in ticked)
        BY <2>4, <2>8 DEF ToSet
      <4> HIDE DEF ticked
      <4> QED
        BY <2>11, <4>1, <4>2
    <3> QED
      BY <2>5, <2>14, <3>1, <3>2, <3>3
  <2> HIDE DEF url
  <2>15. len = UrlLen(sent, {k \in DOMAIN sent : sent[k] # <<>>})
    BY <2>9
  <2> HIDE DEF len, ticked
  <2> QED
    BY <2>6, <2>7, <2>13, <2>14, <2>15 DEF sel, url, ticked, N
<1> QED
  BY <1>1, TorrentStays, PTL

=============================================================================
