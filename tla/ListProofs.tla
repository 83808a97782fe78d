------------------------------ MODULE ListProofs ------------------------------
(***************************************************************************)
(* What List shows of any torrent, whatever the number and the names of    *)
(* its files, and for any query.                                           *)
(***************************************************************************)
EXTENDS List, SequenceLemmas, FiniteSetTheorems

-----------------------------------------------------------------------------
(* Sums                                                                    *)

\* A sequence of files, or of items: they have sizes.
Sized(files) ==
  /\ Len(files) \in Nat /\ DOMAIN files = 1..Len(files)
  /\ \A n \in 1..Len(files) : files[n].size \in Nat

LEMMA FilesSized ==
  ASSUME NEW files \in Seq(File)
  PROVE  Sized(files)
<1>1. \A n \in 1..Len(files) : files[n] \in File
  OBVIOUS
<1> QED
  BY <1>1 DEF File, Sized

\* sum adds up the sizes of the files of S.
Adds(sum, files, S) ==
  /\ sum \in [0..Len(files) -> Nat] /\ sum[0] = 0
  /\ \A n \in 1..Len(files) : sum[n] = sum[n - 1] + (IF n \in S THEN files[n].size ELSE 0)

LEMMA SizeAdds ==
  ASSUME NEW files, Sized(files), NEW S
  PROVE  \E sum : Adds(sum, files, S) /\ Size(files, S) = sum[Len(files)]
<1> DEFINE N == Len(files)
           Plus(x, n) == x + (IF n \in S THEN files[n].size ELSE 0)
           Is(f) == f = [n \in 0..N |-> IF n = 0 THEN 0 ELSE Plus(f[n - 1], n)]
           step == [n \in 1..N |-> [x \in Nat |-> Plus(x, n)]]
           sum == CHOOSE f : Is(f)
<1>1. N \in Nat /\ \A n \in 1..N : files[n].size \in Nat
  BY DEF Sized
<1>2. Steps(step, N, Nat)
  BY <1>1 DEF Steps
<1>3. \A n \in 1..N, x \in Nat : step[n][x] = Plus(x, n)
  OBVIOUS
<1> HIDE DEF step, Plus, N
<1>4. PICK f : Runs(f, step, 0, N, Nat)
  BY <1>1, <1>2, Loop
<1>5. Is(f)
  <2>1. ASSUME NEW n \in 0..N, n # 0 PROVE f[n] = Plus(f[n - 1], n)
    <3>1. n \in 1..N /\ n - 1 \in 0..N
      BY <2>1, <1>1
    <3> QED
      BY <3>1, <1>3, <1>4 DEF Runs
  <2> QED
    BY <1>4, <2>1 DEF Runs
<1>6. Is(sum)
  BY <1>5
<1> HIDE DEF sum
<1>7. /\ sum = [n \in 0..N |-> sum[n]] /\ sum[0] = 0
      /\ \A n \in 1..N : sum[n] = Plus(sum[n - 1], n)
  <2>1. 0 \in 0..N /\ \A n \in 1..N : n \in 0..N /\ n # 0
    BY <1>1
  <2> QED
    BY <1>6, <2>1
<1>8. Runs(sum, step, 0, N, Nat)
  <2>1. Written(sum, step, 0, N, Nat)
    BY <1>3, <1>7 DEF Written
  <2> QED
    BY <1>1, <1>2, <2>1, LoopStays
<1>9. Size(files, S) = sum[N]
  BY DEF Size, sum, Plus, N
<1> QED
  BY <1>7, <1>8, <1>9 DEF Adds, Runs, Plus, N

LEMMA SizeUnion ==
  ASSUME NEW files, Sized(files), NEW S, NEW T, S \cap T = {}
  PROVE  /\ Size(files, S) \in Nat /\ Size(files, T) \in Nat
         /\ Size(files, S \cup T) = Size(files, S) + Size(files, T)
<1>1. PICK s : Adds(s, files, S) /\ Size(files, S) = s[Len(files)]
  BY SizeAdds
<1>2. PICK t : Adds(t, files, T) /\ Size(files, T) = t[Len(files)]
  BY SizeAdds
<1>3. PICK u : Adds(u, files, S \cup T) /\ Size(files, S \cup T) = u[Len(files)]
  BY SizeAdds
<1> DEFINE P == {n \in Nat : n <= Len(files) => u[n] = s[n] + t[n]}
<1>4. 0 \in P
  BY <1>1, <1>2, <1>3 DEF Adds
<1>5. ASSUME NEW n \in Nat, n \in P PROVE n + 1 \in P
  <2> SUFFICES ASSUME n + 1 <= Len(files) PROVE u[n + 1] = s[n + 1] + t[n + 1]
    OBVIOUS
  <2>1. /\ n + 1 \in 1..Len(files) /\ (n + 1) - 1 = n /\ n \in 0..Len(files)
        /\ u[n] = s[n] + t[n]
    BY <1>5
  <2> DEFINE m == n + 1
             size == files[m].size
  <2>2. /\ s[m] = s[n] + (IF m \in S THEN size ELSE 0)
        /\ t[m] = t[n] + (IF m \in T THEN size ELSE 0)
        /\ u[m] = u[n] + (IF m \in S \cup T THEN size ELSE 0)
    BY <2>1, <1>1, <1>2, <1>3 DEF Adds
  <2>3. s[n] \in Nat /\ t[n] \in Nat /\ size \in Nat
    BY <2>1, <1>1, <1>2 DEF Adds, Sized
  <2> HIDE DEF m
  <2> HIDE DEF size
  <2>4. m \in S => m \notin T
    OBVIOUS
  <2> QED
    BY <2>1, <2>2, <2>3, <2>4 DEF m
<1> HIDE DEF P
<1>6. Nat \subseteq P
  BY <1>4, <1>5, Induct
<1>7. Len(files) \in P /\ Len(files) \in Nat /\ Len(files) \in 0..Len(files)
  BY <1>6 DEF Sized
<1> QED
  BY <1>1, <1>2, <1>3, <1>7 DEF P, Adds

\* Places that are no file's count for nothing.
LEMMA SizeWithin ==
  ASSUME NEW files, Sized(files), NEW S, NEW T,
         \A n \in DOMAIN files : n \in S <=> n \in T
  PROVE  Size(files, S) = Size(files, T)
<1>1. PICK s : Adds(s, files, S) /\ Size(files, S) = s[Len(files)]
  BY SizeAdds
<1>2. PICK t : Adds(t, files, T) /\ Size(files, T) = t[Len(files)]
  BY SizeAdds
<1> DEFINE P == {n \in Nat : n <= Len(files) => s[n] = t[n]}
<1>3. 0 \in P
  BY <1>1, <1>2 DEF Adds
<1>4. ASSUME NEW n \in Nat, n \in P PROVE n + 1 \in P
  <2> SUFFICES ASSUME n + 1 <= Len(files) PROVE s[n + 1] = t[n + 1]
    OBVIOUS
  <2>1. n + 1 \in 1..Len(files) /\ (n + 1) - 1 = n /\ s[n] = t[n]
    BY <1>4
  <2>2. /\ s[n + 1] = s[n] + (IF n + 1 \in S THEN files[n + 1].size ELSE 0)
        /\ t[n + 1] = t[n] + (IF n + 1 \in T THEN files[n + 1].size ELSE 0)
    BY <2>1, <1>1, <1>2 DEF Adds
  <2> QED
    BY <2>1, <2>2
<1> HIDE DEF P
<1>5. Nat \subseteq P
  BY <1>3, <1>4, Induct
<1>6. Len(files) \in P
  BY <1>5 DEF Sized
<1> QED
  BY <1>1, <1>2, <1>6 DEF P

LEMMA SizeNone ==
  ASSUME NEW files, Sized(files), NEW S, \A n \in DOMAIN files : n \notin S
  PROVE  Size(files, S) = 0
<1>1. Size(files, S \cup S) = Size(files, S) + Size(files, S) /\ Size(files, S) \in Nat
  <2>1. Size(files, {}) \in Nat /\ Size(files, {} \cup {}) = Size(files, {}) + Size(files, {})
    BY SizeUnion
  <2>2. Size(files, S) = Size(files, {}) /\ Size(files, S \cup S) = Size(files, {} \cup {})
    BY SizeWithin
  <2> QED
    BY <2>1, <2>2
<1>2. Size(files, S \cup S) = Size(files, S)
  BY SizeWithin
<1>3. PICK x \in Nat : x = Size(files, S)
  BY <1>1
<1>4. x = x + x
  BY <1>1, <1>2, <1>3
<1>5. x = 0
  BY <1>4
<1> QED
  BY <1>3, <1>5

LEMMA SizeOne ==
  ASSUME NEW files, Sized(files), NEW i \in DOMAIN files
  PROVE  Size(files, {i}) = files[i].size
<1>1. PICK s : Adds(s, files, {i}) /\ Size(files, {i}) = s[Len(files)]
  BY SizeAdds
<1> DEFINE P == {n \in Nat : n <= Len(files) => s[n] = IF i <= n THEN files[i].size ELSE 0}
<1>2. i \in 1..Len(files) /\ files[i].size \in Nat
  BY DEF Sized
<1>3. 0 \in P
  BY <1>1, <1>2 DEF Adds
<1>4. ASSUME NEW n \in Nat, n \in P PROVE n + 1 \in P
  <2> SUFFICES ASSUME n + 1 <= Len(files)
               PROVE  s[n + 1] = IF i <= n + 1 THEN files[i].size ELSE 0
    OBVIOUS
  <2>1. n + 1 \in 1..Len(files) /\ (n + 1) - 1 = n /\ s[n] = IF i <= n THEN files[i].size ELSE 0
    BY <1>4
  <2>2. s[n + 1] = s[n] + (IF n + 1 = i THEN files[n + 1].size ELSE 0)
    BY <2>1, <1>1 DEF Adds
  <2>3. CASE n + 1 = i
    BY <2>1, <2>2, <2>3, <1>2
  <2>4. CASE n + 1 # i
    <3>1. i <= n <=> i <= n + 1
      BY <2>4, <1>2
    <3> QED
      BY <2>1, <2>2, <2>4, <3>1, <1>2
  <2> QED
    BY <2>3, <2>4
<1> HIDE DEF P
<1>5. Nat \subseteq P
  BY <1>3, <1>4, Induct
<1>6. Len(files) \in P /\ Len(files) \in Nat
  BY <1>5 DEF Sized
<1> QED
  BY <1>1, <1>2, <1>6 DEF P

LEMMA SizeGrows ==
  ASSUME NEW files, Sized(files), NEW S, NEW T, S \subseteq T
  PROVE  Size(files, S) \in Nat /\ Size(files, T) \in Nat /\ Size(files, S) <= Size(files, T)
<1> DEFINE rest == T \ S
<1>1. S \cap rest = {} /\ T = S \cup rest
  OBVIOUS
<1> HIDE DEF rest
<1>2. /\ Size(files, S) \in Nat /\ Size(files, rest) \in Nat
      /\ Size(files, S \cup rest) = Size(files, S) + Size(files, rest)
  BY <1>1, SizeUnion
<1>3. Size(files, T) = Size(files, S) + Size(files, rest)
  BY <1>1, <1>2, Zenon
<1> QED
  BY <1>2, <1>3

-----------------------------------------------------------------------------
(* Items                                                                   *)

Entry == [type : {"file", "directory"}, path : Seq(Name) \ {<<>>}, size : Nat, index : Nat]

\* What buildDirSize has after each file.
Tallies(run, files, prefix) ==
  /\ run \in [0..Len(files) -> [size : Nat, open : BOOLEAN]]
  /\ run[0] = [size |-> 0, open |-> TRUE]
  /\ \A n \in 1..Len(files) :
       run[n] = IF pathBeginsWith(files[n].path, prefix)
                THEN [size |-> IF run[n - 1].open THEN run[n - 1].size + files[n].size
                                                  ELSE run[n - 1].size,
                      open |-> run[n - 1].open]
                ELSE [size |-> run[n - 1].size,
                      open |-> run[n - 1].open /\ run[n - 1].size = 0]

LEMMA DirSizeTallies ==
  ASSUME NEW files \in Seq(File), NEW prefix
  PROVE  \E run : Tallies(run, files, prefix) /\ buildDirSize(files, prefix) = run[Len(files)].size
<1> DEFINE N == Len(files)
           Acc == [size : Nat, open : BOOLEAN]
           zero == [size |-> 0, open |-> TRUE]
           Add(acc, f) ==
             IF pathBeginsWith(f.path, prefix)
             THEN [acc EXCEPT !.size = IF acc.open THEN @ + f.size ELSE @]
             ELSE [acc EXCEPT !.open = @ /\ acc.size = 0]
           Is(r) == r = [n \in 0..N |-> IF n = 0 THEN zero ELSE Add(r[n - 1], files[n])]
           step == [n \in 1..N |-> [acc \in Acc |-> Add(acc, files[n])]]
           run == CHOOSE r : Is(r)
<1>1. N \in Nat /\ zero \in Acc /\ \A n \in 1..N : files[n].size \in Nat
  <2>1. \A n \in 1..N : files[n] \in File
    OBVIOUS
  <2> QED
    BY <2>1 DEF File
<1>2. ASSUME NEW n \in 1..N, NEW acc \in Acc
      PROVE  /\ Add(acc, files[n]) \in Acc
             /\ Add(acc, files[n]) =
                  IF pathBeginsWith(files[n].path, prefix)
                  THEN [size |-> IF acc.open THEN acc.size + files[n].size ELSE acc.size,
                        open |-> acc.open]
                  ELSE [size |-> acc.size, open |-> acc.open /\ acc.size = 0]
  <2>1. acc = [size |-> acc.size, open |-> acc.open] /\ acc.size \in Nat /\ acc.open \in BOOLEAN
    OBVIOUS
  <2>2. Add(acc, files[n]) = IF pathBeginsWith(files[n].path, prefix)
                  THEN [size |-> IF acc.open THEN acc.size + files[n].size ELSE acc.size,
                        open |-> acc.open]
                  ELSE [size |-> acc.size, open |-> acc.open /\ acc.size = 0]
    BY <2>1
  <2> HIDE DEF Add
  <2> QED
    BY <1>1, <2>1, <2>2
<1>3. Steps(step, N, Acc)
  BY <1>2 DEF Steps
<1>4. \A n \in 1..N, acc \in Acc : step[n][acc] = Add(acc, files[n])
  OBVIOUS
<1> HIDE DEF step, Add, N, Acc, zero
<1>5. PICK r : Runs(r, step, zero, N, Acc)
  BY <1>1, <1>3, Loop
<1>6. Is(r)
  <2>1. ASSUME NEW n \in 0..N, n # 0 PROVE r[n] = Add(r[n - 1], files[n])
    <3>1. n \in 1..N /\ n - 1 \in 0..N
      BY <2>1, <1>1
    <3> QED
      BY <3>1, <1>4, <1>5 DEF Runs
  <2> QED
    BY <1>5, <2>1 DEF Runs
<1>7. Is(run)
  BY <1>6
<1> HIDE DEF run
<1>8. /\ run = [n \in 0..N |-> run[n]] /\ run[0] = zero
      /\ \A n \in 1..N : run[n] = Add(run[n - 1], files[n])
  <2>1. 0 \in 0..N /\ \A n \in 1..N : n \in 0..N /\ n # 0
    BY <1>1
  <2> QED
    BY <1>7, <2>1
<1>9. Runs(run, step, zero, N, Acc)
  <2>1. Written(run, step, zero, N, Acc)
    BY <1>4, <1>8 DEF Written
  <2> QED
    BY <1>1, <1>3, <2>1, LoopStays
<1>10. buildDirSize(files, prefix) = run[N].size
  BY DEF buildDirSize, run, Add, N, zero
<1>11. ASSUME NEW n \in 1..N
       PROVE  run[n - 1] \in Acc /\ run[n] = Add(run[n - 1], files[n])
  <2>1. n - 1 \in 0..N
    BY <1>1
  <2> QED
    BY <2>1, <1>8, <1>9 DEF Runs
<1>12. Tallies(run, files, prefix)
  BY <1>2, <1>8, <1>9, <1>11 DEF Tallies, Runs, N, Acc, zero
<1> QED
  BY <1>10, <1>12 DEF N

LEMMA DirSizeType ==
  ASSUME NEW files \in Seq(File), NEW prefix
  PROVE  buildDirSize(files, prefix) \in Nat
<1>1. PICK run : Tallies(run, files, prefix) /\ buildDirSize(files, prefix) = run[Len(files)].size
  BY DirSizeTallies
<1>2. Len(files) \in 0..Len(files)
  OBVIOUS
<1>3. run[Len(files)] \in [size : Nat, open : BOOLEAN]
  BY <1>1, <1>2 DEF Tallies
<1> QED
  BY <1>1, <1>3

LEMMA FilesAreFiles ==
  ASSUME NEW files \in Seq(File), NEW i \in DOMAIN files
  PROVE  /\ i \in 1..Len(files) /\ i \in Nat /\ Len(files) \in Nat /\ files[i] \in File
         /\ files[i].path \in Seq(Name) /\ files[i].path # <<>> /\ files[i].size \in Nat
         /\ Len(files[i].path) \in Nat \ {0}
<1>1. files[i] \in File /\ i \in 1..Len(files) /\ Len(files) \in Nat
  OBVIOUS
<1>2. files[i].path \in Seq(Name) /\ files[i].path # <<>> /\ files[i].size \in Nat
  BY <1>1 DEF File
<1> QED
  BY <1>1, <1>2

LEMMA FileEntry ==
  ASSUME NEW files \in Seq(File), NEW i \in DOMAIN files
  PROVE  /\ buildFile(files, i) \in Entry /\ buildFile(files, i).type = "file"
         /\ buildFile(files, i).path = files[i].path /\ buildFile(files, i).size = files[i].size
         /\ buildFile(files, i).index = i - 1
BY FilesAreFiles DEF buildFile, Entry

-----------------------------------------------------------------------------
(* Listing directories                                                     *)

\* The items are those of W, each of them once.
Enumerates(items, W) ==
  /\ items \in Seq(W)
  /\ \A w \in W : \E m \in 1..Len(items) : items[m] = w
  /\ \A m, l \in 1..Len(items) : items[m] = items[l] => m = l

\* The directories below path that an item is in are among the first n items.
Under(item, path, items, n) ==
  \A k \in (Len(path) + 1)..(Len(item.path) - 1) :
    \E j \in 1..n : items[j].type = "directory" /\ items[j].path = SubSeq(item.path, 1, k)

\* Every item comes after the directories it is in.
Ordered(items, path) == \A l \in 1..Len(items) : Under(items[l], path, items, l - 1)

LEMMA EnumeratesMore ==
  ASSUME NEW items, NEW W, Enumerates(items, W), NEW x
  PROVE  /\ Contains(items, x) <=> x \in W
         /\ Contains(items, x) => Enumerates(items, W \cup {x})
         /\ ~Contains(items, x) => Enumerates(Append(items, x), W \cup {x})
<1>1. items \in Seq(W) /\ Len(items) \in Nat /\ \A m \in 1..Len(items) : items[m] \in W
  BY DEF Enumerates
<1>2. Contains(items, x) <=> x \in W
  BY <1>1 DEF Contains, Enumerates
<1>3. ASSUME x \in W PROVE Enumerates(items, W \cup {x})
  <2>1. W \cup {x} = W
    BY <1>3
  <2> QED
    BY <2>1
<1>4. ASSUME x \notin W PROVE Enumerates(Append(items, x), W \cup {x})
  <2> DEFINE V == W \cup {x}
             more == Append(items, x)
             n == Len(items)
  <2>1. items \in Seq(V) /\ x \in V
    BY <1>1
  <2>2. /\ more \in Seq(V) /\ Len(more) = n + 1 /\ more[n + 1] = x
        /\ \A m \in 1..n : more[m] = items[m]
    BY <2>1, <1>1
  <2> HIDE DEF more
  <2>3. \A w \in V : \E m \in 1..(n + 1) : more[m] = w
    <3> SUFFICES ASSUME NEW w \in V PROVE \E m \in 1..(n + 1) : more[m] = w
      OBVIOUS
    <3>1. CASE w = x
      BY <3>1, <2>2, <1>1
    <3>2. CASE w # x
      <4>1. PICK m \in 1..n : items[m] = w
        BY <3>2 DEF Enumerates
      <4>2. m \in 1..(n + 1)
        BY <1>1
      <4> QED
        BY <4>1, <4>2, <2>2
    <3> QED
      BY <3>1, <3>2
  <2>4. ASSUME NEW m \in 1..(n + 1), NEW l \in 1..(n + 1), more[m] = more[l] PROVE m = l
    <3>1. m = n + 1 \/ m \in 1..n
      BY <1>1
    <3>2. l = n + 1 \/ l \in 1..n
      BY <1>1
    <3>3. \A j \in 1..n : more[j] # x
      BY <2>2, <1>1, <1>4
    <3>4. CASE m \in 1..n /\ l \in 1..n
      BY <3>4, <2>2, <2>4 DEF Enumerates
    <3> QED
      BY <3>1, <3>2, <3>3, <3>4, <2>2, <2>4
  <2> QED
    BY <2>2, <2>3, <2>4 DEF Enumerates, more
<1> QED
  BY <1>2, <1>3, <1>4

LEMMA OrderedMore ==
  ASSUME NEW W, NEW items \in Seq(W), NEW path, Ordered(items, path), NEW x,
         Under(x, path, items, Len(items))
  PROVE  Ordered(Append(items, x), path)
<1> DEFINE V == W \cup {x}
           more == Append(items, x)
           n == Len(items)
<1>1. items \in Seq(V) /\ x \in V /\ n \in Nat
  OBVIOUS
<1>2. Len(more) = n + 1 /\ more[n + 1] = x /\ \A m \in 1..n : more[m] = items[m]
  BY <1>1
<1> HIDE DEF more
<1>3. ASSUME NEW l \in 1..(n + 1) PROVE Under(more[l], path, more, l - 1)
  <2> DEFINE y == more[l]
  <2>1. Under(y, path, items, l - 1) /\ l - 1 \in 0..n
    <3>1. CASE l = n + 1
      BY <3>1, <1>1, <1>2
    <3>2. CASE l # n + 1
      <4>1. l \in 1..n /\ y = items[l]
        BY <3>2, <1>1, <1>2
      <4> QED
        BY <4>1 DEF Ordered
    <3> QED
      BY <3>1, <3>2
  <2> HIDE DEF y
  <2>2. \A j \in 1..(l - 1) : more[j] = items[j]
    BY <2>1, <1>1, <1>2
  <2>3. Under(y, path, more, l - 1)
    BY <2>1, <2>2 DEF Under
  <2> QED
    BY <2>3 DEF y
<1> QED
  BY <1>2, <1>3 DEF Ordered, more

LEMMA PathJoin ==
  ASSUME NEW S, NEW source \in Seq(S), NEW start \in Seq(S), pathBeginsWith(source, start),
         NEW k \in Nat, Len(start) + k <= Len(source)
  PROVE  start \o SubSeq(source, Len(start) + 1, Len(start) + k)
           = SubSeq(source, 1, Len(start) + k)
<1> DEFINE n == Len(start)
           mid == SubSeq(source, n + 1, n + k)
           left == start \o mid
           right == SubSeq(source, 1, n + k)
<1>1. n \in Nat /\ Len(source) \in Nat /\ DOMAIN source = 1..Len(source) /\ DOMAIN start = 1..n
  OBVIOUS
<1>2. mid \in Seq(S) /\ Len(mid) = k /\ \A m \in 1..k : mid[m] = source[n + m]
  BY <1>1
<1>3. right \in Seq(S) /\ Len(right) = n + k /\ \A m \in 1..(n + k) : right[m] = source[m]
  BY <1>1
<1> HIDE DEF mid, right
<1>4. left \in Seq(S) /\ Len(left) = n + k
  <2>1. mid \in Seq(S) /\ Len(mid) = k
    BY <1>2
  <2>2. left \in Seq(S)
    BY <2>1
  <2>3. Len(left) = Len(start) + Len(mid)
    BY <2>1
  <2> QED
    BY <2>1, <2>2, <2>3
<1>5. ASSUME NEW m \in 1..(n + k) PROVE left[m] = source[m]
  <2>1. CASE m <= n
    <3>1. m \in 1..n /\ m \in DOMAIN source \cap DOMAIN start
      BY <2>1, <1>1
    <3>2. left[m] = start[m]
      BY <3>1, <1>1, <1>2
    <3> QED
      BY <3>1, <3>2 DEF pathBeginsWith
  <2>2. CASE ~ (m <= n)
    <3>1. m - n \in 1..k /\ n + (m - n) = m
      BY <2>2, <1>1
    <3>2. left[m] = mid[m - n]
      BY <2>2, <1>1, <1>2
    <3> QED
      BY <3>1, <3>2, <1>2
  <2> QED
    BY <2>1, <2>2
<1> HIDE DEF left
<1>6. left = right
  BY <1>3, <1>4, <1>5
<1> QED
  BY <1>6 DEF left, right, mid

\* The directory at d, as buildList shows it below path.
DirAt(files, path, d) == directory(d, buildDirSize(files, SubSeq(d, Len(path) + 1, Len(d))))

LEMMA DirAtEntry ==
  ASSUME NEW files \in Seq(File), NEW path, NEW d \in Seq(Name) \ {<<>>}
  PROVE  /\ DirAt(files, path, d) \in Entry /\ DirAt(files, path, d).type = "directory"
         /\ DirAt(files, path, d).path = d /\ DirAt(files, path, d).index = 0
BY DirSizeType DEF DirAt, directory, Entry

LEMMA AboveIsDir ==
  ASSUME NEW files \in Seq(File), NEW path \in Seq(Name), NEW i \in Matching(files, path),
         NEW k \in 1..Depth(files[i], path)
  PROVE  /\ Len(path) + k \in 1..(Len(files[i].path) - 1)
         /\ SubSeq(files[i].path, 1, Len(path) + k) \in Seq(Name) \ {<<>>}
         /\ Len(SubSeq(files[i].path, 1, Len(path) + k)) = Len(path) + k
         /\ Above(files, path, i, k)
              = DirAt(files, path, SubSeq(files[i].path, 1, Len(path) + k))
<1> DEFINE f == files[i].path
           n == Len(path)
           d == SubSeq(f, 1, n + k)
           p == SubSeq(f, n + 1, n + k)
<1>1. i \in DOMAIN files /\ pathBeginsWith(f, path)
  BY DEF Matching
<1>2. f \in Seq(Name) /\ Len(f) \in Nat /\ n \in Nat
  BY <1>1, FilesAreFiles
<1>3. Len(f) > n /\ k \in 1..(Len(f) - n - 1)
  BY <1>2 DEF Depth
<1>4. n + k \in 1..(Len(f) - 1) /\ k \in Nat
  BY <1>2, <1>3
<1> HIDE DEF f
<1>5. d \in Seq(Name) /\ Len(d) = n + k /\ \A m \in 1..(n + k) : d[m] = f[m]
  BY <1>2, <1>4
<1>6. p \in Seq(Name) /\ Len(p) = k /\ \A m \in 1..k : p[m] = f[n + m]
  BY <1>2, <1>4
<1>7. path \o p = d
  <2>1. Len(path) + k <= Len(f) /\ k \in Nat
    BY <1>2, <1>4
  <2>2. pathBeginsWith(f, path) /\ f \in Seq(Name)
    BY <1>1, <1>2 DEF f
  <2> QED
    BY <2>1, <2>2, PathJoin
<1>8. SubSeq(d, n + 1, Len(d)) = p
  <2> DEFINE q == SubSeq(d, n + 1, n + k)
  <2>1. q \in Seq(Name) /\ Len(q) = k /\ \A m \in 1..k : q[m] = d[n + m]
    BY <1>2, <1>4, <1>5
  <2>2. \A m \in 1..k : q[m] = p[m]
    BY <2>1, <1>5, <1>6, <1>2
  <2> HIDE DEF q, p
  <2>3. q = p
    BY <2>1, <2>2, <1>6
  <2> QED
    BY <2>3, <1>5 DEF q
<1>9. d # <<>>
  BY <1>2, <1>4, <1>5
<1>10. Above(files, path, i, k) = directory(path \o p, buildDirSize(files, p))
  BY DEF Above, f
<1>11. DirAt(files, path, d) = directory(d, buildDirSize(files, p))
  BY <1>8 DEF DirAt
<1> HIDE DEF d, p
<1>12. Above(files, path, i, k) = DirAt(files, path, d)
  BY <1>7, <1>10, <1>11
<1> QED
  BY <1>4, <1>5, <1>9, <1>12 DEF f, d

\* The first n directories above a file.
Dirs(files, path, i, n) == {Above(files, path, i, k) : k \in 1..n}

LEMMA DepthType ==
  ASSUME NEW files \in Seq(File), NEW path \in Seq(Name), NEW i \in DOMAIN files
  PROVE  /\ Depth(files[i], path) \in Nat
         /\ Len(path) + Depth(files[i], path) + 1
              = IF Len(files[i].path) > Len(path) THEN Len(files[i].path) ELSE Len(path) + 1
<1>1. Len(files[i].path) \in Nat /\ Len(path) \in Nat
  BY FilesAreFiles
<1> QED
  BY <1>1 DEF Depth

\* The items there are after each directory above a file.
Emits(upTo, files, path, i, items) ==
  /\ upTo \in [0..Depth(files[i], path) -> Seq(Entry)] /\ upTo[0] = items
  /\ \A k \in 1..Depth(files[i], path) :
       upTo[k] = IF Contains(upTo[k - 1], Above(files, path, i, k)) THEN upTo[k - 1]
                 ELSE Append(upTo[k - 1], Above(files, path, i, k))

LEMMA AboveEntry ==
  ASSUME NEW files \in Seq(File), NEW path \in Seq(Name), NEW i \in Matching(files, path),
         NEW k \in 1..Depth(files[i], path)
  PROVE  LET dir == Above(files, path, i, k)
         IN  /\ dir \in Entry /\ dir.type = "directory" /\ dir.index = 0
             /\ dir.path = SubSeq(files[i].path, 1, Len(path) + k)
             /\ Len(dir.path) = Len(path) + k
             /\ Len(path) + k \in 1..(Len(files[i].path) - 1)
<1> DEFINE d == SubSeq(files[i].path, 1, Len(path) + k)
<1>1. /\ d \in Seq(Name) \ {<<>>} /\ Len(path) + k \in 1..(Len(files[i].path) - 1)
      /\ Len(d) = Len(path) + k /\ Above(files, path, i, k) = DirAt(files, path, d)
  BY AboveIsDir
<1> HIDE DEF d
<1>2. DirAt(files, path, d) \in Entry /\ DirAt(files, path, d).type = "directory"
      /\ DirAt(files, path, d).path = d /\ DirAt(files, path, d).index = 0
  BY <1>1, DirAtEntry
<1> QED
  BY <1>1, <1>2 DEF d

LEMMA DirsEmits ==
  ASSUME NEW files \in Seq(File), NEW path \in Seq(Name), NEW i \in Matching(files, path),
         NEW items \in Seq(Entry)
  PROVE  /\ \E upTo : /\ Emits(upTo, files, path, i, items)
                      /\ emitDirs(files, path, i, items) = upTo[Depth(files[i], path)]
         /\ emitDirs(files, path, i, items) \in Seq(Entry)
<1> DEFINE N == Depth(files[i], path)
           V == Seq(Entry)
           Dir(k) == Above(files, path, i, k)
           Emit(emitted, d) == IF Contains(emitted, d) THEN emitted ELSE Append(emitted, d)
           Is(g) == g = [k \in 0..N |-> IF k = 0 THEN items ELSE Emit(g[k - 1], Dir(k))]
           step == [k \in 1..N |-> [its \in V |-> Emit(its, Dir(k))]]
           upTo == CHOOSE g : Is(g)
<1>1. N \in Nat /\ items \in V
  BY DepthType DEF Matching
<1>2. \A k \in 1..N : Dir(k) \in Entry
  BY AboveEntry
<1> HIDE DEF N, Dir
<1>3. ASSUME NEW k \in 1..N, NEW its \in V PROVE Emit(its, Dir(k)) \in V
  BY <1>2, <1>3
<1>4. Steps(step, N, V)
  BY <1>3 DEF Steps
<1>5. \A k \in 1..N, its \in V : step[k][its] = Emit(its, Dir(k))
  OBVIOUS
<1> HIDE DEF step, Emit, V
<1>6. PICK g : Runs(g, step, items, N, V)
  BY <1>1, <1>4, Loop
<1>7. Is(g)
  <2>1. ASSUME NEW k \in 0..N, k # 0 PROVE g[k] = Emit(g[k - 1], Dir(k))
    <3>1. k \in 1..N /\ k - 1 \in 0..N
      BY <2>1, <1>1
    <3> QED
      BY <3>1, <1>5, <1>6 DEF Runs
  <2> QED
    BY <1>6, <2>1 DEF Runs
<1>8. Is(upTo)
  BY <1>7
<1> HIDE DEF upTo
<1>9. /\ upTo = [k \in 0..N |-> upTo[k]] /\ upTo[0] = items
      /\ \A k \in 1..N : upTo[k] = Emit(upTo[k - 1], Dir(k))
  <2>1. 0 \in 0..N /\ \A k \in 1..N : k \in 0..N /\ k # 0
    BY <1>1
  <2> QED
    BY <1>8, <2>1
<1>10. Runs(upTo, step, items, N, V)
  <2>1. Written(upTo, step, items, N, V)
    BY <1>5, <1>9 DEF Written
  <2> QED
    BY <1>1, <1>4, <2>1, LoopStays
<1>11. emitDirs(files, path, i, items) = upTo[N]
  BY DEF emitDirs, upTo, Emit, N, Dir
<1>12. Emits(upTo, files, path, i, items)
  BY <1>9, <1>10 DEF Emits, Runs, Emit, N, Dir, V
<1>13. upTo[N] \in V
  BY <1>1, <1>10 DEF Runs
<1> QED
  BY <1>11, <1>12, <1>13 DEF N, V

\* What buildList does with the directories above one file.
LEMMA DirsEmitted ==
  ASSUME NEW files \in Seq(File), NEW path \in Seq(Name), NEW i \in Matching(files, path),
         NEW W \in SUBSET Entry, NEW items, Enumerates(items, W), Ordered(items, path)
  PROVE  /\ Enumerates(emitDirs(files, path, i, items),
                       W \cup Dirs(files, path, i, Depth(files[i], path)))
         /\ Ordered(emitDirs(files, path, i, items), path)
<1> DEFINE N == Depth(files[i], path)
           f == files[i].path
           Dir(k) == Above(files, path, i, k)
           Emit(emitted, d) == IF Contains(emitted, d) THEN emitted ELSE Append(emitted, d)
<1>1. i \in DOMAIN files /\ N \in Nat /\ items \in Seq(Entry) /\ f \in Seq(Name) /\ Len(path) \in Nat
  BY DepthType, FilesAreFiles DEF Matching, Enumerates
<1>2. ASSUME NEW k \in 1..N
      PROVE  /\ Dir(k) \in Entry /\ Dir(k).type = "directory"
             /\ Dir(k).path = SubSeq(f, 1, Len(path) + k)
             /\ Len(Dir(k).path) = Len(path) + k /\ Len(path) + k \in 1..(Len(f) - 1)
  BY AboveEntry
<1>3. PICK upTo : Emits(upTo, files, path, i, items) /\ emitDirs(files, path, i, items) = upTo[N]
  BY <1>1, DirsEmits
<1>9. upTo[0] = items /\ \A k \in 1..N : upTo[k] = Emit(upTo[k - 1], Dir(k))
  BY <1>3 DEF Emits
<1> HIDE DEF N, f, Dir, Emit
<1> DEFINE Some(k) == {Dir(j) : j \in 1..k}
           P == {k \in Nat : k <= N => Enumerates(upTo[k], W \cup Some(k)) /\ Ordered(upTo[k], path)}
<1>11. 0 \in P
  <2>1. W \cup Some(0) = W
    OBVIOUS
  <2> QED
    BY <2>1, <1>9
<1>12. ASSUME NEW n \in Nat, n \in P PROVE n + 1 \in P
  <2> DEFINE k == n + 1
             before == upTo[n]
             U == W \cup Some(n)
  <2> SUFFICES ASSUME k <= N PROVE Enumerates(upTo[k], W \cup Some(k)) /\ Ordered(upTo[k], path)
    OBVIOUS
  <2>1. k \in 1..N /\ k - 1 = n /\ Enumerates(before, U) /\ Ordered(before, path)
    <3>1. n <= N /\ k \in 1..N /\ k - 1 = n
      BY <1>1
    <3> QED
      BY <3>1, <1>12
  <2>2. upTo[k] = Emit(before, Dir(k))
    BY <2>1, <1>9
  <2>3. W \cup Some(k) = U \cup {Dir(k)}
    <3>1. \A j : j \in 1..k <=> j \in 1..n \/ j = k
      BY <2>1
    <3> QED
      BY <3>1
  <2>4. \A j \in 1..n : Dir(j) \in U /\ j \in 1..N
    <3>1. \A j \in 1..n : j \in 1..N
      BY <1>1
    <3>2. \A j \in 1..n : Dir(j) \in Some(n)
      OBVIOUS
    <3> QED
      BY <3>1, <3>2
  <2> HIDE DEF k, before, U
  <2>5. Enumerates(upTo[k], U \cup {Dir(k)})
    BY <2>1, <2>2, EnumeratesMore DEF Emit
  <2>6. Under(Dir(k), path, before, Len(before))
    <3> SUFFICES ASSUME NEW j \in (Len(path) + 1)..(Len(Dir(k).path) - 1)
                 PROVE  \E m \in 1..Len(before) : /\ before[m].type = "directory"
                                                  /\ before[m].path = SubSeq(Dir(k).path, 1, j)
      BY DEF Under
    <3> DEFINE l == j - Len(path)
    <3>1. j \in 1..(Len(path) + k) /\ l \in 1..n /\ Len(path) + l = j
      BY <1>1, <1>2, <2>1 DEF k
    <3>2. Dir(l) \in U /\ l \in 1..N
      BY <2>4, <3>1
    <3>3. PICK m \in 1..Len(before) : before[m] = Dir(l)
      BY <2>1, <3>2 DEF Enumerates
    <3>4. before[m].type = "directory" /\ before[m].path = SubSeq(f, 1, j)
      BY <3>1, <3>2, <3>3, <1>2
    <3>5. SubSeq(Dir(k).path, 1, j) = SubSeq(f, 1, j)
      <4>1. Len(path) + k \in Nat /\ Len(path) + k <= Len(f) /\ j <= Len(path) + k /\ j \in Nat
        BY <1>1, <1>2, <2>1, <3>1
      <4>2. Dir(k).path = SubSeq(f, 1, Len(path) + k)
        BY <1>2, <2>1
      <4> QED
        BY <1>1, <4>1, <4>2, FrontOfFront
    <3> QED
      BY <3>4, <3>5
  <2>7. before \in Seq(U)
    BY <2>1 DEF Enumerates
  <2>8. Ordered(upTo[k], path)
    BY <2>1, <2>2, <2>6, <2>7, OrderedMore DEF Emit
  <2> QED
    BY <2>3, <2>5, <2>8 DEF k
<1> HIDE DEF P
<1>13. N \in P
  BY <1>1, <1>11, <1>12, Induct
<1> QED
  BY <1>3, <1>13 DEF P, Dirs, N, Dir

\* What the first n files add to a listing below path.
FilesOf(files, path, n) == {buildFile(files, i) : i \in Matching(files, path) \cap 1..n}
DirsOf(files, path, n) ==
  UNION {Dirs(files, path, i, Depth(files[i], path)) : i \in Matching(files, path) \cap 1..n}
Listed(files, path, n) == FilesOf(files, path, n) \cup DirsOf(files, path, n)

LEMMA ListedEntries ==
  ASSUME NEW files \in Seq(File), NEW path \in Seq(Name), NEW n
  PROVE  /\ Listed(files, path, n) \subseteq Entry
         /\ \A x \in FilesOf(files, path, n) : x.type = "file"
         /\ \A x \in DirsOf(files, path, n) : x.type = "directory"
<1>1. ASSUME NEW x \in FilesOf(files, path, n) PROVE x \in Entry /\ x.type = "file"
  <2>1. PICK i \in Matching(files, path) : x = buildFile(files, i)
    BY DEF FilesOf
  <2>2. i \in DOMAIN files
    BY DEF Matching
  <2> QED
    BY <2>1, <2>2, FileEntry
<1>2. ASSUME NEW x \in DirsOf(files, path, n) PROVE x \in Entry /\ x.type = "directory"
  <2>1. PICK i \in Matching(files, path) : x \in Dirs(files, path, i, Depth(files[i], path))
    BY DEF DirsOf
  <2>2. PICK k \in 1..Depth(files[i], path) : x = Above(files, path, i, k)
    BY <2>1 DEF Dirs
  <2> QED
    BY <2>2, AboveEntry
<1> QED
  BY <1>1, <1>2 DEF Listed

LEMMA ListedMembers ==
  ASSUME NEW files, NEW path, NEW n, NEW x
  PROVE  /\ x \in FilesOf(files, path, n) <=>
              \E i \in Matching(files, path) \cap 1..n : x = buildFile(files, i)
         /\ x \in DirsOf(files, path, n) <=>
              \E i \in Matching(files, path) \cap 1..n :
                x \in Dirs(files, path, i, Depth(files[i], path))
<1>1. x \in FilesOf(files, path, n) <=>
        \E i \in Matching(files, path) \cap 1..n : x = buildFile(files, i)
  BY Zenon DEF FilesOf
<1>2. x \in DirsOf(files, path, n) <=>
        \E i \in Matching(files, path) \cap 1..n :
          x \in Dirs(files, path, i, Depth(files[i], path))
  BY Zenon DEF DirsOf
<1> QED
  BY <1>1, <1>2

LEMMA ListedMore ==
  ASSUME NEW files \in Seq(File), NEW path \in Seq(Name), NEW n \in Nat
  PROVE  /\ n + 1 \in Matching(files, path) =>
              /\ Listed(files, path, n + 1)
                   = (Listed(files, path, n)
                        \cup Dirs(files, path, n + 1, Depth(files[n + 1], path)))
                     \cup {buildFile(files, n + 1)}
              /\ buildFile(files, n + 1)
                   \notin Listed(files, path, n)
                            \cup Dirs(files, path, n + 1, Depth(files[n + 1], path))
         /\ n + 1 \notin Matching(files, path) =>
              Listed(files, path, n + 1) = Listed(files, path, n)
<1> DEFINE M == Matching(files, path)
           D(i) == Dirs(files, path, i, Depth(files[i], path))
           F(m) == FilesOf(files, path, m)
           G(m) == DirsOf(files, path, m)
           file == buildFile(files, n + 1)
<1>1. \A i : i \in M \cap 1..(n + 1) <=> i \in M \cap 1..n \/ (i = n + 1 /\ n + 1 \in M)
  OBVIOUS
<1>2. CASE n + 1 \notin M
  <2>1. M \cap 1..(n + 1) = M \cap 1..n
    BY <1>1, <1>2
  <2> HIDE DEF M
  <2> QED
    BY <1>2, <2>1 DEF Listed, FilesOf, DirsOf, M
<1>3. CASE n + 1 \in M
  <2>1. /\ \A x : x \in F(n) <=> \E i \in M \cap 1..n : x = buildFile(files, i)
        /\ \A x : x \in F(n + 1) <=> \E i \in M \cap 1..(n + 1) : x = buildFile(files, i)
        /\ \A x : x \in G(n) <=> \E i \in M \cap 1..n : x \in D(i)
        /\ \A x : x \in G(n + 1) <=> \E i \in M \cap 1..(n + 1) : x \in D(i)
    BY ListedMembers
  <2>2. n + 1 \in DOMAIN files
    BY <1>3 DEF Matching
  <2>3. file \notin F(n)
    <3> SUFFICES ASSUME NEW i \in M \cap 1..n, file = buildFile(files, i)
                 PROVE  FALSE
      BY <2>1
    <3>1. i \in DOMAIN files
      BY DEF Matching
    <3>2. file.index = n /\ buildFile(files, i).index = i - 1
      BY <2>2, <3>1, FileEntry
    <3> QED
      BY <3>2
  <2>4. file \notin G(n + 1)
    BY <2>2, FileEntry, ListedEntries
  <2> HIDE DEF M, F, G, D, file
  <2>5. \A x : x \in F(n + 1) <=> x \in F(n) \/ x = file
    BY <1>1, <1>3, <2>1 DEF file
  <2>6. \A x : x \in G(n + 1) <=> x \in G(n) \/ x \in D(n + 1)
    BY <1>1, <1>3, <2>1
  <2>7. F(n + 1) \cup G(n + 1) = ((F(n) \cup G(n)) \cup D(n + 1)) \cup {file}
    BY <2>5, <2>6
  <2>8. file \notin (F(n) \cup G(n)) \cup D(n + 1)
    BY <2>3, <2>4, <2>6
  <2> QED
    BY <1>3, <2>7, <2>8 DEF Listed, M, F, G, D, file
<1> QED
  BY <1>2, <1>3

\* The items of buildList after each file.
Builds(upTo, files, path) ==
  /\ upTo \in [0..Len(files) -> Seq(Entry)] /\ upTo[0] = <<>>
  /\ \A n \in 1..Len(files) :
       upTo[n] = IF n \in Matching(files, path)
                 THEN Append(emitDirs(files, path, n, upTo[n - 1]), buildFile(files, n))
                 ELSE upTo[n - 1]

LEMMA ListBuilds ==
  ASSUME NEW files \in Seq(File), NEW path \in Seq(Name)
  PROVE  \E upTo : Builds(upTo, files, path) /\ buildList(files, path) = upTo[Len(files)]
<1> DEFINE N == Len(files)
           V == Seq(Entry)
           M == Matching(files, path)
           Emit(items, i) ==
             IF i \in M THEN Append(emitDirs(files, path, i, items), buildFile(files, i))
             ELSE items
           Is(g) == g = [n \in 0..N |-> IF n = 0 THEN <<>> ELSE Emit(g[n - 1], n)]
           step == [n \in 1..N |-> [its \in V |-> Emit(its, n)]]
           upTo == CHOOSE g : Is(g)
<1>1. N \in Nat /\ <<>> \in V
  OBVIOUS
<1>2. ASSUME NEW n \in 1..N, NEW its \in V PROVE Emit(its, n) \in V
  <2>1. CASE n \in M
    <3>1. emitDirs(files, path, n, its) \in Seq(Entry)
      BY <2>1, DirsEmits
    <3>2. buildFile(files, n) \in Entry
      BY FileEntry
    <3> QED
      BY <2>1, <3>1, <3>2
  <2> QED
    BY <2>1
<1>3. Steps(step, N, V)
  BY <1>2 DEF Steps
<1>4. \A n \in 1..N, its \in V : step[n][its] = Emit(its, n)
  OBVIOUS
<1> HIDE DEF step, Emit, V, N
<1>5. PICK g : Runs(g, step, <<>>, N, V)
  BY <1>1, <1>3, Loop
<1>6. Is(g)
  <2>1. ASSUME NEW n \in 0..N, n # 0 PROVE g[n] = Emit(g[n - 1], n)
    <3>1. n \in 1..N /\ n - 1 \in 0..N
      BY <2>1, <1>1
    <3> QED
      BY <3>1, <1>4, <1>5 DEF Runs
  <2> QED
    BY <1>5, <2>1 DEF Runs
<1>7. Is(upTo)
  BY <1>6
<1> HIDE DEF upTo
<1>8. /\ upTo = [n \in 0..N |-> upTo[n]] /\ upTo[0] = <<>>
      /\ \A n \in 1..N : upTo[n] = Emit(upTo[n - 1], n)
  <2>1. 0 \in 0..N /\ \A n \in 1..N : n \in 0..N /\ n # 0
    BY <1>1
  <2> QED
    BY <1>7, <2>1
<1>9. Runs(upTo, step, <<>>, N, V)
  <2>1. Written(upTo, step, <<>>, N, V)
    BY <1>4, <1>8 DEF Written
  <2> QED
    BY <1>1, <1>3, <2>1, LoopStays
<1>10. buildList(files, path) = upTo[N]
  BY DEF buildList, upTo, Emit, N
<1>11. Builds(upTo, files, path)
  BY <1>8, <1>9 DEF Builds, Runs, Emit, N, V
<1> QED
  BY <1>10, <1>11 DEF N

\* A listing as a list has the files below the path and the directories they are
\* in, each once, and each after the directories it is in.
LEMMA ListBuilt ==
  ASSUME NEW files \in Seq(File), NEW path \in Seq(Name)
  PROVE  /\ Enumerates(buildList(files, path), Listed(files, path, Len(files)))
         /\ Ordered(buildList(files, path), path)
<1> DEFINE N == Len(files)
           M == Matching(files, path)
<1>1. PICK upTo : Builds(upTo, files, path) /\ buildList(files, path) = upTo[N]
  BY ListBuilds
<1> DEFINE P == {n \in Nat : n <= N => /\ Enumerates(upTo[n], Listed(files, path, n))
                                       /\ Ordered(upTo[n], path)}
<1>2. 0 \in P
  <2>1. Listed(files, path, 0) = {}
    <3>1. M \cap 1..0 = {}
      OBVIOUS
    <3> QED
      BY <3>1 DEF Listed, FilesOf, DirsOf
  <2>2. Enumerates(<<>>, {}) /\ Ordered(<<>>, path)
    BY DEF Enumerates, Ordered
  <2> QED
    BY <1>1, <2>1, <2>2 DEF Builds
<1>3. ASSUME NEW m \in Nat, m \in P PROVE m + 1 \in P
  <2> DEFINE n == m + 1
             items == upTo[m]
             W == Listed(files, path, m)
  <2> SUFFICES ASSUME n <= N
               PROVE  /\ Enumerates(upTo[n], Listed(files, path, n))
                      /\ Ordered(upTo[n], path)
    OBVIOUS
  <2>1. n \in 1..N /\ n - 1 = m /\ Enumerates(items, W) /\ Ordered(items, path)
    <3>1. m <= N /\ n \in 1..N /\ n - 1 = m
      OBVIOUS
    <3> QED
      BY <3>1, <1>3
  <2>2. W \subseteq Entry
    BY ListedEntries
  <2>3. upTo[n] = IF n \in M THEN Append(emitDirs(files, path, n, items), buildFile(files, n))
                  ELSE items
    BY <1>1, <2>1 DEF Builds
  <2>4. CASE n \notin M
    <3>1. Listed(files, path, n) = W
      BY <2>4, ListedMore
    <3> QED
      BY <2>1, <2>3, <2>4, <3>1
  <2>5. CASE n \in M
    <3> DEFINE U == W \cup Dirs(files, path, n, Depth(files[n], path))
               file == buildFile(files, n)
               its == emitDirs(files, path, n, items)
               f == files[n].path
    <3>1. Enumerates(its, U) /\ Ordered(its, path)
      BY <2>1, <2>2, <2>5, DirsEmitted
    <3>2. Listed(files, path, n) = U \cup {file} /\ file \notin U
      BY <2>5, ListedMore
    <3>3. /\ file.path = f /\ f \in Seq(Name) /\ Len(f) \in Nat /\ Len(path) \in Nat
          /\ Depth(files[n], path) \in Nat
          /\ Len(f) > Len(path) => Len(path) + Depth(files[n], path) + 1 = Len(f)
      <4>1. n \in DOMAIN files
        BY <2>1
      <4> QED
        BY <4>1, FileEntry, FilesAreFiles, DepthType
    <3>4. Under(file, path, its, Len(its))
      <4> SUFFICES ASSUME NEW k \in (Len(path) + 1)..(Len(f) - 1)
                   PROVE  \E j \in 1..Len(its) : its[j].type = "directory"
                                                 /\ its[j].path = SubSeq(f, 1, k)
        BY <3>3 DEF Under
      <4> DEFINE l == k - Len(path)
      <4>1. l \in 1..Depth(files[n], path) /\ Len(path) + l = k
        BY <3>3
      <4> DEFINE dir == Above(files, path, n, l)
      <4>2. dir.type = "directory" /\ dir.path = SubSeq(f, 1, k)
        BY <4>1, <2>5, AboveEntry
      <4>3. dir \in U
        BY <4>1 DEF Dirs
      <4> HIDE DEF its, U, dir, f
      <4>4. PICK j \in 1..Len(its) : its[j] = dir
        BY <3>1, <4>3 DEF Enumerates
      <4> QED
        BY <4>2, <4>4
    <3>5. upTo[n] = Append(its, file)
      BY <2>3, <2>5
    <3> HIDE DEF its, U, file, f
    <3>6. Enumerates(upTo[n], U \cup {file})
      BY <3>1, <3>2, <3>5, EnumeratesMore
    <3>7. Ordered(upTo[n], path)
      <4>1. its \in Seq(U)
        BY <3>1 DEF Enumerates
      <4> QED
        BY <3>1, <3>4, <3>5, <4>1, OrderedMore
    <3> QED
      BY <3>2, <3>6, <3>7
  <2> QED
    BY <2>4, <2>5
<1> HIDE DEF P
<1>4. N \in P
  <2>1. N \in Nat
    OBVIOUS
  <2> QED
    BY <2>1, <1>2, <1>3, Induct
<1> QED
  BY <1>1, <1>4 DEF P

-----------------------------------------------------------------------------
(* Sorting                                                                 *)

StrictOrder(R, n) ==
  /\ \A i \in 1..n : <<i, i>> \notin R
  /\ \A i, j \in 1..n : i # j => <<i, j>> \in R \/ <<j, i>> \in R
  /\ \A i, j, k \in 1..n : <<i, j>> \in R /\ <<j, k>> \in R => <<i, k>> \in R

\* How many there are before one, and one.
PlaceIn(R, n, j) == Cardinality({i \in 1..n : <<i, j>> \in R}) + 1

\* Every place in a strict order is that of one.
LEMMA Places ==
  ASSUME NEW n \in Nat, NEW R, StrictOrder(R, n)
  PROVE  /\ \A j \in 1..n : PlaceIn(R, n, j) \in 1..n
         /\ \A i, j \in 1..n : <<i, j>> \in R => PlaceIn(R, n, i) < PlaceIn(R, n, j)
         /\ \A i, j \in 1..n : PlaceIn(R, n, i) = PlaceIn(R, n, j) => i = j
         /\ \A k \in 1..n : \E j \in 1..n : PlaceIn(R, n, j) = k
<1> USE DEF StrictOrder
<1> DEFINE place == [j \in 1..n |-> PlaceIn(R, n, j)]
<1> DEFINE before(j) == {i \in 1..n : <<i, j>> \in R}
<1>1. IsFiniteSet(1..n) /\ Cardinality(1..n) = n
  <2>1. IsFiniteSet(1..n) /\ Cardinality(1..n) = IF 1 > n THEN 0 ELSE n - 1 + 1
    BY FS_Interval
  <2> QED
    BY <2>1
<1>2. ASSUME NEW j \in 1..n
      PROVE  /\ IsFiniteSet(before(j)) /\ Cardinality(before(j)) \in Nat
             /\ Cardinality(before(j)) < n
  <2>1. before(j) \subseteq 1..n /\ j \notin before(j)
    OBVIOUS
  <2> HIDE DEF before
  <2>2. IsFiniteSet(before(j)) /\ before(j) # 1..n
    BY <2>1, <1>1, FS_Subset
  <2>3. Cardinality(before(j)) <= n /\ Cardinality(before(j)) # n
    BY <2>1, <2>2, <1>1, FS_Subset
  <2>4. Cardinality(before(j)) \in Nat
    BY <2>2, FS_CardinalityType
  <2> QED
    BY <2>2, <2>3, <2>4
<1>3. place = [j \in 1..n |-> Cardinality(before(j)) + 1]
  BY DEF PlaceIn
<1>0. \A j \in 1..n : place[j] = PlaceIn(R, n, j)
  OBVIOUS
<1> HIDE DEF place
<1> HIDE DEF before
<1>4. place \in [1..n -> 1..n]
  <2>1. ASSUME NEW j \in 1..n PROVE Cardinality(before(j)) + 1 \in 1..n
    <3>1. Cardinality(before(j)) \in Nat /\ Cardinality(before(j)) < n
      BY <1>2
    <3> QED
      BY <3>1
  <2>2. \A j \in 1..n : place[j] \in 1..n
    <3> SUFFICES ASSUME NEW j \in 1..n PROVE place[j] \in 1..n
      OBVIOUS
    <3>1. place[j] = Cardinality(before(j)) + 1
      BY <1>3
    <3> QED
      BY <2>1, <3>1
  <2>3. place = [j \in 1..n |-> place[j]]
    BY <1>3
  <2> QED
    BY <2>2, <2>3
<1>5. ASSUME NEW i \in 1..n, NEW j \in 1..n, <<i, j>> \in R PROVE place[i] < place[j]
  <2>1. before(i) \subseteq before(j) /\ i \in before(j) /\ i \notin before(i)
    BY <1>5 DEF before
  <2>2. before(i) # before(j)
    BY <2>1
  <2>3. /\ Cardinality(before(i)) <= Cardinality(before(j))
        /\ Cardinality(before(i)) # Cardinality(before(j))
    BY <2>1, <2>2, <1>2, FS_Subset
  <2>4. Cardinality(before(i)) \in Nat /\ Cardinality(before(j)) \in Nat
    BY <1>2
  <2>5. place[i] = Cardinality(before(i)) + 1 /\ place[j] = Cardinality(before(j)) + 1
    BY <1>3
  <2> QED
    BY <2>3, <2>4, <2>5
<1>6. ASSUME NEW i \in 1..n, NEW j \in 1..n, place[i] = place[j] PROVE i = j
  <2> SUFFICES ASSUME i # j PROVE FALSE
    OBVIOUS
  <2>1. place[i] < place[j] \/ place[j] < place[i]
    BY <1>5
  <2>2. place[i] \in 1..n /\ place[j] \in 1..n
    BY <1>4
  <2> QED
    BY <2>1, <2>2, <1>6
<1>7. place \in Injection(1..n, 1..n)
  BY <1>4, <1>6 DEF Injection, IsInjective
<1>8. place \in Surjection(1..n, 1..n)
  BY <1>1, <1>7, FS_Injection
<1>9. \A k \in 1..n : \E j \in 1..n : place[j] = k
  BY <1>8 DEF Surjection
<1>10. \A j \in 1..n : PlaceIn(R, n, j) \in 1..n
  <2> SUFFICES ASSUME NEW j \in 1..n PROVE PlaceIn(R, n, j) \in 1..n
    OBVIOUS
  <2>1. place[j] = PlaceIn(R, n, j)
    BY <1>0
  <2>2. place[j] \in 1..n
    BY <1>4
  <2> QED
    BY <2>1, <2>2
<1>11. \A i, j \in 1..n : <<i, j>> \in R => PlaceIn(R, n, i) < PlaceIn(R, n, j)
  BY <1>0, <1>5
<1>12. \A i, j \in 1..n : PlaceIn(R, n, i) = PlaceIn(R, n, j) => i = j
  BY <1>0, <1>6
<1>13. ASSUME NEW k \in 1..n PROVE \E j \in 1..n : PlaceIn(R, n, j) = k
  <2>1. PICK j \in 1..n : place[j] = k
    BY <1>9
  <2>2. place[j] = PlaceIn(R, n, j)
    BY <1>0
  <2> QED
    BY <2>1, <2>2
<1> QED
  BY <1>10, <1>11, <1>12, <1>13

LEMMA EntryKeys ==
  ASSUME NEW a \in Entry
  PROVE  /\ a.type \in {"file", "directory"} /\ a.size \in Nat
         /\ lower[Last(a.path)] \in Nat
<1>1. a.path \in Seq(Name) /\ a.path # <<>>
  BY DEF Entry
<1>2. Last(a.path) \in Name
  BY <1>1 DEF Last
<1> QED
  BY <1>2, ListAssumptions DEF Entry

\* Items are ordered by keys, which some of them share.
LEMMA LessIsOrder ==
  ASSUME NEW a \in Entry, NEW b \in Entry, NEW c \in Entry, NEW sort
  PROVE  /\ less(a, b, sort) => ~less(b, a, sort)
         /\ less(a, b, sort) /\ less(b, c, sort) => less(a, c, sort)
         /\ less(a, b, sort) /\ ~less(c, b, sort) => less(a, c, sort)
         /\ ~less(b, a, sort) /\ less(b, c, sort) => less(a, c, sort)
         /\ ~less(b, a, sort) /\ ~less(c, b, sort) => ~less(c, a, sort)
<1> DEFINE x == lower[Last(a.path)]
           y == lower[Last(b.path)]
           z == lower[Last(c.path)]
<1>1. /\ a.type \in {"file", "directory"} /\ a.size \in Nat /\ x \in Nat
      /\ b.type \in {"file", "directory"} /\ b.size \in Nat /\ y \in Nat
      /\ c.type \in {"file", "directory"} /\ c.size \in Nat /\ z \in Nat
  BY EntryKeys
<1> DEFINE L(s, t, m, n, v, w) ==
             IF s # t THEN s = "directory"
             ELSE \/ sort = "size" /\ m > n
                  \/ (sort = "size" => m = n) /\ v < w
<1>2. /\ less(a, b, sort) = L(a.type, b.type, a.size, b.size, x, y)
      /\ less(b, a, sort) = L(b.type, a.type, b.size, a.size, y, x)
      /\ less(a, c, sort) = L(a.type, c.type, a.size, c.size, x, z)
      /\ less(c, a, sort) = L(c.type, a.type, c.size, a.size, z, x)
      /\ less(b, c, sort) = L(b.type, c.type, b.size, c.size, y, z)
      /\ less(c, b, sort) = L(c.type, b.type, c.size, b.size, z, y)
  BY DEF less
<1> DEFINE r == a.type
           s == b.type
           t == c.type
           l == a.size
           m == b.size
           n == c.size
<1>3. /\ r \in {"file", "directory"} /\ s \in {"file", "directory"} /\ t \in {"file", "directory"}
      /\ l \in Nat /\ m \in Nat /\ n \in Nat /\ x \in Nat /\ y \in Nat /\ z \in Nat
  BY <1>1
<1> HIDE DEF x, y, z, r, s, t, l, m, n
<1>4. L(r, s, l, m, x, y) => ~L(s, r, m, l, y, x)
  BY <1>3
<1>5. L(r, s, l, m, x, y) /\ L(s, t, m, n, y, z) => L(r, t, l, n, x, z)
  BY <1>3
<1>6. L(r, s, l, m, x, y) /\ ~L(t, s, n, m, z, y) => L(r, t, l, n, x, z)
  BY <1>3
<1>7. ~L(s, r, m, l, y, x) /\ L(s, t, m, n, y, z) => L(r, t, l, n, x, z)
  BY <1>3
<1>8. ~L(s, r, m, l, y, x) /\ ~L(t, s, n, m, z, y) => ~L(t, r, n, l, z, x)
  BY <1>3
<1> HIDE DEF L
<1> QED
  BY <1>2, <1>4, <1>5, <1>6, <1>7, <1>8 DEF r, s, t, l, m, n

\* Of two items that compare equal the one that was first comes first.
Earlier(items, sort, i, j) ==
  \/ less(items[i], items[j], sort)
  \/ ~less(items[j], items[i], sort) /\ i < j

\* sorted has the items, each of them once, in order.
Sorts(sorted, items, sort) ==
  \E p \in [1..Len(items) -> 1..Len(items)] :
    /\ sorted = [k \in 1..Len(items) |-> items[p[k]]]
    /\ \A k, l \in 1..Len(items) : p[k] = p[l] => k = l
    /\ \A j \in 1..Len(items) : \E k \in 1..Len(items) : p[k] = j
    /\ sort = "none" => \A k \in 1..Len(items) : p[k] = k
    /\ sort # "none" => \A k, l \in 1..Len(items) : k < l => Earlier(items, sort, p[k], p[l])

LEMMA EarlierIsTotal ==
  ASSUME NEW items \in Seq(Entry), NEW sort, NEW i \in 1..Len(items), NEW j \in 1..Len(items),
         NEW k \in 1..Len(items)
  PROVE  /\ ~Earlier(items, sort, i, i)
         /\ i # j => Earlier(items, sort, i, j) \/ Earlier(items, sort, j, i)
         /\ Earlier(items, sort, i, j) /\ Earlier(items, sort, j, k) => Earlier(items, sort, i, k)
<1> DEFINE a == items[i]
           b == items[j]
           c == items[k]
<1>1. a \in Entry /\ b \in Entry /\ c \in Entry
  OBVIOUS
<1>2. i \in Nat /\ j \in Nat /\ k \in Nat
  OBVIOUS
<1> HIDE DEF a, b, c
<1>3. ~less(a, a, sort) /\ (less(a, b, sort) => ~less(b, a, sort))
  BY <1>1, LessIsOrder
<1>4. /\ less(a, b, sort) /\ less(b, c, sort) => less(a, c, sort)
      /\ less(a, b, sort) /\ ~less(c, b, sort) => less(a, c, sort)
      /\ ~less(b, a, sort) /\ less(b, c, sort) => less(a, c, sort)
      /\ ~less(b, a, sort) /\ ~less(c, b, sort) => ~less(c, a, sort)
  BY <1>1, LessIsOrder
<1>5. ~Earlier(items, sort, i, i)
  BY <1>2, <1>3 DEF Earlier, a
<1>6. i # j => Earlier(items, sort, i, j) \/ Earlier(items, sort, j, i)
  BY <1>2, <1>3 DEF Earlier, a, b
<1>7. Earlier(items, sort, i, j) /\ Earlier(items, sort, j, k) => Earlier(items, sort, i, k)
  BY <1>2, <1>4 DEF Earlier, a, b, c
<1> QED
  BY <1>5, <1>6, <1>7

LEMMA ItemsSorted ==
  ASSUME NEW items \in Seq(Entry), NEW sort
  PROVE  Sorts(sortItems(items, sort), items, sort)
<1> DEFINE n == Len(items)
<1>1. n \in Nat /\ DOMAIN items = 1..n /\ items = [k \in 1..n |-> items[k]]
  OBVIOUS
<1>2. CASE sort = "none"
  <2> DEFINE p == [k \in 1..n |-> k]
  <2>1. sortItems(items, sort) = items
    BY <1>2 DEF sortItems
  <2>2. p \in [1..n -> 1..n] /\ \A k \in 1..n : p[k] = k
    OBVIOUS
  <2> HIDE DEF p
  <2>3. items = [k \in 1..n |-> items[p[k]]]
    BY <1>1, <2>2
  <2> QED
    BY <1>2, <2>1, <2>2, <2>3 DEF Sorts
<1>3. CASE sort # "none"
  <2> DEFINE R == {ij \in (1..n) \X (1..n) : Earlier(items, sort, ij[1], ij[2])}
             Place(j) == Cardinality({i \in DOMAIN items : Earlier(items, sort, i, j)}) + 1
             p == [k \in 1..n |-> CHOOSE j \in DOMAIN items : Place(j) = k]
  <2>1. \A i, j \in 1..n : <<i, j>> \in R <=> Earlier(items, sort, i, j)
    OBVIOUS
  <2> HIDE DEF R
  <2>2. ASSUME NEW j \in 1..n PROVE PlaceIn(R, n, j) = Place(j)
    <3>1. {i \in 1..n : <<i, j>> \in R} = {i \in DOMAIN items : Earlier(items, sort, i, j)}
      BY <1>1, <2>1
    <3> QED
      BY <3>1 DEF PlaceIn
  <2>3. StrictOrder(R, n)
    <3>1. \A i \in 1..n : <<i, i>> \notin R
      BY <2>1, EarlierIsTotal
    <3>2. \A i, j \in 1..n : i # j => <<i, j>> \in R \/ <<j, i>> \in R
      BY <2>1, EarlierIsTotal
    <3>3. \A i, j, k \in 1..n : <<i, j>> \in R /\ <<j, k>> \in R => <<i, k>> \in R
      BY <2>1, EarlierIsTotal
    <3> QED
      BY <3>1, <3>2, <3>3 DEF StrictOrder
  <2>4. sortItems(items, sort)
          = [k \in DOMAIN items |-> items[CHOOSE j \in DOMAIN items : Place(j) = k]]
    BY <1>3 DEF sortItems, Earlier
  <2>5. /\ \A j \in 1..n : PlaceIn(R, n, j) \in 1..n
        /\ \A i, j \in 1..n : <<i, j>> \in R => PlaceIn(R, n, i) < PlaceIn(R, n, j)
        /\ \A i, j \in 1..n : PlaceIn(R, n, i) = PlaceIn(R, n, j) => i = j
        /\ \A k \in 1..n : \E j \in 1..n : PlaceIn(R, n, j) = k
    BY <1>1, <2>3, Places
  <2> HIDE DEF Place
  <2>6. /\ \A j \in 1..n : Place(j) \in 1..n
        /\ \A i, j \in 1..n : <<i, j>> \in R => Place(i) < Place(j)
        /\ \A i, j \in 1..n : Place(i) = Place(j) => i = j
        /\ \A k \in 1..n : \E j \in 1..n : Place(j) = k
    BY <2>2, <2>5
  <2>8. DOMAIN items = 1..n
    BY <1>1
  <2> HIDE DEF n
  <2>9. ASSUME NEW k \in 1..n PROVE p[k] \in 1..n /\ Place(p[k]) = k
    BY <2>6, <2>8
  <2>7. sortItems(items, sort) = [k \in 1..n |-> items[p[k]]]
    BY <2>4, <2>8
  <2>10. p = [k \in 1..n |-> p[k]]
    OBVIOUS
  <2> HIDE DEF p
  <2>12. p \in [1..n -> 1..n]
    BY <2>9, <2>10
  <2>13. ASSUME NEW k \in 1..n, NEW l \in 1..n, p[k] = p[l] PROVE k = l
    BY <2>9, <2>13
  <2>14. ASSUME NEW j \in 1..n PROVE \E k \in 1..n : p[k] = j
    <3>1. Place(j) \in 1..n
      BY <2>6
    <3>2. p[Place(j)] \in 1..n /\ Place(p[Place(j)]) = Place(j)
      BY <3>1, <2>9
    <3>3. p[Place(j)] = j
      BY <3>2, <2>6
    <3> QED
      BY <3>1, <3>3
  <2>15. ASSUME NEW k \in 1..n, NEW l \in 1..n, k < l PROVE Earlier(items, sort, p[k], p[l])
    <3>1. p[k] \in 1..n /\ p[l] \in 1..n /\ Place(p[k]) = k /\ Place(p[l]) = l
      BY <2>9
    <3>2. p[k] # p[l]
      BY <3>1, <2>15
    <3>3. ~(<<p[l], p[k]>> \in R)
      <4> SUFFICES ASSUME <<p[l], p[k]>> \in R PROVE FALSE
        OBVIOUS
      <4>1. Place(p[l]) < Place(p[k])
        BY <3>1, <2>6
      <4>2. l < k
        BY <3>1, <4>1
      <4> QED
        BY <4>2, <2>15, <1>1
    <3>4. <<p[k], p[l]>> \in R
      BY <3>1, <3>2, <3>3, <2>3 DEF StrictOrder
    <3> QED
      BY <3>1, <3>4, <2>1
  <2> QED
    BY <1>3, <2>7, <2>12, <2>13, <2>14, <2>15 DEF Sorts, n
<1> QED
  BY <1>2, <1>3

-----------------------------------------------------------------------------
(* What is listed is there                                                 *)

\* The items a listing may have: the files with their indices, and the
\* directories that files are in.
Real(files) ==
  {x \in Entry : \E i \in DOMAIN files :
     \/ x = buildFile(files, i)
     \/ /\ x.type = "directory" /\ x.index = 0
        /\ \E k \in 1..(Len(files[i].path) - 1) : x.path = SubSeq(files[i].path, 1, k)}

LEMMA RealFile ==
  ASSUME NEW files \in Seq(File), NEW i \in DOMAIN files
  PROVE  buildFile(files, i) \in Real(files)
BY FileEntry DEF Real

LEMMA RealDirectory ==
  ASSUME NEW files \in Seq(File), NEW i \in DOMAIN files,
         NEW k \in 1..(Len(files[i].path) - 1), NEW size \in Nat
  PROVE  directory(SubSeq(files[i].path, 1, k), size) \in Real(files)
<1> DEFINE d == SubSeq(files[i].path, 1, k)
<1>1. k \in Nat /\ k # 0 /\ k <= Len(files[i].path) /\ files[i].path \in Seq(Name)
  BY FilesAreFiles
<1>2. d \in Seq(Name) /\ Len(d) = k
  BY <1>1, FirstFew
<1> HIDE DEF d
<1>3. d # <<>>
  BY <1>1, <1>2
<1>4. /\ directory(d, size) \in Entry /\ directory(d, size).type = "directory"
      /\ directory(d, size).index = 0 /\ directory(d, size).path = d
  BY <1>2, <1>3 DEF directory, Entry
<1> QED
  BY <1>4 DEF Real, d

LEMMA RealList ==
  ASSUME NEW files \in Seq(File), NEW path \in Seq(Name)
  PROVE  buildList(files, path) \in Seq(Real(files))
<1> DEFINE W == Listed(files, path, Len(files))
<1>1. buildList(files, path) \in Seq(W)
  BY ListBuilt DEF Enumerates
<1>2. ASSUME NEW x \in W PROVE x \in Real(files)
  <2>1. CASE x \in FilesOf(files, path, Len(files))
    <3>1. PICK i \in Matching(files, path) \cap 1..Len(files) : x = buildFile(files, i)
      BY <2>1, ListedMembers
    <3> QED
      BY <3>1, RealFile DEF Matching
  <2>2. CASE x \in DirsOf(files, path, Len(files))
    <3>1. PICK i \in Matching(files, path) \cap 1..Len(files) :
            x \in Dirs(files, path, i, Depth(files[i], path))
      BY <2>2, ListedMembers
    <3>2. PICK k \in 1..Depth(files[i], path) : x = Above(files, path, i, k)
      BY <3>1 DEF Dirs
    <3>3. /\ x \in Entry /\ x.type = "directory" /\ x.index = 0
          /\ x.path = SubSeq(files[i].path, 1, Len(path) + k)
          /\ Len(path) + k \in 1..(Len(files[i].path) - 1)
      BY <3>1, <3>2, AboveEntry
    <3>4. i \in DOMAIN files
      BY DEF Matching
    <3> QED
      BY <3>3, <3>4 DEF Real
  <2> QED
    BY <2>1, <2>2 DEF Listed
<1> HIDE DEF W
<1> QED
  BY <1>1, <1>2

\* The items of buildTree after each file.
Grows(upTo, files, path) ==
  /\ upTo \in [0..Len(files) -> Seq(Real(files))] /\ upTo[0] = <<>>
  /\ \A n \in 1..Len(files) :
       upTo[n] = IF n \in Matching(files, path) THEN emitTree(files, path, n, upTo[n - 1])
                 ELSE upTo[n - 1]

LEMMA TreeStays ==
  ASSUME NEW files \in Seq(File), NEW path \in Seq(Name), ~TreePanics(files, path),
         NEW i \in Matching(files, path), NEW items \in Seq(Real(files))
  PROVE  emitTree(files, path, i, items) \in Seq(Real(files))
<1> DEFINE f == files[i].path
           dir == SubSeq(f, 1, Len(path) + 1)
<1>1. /\ i \in DOMAIN files /\ f \in Seq(Name) /\ Len(f) \in Nat /\ Len(path) \in Nat
      /\ files[i].size \in Nat /\ Len(f) > Len(path)
  <2>1. i \in DOMAIN files
    BY DEF Matching
  <2>2. ~(Len(f) <= Len(path))
    BY DEF TreePanics
  <2> QED
    BY <2>1, <2>2, FilesAreFiles
<1>2. CASE Len(f) = Len(path) + 1
  <2>1. emitTree(files, path, i, items) = Append(items, buildFile(files, i))
    BY <1>2 DEF emitTree
  <2> QED
    BY <1>1, <2>1, RealFile
<1>3. CASE Len(f) # Len(path) + 1
  <2> DEFINE same == items # <<>> /\ Last(items).type = "directory" /\ Last(items).path = dir
  <2>1. emitTree(files, path, i, items)
          = IF same THEN [items EXCEPT ![Len(items)].size = @ + files[i].size]
            ELSE Append(items, directory(dir, files[i].size))
    BY <1>3 DEF emitTree
  <2>2. CASE ~same
    <3>1. Len(path) + 1 \in 1..(Len(f) - 1)
      BY <1>1, <1>3
    <3>2. directory(dir, files[i].size) \in Real(files)
      BY <1>1, <3>1, RealDirectory
    <3> QED
      BY <2>1, <2>2, <3>2
  <2>3. CASE same
    <3> DEFINE last == items[Len(items)]
               more == [last EXCEPT !.size = @ + files[i].size]
    <3>1. Len(items) \in Nat /\ Len(items) \in 1..Len(items) /\ last \in Real(files)
      BY <2>3
    <3>2. last.type = "directory"
      BY <2>3 DEF Last
    <3>3. /\ last \in Entry /\ last.index = 0
          /\ \E j \in DOMAIN files :
               \E k \in 1..(Len(files[j].path) - 1) : last.path = SubSeq(files[j].path, 1, k)
      BY <3>1, <3>2, FileEntry DEF Real
    <3>4. /\ more \in Entry /\ more.type = "directory" /\ more.index = 0
          /\ more.path = last.path
      <4> DEFINE sum == last.size + files[i].size
      <4>1. sum \in Nat
        BY <1>1, <3>3 DEF Entry
      <4>2. more = [last EXCEPT !.size = sum]
        OBVIOUS
      <4> HIDE DEF last, more, sum
      <4> QED
        BY <3>2, <3>3, <4>1, <4>2 DEF Entry
    <3>5. more \in Real(files)
      BY <3>3, <3>4 DEF Real
    <3>6. emitTree(files, path, i, items) = [items EXCEPT ![Len(items)] = more]
      BY <2>1, <2>3
    <3> QED
      BY <3>1, <3>5, <3>6
  <2> QED
    BY <2>2, <2>3
<1> QED
  BY <1>2, <1>3

LEMMA TreeGrows ==
  ASSUME NEW files \in Seq(File), NEW path \in Seq(Name), ~TreePanics(files, path)
  PROVE  /\ \E upTo : Grows(upTo, files, path) /\ buildTree(files, path) = upTo[Len(files)]
         /\ buildTree(files, path) \in Seq(Real(files))
<1> DEFINE N == Len(files)
           V == Seq(Real(files))
           M == Matching(files, path)
           Emit(items, i) == IF i \in M THEN emitTree(files, path, i, items) ELSE items
           Is(g) == g = [n \in 0..N |-> IF n = 0 THEN <<>> ELSE Emit(g[n - 1], n)]
           step == [n \in 1..N |-> [its \in V |-> Emit(its, n)]]
           upTo == CHOOSE g : Is(g)
<1>1. N \in Nat /\ <<>> \in V
  OBVIOUS
<1>2. ASSUME NEW n \in 1..N, NEW its \in V PROVE Emit(its, n) \in V
  BY TreeStays
<1>3. Steps(step, N, V)
  BY <1>2 DEF Steps
<1>4. \A n \in 1..N, its \in V : step[n][its] = Emit(its, n)
  OBVIOUS
<1> HIDE DEF step, Emit, V, N
<1>5. PICK g : Runs(g, step, <<>>, N, V)
  BY <1>1, <1>3, Loop
<1>6. Is(g)
  <2>1. ASSUME NEW n \in 0..N, n # 0 PROVE g[n] = Emit(g[n - 1], n)
    <3>1. n \in 1..N /\ n - 1 \in 0..N
      BY <2>1, <1>1
    <3> QED
      BY <3>1, <1>4, <1>5 DEF Runs
  <2> QED
    BY <1>5, <2>1 DEF Runs
<1>7. Is(upTo)
  BY <1>6
<1> HIDE DEF upTo
<1>8. /\ upTo = [n \in 0..N |-> upTo[n]] /\ upTo[0] = <<>>
      /\ \A n \in 1..N : upTo[n] = Emit(upTo[n - 1], n)
  <2>1. 0 \in 0..N /\ \A n \in 1..N : n \in 0..N /\ n # 0
    BY <1>1
  <2> QED
    BY <1>7, <2>1
<1>9. Runs(upTo, step, <<>>, N, V)
  <2>1. Written(upTo, step, <<>>, N, V)
    BY <1>4, <1>8 DEF Written
  <2> QED
    BY <1>1, <1>3, <2>1, LoopStays
<1>10. buildTree(files, path) = upTo[N]
  BY DEF buildTree, upTo, Emit, N
<1>11. Grows(upTo, files, path)
  BY <1>8, <1>9 DEF Grows, Runs, Emit, N, V
<1>12. upTo[N] \in V
  BY <1>1, <1>9 DEF Runs
<1> QED
  BY <1>10, <1>11, <1>12 DEF N, V

LEMMA SortKeeps ==
  ASSUME NEW S, NEW items \in Seq(S), NEW sorted, NEW sort, Sorts(sorted, items, sort)
  PROVE  sorted \in Seq(S) /\ Len(sorted) = Len(items)
<1> DEFINE n == Len(items)
<1>1. n \in Nat /\ \A j \in 1..n : items[j] \in S
  OBVIOUS
<1>2. PICK p \in [1..n -> 1..n] : sorted = [k \in 1..n |-> items[p[k]]]
  BY DEF Sorts
<1> HIDE DEF n
<1>3. \A k \in 1..n : items[p[k]] \in S
  BY <1>1
<1>4. sorted \in [1..n -> S]
  BY <1>2, <1>3
<1>5. sorted \in Seq(S)
  BY <1>1, <1>4
<1>6. DOMAIN sorted = 1..n
  BY <1>2
<1> QED
  BY <1>1, <1>5, <1>6 DEF n

LEMMA SortEnumerates ==
  ASSUME NEW items, NEW W, Enumerates(items, W), NEW sorted, NEW sort,
         Sorts(sorted, items, sort)
  PROVE  Enumerates(sorted, W)
<1> DEFINE n == Len(items)
<1>1. /\ items \in Seq(W) /\ n \in Nat
      /\ \A w \in W : \E m \in 1..n : items[m] = w
      /\ \A m, l \in 1..n : items[m] = items[l] => m = l
  BY DEF Enumerates
<1>2. sorted \in Seq(W) /\ Len(sorted) = n
  BY <1>1, SortKeeps
<1>3. PICK p \in [1..n -> 1..n] :
        /\ sorted = [k \in 1..n |-> items[p[k]]]
        /\ \A k, l \in 1..n : p[k] = p[l] => k = l
        /\ \A j \in 1..n : \E k \in 1..n : p[k] = j
  BY DEF Sorts
<1> HIDE DEF n
<1>4. ASSUME NEW w \in W PROVE \E m \in 1..n : sorted[m] = w
  <2>1. PICK m \in 1..n : items[m] = w
    BY <1>1
  <2>2. PICK k \in 1..n : p[k] = m
    BY <1>3
  <2> QED
    BY <2>1, <2>2, <1>3
<1>5. ASSUME NEW m \in 1..n, NEW l \in 1..n, sorted[m] = sorted[l] PROVE m = l
  <2>1. items[p[m]] = items[p[l]]
    BY <1>3, <1>5
  <2>2. p[m] \in 1..n /\ p[l] \in 1..n
    OBVIOUS
  <2> QED
    BY <2>1, <2>2, <1>1, <1>3
<1> QED
  BY <1>2, <1>4, <1>5 DEF Enumerates

-----------------------------------------------------------------------------
(* Pages                                                                   *)

LEMMA MinOfTwo ==
  ASSUME NEW a \in Int, NEW b \in Int
  PROVE  Min({a, b}) = IF a <= b THEN a ELSE b
<1> DEFINE m == IF a <= b THEN a ELSE b
<1>1. m \in {a, b} /\ \A y \in {a, b} : m <= y
  OBVIOUS
<1>2. Min({a, b}) \in {a, b} /\ \A y \in {a, b} : Min({a, b}) <= y
  BY <1>1 DEF Min
<1> QED
  BY <1>2

\* A page is a part of the items from the offset on, which ends at the end of
\* the items or, with a limit, when it is full.
LEMMA PageIsPart ==
  ASSUME NEW S, NEW items \in Seq(S), NEW limit \in Nat, NEW offset \in Nat
  PROVE  LET page == paginate(items, limit, offset)
         IN  /\ page \in Seq(S)
             /\ page = SubSeq(items, offset + 1, offset + Len(page))
             /\ offset = 0 /\ limit = 0 => page = items
             /\ limit # 0 => Len(page) <= limit
             /\ limit # 0 /\ Len(page) < limit => offset + Len(page) >= Len(items)
             /\ Len(page) = Len(items) => page = items
             /\ Len(page) <= Len(items)
             /\ offset + Len(page) <= Len(items) \/ page = <<>>
<1> DEFINE n == Len(items)
           cut == offset > 0 \/ (limit # 0 /\ offset + limit < n)
           to == Min({offset + limit, n})
           page == paginate(items, limit, offset)
<1>1. n \in Nat /\ \A j \in 1..n : items[j] \in S
  OBVIOUS
<1>2. page = IF cut THEN SubSeq(items, offset + 1, to) ELSE items
  BY DEF paginate
<1>3. to = IF offset + limit <= n THEN offset + limit ELSE n
  BY <1>1, MinOfTwo
<1>4. SubSeq(items, 1, n) = items
  OBVIOUS
<1> HIDE DEF to, page, n
<1>5. CASE ~cut
  <2>1. page = items /\ offset = 0 /\ (limit = 0 \/ n <= limit)
    BY <1>1, <1>2, <1>5
  <2>2. Len(page) = n
    BY <2>1 DEF n
  <2>3. page = SubSeq(items, offset + 1, offset + Len(page))
    BY <1>1, <1>4, <2>1, <2>2
  <2> QED
    BY <1>1, <2>1, <2>2, <2>3 DEF page, n
<1>6. CASE cut
  <2>1. page = SubSeq(items, offset + 1, to) /\ to \in Nat /\ to <= n
    BY <1>1, <1>2, <1>3, <1>6
  <2>2. \A i \in (offset + 1)..to : items[i] \in S
    BY <1>1, <2>1
  <2>3. /\ page \in Seq(S)
        /\ Len(page) = IF offset + 1 <= to THEN to - (offset + 1) + 1 ELSE 0
    BY <2>1, <2>2, SubSeqProperties
  <2>4. CASE offset + 1 <= to
    <3>1. Len(page) = to - offset
      BY <2>1, <2>3, <2>4
    <3>2. offset + Len(page) = to
      BY <2>1, <3>1
    <3>3. page = SubSeq(items, offset + 1, offset + Len(page))
      BY <2>1, <3>2
    <3>4. Len(page) = n => page = items
      <4> SUFFICES ASSUME Len(page) = n PROVE page = items
        OBVIOUS
      <4>1. offset = 0 /\ to = n
        BY <1>1, <2>1, <3>1
      <4> QED
        BY <1>4, <2>1, <4>1
    <3>5. /\ limit # 0 => Len(page) <= limit
          /\ limit # 0 /\ Len(page) < limit => offset + Len(page) >= n
          /\ Len(page) <= n /\ offset + Len(page) <= n
          /\ ~(offset = 0 /\ limit = 0)
      BY <1>1, <1>3, <1>6, <2>1, <3>1, <3>2
    <3> QED
      BY <2>3, <3>3, <3>4, <3>5 DEF page, n
  <2>5. CASE ~(offset + 1 <= to)
    <3>1. Len(page) = 0 /\ page = <<>>
      BY <2>1, <2>3, <2>5
    <3>2. SubSeq(items, offset + 1, offset + 0) = <<>>
      BY SubSeqEmpty
    <3>3. page = SubSeq(items, offset + 1, offset + Len(page))
      BY <3>1, <3>2
    <3>4. n = 0 => page = items
      BY <3>1 DEF n
    <3>5. limit # 0 => offset >= n
      BY <1>1, <1>3, <2>5
    <3>6. ~(offset = 0 /\ limit = 0)
      BY <1>6
    <3> QED
      BY <1>1, <2>3, <3>1, <3>3, <3>4, <3>5, <3>6 DEF page, n
  <2> QED
    BY <2>4, <2>5
<1> QED
  BY <1>5, <1>6

-----------------------------------------------------------------------------
(* Queries and their answers                                               *)

\* What the code's arguments of a listing can be.
Args == [output : {"list", "tree"}, path : Seq(Name), limit : Nat, offset : Nat,
         sort : {"none", "name", "size"}]

\* What a client may ask: a query, or one for a later page.
Asked == [output : Param({"list", "tree"}), path : Seq(Name), limit : Param(Int),
          offset : Param(Int), sort : Param({"name", "size"})]

\* What there is before it is cut into pages.
Whole(files, args) ==
  sortItems(IF args.output = "list" THEN buildList(files, args.path)
            ELSE buildTree(files, args.path), args.sort)

LEMMA WholeListing ==
  ASSUME NEW files \in Seq(File), NEW args \in Args,
         args.output = "tree" => ~TreePanics(files, args.path)
  PROVE  /\ Whole(files, args) \in Seq(Real(files))
         /\ ListGet(files, args).status = 200
         /\ ListGet(files, args).items = paginate(Whole(files, args), args.limit, args.offset)
         /\ ListGet(files, args).count = Len(Whole(files, args))
         /\ Sorts(Whole(files, args),
                  IF args.output = "list" THEN buildList(files, args.path)
                  ELSE buildTree(files, args.path), args.sort)
<1> DEFINE items == IF args.output = "list" THEN buildList(files, args.path)
                    ELSE buildTree(files, args.path)
<1>1. args.path \in Seq(Name) /\ args.output \in {"list", "tree"}
  BY DEF Args
<1>2. items \in Seq(Real(files))
  <2>1. CASE args.output = "list"
    BY <1>1, <2>1, RealList
  <2>2. CASE args.output # "list"
    BY <1>1, <2>2, TreeGrows
  <2> QED
    BY <2>1, <2>2
<1> HIDE DEF items
<1>3. items \in Seq(Entry)
  BY <1>2 DEF Real
<1>4. Sorts(sortItems(items, args.sort), items, args.sort)
  BY <1>3, ItemsSorted
<1>5. sortItems(items, args.sort) \in Seq(Real(files))
  BY <1>2, <1>4, SortKeeps
<1>6. Whole(files, args) = sortItems(items, args.sort)
  BY DEF Whole, items
<1>7. /\ ListGet(files, args).status = 200
      /\ ListGet(files, args).items = paginate(Whole(files, args), args.limit, args.offset)
      /\ ListGet(files, args).count = Len(Whole(files, args))
  BY DEF ListGet, Whole
<1> QED
  BY <1>4, <1>5, <1>6, <1>7 DEF items

LEMMA QueryArgs ==
  ASSUME NEW q \in Asked, ~Refused(q)
  PROVE  /\ ListGetArgsFromParams(q) \in Args
         /\ ListGetArgsFromParams(q).limit # 0
         /\ q.limit # Absent => q.limit \in Nat \ {0} /\ ListGetArgsFromParams(q).limit = q.limit
         /\ q.offset # Absent => q.offset \in Nat /\ ListGetArgsFromParams(q).offset = q.offset
         /\ q.offset = Absent => ListGetArgsFromParams(q).offset = 0
         /\ ListGetArgsFromParams(q).path = q.path
         /\ ListGetArgsFromParams(q).output = IF q.output = Absent THEN "list" ELSE q.output
         /\ ListGetArgsFromParams(q).sort = IF q.sort = Absent THEN "none" ELSE q.sort
<1>1. /\ q.output \in {"list", "tree", Absent, Malformed}
      /\ q.path \in Seq(Name) /\ q.limit \in Int \cup {Absent, Malformed}
      /\ q.offset \in Int \cup {Absent, Malformed}
      /\ q.sort \in {"name", "size", Absent, Malformed}
  BY DEF Asked, Param
<1>2. /\ q.output # Malformed /\ q.limit # Malformed /\ q.offset # Malformed
      /\ q.sort # Malformed
      /\ q.limit # Absent => q.limit \in 1..MaxLimit
      /\ q.offset # Absent => ~(q.offset < 0)
  BY DEF Refused
<1>3. MaxLimit \in Nat \ {0}
  BY ListAssumptions
<1>4. /\ q.limit # Absent => q.limit \in Nat \ {0}
      /\ q.offset # Absent => q.offset \in Nat
  BY <1>1, <1>2, <1>3
<1>5. /\ ListGetArgsFromParams(q).limit = IF q.limit = Absent THEN MaxLimit ELSE q.limit
      /\ ListGetArgsFromParams(q).offset = IF q.offset = Absent THEN 0 ELSE q.offset
      /\ ListGetArgsFromParams(q).path = q.path
      /\ ListGetArgsFromParams(q).output = IF q.output = Absent THEN "list" ELSE q.output
      /\ ListGetArgsFromParams(q).sort = IF q.sort = Absent THEN "none" ELSE q.sort
  BY DEF ListGetArgsFromParams
<1>6. ListGetArgsFromParams(q) \in Args
  <2>1. /\ (IF q.limit = Absent THEN MaxLimit ELSE q.limit) \in Nat
        /\ (IF q.offset = Absent THEN 0 ELSE q.offset) \in Nat
        /\ (IF q.output = Absent THEN "list" ELSE q.output) \in {"list", "tree"}
        /\ (IF q.sort = Absent THEN "none" ELSE q.sort) \in {"none", "name", "size"}
    BY <1>1, <1>2, <1>3, <1>4
  <2> QED
    BY <1>1, <2>1 DEF ListGetArgsFromParams, Args
<1> QED
  BY <1>3, <1>4, <1>5, <1>6

\* What an answer says of the query it was given to.
LEMMA Answers ==
  ASSUME NEW files \in Seq(File), NEW q \in Asked
  PROVE  /\ getList(files, q).status \in {200, 400, 500}
         /\ getList(files, q).status = 200 =>
              LET args == ListGetArgsFromParams(q)
              IN  /\ ~Refused(q)
                  /\ args.output = "tree" => ~TreePanics(files, args.path)
                  /\ getList(files, q) = ListGet(files, args)
                  /\ getList(files, q).items \in Seq(Real(files))
<1> DEFINE args == ListGetArgsFromParams(q)
<1>1. CASE Refused(q)
  BY <1>1 DEF getList
<1>2. CASE ~Refused(q) /\ args.output = "tree" /\ TreePanics(files, args.path)
  BY <1>2 DEF getList
<1>3. CASE ~Refused(q) /\ ~(args.output = "tree" /\ TreePanics(files, args.path))
  <2>1. getList(files, q) = ListGet(files, args)
    BY <1>3 DEF getList
  <2>2. args \in Args
    BY <1>3, QueryArgs
  <2> HIDE DEF args
  <2>3. /\ Whole(files, args) \in Seq(Real(files))
        /\ ListGet(files, args).status = 200
        /\ ListGet(files, args).items = paginate(Whole(files, args), args.limit, args.offset)
    BY <1>3, <2>2, WholeListing
  <2>4. args.limit \in Nat /\ args.offset \in Nat
    BY <2>2 DEF Args
  <2>5. paginate(Whole(files, args), args.limit, args.offset) \in Seq(Real(files))
    BY <2>3, <2>4, PageIsPart
  <2> QED
    BY <1>3, <2>1, <2>3, <2>5 DEF args
<1> QED
  BY <1>1, <1>2, <1>3

\* The whole listing is what a query without a limit would get.
LEMMA Unlimited ==
  ASSUME NEW files \in Seq(File), NEW args \in Args,
         args.output = "tree" => ~TreePanics(files, args.path)
  PROVE  ListGet(files, Unpaged(args)).items = Whole(files, args)
<1> DEFINE all == Unpaged(args)
<1>1. /\ all \in Args /\ all.limit = 0 /\ all.offset = 0 /\ all.output = args.output
      /\ all.path = args.path /\ all.sort = args.sort
  BY DEF Args, Unpaged
<1> HIDE DEF all
<1>2. Whole(files, all) = Whole(files, args)
  BY <1>1 DEF Whole
<1>3. /\ Whole(files, all) \in Seq(Real(files))
      /\ ListGet(files, all).items = paginate(Whole(files, all), 0, 0)
  BY <1>1, WholeListing
<1>4. paginate(Whole(files, all), 0, 0) = Whole(files, all)
  BY DEF paginate
<1> QED
  BY <1>2, <1>3, <1>4 DEF all

-----------------------------------------------------------------------------
(* Exporting what was listed                                               *)

LEMMA PrefixOf ==
  ASSUME NEW S, NEW f \in Seq(S), NEW k \in Nat, k <= Len(f)
  PROVE  IsPrefix(SubSeq(f, 1, k), f)
<1> DEFINE d == SubSeq(f, 1, k)
<1>1. d \in Seq(S) /\ Len(d) = k
  BY FirstFew
<1>2. SubSeq(d, 1, k) = SubSeq(f, 1, k)
  BY FrontOfFront
<1> HIDE DEF d
<1> QED
  BY <1>1, <1>2 DEF IsPrefix, d

\* No two items of a torrent have the same path, and so the same id, but for
\* directories that were listed twice.
LEMMA PathsTell ==
  ASSUME NEW files \in Torrent, NEW x \in Real(files), NEW y \in Real(files), x.path = y.path
  PROVE  x.type = y.type /\ x.index = y.index
<1>1. files \in Seq(File)
  BY ListAssumptions
<1>2. \A i, j \in DOMAIN files : IsPrefix(files[i].path, files[j].path) => i = j
  BY ListAssumptions
<1> DEFINE Dir(z) == /\ z.type = "directory" /\ z.index = 0
                     /\ \E i \in DOMAIN files :
                          \E k \in 1..(Len(files[i].path) - 1) : z.path = SubSeq(files[i].path, 1, k)
           File1(z) == \E i \in DOMAIN files : z = buildFile(files, i)
<1>3. ASSUME NEW z \in Real(files) PROVE Dir(z) \/ File1(z)
  BY DEF Real
<1>4. ASSUME NEW a, NEW b, File1(a), File1(b), a.path = b.path
      PROVE  a.type = b.type /\ a.index = b.index
  <2>1. PICK i \in DOMAIN files : a = buildFile(files, i)
    BY <1>4
  <2>2. PICK j \in DOMAIN files : b = buildFile(files, j)
    BY <1>4
  <2>3. files[i].path = files[j].path
    BY <1>1, <1>4, <2>1, <2>2, FileEntry
  <2>4. IsPrefix(files[i].path, files[j].path)
    <3>1. files[i].path \in Seq(Name)
      BY <1>1, FilesAreFiles
    <3> QED
      BY <2>3, <3>1 DEF IsPrefix
  <2> QED
    BY <1>2, <2>1, <2>2, <2>4
<1>5. ASSUME NEW a, NEW b, File1(a), Dir(b), a.path = b.path PROVE FALSE
  <2>1. PICK i \in DOMAIN files : a = buildFile(files, i)
    BY <1>5
  <2>2. PICK j \in DOMAIN files :
          \E k \in 1..(Len(files[j].path) - 1) : b.path = SubSeq(files[j].path, 1, k)
    BY <1>5
  <2>9. PICK k \in 1..(Len(files[j].path) - 1) : b.path = SubSeq(files[j].path, 1, k)
    BY <2>2
  <2>3. files[j].path \in Seq(Name) /\ Len(files[j].path) \in Nat
    BY <1>1, FilesAreFiles
  <2>4. k \in Nat /\ k < Len(files[j].path)
    BY <2>3
  <2>5. files[i].path = SubSeq(files[j].path, 1, k)
    BY <1>1, <1>5, <2>1, <2>9, FileEntry
  <2>6. IsPrefix(files[i].path, files[j].path)
    BY <2>3, <2>4, <2>5, PrefixOf
  <2>7. i = j
    BY <1>2, <2>6
  <2>8. Len(files[i].path) = k
    BY <2>3, <2>4, <2>5, FirstFew
  <2> QED
    BY <2>3, <2>4, <2>7, <2>8
<1>6. ASSUME NEW a, NEW b, Dir(a), Dir(b) PROVE a.type = b.type /\ a.index = b.index
  BY <1>6
<1> HIDE DEF Dir, File1
<1> QED
  BY <1>3, <1>4, <1>5, <1>6

\* The whole listing of a torrent shows everything that any listing may.
LEMMA AllIsListed ==
  ASSUME NEW files \in Seq(File), NEW x \in Real(files)
  PROVE  \E k \in 1..Len(buildList(files, <<>>)) : buildList(files, <<>>)[k].path = x.path
<1> DEFINE W == Listed(files, <<>>, Len(files))
<1>0. <<>> \in Seq(Name) /\ Len(<<>>) = 0
  OBVIOUS
<1>1. Enumerates(buildList(files, <<>>), W)
  BY <1>0, ListBuilt
<1>2. PICK i \in DOMAIN files :
        \/ x = buildFile(files, i)
        \/ /\ x.type = "directory" /\ x.index = 0
           /\ \E k \in 1..(Len(files[i].path) - 1) : x.path = SubSeq(files[i].path, 1, k)
  BY DEF Real
<1>3. i \in Matching(files, <<>>) \cap 1..Len(files)
  BY FilesAreFiles DEF Matching, pathBeginsWith
<1>4. \E w \in W : w.path = x.path
  <2>1. CASE x = buildFile(files, i)
    <3>1. x \in FilesOf(files, <<>>, Len(files))
      BY <1>3, <2>1, ListedMembers
    <3> QED
      BY <3>1 DEF Listed
  <2>2. CASE \E k \in 1..(Len(files[i].path) - 1) : x.path = SubSeq(files[i].path, 1, k)
    <3>1. PICK k \in 1..(Len(files[i].path) - 1) : x.path = SubSeq(files[i].path, 1, k)
      BY <2>2
    <3>2. Len(files[i].path) \in Nat \ {0}
      BY FilesAreFiles
    <3>3. Depth(files[i], <<>>) = Len(files[i].path) - 1
      BY <1>0, <3>2 DEF Depth
    <3>4. k \in 1..Depth(files[i], <<>>) /\ 0 + k = k
      BY <3>2, <3>3
    <3> DEFINE w == Above(files, <<>>, i, k)
    <3>5. w.path = SubSeq(files[i].path, 1, Len(<<>>) + k)
      BY <1>0, <1>3, <3>4, AboveEntry
    <3>6. w \in Dirs(files, <<>>, i, Depth(files[i], <<>>))
      BY <3>4 DEF Dirs
    <3> HIDE DEF w
    <3>7. w \in DirsOf(files, <<>>, Len(files))
      BY <1>3, <3>6, ListedMembers
    <3>8. w.path = x.path
      BY <1>0, <3>1, <3>4, <3>5
    <3> QED
      BY <3>7, <3>8 DEF Listed
  <2> QED
    BY <1>2, <2>1, <2>2
<1> HIDE DEF W
<1>5. PICK w \in W : w.path = x.path
  BY <1>4
<1>6. PICK k \in 1..Len(buildList(files, <<>>)) : buildList(files, <<>>)[k] = w
  BY <1>1, <1>5 DEF Enumerates
<1> QED
  BY <1>5, <1>6

\* What an export finds when it looks for something a listing showed.
LEMMA ExportFinds ==
  ASSUME NEW files \in Torrent, NEW x \in Real(files)
  PROVE  /\ LET found == getExport(files, "id", x.path)
            IN  /\ found.status = 200 /\ found.item.path = x.path
                /\ found.item.type = x.type /\ found.item.index = x.index
         /\ x.type = "file" =>
              LET found == getExport(files, "index", x.index)
              IN  /\ found.status = 200 /\ found.item.path = x.path
                  /\ found.item.type = x.type /\ found.item.index = x.index
<1>0. files \in Seq(File)
  BY ListAssumptions
<1>1. ASSUME x.type = "file"
      PROVE  LET found == getExport(files, "index", x.index)
             IN  /\ found.status = 200 /\ found.item.path = x.path
                 /\ found.item.type = x.type /\ found.item.index = x.index
  <2>1. PICK i \in DOMAIN files : x = buildFile(files, i)
    BY <1>1 DEF Real
  <2>2. x.index = i - 1 /\ i \in Nat
    BY <1>0, <2>1, FileEntry, FilesAreFiles
  <2>3. x.index + 1 = i
    BY <2>2
  <2>4. getExport(files, "index", x.index) = [status |-> 200, item |-> x]
    BY <2>1, <2>3 DEF getExport
  <2> QED
    BY <2>4
<1> DEFINE all == ListGet(files, NewListGetArgs)
           items == buildList(files, <<>>)
           same == {i \in DOMAIN all.items : all.items[i].path = x.path}
<1>2. all.items = items
  <2>1. NewListGetArgs \in Args
    BY DEF NewListGetArgs, Args
  <2>2. /\ NewListGetArgs.limit = 0 /\ NewListGetArgs.offset = 0 /\ NewListGetArgs.path = <<>>
        /\ NewListGetArgs.output = "list" /\ NewListGetArgs.sort = "none"
    BY DEF NewListGetArgs
  <2>3. all.items = paginate(Whole(files, NewListGetArgs), 0, 0)
    BY <1>0, <2>1, <2>2, WholeListing
  <2>4. Whole(files, NewListGetArgs) = items
    BY <2>2 DEF Whole, sortItems
  <2>5. paginate(items, 0, 0) = items
    BY DEF paginate
  <2> QED
    BY <2>3, <2>4, <2>5
<1>3. items \in Seq(Real(files))
  <2>1. <<>> \in Seq(Name)
    OBVIOUS
  <2> QED
    BY <1>0, <2>1, RealList
<1>4. \E k \in 1..Len(items) : items[k].path = x.path
  BY <1>0, AllIsListed
<1> HIDE DEF items
<1>5. same # {} /\ same \subseteq Nat /\ same \subseteq DOMAIN items
  BY <1>2, <1>3, <1>4
<1>6. getExport(files, "id", x.path) = [status |-> 200, item |-> all.items[Min(same)]]
  BY <1>5 DEF getExport
<1>7. Min(same) \in same
  <2>1. PICK m \in same : \A y \in same : ~(y < m)
    BY <1>5, LeastNatural
  <2>2. \A y \in same : m <= y
    BY <1>5, <2>1
  <2> HIDE DEF same
  <2> QED
    BY <2>2 DEF Min
<1> DEFINE y == items[Min(same)]
<1>8. y \in Real(files) /\ y.path = x.path
  BY <1>2, <1>3, <1>5, <1>7
<1> HIDE DEF all, same
<1>9. y.type = x.type /\ y.index = x.index
  BY <1>8, PathsTell
<1>10. getExport(files, "id", x.path) = [status |-> 200, item |-> y]
  BY <1>2, <1>6
<1> HIDE DEF y
<1>11. /\ getExport(files, "id", x.path).status = 200
       /\ getExport(files, "id", x.path).item = y
  BY <1>10
<1> QED
  BY <1>1, <1>8, <1>9, <1>11 DEF Real, y

-----------------------------------------------------------------------------
(* The invariant                                                           *)

\* The listing the client has is the answer to its query.
Answered == listing = NoListing \/ listing = getList(torrent, query)

Exported == exported.found.status \in {0, 200, 404, 500} /\ ItemsExport

ListInvariant ==
  /\ torrent \in Torrent
  /\ query \in Asked
  /\ Answered
  /\ Exported
  /\ walk \in Seq(Real(torrent))
  /\ PagesCover

\* What follows from a listing being an answer.
LEMMA ListingShows ==
  ASSUME torrent \in Torrent, query \in Asked, Answered
  PROVE  /\ torrent \in Seq(File)
         /\ listing.status \in {0, 200, 400, 500}
         /\ listing.status = 200 =>
              LET args == ListGetArgsFromParams(query)
              IN  /\ ~Refused(query) /\ args \in Args
                  /\ args.output = "tree" => ~TreePanics(torrent, args.path)
                  /\ listing = ListGet(torrent, args)
                  /\ listing.items \in Seq(Real(torrent))
<1>1. torrent \in Seq(File)
  BY ListAssumptions
<1>2. CASE listing = NoListing
  BY <1>1, <1>2 DEF NoListing
<1>3. CASE listing = getList(torrent, query)
  <2>1. listing.status \in {200, 400, 500}
    BY <1>1, <1>3, Answers
  <2>2. ASSUME listing.status = 200
        PROVE  LET args == ListGetArgsFromParams(query)
               IN  /\ ~Refused(query)
                   /\ args.output = "tree" => ~TreePanics(torrent, args.path)
                   /\ listing = ListGet(torrent, args)
                   /\ listing.items \in Seq(Real(torrent))
    BY <1>1, <1>3, <2>2, Answers
  <2>3. listing.status = 200 => ListGetArgsFromParams(query) \in Args
    BY <2>2, QueryArgs
  <2> QED
    BY <1>1, <2>1, <2>2, <2>3
<1> QED
  BY <1>2, <1>3 DEF Answered

\* Pages: how the first of them covers the listing, and how one more does.
LEMMA FirstPage ==
  ASSUME NEW files \in Seq(File), NEW q \in Asked, getList(files, q).status = 200
  PROVE  LET args  == ListGetArgsFromParams(q)
             whole == Whole(files, args)
             items == getList(files, q).items
         IN  /\ args \in Args /\ whole \in Seq(Real(files)) /\ items \in Seq(Real(files))
             /\ ListGet(files, Unpaged(args)).items = whole
             /\ getList(files, q).count = Len(whole)
             /\ items = SubSeq(whole, args.offset + 1, args.offset + Len(items))
             /\ Len(items) <= args.limit
             /\ Len(items) < args.limit => args.offset + Len(items) >= Len(whole)
             /\ Len(items) = Len(whole) => items = whole
             /\ args.offset + Len(items) <= Len(whole) \/ items = <<>>
<1> DEFINE args == ListGetArgsFromParams(q)
           whole == Whole(files, args)
<1>1. /\ ~Refused(q)
      /\ args.output = "tree" => ~TreePanics(files, args.path)
      /\ getList(files, q) = ListGet(files, args)
      /\ getList(files, q).items \in Seq(Real(files))
  BY Answers
<1>2. args \in Args /\ args.limit # 0
  BY <1>1, QueryArgs
<1> HIDE DEF args
<1>3. args.limit \in Nat /\ args.offset \in Nat
  BY <1>2 DEF Args
<1>4. /\ whole \in Seq(Real(files))
      /\ ListGet(files, args).items = paginate(whole, args.limit, args.offset)
      /\ ListGet(files, args).count = Len(whole)
  BY <1>1, <1>2, WholeListing
<1>5. ListGet(files, Unpaged(args)).items = whole
  <2>1. args.output = "tree" => ~TreePanics(files, args.path)
    BY <1>1
  <2>2. args \in Args
    BY <1>2
  <2> QED
    BY <2>1, <2>2, Unlimited
<1> HIDE DEF whole
<1> DEFINE page == paginate(whole, args.limit, args.offset)
<1>6. /\ page = SubSeq(whole, args.offset + 1, args.offset + Len(page))
      /\ args.limit # 0 => Len(page) <= args.limit
      /\ args.limit # 0 /\ Len(page) < args.limit => args.offset + Len(page) >= Len(whole)
      /\ Len(page) = Len(whole) => page = whole
      /\ args.offset + Len(page) <= Len(whole) \/ page = <<>>
  <2>1. PICK l \in Nat : l = args.limit
    BY <1>3
  <2>2. PICK o \in Nat : o = args.offset
    BY <1>3
  <2>3. PICK w \in Seq(Real(files)) : w = whole
    BY <1>4
  <2> DEFINE p == paginate(w, l, o)
  <2>4. /\ p = SubSeq(w, o + 1, o + Len(p))
        /\ l # 0 => Len(p) <= l
        /\ l # 0 /\ Len(p) < l => o + Len(p) >= Len(w)
        /\ Len(p) = Len(w) => p = w
        /\ o + Len(p) <= Len(w) \/ p = <<>>
    BY PageIsPart
  <2>5. p = page
    BY <2>1, <2>2, <2>3
  <2> HIDE DEF p, page
  <2> QED
    BY <2>1, <2>2, <2>3, <2>4, <2>5
<1> QED
  BY <1>1, <1>2, <1>4, <1>5, <1>6 DEF args, whole

\* The query for the page after one that is full.
LEMMA TurnPage ==
  ASSUME NEW files \in Seq(File), NEW q \in Asked, getList(files, q).status = 200,
         q.limit # Absent, Len(getList(files, q).items) >= q.limit,
         NEW r, r = [q EXCEPT !.offset = (IF q.offset = Absent THEN 0 ELSE q.offset) + q.limit]
  PROVE  /\ r \in Asked /\ getList(files, r).status = 200
         /\ ListGetArgsFromParams(r).offset
              = ListGetArgsFromParams(q).offset + Len(getList(files, q).items)
         /\ Whole(files, ListGetArgsFromParams(r)) = Whole(files, ListGetArgsFromParams(q))
<1> DEFINE offset == (IF q.offset = Absent THEN 0 ELSE q.offset) + q.limit
<1>1. /\ ~Refused(q)
      /\ ListGetArgsFromParams(q).output = "tree" =>
           ~TreePanics(files, ListGetArgsFromParams(q).path)
  BY Answers
<1>2. /\ q.limit \in Nat \ {0} /\ ListGetArgsFromParams(q).limit = q.limit
      /\ q.offset # Absent => q.offset \in Nat
      /\ ListGetArgsFromParams(q).offset = IF q.offset = Absent THEN 0 ELSE q.offset
      /\ ListGetArgsFromParams(q).path = q.path
      /\ ListGetArgsFromParams(q).output = IF q.output = Absent THEN "list" ELSE q.output
      /\ ListGetArgsFromParams(q).sort = IF q.sort = Absent THEN "none" ELSE q.sort
  BY <1>1, QueryArgs
<1>3. offset \in Nat /\ offset # Absent /\ offset # Malformed
  BY <1>2, ListAssumptions
<1>4. r = [q EXCEPT !.offset = offset]
  OBVIOUS
<1>5. offset = ListGetArgsFromParams(q).offset + q.limit
  BY <1>2
<1> HIDE DEF offset
<1>6. /\ q \in [output : Param({"list", "tree"}), path : Seq(Name), limit : Param(Int),
                offset : Param(Int), sort : Param({"name", "size"})]
      /\ offset \in Param(Int)
  BY <1>3 DEF Asked, Param
<1>7. /\ r \in Asked /\ r.offset = offset /\ r.limit = q.limit /\ r.path = q.path
      /\ r.output = q.output /\ r.sort = q.sort
  BY <1>4, <1>6 DEF Asked
<1>8. ~Refused(r)
  <2>1. /\ Malformed \notin {q.output, q.limit, q.offset, q.sort}
        /\ q.limit \in 1..MaxLimit
    BY <1>1 DEF Refused
  <2>2. Malformed \notin {r.output, r.limit, r.offset, r.sort}
    BY <1>3, <1>7, <2>1
  <2> QED
    BY <1>3, <1>7, <2>1, <2>2 DEF Refused
<1>9. /\ ListGetArgsFromParams(r).offset = offset
      /\ ListGetArgsFromParams(r).path = q.path
      /\ ListGetArgsFromParams(r).output = IF q.output = Absent THEN "list" ELSE q.output
      /\ ListGetArgsFromParams(r).sort = IF q.sort = Absent THEN "none" ELSE q.sort
  <2>1. /\ r.offset # Absent => ListGetArgsFromParams(r).offset = r.offset
        /\ ListGetArgsFromParams(r).path = r.path
        /\ ListGetArgsFromParams(r).output = IF r.output = Absent THEN "list" ELSE r.output
        /\ ListGetArgsFromParams(r).sort = IF r.sort = Absent THEN "none" ELSE r.sort
    <3>1. r \in Asked
      BY <1>7
    <3> QED
      BY <1>8, <3>1, QueryArgs
  <2> QED
    BY <1>3, <1>7, <2>1
<1>10. Whole(files, ListGetArgsFromParams(r)) = Whole(files, ListGetArgsFromParams(q))
  BY <1>2, <1>9 DEF Whole
<1>11. getList(files, r).status = 200
  <2>1. getList(files, r) = ListGet(files, ListGetArgsFromParams(r))
    BY <1>1, <1>2, <1>8, <1>9 DEF getList
  <2> QED
    BY <2>1 DEF ListGet
<1>12. Len(getList(files, q).items) = q.limit
  <2>1. Len(getList(files, q).items) <= ListGetArgsFromParams(q).limit
    BY FirstPage
  <2>2. getList(files, q).items \in Seq(Real(files))
    BY FirstPage
  <2>3. Len(getList(files, q).items) \in Nat
    BY <2>2
  <2> QED
    BY <1>2, <2>1, <2>3
<1> QED
  BY <1>5, <1>7, <1>9, <1>10, <1>11, <1>12

\* A client that is shown a listing: what holds whatever it had before.
LEMMA ShowAnswers ==
  ASSUME torrent \in Torrent, NEW q \in Asked, Show(q)
  PROVE  /\ torrent' = torrent /\ torrent' \in Torrent /\ torrent' \in Seq(File)
         /\ query' = q /\ listing' = getList(torrent, q) /\ Answered' /\ Exported'
<1>1. /\ torrent' = torrent /\ query' = q /\ listing' = getList(torrent, q)
      /\ exported' = NoExport
  BY DEF Show
<1>2. Answered'
  BY <1>1 DEF Answered
<1>3. Exported'
  BY <1>1 DEF Exported, ItemsExport, NoExport
<1> QED
  BY <1>1, <1>2, <1>3, ListAssumptions

\* What the client gets when it exports what it was shown (web.go getExport).
LEMMA ExportShown ==
  ASSUME ListInvariant, GetExport
  PROVE  Exported'
<1>1. /\ torrent \in Torrent /\ torrent \in Seq(File) /\ listing.status = 200
      /\ listing.items \in Seq(Real(torrent))
  <2>1. listing.status = 200
    BY DEF GetExport
  <2> QED
    BY <2>1, ListingShows DEF ListInvariant
<1>2. PICK item \in ToSet(listing.items) \cup {listing.root} :
        \E by \in IF item.type = "file" THEN {"id", "index"} ELSE {"id"} :
          exported' = [found |-> getExport(torrent, by, IF by = "id" THEN item.path
                                                                     ELSE item.index),
                       asked |-> item, root |-> item = listing.root]
  BY DEF GetExport
<1>3. PICK by \in IF item.type = "file" THEN {"id", "index"} ELSE {"id"} :
        exported' = [found |-> getExport(torrent, by, IF by = "id" THEN item.path
                                                                   ELSE item.index),
                     asked |-> item, root |-> item = listing.root]
  BY <1>2
<1> DEFINE found == getExport(torrent, by, IF by = "id" THEN item.path ELSE item.index)
<1>4. exported'.found = found /\ exported'.asked = item /\ exported'.root = (item = listing.root)
  BY <1>3
<1>5. found.status \in {0, 200, 404, 500}
  <2> DEFINE content == IF by = "id" THEN item.path ELSE item.index
             all == ListGet(torrent, NewListGetArgs)
             same == {i \in DOMAIN all.items : all.items[i].path = content}
  <2>1. CASE by = "index"
    BY <2>1 DEF getExport
  <2>2. CASE by # "index"
    <3>1. found = IF same # {} THEN [status |-> 200, item |-> all.items[Min(same)]]
                  ELSE IF all.root.path = content THEN [status |-> 200, item |-> all.root]
                  ELSE [status |-> 404]
      BY <2>2 DEF getExport
    <3> HIDE DEF all, same, content, found
    <3> QED
      BY <3>1
  <2> QED
    BY <2>1, <2>2
<1>6. ASSUME item # listing.root
      PROVE  /\ found.status = 200 /\ found.item.path = item.path
             /\ found.item.type = item.type /\ found.item.index = item.index
  <2>1. item \in Real(torrent)
    <3>1. item \in ToSet(listing.items)
      BY <1>6
    <3> QED
      BY <1>1, <3>1, OwnElements
  <2>2. CASE by = "id"
    BY <1>1, <2>1, <2>2, ExportFinds
  <2>3. CASE by # "id"
    <3>1. by = "index" /\ item.type = "file"
      BY <2>3
    <3> QED
      BY <1>1, <2>1, <3>1, ExportFinds
  <2> QED
    BY <2>2, <2>3
<1> HIDE DEF found
<1>7. ItemsExport'
  BY <1>4, <1>6 DEF ItemsExport
<1> QED
  BY <1>4, <1>5, <1>7 DEF Exported

\* What PagesCover says, of the variables' values.
Covers(files, q, answer, turned) ==
  LET args  == ListGetArgsFromParams(q)
      whole == ListGet(files, Unpaged(args)).items
      first == args.offset + Len(answer.items) - Len(turned)
  IN  /\ answer.count = Len(whole)
      /\ first >= 0 /\ turned = SubSeq(whole, first + 1, first + Len(turned))
      /\ Len(answer.items) < args.limit => first + Len(turned) >= Len(whole)

LEMMA CoverUnprimed ==
  PagesCover <=> (listing.status = 200 => Covers(torrent, query, listing, walk))
BY DEF PagesCover, Covers

LEMMA CoverPrimed ==
  PagesCover' <=> (listing'.status = 200 => Covers(torrent', query', listing', walk'))
BY DEF PagesCover, Covers

LEMMA PagesStart ==
  ASSUME torrent \in Torrent, NEW q \in Asked, Show(q),
         walk' = IF listing'.status = 200 THEN listing'.items ELSE <<>>
  PROVE  PagesCover' /\ walk' \in Seq(Real(torrent'))
<1> DEFINE args == ListGetArgsFromParams(q)
           items == getList(torrent, q).items
           w == Whole(torrent, args)
<1>1. torrent' = torrent /\ torrent \in Seq(File) /\ query' = q /\ listing' = getList(torrent, q)
  BY ShowAnswers
<1> SUFFICES ASSUME listing'.status = 200 PROVE PagesCover' /\ walk' \in Seq(Real(torrent'))
  BY CoverPrimed
<1>2. /\ args \in Args /\ w \in Seq(Real(torrent)) /\ items \in Seq(Real(torrent))
      /\ ListGet(torrent, Unpaged(args)).items = w
      /\ getList(torrent, q).count = Len(w)
      /\ items = SubSeq(w, args.offset + 1, args.offset + Len(items))
      /\ Len(items) < args.limit => args.offset + Len(items) >= Len(w)
  BY <1>1, FirstPage
<1>3. walk' = items /\ listing'.items = items /\ listing'.count = Len(w)
  BY <1>1, <1>2
<1>4. args.offset \in Nat /\ Len(items) \in Nat
  BY <1>2 DEF Args
<1> DEFINE first == args.offset + Len(items) - Len(items)
<1>5. first = args.offset
  BY <1>4
<1>6. /\ first >= 0 /\ items = SubSeq(w, first + 1, first + Len(items))
      /\ Len(items) < args.limit => first + Len(items) >= Len(w)
  BY <1>2, <1>4, <1>5
<1>7. Covers(torrent, q, getList(torrent, q), items)
  BY <1>2, <1>6 DEF Covers
<1> HIDE DEF items
<1> QED
  BY <1>1, <1>2, <1>3, <1>7, CoverPrimed

LEMMA PagesGoOn ==
  ASSUME ListInvariant, NextPage
  PROVE  ListInvariant'
<1> DEFINE r == [query EXCEPT !.offset = (IF query.offset = Absent THEN 0 ELSE query.offset)
                                         + query.limit]
           old == ListGetArgsFromParams(query)
           new == ListGetArgsFromParams(r)
           w == Whole(torrent, old)
           shown == listing.items
           next == getList(torrent, r).items
           first == old.offset + Len(shown) - Len(walk)
<1>1. /\ torrent \in Torrent /\ query \in Asked /\ Answered /\ PagesCover
      /\ listing.status = 200 /\ query.limit # Absent /\ Len(shown) >= query.limit
      /\ Show(r) /\ walk' = walk \o listing'.items
  BY DEF ListInvariant, NextPage
<1>2. torrent \in Seq(File)
  BY <1>1, ListAssumptions
<1>3. listing = getList(torrent, query)
  BY <1>1 DEF Answered, NoListing
<1>4. /\ r \in Asked /\ getList(torrent, r).status = 200
      /\ new.offset = old.offset + Len(shown)
      /\ Whole(torrent, new) = w
  BY <1>1, <1>2, <1>3, TurnPage
<1>5. /\ torrent' = torrent /\ torrent' \in Torrent /\ query' = r
      /\ listing' = getList(torrent, r) /\ Answered' /\ Exported'
  BY <1>1, <1>4, ShowAnswers
<1> HIDE DEF r
<1>6. /\ old \in Args /\ w \in Seq(Real(torrent)) /\ shown \in Seq(Real(torrent))
      /\ ListGet(torrent, Unpaged(old)).items = w
      /\ old.offset + Len(shown) <= Len(w) \/ shown = <<>>
  BY <1>1, <1>2, <1>3, FirstPage
<1>7. /\ new \in Args /\ next \in Seq(Real(torrent))
      /\ ListGet(torrent, Unpaged(new)).items = w
      /\ getList(torrent, r).count = Len(w)
      /\ next = SubSeq(w, new.offset + 1, new.offset + Len(next))
      /\ Len(next) < new.limit => new.offset + Len(next) >= Len(w)
      /\ new.offset + Len(next) <= Len(w) \/ next = <<>>
  BY <1>2, <1>4, FirstPage
<1>8. first >= 0 /\ walk = SubSeq(w, first + 1, first + Len(walk))
  <2>1. Covers(torrent, query, listing, walk)
    BY <1>1, CoverUnprimed
  <2>2. Len(listing.items) = Len(shown)
    OBVIOUS
  <2> HIDE DEF w, first
  <2> QED
    BY <1>6, <2>1 DEF Covers, first
<1>9. walk \in Seq(Real(torrent)) /\ Len(walk) \in Nat /\ Len(next) \in Nat
  <2>1. walk \in Seq(Real(torrent))
    BY DEF ListInvariant
  <2> HIDE DEF next
  <2>2. next \in Seq(Real(torrent))
    BY <1>7 DEF next
  <2> QED
    BY <2>1, <2>2
<1>10. /\ old.offset \in Nat /\ Len(shown) \in Nat /\ Len(shown) # 0
       /\ first \in Nat /\ first + Len(walk) = old.offset + Len(shown)
       /\ first + Len(walk) <= Len(w) /\ new.offset = first + Len(walk)
  <2>1. old.offset \in Nat
    BY <1>6 DEF Args
  <2>2. Len(shown) \in Nat
    BY <1>6
  <2>3. query.limit \in Nat \ {0}
    BY <1>1, <1>3, Answers, <1>2, QueryArgs
  <2>4. Len(shown) # 0
    BY <1>1, <2>2, <2>3
  <2>5. shown # <<>>
    BY <2>4
  <2>6. first \in Int
    BY <1>9, <2>1, <2>2
  <2> HIDE DEF shown
  <2>7. first \in Nat /\ first + Len(walk) = old.offset + Len(shown)
    BY <1>8, <1>9, <2>1, <2>2, <2>6
  <2> HIDE DEF first
  <2> QED
    BY <1>4, <1>6, <2>1, <2>2, <2>4, <2>5, <2>7
<1> HIDE DEF next, shown, first, w, old, new
<1>11. new.offset + Len(next) <= Len(w) \/ Len(next) = 0
  BY <1>7
<1>12. walk \o next = SubSeq(w, first + 1, first + Len(walk) + Len(next))
  <2>1. PICK a \in Nat : a = first
    BY <1>10
  <2>2. PICK m \in Nat : m = Len(walk)
    BY <1>9
  <2>3. PICK n \in Nat : n = Len(next)
    BY <1>9
  <2>4. a + m <= Len(w) /\ (a + m + n <= Len(w) \/ n = 0)
    BY <1>10, <1>11, <2>1, <2>2, <2>3
  <2>5. SubSeq(w, a + 1, a + m) \o SubSeq(w, a + m + 1, a + m + n) = SubSeq(w, a + 1, a + m + n)
    BY <1>6, <2>4, PartsJoin
  <2>6. walk = SubSeq(w, a + 1, a + m) /\ next = SubSeq(w, a + m + 1, a + m + n)
    BY <1>7, <1>8, <1>10, <2>1, <2>2, <2>3
  <2> QED
    BY <2>1, <2>2, <2>3, <2>5, <2>6
<1>13. /\ walk \o next \in Seq(Real(torrent))
       /\ Len(walk \o next) = Len(walk) + Len(next)
  <2>1. next \in Seq(Real(torrent))
    BY <1>7
  <2> QED
    BY <1>9, <2>1, ConcatProperties
<1> DEFINE again == new.offset + Len(next) - Len(walk \o next)
<1>14. again = first
  BY <1>9, <1>10, <1>13
<1>15. /\ again >= 0
       /\ walk \o next = SubSeq(w, again + 1, again + Len(walk \o next))
       /\ Len(next) < new.limit => again + Len(walk \o next) >= Len(w)
  <2>1. first + (Len(walk) + Len(next)) = first + Len(walk) + Len(next)
    BY <1>9, <1>10
  <2>2. first + Len(walk) + Len(next) = new.offset + Len(next)
    BY <1>10
  <2> HIDE DEF again
  <2> QED
    BY <1>7, <1>10, <1>12, <1>13, <1>14, <2>1, <2>2
<1>16. Covers(torrent, r, getList(torrent, r), walk \o next)
  BY <1>7, <1>15 DEF Covers, new, next
<1>17. walk' = walk \o next
  BY <1>1, <1>5 DEF next
<1>18. PagesCover'
  BY <1>5, <1>16, <1>17, CoverPrimed
<1> QED
  BY <1>4, <1>5, <1>13, <1>17, <1>18 DEF ListInvariant

\* The invariant of list.go's handlers and of a client of theirs.
THEOREM ListInvariantHolds == Spec => []ListInvariant
<1>1. Init => ListInvariant
  <2> SUFFICES ASSUME Init PROVE ListInvariant
    OBVIOUS
  <2>1. query \in Asked
    BY DEF Init, NoQuery, Asked, Param
  <2>2. Answered /\ PagesCover
    BY DEF Init, Answered, PagesCover, NoListing
  <2>3. Exported
    BY DEF Init, Exported, ItemsExport, NoExport
  <2>4. walk \in Seq(Real(torrent)) /\ torrent \in Torrent
    BY DEF Init
  <2> QED
    BY <2>1, <2>2, <2>3, <2>4 DEF ListInvariant
<1>2. ListInvariant /\ [Next]_vars => ListInvariant'
  <2> SUFFICES ASSUME ListInvariant, [Next]_vars PROVE ListInvariant'
    OBVIOUS
  <2>1. CASE GetList
    <3>1. PICK q \in Query : Show(q)
      BY <2>1 DEF GetList
    <3>2. walk' = IF listing'.status = 200 THEN listing'.items ELSE <<>>
      BY <2>1 DEF GetList
    <3>3. torrent \in Torrent
      BY DEF ListInvariant
    <3>4. q \in Asked
      BY ListAssumptions DEF Asked
    <3>5. PagesCover' /\ walk' \in Seq(Real(torrent'))
      BY <3>1, <3>2, <3>3, <3>4, PagesStart
    <3>6. torrent' \in Torrent /\ query' \in Asked /\ Answered' /\ Exported'
      BY <3>1, <3>3, <3>4, ShowAnswers
    <3> QED
      BY <3>5, <3>6 DEF ListInvariant
  <2>2. CASE NextPage
    BY <2>2, PagesGoOn
  <2>3. CASE GetExport
    <3>1. torrent' = torrent /\ torrent \in Torrent
      BY <2>3 DEF GetExport, ListInvariant
    <3>2. query' = NoQuery /\ listing' = NoListing /\ walk' = <<>>
      BY <2>3 DEF GetExport
    <3>3. query' \in Asked
      BY <3>2 DEF NoQuery, Asked, Param
    <3>4. Answered' /\ PagesCover'
      BY <3>2 DEF Answered, PagesCover, NoListing
    <3>5. Exported'
      BY <2>3, ExportShown
    <3>6. walk' \in Seq(Real(torrent'))
      BY <3>2
    <3> QED
      BY <3>1, <3>3, <3>4, <3>5, <3>6 DEF ListInvariant
  <2>4. CASE UNCHANGED vars
    <3>1. ListInvariant' = ListInvariant
      BY <2>4 DEF vars, ListInvariant, Answered, Exported, ItemsExport, PagesCover
    <3> QED
      BY <3>1
  <2> QED
    BY <2>1, <2>2, <2>3, <2>4 DEF Next
<1> QED
  BY <1>1, <1>2, PTL DEF Spec

\* A client that turns the pages of a listing sees every item once and in order,
\* whatever the torrent, the query and the limit (paginate in list.go).
THEOREM PagesAlwaysCover == Spec => []PagesCover
<1>1. ListInvariant => PagesCover
  BY DEF ListInvariant
<1> QED
  BY <1>1, ListInvariantHolds, PTL

\* Everything a listing shows can be exported by its id, and a file by its index,
\* and it is that item which is found (getExport in web.go).
THEOREM ItemsAlwaysExport == Spec => []ItemsExport
<1>1. ListInvariant => ItemsExport
  BY DEF ListInvariant, Exported
<1> QED
  BY <1>1, ListInvariantHolds, PTL

\* Every variable keeps its type, and no item has an index that is not one of
\* the torrent (buildFile in list.go).
THEOREM TypeCorrect == Spec => []TypeOK
<1>1. ListInvariant => TypeOK
  <2> SUFFICES ASSUME ListInvariant PROVE TypeOK
    OBVIOUS
  <2>1. /\ torrent \in Seq(File) /\ listing.status \in {0, 200, 400, 500}
        /\ listing.status = 200 => listing.items \in Seq(Real(torrent))
    BY ListingShows DEF ListInvariant
  <2>2. Real(torrent) \subseteq Item
    <3> SUFFICES ASSUME NEW x \in Real(torrent) PROVE x \in Item
      OBVIOUS
    <3>1. x \in Entry
      BY DEF Real
    <3>2. PICK i \in DOMAIN torrent : x = buildFile(torrent, i) \/ x.index = 0
      BY DEF Real
    <3>3. i \in 1..Len(torrent) /\ Len(torrent) \in Nat
      BY <2>1, FilesAreFiles
    <3>4. x = buildFile(torrent, i) => x.index = i - 1
      BY <2>1, FileEntry
    <3>5. x.index \in 0..(Len(torrent) - 1)
      BY <3>2, <3>3, <3>4
    <3> QED
      BY <3>1, <3>5 DEF Entry, Item
  <2>3. listing.status = 200 => listing.items \in Seq(Item)
    BY <2>1, <2>2
  <2>4. exported.found.status \in {0, 200, 404, 500} /\ query \in Asked
    BY DEF ListInvariant, Exported
  <2> QED
    BY <2>1, <2>3, <2>4 DEF TypeOK, Asked
<1> QED
  BY <1>1, ListInvariantHolds, PTL

-----------------------------------------------------------------------------
(* Listings as lists                                                       *)

LEMMA OneToOne ==
  ASSUME NEW A, IsFiniteSet(A), NEW T, NEW g \in [A -> T],
         \A x, y \in A : g[x] = g[y] => x = y, \A t \in T : \E x \in A : g[x] = t
  PROVE  IsFiniteSet(T) /\ Cardinality(A) = Cardinality(T)
<1>1. g \in Injection(A, T) /\ g \in Surjection(A, T)
  BY DEF Injection, IsInjective, Surjection
<1>2. g \in Bijection(A, T)
  BY <1>1 DEF Bijection
<1>3. ExistsBijection(A, T)
  BY <1>2 DEF ExistsBijection
<1> QED
  BY <1>3, FS_Bijection

LEMMA PrefixIs ==
  ASSUME NEW S, NEW s \in Seq(S), NEW t \in Seq(S)
  PROVE  IsPrefix(s, t) <=> Len(s) <= Len(t) /\ \A k \in 1..Len(s) : s[k] = t[k]
<1>1. SubSeq(s, 1, Len(s)) = s
  OBVIOUS
<1>2. CASE Len(s) <= Len(t)
  <2> DEFINE u == SubSeq(t, 1, Len(s))
  <2>1. u \in Seq(S) /\ Len(u) = Len(s) /\ \A k \in 1..Len(s) : u[k] = t[k]
    BY <1>2, FirstFew
  <2>2. IsPrefix(s, t) <=> s = u
    BY <1>1, <1>2 DEF IsPrefix
  <2> HIDE DEF u
  <2>3. s = u <=> \A k \in 1..Len(s) : s[k] = u[k]
    BY <2>1
  <2> QED
    BY <1>2, <2>1, <2>2, <2>3
<1>3. CASE ~(Len(s) <= Len(t))
  BY <1>3 DEF IsPrefix
<1> QED
  BY <1>2, <1>3

\* Unless a path goes on from a file, what matches it is what is below it.
LEMMA MatchingIsBelow ==
  ASSUME torrent \in Seq(File), NEW path \in Seq(Name), ~BeyondFile(path)
  PROVE  Matching(torrent, path) = Below(path)
<1> SUFFICES ASSUME NEW i \in DOMAIN torrent
             PROVE  i \in Matching(torrent, path) <=> i \in Below(path)
  BY DEF Matching, Below
<1> DEFINE f == torrent[i].path
<1>1. f \in Seq(Name) /\ Len(f) \in Nat /\ Len(path) \in Nat
  BY FilesAreFiles
<1>2. i \in Below(path) <=> Len(path) <= Len(f) /\ \A k \in 1..Len(path) : path[k] = f[k]
  BY <1>1, PrefixIs DEF Below
<1>3. i \in Matching(torrent, path) <=> \A k \in DOMAIN f \cap DOMAIN path : f[k] = path[k]
  BY DEF Matching, pathBeginsWith
<1>4. DOMAIN f = 1..Len(f) /\ DOMAIN path = 1..Len(path)
  BY <1>1
<1>5. ASSUME i \in Matching(torrent, path), ~(Len(path) <= Len(f)) PROVE FALSE
  <2>1. \A k \in 1..Len(f) : f[k] = path[k]
    BY <1>1, <1>3, <1>4, <1>5
  <2>2. IsPrefix(f, path)
    <3>1. Len(f) <= Len(path)
      BY <1>1, <1>5
    <3> HIDE DEF f
    <3> QED
      BY <1>1, <2>1, <3>1, PrefixIs
  <2>3. f # path
    BY <1>5, <1>1
  <2>4. torrent[i] \in ToSet(torrent)
    BY DEF ToSet
  <2> QED
    BY <2>2, <2>3, <2>4 DEF BeyondFile, IsStrictPrefix
<1> HIDE DEF f
<1>6. Len(path) <= Len(f) =>
        ((\A k \in DOMAIN f \cap DOMAIN path : f[k] = path[k])
           <=> (\A k \in 1..Len(path) : path[k] = f[k]))
  BY <1>1, <1>4
<1> QED
  BY <1>2, <1>3, <1>5, <1>6

\* A listing as a list of which nothing was cut.
LEMMA WholeList ==
  ASSUME ListInvariant, Complete("list")
  PROVE  /\ torrent \in Torrent /\ torrent \in Seq(File) /\ query.path \in Seq(Name)
         /\ Enumerates(listing.items, Listed(torrent, query.path, Len(torrent)))
         /\ query.sort = Absent => listing.items = buildList(torrent, query.path)
<1> DEFINE args == ListGetArgsFromParams(query)
           w == Whole(torrent, args)
<1>1. /\ torrent \in Torrent /\ query \in Asked /\ Answered /\ listing.status = 200
      /\ Len(listing.items) = listing.count
      /\ (IF query.output = Absent THEN "list" ELSE query.output) = "list"
  BY DEF ListInvariant, Complete, Uncut
<1>2. /\ torrent \in Seq(File) /\ ~Refused(query) /\ args \in Args
      /\ args.output = "tree" => ~TreePanics(torrent, args.path)
  BY <1>1, ListingShows
<1>3. listing = getList(torrent, query)
  BY <1>1 DEF Answered, NoListing
<1>4. listing.items = w
  BY <1>1, <1>2, <1>3, FirstPage
<1>5. /\ args.output = "list" /\ args.path = query.path /\ query.path \in Seq(Name)
      /\ args.sort = IF query.sort = Absent THEN "none" ELSE query.sort
  BY <1>1, <1>2, QueryArgs DEF Asked
<1> HIDE DEF args
<1>6. Sorts(w, buildList(torrent, query.path), args.sort)
  BY <1>2, <1>5, WholeListing
<1>7. Enumerates(buildList(torrent, query.path), Listed(torrent, query.path, Len(torrent)))
  BY <1>2, <1>5, ListBuilt
<1>8. query.sort = Absent => w = buildList(torrent, query.path)
  BY <1>5 DEF Whole, sortItems
<1> HIDE DEF w
<1>9. Enumerates(w, Listed(torrent, query.path, Len(torrent)))
  BY <1>6, <1>7, SortEnumerates
<1> QED
  BY <1>1, <1>2, <1>4, <1>5, <1>8, <1>9

\* The directories that files below a path are in, and the items for them.
LEMMA DirectoriesAre ==
  ASSUME torrent \in Seq(File), NEW path \in Seq(Name), ~BeyondFile(path)
  PROVE  /\ \A x \in DirsOf(torrent, path, Len(torrent)) :
              x.path \in Directories(path) /\ x = DirAt(torrent, path, x.path)
         /\ \A d \in Directories(path) :
              DirAt(torrent, path, d) \in DirsOf(torrent, path, Len(torrent))
              /\ DirAt(torrent, path, d).path = d
<1> DEFINE M == Matching(torrent, path)
<1>1. M = Below(path) /\ M \cap 1..Len(torrent) = M
  BY MatchingIsBelow DEF Matching
<1>2. ASSUME NEW d
      PROVE  d \in Directories(path) <=>
               \E i \in M : \E k \in (Len(path) + 1)..(Len(torrent[i].path) - 1) :
                 d = SubSeq(torrent[i].path, 1, k)
  <2> DEFINE D(i) == {SubSeq(torrent[i].path, 1, k) :
                        k \in (Len(path) + 1)..(Len(torrent[i].path) - 1)}
  <2>1. Directories(path) = UNION {D(i) : i \in Below(path)}
    BY Zenon DEF Directories
  <2>2. \A i : d \in D(i) <=> \E k \in (Len(path) + 1)..(Len(torrent[i].path) - 1) :
                              d = SubSeq(torrent[i].path, 1, k)
    BY Zenon
  <2> HIDE DEF D
  <2>3. d \in Directories(path) <=> \E i \in Below(path) : d \in D(i)
    BY <2>1, Zenon
  <2> HIDE DEF M
  <2> QED
    BY <1>1, <2>2, <2>3
<1>3. ASSUME NEW x \in DirsOf(torrent, path, Len(torrent))
      PROVE  x.path \in Directories(path) /\ x = DirAt(torrent, path, x.path)
  <2>1. PICK i \in M : x \in Dirs(torrent, path, i, Depth(torrent[i], path))
    BY <1>1, ListedMembers
  <2>2. PICK k \in 1..Depth(torrent[i], path) : x = Above(torrent, path, i, k)
    BY <2>1 DEF Dirs
  <2>3. /\ Len(path) + k \in 1..(Len(torrent[i].path) - 1)
        /\ x = DirAt(torrent, path, SubSeq(torrent[i].path, 1, Len(path) + k))
    BY <2>2, AboveIsDir
  <2>4. x.path = SubSeq(torrent[i].path, 1, Len(path) + k)
    BY <2>2, AboveEntry
  <2>5. Len(path) + k \in (Len(path) + 1)..(Len(torrent[i].path) - 1)
    <3>1. Depth(torrent[i], path) \in Nat /\ i \in DOMAIN torrent /\ Len(path) \in Nat
      BY DepthType DEF Matching
    <3>2. Len(torrent[i].path) \in Nat
      BY <3>1, FilesAreFiles
    <3> QED
      BY <2>3, <3>1, <3>2
  <2> HIDE DEF M
  <2> QED
    BY <1>2, <2>3, <2>4, <2>5
<1>4. ASSUME NEW d \in Directories(path)
      PROVE  /\ DirAt(torrent, path, d) \in DirsOf(torrent, path, Len(torrent))
             /\ DirAt(torrent, path, d).path = d
  <2>1. PICK i \in M : \E k \in (Len(path) + 1)..(Len(torrent[i].path) - 1) :
          d = SubSeq(torrent[i].path, 1, k)
    BY <1>2
  <2>2. PICK k \in (Len(path) + 1)..(Len(torrent[i].path) - 1) :
          d = SubSeq(torrent[i].path, 1, k)
    BY <2>1
  <2> DEFINE l == k - Len(path)
  <2>3. /\ Len(path) \in Nat /\ Len(torrent[i].path) \in Nat /\ i \in DOMAIN torrent
        /\ Len(path) + Depth(torrent[i], path) + 1
             = IF Len(torrent[i].path) > Len(path) THEN Len(torrent[i].path) ELSE Len(path) + 1
        /\ Depth(torrent[i], path) \in Nat
    <3>1. i \in DOMAIN torrent
      BY DEF Matching
    <3> QED
      BY <3>1, FilesAreFiles, DepthType
  <2>4. l \in 1..Depth(torrent[i], path) /\ Len(path) + l = k
    BY <2>3
  <2>5. /\ Above(torrent, path, i, l) = DirAt(torrent, path, d)
        /\ Above(torrent, path, i, l).path = d
    BY <2>2, <2>4, AboveIsDir, AboveEntry
  <2>6. Above(torrent, path, i, l) \in Dirs(torrent, path, i, Depth(torrent[i], path))
    BY <2>4 DEF Dirs
  <2>7. DirAt(torrent, path, d) \in DirsOf(torrent, path, Len(torrent))
    BY <1>1, <2>5, <2>6, ListedMembers
  <2> QED
    BY <2>5, <2>7
<1> QED
  BY <1>3, <1>4

\* Of the places in T those in S follow each other.
Together(S, T) == \A i, j \in S, k \in T : i < k /\ k < j => k \in S

\* buildDirSize is right of a directory whose files follow each other.
LEMMA DirSizeTogether ==
  ASSUME NEW files \in Seq(File), NEW prefix, Together(Matching(files, prefix), 1..Len(files))
  PROVE  buildDirSize(files, prefix) = Size(files, Matching(files, prefix))
<1> DEFINE N == Len(files)
           M == Matching(files, prefix)
<1>1. PICK run : Tallies(run, files, prefix) /\ buildDirSize(files, prefix) = run[N].size
  BY DirSizeTallies
<1>2. N \in Nat /\ M \subseteq 1..N /\ M \subseteq DOMAIN files
  BY DEF Matching
<1>3. \A n \in 1..N : n \in M <=> pathBeginsWith(files[n].path, prefix)
  BY DEF Matching
<1>4. \A i, j \in M, k \in 1..N : i < k /\ k < j => k \in M
  BY DEF Together
<1> DEFINE T(n) == Size(files, M \cap 1..n)
           Shut(n) == \E i \in M : \E k \in 1..n : i < k /\ k \notin M
           P == {n \in Nat : n <= N => run[n].size = T(n) /\ (run[n].open \/ Shut(n))}
<1> HIDE DEF M
<1>5. 0 \in P
  <2>1. T(0) = 0
    <3>1. \A n \in DOMAIN files : n \notin M \cap 1..0
      OBVIOUS
    <3> QED
      BY <3>1, FilesSized, SizeNone
  <2>2. run[0].size = 0 /\ run[0].open
    BY <1>1 DEF Tallies
  <2> HIDE DEF T
  <2> QED
    BY <2>1, <2>2
<1>6. ASSUME NEW n \in Nat, n \in P PROVE n + 1 \in P
  <2> DEFINE m == n + 1
  <2> SUFFICES ASSUME m <= N PROVE run[m].size = T(m) /\ (run[m].open \/ Shut(m))
    OBVIOUS
  <2>1. m \in 1..N /\ m - 1 = n /\ n \in 0..N /\ run[n].size = T(n) /\ (run[n].open \/ Shut(n))
    <3>1. n <= N /\ m \in 1..N /\ m - 1 = n /\ n \in 0..N
      BY <1>2
    <3> QED
      BY <3>1, <1>6
  <2>2. run[m] = IF pathBeginsWith(files[m].path, prefix)
                 THEN [size |-> IF run[n].open THEN run[n].size + files[m].size
                                                ELSE run[n].size,
                       open |-> run[n].open]
                 ELSE [size |-> run[n].size,
                       open |-> run[n].open /\ run[n].size = 0]
    BY <1>1, <2>1 DEF Tallies
  <2>3. Shut(n) => Shut(m)
    BY <2>1
  <2>4. CASE m \in M
    <3>1. run[n].open
      <4> SUFFICES ASSUME Shut(n) PROVE FALSE
        BY <2>1
      <4>1. PICK i \in M : \E k \in 1..n : i < k /\ k \notin M
        OBVIOUS
      <4>2. PICK k \in 1..n : i < k /\ k \notin M
        BY <4>1
      <4>3. k \in 1..N /\ k < m
        BY <2>1
      <4> QED
        BY <1>4, <2>4, <4>2, <4>3
    <3>2. run[m].size = run[n].size + files[m].size /\ run[m].open
      BY <1>3, <2>1, <2>2, <2>4, <3>1
    <3>3. T(m) = T(n) + files[m].size
      <4>1. (M \cap 1..n) \cap {m} = {} /\ (M \cap 1..n) \cup {m} = M \cap 1..m
        BY <1>2, <2>1, <2>4
      <4>2. Size(files, (M \cap 1..n) \cup {m}) = Size(files, M \cap 1..n) + Size(files, {m})
        BY <4>1, FilesSized, SizeUnion
      <4>3. Size(files, {m}) = files[m].size
        BY <1>2, <2>4, FilesSized, SizeOne
      <4> QED
        BY <4>1, <4>2, <4>3
    <3> HIDE DEF T
    <3> QED
      BY <2>1, <3>2, <3>3
  <2>5. CASE m \notin M
    <3>1. run[m].size = run[n].size /\ run[m].open = (run[n].open /\ run[n].size = 0)
      BY <1>3, <2>1, <2>2, <2>5
    <3>2. T(m) = T(n)
      <4>1. M \cap 1..m = M \cap 1..n
        BY <1>2, <2>1, <2>5
      <4> QED
        BY <4>1
    <3>3. T(n) # 0 => Shut(m)
      <4> SUFFICES ASSUME T(n) # 0 PROVE Shut(m)
        OBVIOUS
      <4>3. \E i \in DOMAIN files : i \in M \cap 1..n
        <5> DEFINE few == M \cap 1..n
        <5>1. Size(files, few) # 0
          OBVIOUS
        <5> HIDE DEF few, T
        <5>2. ~ \A i \in DOMAIN files : i \notin few
          BY <5>1, FilesSized, SizeNone
        <5> QED
          BY <5>2 DEF few
      <4>1. PICK i \in DOMAIN files : i \in M \cap 1..n
        BY <4>3
      <4>2. i < m /\ m \in 1..m
        BY <2>1, <4>1
      <4> QED
        BY <2>5, <4>1, <4>2
    <3> HIDE DEF T, Shut
    <3> QED
      BY <2>1, <2>3, <3>1, <3>2, <3>3
  <2> QED
    BY <2>4, <2>5
<1> HIDE DEF P
<1>7. N \in P
  BY <1>2, <1>5, <1>6, Induct
<1>8. T(N) = Size(files, M)
  <2>1. M \cap 1..N = M
    BY <1>2
  <2> QED
    BY <2>1
<1> QED
  BY <1>1, <1>2, <1>7, <1>8 DEF P, M

\* Nothing goes on from a file.
LEMMA DirectoryIsNoFile ==
  ASSUME torrent \in Torrent, NEW path \in Seq(Name), NEW d \in Directories(path)
  PROVE  /\ d \in Seq(Name) \ {<<>>} /\ ~BeyondFile(d) /\ Len(d) > Len(path)
         /\ \A f \in ToSet(torrent) : ~IsPrefix(f.path, d)
<1>1. /\ torrent \in Seq(File)
      /\ \A i, j \in DOMAIN torrent : IsPrefix(torrent[i].path, torrent[j].path) => i = j
  BY ListAssumptions
<1>2. PICK i \in Below(path), k \in Nat :
        /\ k > Len(path) /\ k < Len(torrent[i].path)
        /\ d = SubSeq(torrent[i].path, 1, k)
  <2> DEFINE D(i) == {SubSeq(torrent[i].path, 1, k) :
                        k \in (Len(path) + 1)..(Len(torrent[i].path) - 1)}
  <2>1. Directories(path) = UNION {D(i) : i \in Below(path)}
    BY Zenon DEF Directories
  <2> HIDE DEF D
  <2>2. PICK i \in Below(path) : d \in D(i)
    BY <2>1, Zenon
  <2> USE DEF D
  <2>3. PICK k \in (Len(path) + 1)..(Len(torrent[i].path) - 1) : d = SubSeq(torrent[i].path, 1, k)
    BY <2>2
  <2>4. Len(path) \in Nat /\ Len(torrent[i].path) \in Nat
    BY <1>1, FilesAreFiles DEF Below
  <2>5. k \in Nat /\ k > Len(path) /\ k < Len(torrent[i].path)
    BY <2>4
  <2> QED
    BY <2>3, <2>5
<1>3. /\ torrent[i].path \in Seq(Name) /\ Len(torrent[i].path) \in Nat /\ i \in DOMAIN torrent
      /\ Len(path) \in Nat
  BY <1>1, FilesAreFiles DEF Below
<1>4. d \in Seq(Name) /\ Len(d) = k /\ \A m \in 1..k : d[m] = torrent[i].path[m]
  BY <1>2, <1>3, FirstFew
<1>5. d # <<>>
  BY <1>2, <1>3, <1>4
<1>6. ASSUME NEW f \in ToSet(torrent), IsPrefix(f.path, d) PROVE FALSE
  <2>2. PICK j \in DOMAIN torrent : torrent[j] = f
    BY DEF ToSet
  <2> DEFINE g == torrent[j].path
             h == torrent[i].path
  <2>3. g \in Seq(Name) /\ Len(g) \in Nat
    BY <1>1, FilesAreFiles
  <2>4. IsPrefix(g, d)
    BY <1>6, <2>2
  <2>5. h \in Seq(Name) /\ Len(h) \in Nat /\ k < Len(h) /\ \A m \in 1..k : d[m] = h[m]
    BY <1>2, <1>3, <1>4
  <2> HIDE DEF g, h
  <2>6. Len(g) <= k /\ \A m \in 1..Len(g) : g[m] = d[m]
    BY <1>4, <2>3, <2>4, PrefixIs
  <2>7. Len(g) <= Len(h) /\ \A m \in 1..Len(g) : g[m] = h[m]
    BY <2>3, <2>5, <2>6
  <2>8. IsPrefix(g, h)
    BY <2>3, <2>5, <2>7, PrefixIs
  <2>9. j = i
    BY <1>1, <1>3, <2>8 DEF g, h
  <2>10. Len(g) = Len(h)
    BY <2>9 DEF g, h
  <2> QED
    BY <2>3, <2>5, <2>6, <2>10
<1>7. ~BeyondFile(d)
  BY <1>6 DEF BeyondFile, IsStrictPrefix
<1> QED
  BY <1>2, <1>3, <1>4, <1>5, <1>6, <1>7

\* Listed from the top, a directory whose files follow each other has their size.
LEMMA TopDirSize ==
  ASSUME torrent \in Torrent, NEW d \in Directories(<<>>), Adjacent(d, <<>>)
  PROVE  DirAt(torrent, <<>>, d).size = Size(torrent, Below(d))
<1>0. torrent \in Seq(File) /\ <<>> \in Seq(Name) /\ Len(<<>>) = 0
  BY ListAssumptions
<1>1. d \in Seq(Name) /\ ~BeyondFile(d)
  BY <1>0, DirectoryIsNoFile
<1>2. Matching(torrent, d) = Below(d)
  BY <1>0, <1>1, MatchingIsBelow
<1>3. Below(<<>>) = 1..Len(torrent)
  <2>1. ASSUME NEW i \in DOMAIN torrent PROVE i \in Below(<<>>)
    <3>1. torrent[i].path \in Seq(Name) /\ Len(torrent[i].path) \in Nat
      BY <1>0, FilesAreFiles
    <3>2. IsPrefix(<<>>, torrent[i].path)
      <4>1. PICK e \in Seq(Name) : e = <<>> /\ Len(e) = 0
        BY <1>0
      <4>2. Len(e) <= Len(torrent[i].path) /\ \A k \in 1..Len(e) : e[k] = torrent[i].path[k]
        BY <3>1, <4>1
      <4>3. IsPrefix(e, torrent[i].path)
        BY <3>1, <4>2, PrefixIs
      <4> QED
        BY <4>1, <4>3
    <3> QED
      BY <3>2 DEF Below
  <2> QED
    BY <1>0, <2>1 DEF Below
<1>4. Together(Matching(torrent, d), 1..Len(torrent))
  BY <1>2, <1>3 DEF Together, Adjacent
<1>5. SubSeq(d, Len(<<>>) + 1, Len(d)) = d
  BY <1>0, <1>1
<1>6. DirAt(torrent, <<>>, d).size = buildDirSize(torrent, d)
  BY <1>5 DEF DirAt, directory
<1> QED
  BY <1>0, <1>2, <1>4, <1>6, DirSizeTogether

\* A listing as a list is whole (buildList in list.go).
LEMMA ListingIsWhole ==
  ASSUME ListInvariant
  PROVE  ListIsWhole
<1> SUFFICES ASSUME Complete("list"), ~BeyondFile(query.path) PROVE ListIsWhole
  BY DEF ListIsWhole
<1> DEFINE items == listing.items
           path == query.path
           N == Len(torrent)
           F == FilesOf(torrent, path, N)
           D == DirsOf(torrent, path, N)
<1>1. /\ torrent \in Torrent /\ torrent \in Seq(File) /\ path \in Seq(Name)
      /\ Enumerates(items, F \cup D)
      /\ query.sort = Absent => items = buildList(torrent, path)
  BY WholeList DEF Listed
<1>2. /\ Matching(torrent, path) = Below(path) /\ Below(path) \subseteq DOMAIN torrent
      /\ Below(path) \cap 1..N = Below(path)
  BY <1>1, MatchingIsBelow DEF Below
<1> HIDE DEF items, path
<1>3. /\ items \in Seq(F \cup D) /\ DOMAIN items = 1..Len(items) /\ Len(items) \in Nat
      /\ \A w \in F \cup D : \E m \in DOMAIN items : items[m] = w
      /\ \A m, l \in DOMAIN items : items[m] = items[l] => m = l
  BY <1>1 DEF Enumerates
<1>4. /\ \A x \in F : x.type = "file"
      /\ \A x \in D : x.type = "directory"
  BY <1>1, ListedEntries
<1>5. \A x : x \in F <=> \E i \in Below(path) : x = buildFile(torrent, i)
  BY <1>2, ListedMembers
<1>6. /\ \A x \in D : x.path \in Directories(path) /\ x = DirAt(torrent, path, x.path)
      /\ \A d \in Directories(path) : DirAt(torrent, path, d) \in D
                                      /\ DirAt(torrent, path, d).path = d
  BY <1>1, DirectoriesAre DEF path
<1>7. /\ \A m : m \in Shown("file") <=> m \in DOMAIN items /\ items[m] \in F
      /\ \A m : m \in Shown("directory") <=> m \in DOMAIN items /\ items[m] \in D
  BY <1>3, <1>4 DEF Shown, items
<1>8. IsFiniteSet(Shown("file")) /\ IsFiniteSet(Shown("directory"))
  <2>1. IsFiniteSet(1..Len(items))
    BY <1>3, FS_Interval
  <2>2. Shown("file") \subseteq 1..Len(items) /\ Shown("directory") \subseteq 1..Len(items)
    BY <1>3, <1>7
  <2> QED
    BY <2>1, <2>2, FS_Subset
<1> HIDE DEF F, D
<1>10. {items[i] : i \in Shown("file")} = FilesBelow(path)
  <2>1. FilesBelow(path) = F
    BY <1>2 DEF F, FilesOf, FilesBelow
  <2> QED
    BY <1>3, <1>7, <2>1
<1>11. Cardinality(Shown("file")) = Cardinality(Below(path))
  <2> DEFINE g == [m \in Shown("file") |-> items[m].index + 1]
  <2>1. ASSUME NEW m \in Shown("file")
        PROVE  g[m] \in Below(path) /\ items[m] = buildFile(torrent, g[m])
    <3>1. PICK i \in Below(path) : items[m] = buildFile(torrent, i)
      BY <1>5, <1>7
    <3>2. i \in DOMAIN torrent /\ i \in Nat
      BY <1>1, <1>2
    <3>3. items[m].index = i - 1
      BY <1>1, <3>1, <3>2, FileEntry
    <3>4. g[m] = i
      BY <3>2, <3>3
    <3> QED
      BY <3>1, <3>4
  <2>2. g = [m \in Shown("file") |-> g[m]]
    OBVIOUS
  <2>3. ASSUME NEW i \in Below(path) PROVE \E m \in Shown("file") : g[m] = i
    <3>1. buildFile(torrent, i) \in F
      BY <1>5
    <3>2. PICK m \in DOMAIN items : items[m] = buildFile(torrent, i)
      BY <1>3, <3>1
    <3>3. i \in DOMAIN torrent /\ i \in Nat
      BY <1>1, <1>2
    <3>4. items[m].index = i - 1
      BY <1>1, <3>2, <3>3, FileEntry
    <3>5. m \in Shown("file")
      BY <1>7, <3>1, <3>2
    <3>6. g[m] = i
      BY <3>3, <3>4, <3>5
    <3> QED
      BY <3>5, <3>6
  <2> HIDE DEF g
  <2>4. g \in [Shown("file") -> Below(path)]
    BY <2>1, <2>2
  <2>5. \A m, l \in Shown("file") : g[m] = g[l] => m = l
    BY <1>3, <1>7, <2>1
  <2> QED
    BY <1>8, <2>3, <2>4, <2>5, OneToOne
<1>12. {items[i].path : i \in Shown("directory")} = Directories(path)
  <2>1. ASSUME NEW m \in Shown("directory") PROVE items[m].path \in Directories(path)
    BY <1>6, <1>7
  <2>2. ASSUME NEW d \in Directories(path)
        PROVE  \E m \in Shown("directory") : items[m].path = d
    <3>1. DirAt(torrent, path, d) \in D /\ DirAt(torrent, path, d).path = d
      BY <1>6
    <3>2. PICK m \in DOMAIN items : items[m] = DirAt(torrent, path, d)
      BY <1>3, <3>1
    <3>3. m \in Shown("directory")
      BY <1>7, <3>1, <3>2
    <3> QED
      BY <3>1, <3>2, <3>3
  <2> QED
    BY <2>1, <2>2
<1>13. \A m, l \in Shown("directory") : items[m].path = items[l].path => m = l
  BY <1>3, <1>6, <1>7
<1>14. Cardinality(Shown("directory")) = Cardinality(Directories(path))
  <2> DEFINE g == [m \in Shown("directory") |-> items[m].path]
  <2>1. g \in [Shown("directory") -> Directories(path)]
    BY <1>12
  <2>2. \A m, l \in Shown("directory") : g[m] = g[l] => m = l
    BY <1>13
  <2>3. \A d \in Directories(path) : \E m \in Shown("directory") : g[m] = d
    BY <1>12
  <2> HIDE DEF g
  <2> QED
    BY <1>8, <2>1, <2>2, <2>3, OneToOne
<1>15. ASSUME query.sort = Absent, NEW i \in DOMAIN items, NEW j \in Shown("directory"),
              IsStrictPrefix(items[j].path, items[i].path)
       PROVE  j < i
  <2> DEFINE p == items[i].path
             d == items[j].path
  <2>1. Ordered(items, path)
    BY <1>1, <1>15, ListBuilt
  <2>2. d \in Directories(path)
    BY <1>12
  <2>3. d \in Seq(Name) /\ Len(d) > Len(path)
    BY <1>1, <2>2, DirectoryIsNoFile
  <2>4. p \in Seq(Name)
    <3>1. F \cup D \subseteq Entry
      BY <1>1, ListedEntries DEF F, D, Listed
    <3>2. items[i] \in Entry
      BY <1>3, <3>1
    <3> QED
      BY <3>2 DEF Entry
  <2>5. Len(d) <= Len(p) /\ \A k \in 1..Len(d) : d[k] = p[k]
    BY <2>3, <2>4, <1>15, PrefixIs DEF IsStrictPrefix
  <2>6. d # p
    BY <1>15 DEF IsStrictPrefix
  <2> HIDE DEF p, d
  <2>7. Len(d) # Len(p)
    BY <2>3, <2>4, <2>5, <2>6
  <2>8. /\ Len(d) \in Nat /\ Len(p) \in Nat /\ Len(path) \in Nat
        /\ Len(d) \in (Len(path) + 1)..(Len(p) - 1)
    BY <1>1, <2>3, <2>4, <2>5, <2>7
  <2>9. SubSeq(p, 1, Len(d)) = d
    <3> DEFINE e == SubSeq(p, 1, Len(d))
    <3>1. e \in Seq(Name) /\ Len(e) = Len(d) /\ \A k \in 1..Len(d) : e[k] = p[k]
      BY <2>4, <2>5, <2>8, FirstFew
    <3> HIDE DEF e
    <3>2. e = d
      BY <2>3, <2>5, <3>1
    <3> QED
      BY <3>2 DEF e
  <2>10. Under(items[i], path, items, i - 1)
    BY <1>3, <2>1 DEF Ordered
  <2>11. PICK k \in 1..(i - 1) : items[k].type = "directory" /\ items[k].path = SubSeq(p, 1, Len(d))
    BY <2>8, <2>10 DEF Under, p
  <2>12. k \in Nat /\ i \in Nat /\ k < i /\ k \in DOMAIN items
    BY <1>3
  <2>13. k \in Shown("directory")
    BY <2>11, <2>12 DEF Shown, items
  <2>14. k = j
    BY <1>13, <2>9, <2>11, <2>13 DEF d
  <2> QED
    BY <2>12, <2>14
<1>16. ASSUME path = <<>>, NEW j \in Shown("directory"), Adjacent(items[j].path, <<>>)
       PROVE  items[j].size = Size(torrent, Below(items[j].path))
  <2>1. items[j].path \in Directories(<<>>)
    BY <1>12, <1>16
  <2>2. items[j] = DirAt(torrent, <<>>, items[j].path)
    BY <1>6, <1>7, <1>16
  <2> QED
    BY <1>1, <1>16, <2>1, <2>2, TopDirSize
<1> QED
  BY <1>10, <1>11, <1>12, <1>14, <1>15, <1>16 DEF ListIsWhole, items, path

\* Listed as a list, what is below a path is shown, all of it and once.
THEOREM ListAlwaysWhole == Spec => []ListIsWhole
BY ListingIsWhole, ListInvariantHolds, PTL

LEMMA FromTheTop ==
  ASSUME torrent \in Seq(File)
  PROVE  /\ ~BeyondFile(<<>>) /\ Matching(torrent, <<>>) = DOMAIN torrent
         /\ Below(<<>>) = DOMAIN torrent
<1>4. <<>> \in Seq(Name) /\ Len(<<>>) = 0
  OBVIOUS
<1>0. PICK e \in Seq(Name) : e = <<>> /\ Len(e) = 0
  BY <1>4
<1>1. ASSUME NEW f \in ToSet(torrent), IsPrefix(f.path, e) PROVE FALSE
  <2>1. PICK i \in DOMAIN torrent : torrent[i] = f
    BY DEF ToSet
  <2>2. torrent[i].path \in Seq(Name) /\ Len(torrent[i].path) \in Nat \ {0}
    BY FilesAreFiles
  <2>3. Len(f.path) <= 0
    BY <1>0, <1>1 DEF IsPrefix
  <2> QED
    BY <2>1, <2>2, <2>3
<1>2. ~BeyondFile(e)
  BY <1>1 DEF BeyondFile, IsStrictPrefix
<1>3. Matching(torrent, e) = DOMAIN torrent
  <2>1. DOMAIN e = {}
    BY <1>0
  <2> QED
    BY <2>1 DEF Matching, pathBeginsWith
<1> QED
  BY <1>0, <1>2, <1>3, MatchingIsBelow

\* The summary of a resource says what its listing says (models.go, web.go).
LEMMA StructureIsListed ==
  ASSUME ListInvariant
  PROVE  StructureAgrees
<1> SUFFICES ASSUME Complete("list"), query.path = <<>> PROVE StructureAgrees
  BY DEF StructureAgrees
<1> DEFINE items == listing.items
           N == Len(torrent)
           F == FilesOf(torrent, <<>>, N)
           D == DirsOf(torrent, <<>>, N)
<1>1. /\ torrent \in Torrent /\ torrent \in Seq(File) /\ Enumerates(items, F \cup D)
  BY WholeList DEF Listed
<1>2. /\ ~BeyondFile(<<>>) /\ Matching(torrent, <<>>) = DOMAIN torrent
      /\ Below(<<>>) = DOMAIN torrent
  BY <1>1, FromTheTop
<1>3. N \in Nat /\ DOMAIN torrent = 1..N
  BY <1>1
<1>4. listing.root.size = Size(torrent, DOMAIN torrent)
  <2> DEFINE args == ListGetArgsFromParams(query)
  <2>1. listing = ListGet(torrent, args)
    BY ListingShows DEF ListInvariant, Complete, Uncut
  <2>2. args.path = <<>>
    BY DEF ListGetArgsFromParams
  <2>3. ListGet(torrent, args).root.size = Size(torrent, Matching(torrent, args.path))
    BY DEF ListGet, directory
  <2> QED
    BY <1>2, <2>1, <2>2, <2>3
<1>5. N = Cardinality(Shown("file"))
  <2>1. Cardinality(Shown("file")) = Cardinality(Below(<<>>))
    BY <1>2, ListingIsWhole DEF ListIsWhole
  <2>2. Cardinality(1..N) = N
    <3>1. Cardinality(1..N) = IF 1 > N THEN 0 ELSE N - 1 + 1
      BY <1>3, FS_Interval
    <3> QED
      BY <1>3, <3>1
  <2> QED
    BY <1>2, <1>3, <2>1, <2>2
<1> HIDE DEF items, N
<1>6. /\ items \in Seq(F \cup D) /\ Len(items) \in Nat
      /\ \A w \in F \cup D : \E m \in 1..Len(items) : items[m] = w
      /\ \A m, l \in 1..Len(items) : items[m] = items[l] => m = l
  BY <1>1 DEF Enumerates
<1>7. /\ \A x \in F : x.type = "file"
      /\ \A x \in D : x.type = "directory"
  <2>1. <<>> \in Seq(Name)
    OBVIOUS
  <2> QED
    BY <1>1, <2>1, ListedEntries
<1>8. \A x : x \in F <=> \E i \in 1..N : x = buildFile(torrent, i)
  <2>1. \A x : x \in F <=> \E i \in Matching(torrent, <<>>) \cap 1..N : x = buildFile(torrent, i)
    BY ListedMembers
  <2> QED
    BY <1>2, <1>3, <2>1
<1>9. \A x : x \in D <=> \E i \in 1..N : x \in Dirs(torrent, <<>>, i, Depth(torrent[i], <<>>))
  <2>1. \A x : x \in D <=> \E i \in Matching(torrent, <<>>) \cap 1..N :
                         x \in Dirs(torrent, <<>>, i, Depth(torrent[i], <<>>))
    BY ListedMembers
  <2> QED
    BY <1>2, <1>3, <2>1
<1>10. \A i \in 1..N : /\ Len(torrent[i].path) \in Nat \ {0}
                       /\ Depth(torrent[i], <<>>) = Len(torrent[i].path) - 1
  <2> SUFFICES ASSUME NEW i \in 1..N
               PROVE  /\ Len(torrent[i].path) \in Nat \ {0}
                      /\ Depth(torrent[i], <<>>) = Len(torrent[i].path) - 1
    OBVIOUS
  <2>1. Len(torrent[i].path) \in Nat \ {0}
    BY <1>1, <1>3, FilesAreFiles
  <2> QED
    BY <2>1 DEF Depth
<1> HIDE DEF F, D
<1>11. ASSUME N = 1, Len(torrent[1].path) = 1
       PROVE  Len(items) = 1 /\ items[1] = buildFile(torrent, 1)
  <2>1. D = {}
    <3>1. ASSUME NEW x, x \in D PROVE FALSE
      <4>1. PICK i \in 1..N : x \in Dirs(torrent, <<>>, i, Depth(torrent[i], <<>>))
        BY <1>9, <3>1
      <4>2. i = 1
        BY <1>11
      <4>3. Depth(torrent[i], <<>>) = 0
        <5>1. Depth(torrent[i], <<>>) = Len(torrent[i].path) - 1
          BY <1>10
        <5>2. Len(torrent[i].path) = 1
          BY <1>11, <4>2
        <5>3. PICK n \in Nat : n = Len(torrent[i].path)
          BY <5>2
        <5>4. n = 1 /\ n - 1 = 0
          BY <5>2, <5>3
        <5> QED
          BY <5>1, <5>3, <5>4
      <4> QED
        BY <4>1, <4>3 DEF Dirs
    <3> QED
      BY <3>1
  <2>2. \A x : x \in F <=> x = buildFile(torrent, 1)
    BY <1>8, <1>11
  <2>3. Len(items) # 0
    BY <1>6, <2>2
  <2>4. ~(Len(items) >= 2)
    <3> SUFFICES ASSUME Len(items) >= 2 PROVE FALSE
      OBVIOUS
    <3>1. 1 \in 1..Len(items) /\ 2 \in 1..Len(items)
      BY <1>6
    <3>2. items[1] \in F /\ items[2] \in F
      BY <1>6, <2>1, <3>1
    <3>3. items[1] = items[2]
      BY <2>2, <3>2
    <3> QED
      BY <1>6, <3>1, <3>3
  <2>5. PICK n \in Nat : n = Len(items)
    BY <1>6
  <2>6. n = 1
    BY <2>3, <2>4, <2>5
  <2>7. items[1] \in F
    <3>1. 1 \in 1..Len(items)
      BY <2>5, <2>6
    <3>2. items[1] \in F \cup D
      BY <1>6, <3>1
    <3> QED
      BY <2>1, <3>2
  <2> QED
    BY <2>2, <2>5, <2>6, <2>7
<1>12. ASSUME Len(items) = 1 PROVE N = 1 /\ Len(torrent[1].path) = 1
  <2>1. \A x, y \in F \cup D : x = y
    BY <1>6, <1>12
  <2>2. F \cup D # {}
    <3>1. 1 \in 1..Len(items)
      BY <1>12
    <3>2. items[1] \in F \cup D
      BY <1>6, <3>1
    <3> QED
      BY <3>2
  <2>3. N # 0
    BY <1>3, <1>8, <1>9, <2>2
  <2>4. ~(N >= 2)
    <3> SUFFICES ASSUME N >= 2 PROVE FALSE
      OBVIOUS
    <3>1. 1 \in 1..N /\ 2 \in 1..N
      BY <1>3
    <3>2. buildFile(torrent, 1) = buildFile(torrent, 2)
      BY <1>8, <2>1, <3>1
    <3>3. buildFile(torrent, 1).index = 1 - 1 /\ buildFile(torrent, 2).index = 2 - 1
      BY <1>1, <1>3, <3>1, FileEntry
    <3> QED
      BY <3>2, <3>3
  <2>5. N = 1 /\ 1 \in 1..N
    BY <1>3, <2>3, <2>4
  <2>6. ~(Len(torrent[1].path) >= 2)
    <3> SUFFICES ASSUME Len(torrent[1].path) >= 2 PROVE FALSE
      OBVIOUS
    <3>1. 1 \in 1..Depth(torrent[1], <<>>)
      BY <1>10, <2>5
    <3>2. Above(torrent, <<>>, 1, 1) \in D
      BY <1>9, <2>5, <3>1 DEF Dirs
    <3>3. buildFile(torrent, 1) \in F
      BY <1>8, <2>5
    <3>4. Above(torrent, <<>>, 1, 1) = buildFile(torrent, 1)
      BY <2>1, <3>2, <3>3
    <3> QED
      BY <1>7, <3>2, <3>3, <3>4
  <2>7. PICK n \in Nat : n = Len(torrent[1].path) /\ n # 0
    BY <1>10, <2>5
  <2> DEFINE m == Len(torrent[1].path)
  <2>9. ~(m >= 2) /\ n = m /\ n # 0
    BY <2>6, <2>7
  <2> HIDE DEF m
  <2>8. n = 1
    BY <2>9
  <2> QED
    BY <2>5, <2>7, <2>8
<1>13. ~(N = 1 /\ Len(torrent[1].path) = 1) <=> Len(items) # 1
  BY <1>11, <1>12
<1>14. N = 1 /\ Len(torrent[1].path) = 1 => items = <<buildFile(torrent, 1)>>
  <2>1. Len(items) = 1 /\ items[1] = buildFile(torrent, 1) => items = <<buildFile(torrent, 1)>>
    BY <1>6
  <2> QED
    BY <1>11, <2>1
<1> DEFINE structure == fillResourceStructure(torrent)
<1>15. /\ structure.size = listing.root.size
       /\ structure.files_count = Cardinality(Shown("file"))
       /\ structure.multi_file <=> ~(N = 1 /\ Len(torrent[1].path) = 1)
       /\ structure.file = IF N = 1 /\ Len(torrent[1].path) = 1
                           THEN <<buildFile(torrent, 1)>> ELSE <<>>
  BY <1>4, <1>5 DEF fillResourceStructure, N
<1> HIDE DEF structure
<1>16. structure.file = IF structure.multi_file THEN <<>> ELSE items
  BY <1>14, <1>15
<1> QED
  BY <1>13, <1>15, <1>16 DEF StructureAgrees, structure, items

THEOREM StructureAlwaysAgrees == Spec => []StructureAgrees
BY StructureIsListed, ListInvariantHolds, PTL

-----------------------------------------------------------------------------
(* Sorted listings                                                         *)

\* The length of a page depends on how many items there are and on no more.
LEMMA PageLength ==
  ASSUME NEW S, NEW s \in Seq(S), NEW t \in Seq(S), Len(s) = Len(t),
         NEW limit \in Nat, NEW offset \in Nat
  PROVE  Len(paginate(s, limit, offset)) = Len(paginate(t, limit, offset))
<1> DEFINE n == Len(s)
           cut == offset > 0 \/ (limit # 0 /\ offset + limit < n)
           to == Min({offset + limit, n})
<1>1. n \in Nat /\ \A j \in 1..n : s[j] \in S /\ t[j] \in S
  OBVIOUS
<1>2. /\ paginate(s, limit, offset) = IF cut THEN SubSeq(s, offset + 1, to) ELSE s
      /\ paginate(t, limit, offset) = IF cut THEN SubSeq(t, offset + 1, to) ELSE t
  BY DEF paginate
<1>3. to = IF offset + limit <= n THEN offset + limit ELSE n
  BY <1>1, MinOfTwo
<1> HIDE DEF to, n
<1>4. to \in Nat /\ to <= n
  BY <1>1, <1>3
<1>5. \A j \in (offset + 1)..to : s[j] \in S /\ t[j] \in S
  BY <1>1, <1>4
<1>6. /\ Len(SubSeq(s, offset + 1, to)) = IF offset + 1 <= to THEN to - (offset + 1) + 1 ELSE 0
      /\ Len(SubSeq(t, offset + 1, to)) = IF offset + 1 <= to THEN to - (offset + 1) + 1 ELSE 0
  BY <1>4, <1>5, SubSeqProperties
<1> QED
  BY <1>2, <1>6

LEMMA SortedBag ==
  ASSUME NEW S, NEW items \in Seq(S), NEW sorted, NEW sort, Sorts(sorted, items, sort)
  PROVE  ToBag(sorted) = ToBag(items)
<1> DEFINE n == Len(items)
           At1(x) == {k \in DOMAIN sorted : sorted[k] = x}
           At2(x) == {k \in DOMAIN items : items[k] = x}
<1>1. n \in Nat /\ DOMAIN items = 1..n
  OBVIOUS
<1>2. PICK p \in [1..n -> 1..n] :
        /\ sorted = [k \in 1..n |-> items[p[k]]]
        /\ \A k, l \in 1..n : p[k] = p[l] => k = l
        /\ \A j \in 1..n : \E k \in 1..n : p[k] = j
  BY DEF Sorts
<1> HIDE DEF n
<1>3. DOMAIN sorted = 1..n /\ \A k \in 1..n : sorted[k] = items[p[k]] /\ p[k] \in 1..n
  BY <1>2
<1>4. Range(sorted) = Range(items)
  <2>1. ASSUME NEW x \in Range(sorted) PROVE x \in Range(items)
    BY <1>1, <1>3 DEF Range
  <2>2. ASSUME NEW x \in Range(items) PROVE x \in Range(sorted)
    <3>1. PICK j \in 1..n : items[j] = x
      BY <1>1 DEF Range
    <3>2. PICK k \in 1..n : p[k] = j
      BY <1>2
    <3> QED
      BY <1>3, <3>1, <3>2 DEF Range
  <2> QED
    BY <2>1, <2>2
<1>5. ASSUME NEW x PROVE Cardinality(At1(x)) = Cardinality(At2(x))
  <2> DEFINE g == [k \in At1(x) |-> p[k]]
  <2>1. IsFiniteSet(At1(x))
    <3>1. IsFiniteSet(1..n) /\ At1(x) \subseteq 1..n
      BY <1>1, <1>3, FS_Interval
    <3> QED
      BY <3>1, FS_Subset
  <2>2. g \in [At1(x) -> At2(x)]
    BY <1>1, <1>3
  <2>3. \A k, l \in At1(x) : g[k] = g[l] => k = l
    BY <1>2, <1>3
  <2>4. ASSUME NEW j \in At2(x) PROVE \E k \in At1(x) : g[k] = j
    <3>1. PICK k \in 1..n : p[k] = j
      BY <1>1, <1>2
    <3>2. k \in At1(x)
      BY <1>3, <3>1
    <3> QED
      BY <3>1, <3>2
  <2> HIDE DEF g, At1, At2
  <2> QED
    BY <2>1, <2>2, <2>3, <2>4, OneToOne
<1>6. /\ ToBag(sorted) = [x \in Range(sorted) |-> Cardinality(At1(x))]
      /\ ToBag(items) = [x \in Range(items) |-> Cardinality(At2(x))]
  BY DEF ToBag
<1> HIDE DEF At1, At2
<1> QED
  BY <1>4, <1>5, <1>6

\* How SortedStably compares the keys of items.
KeyOf(item, sort) == <<IF item.type = "directory" THEN 0 ELSE 1,
                       IF sort = "size" THEN -item.size ELSE 0,
                       lower[Last(item.path)]>>
Before(a, b) == \E k \in 1..3 : a[k] < b[k] /\ \A l \in 1..(k - 1) : a[l] = b[l]

LEMMA Lexicographic ==
  ASSUME NEW a \in Int, NEW b \in Int, NEW c \in Int, NEW x \in Int, NEW y \in Int, NEW z \in Int,
         a < x \/ (a = x /\ (b < y \/ (b = y /\ c < z)))
  PROVE  Before(<<a, b, c>>, <<x, y, z>>)
<1> DEFINE s == <<a, b, c>>
           t == <<x, y, z>>
<1>1. s[1] = a /\ s[2] = b /\ s[3] = c /\ t[1] = x /\ t[2] = y /\ t[3] = z
  OBVIOUS
<1> HIDE DEF s, t
<1>2. CASE a < x
  <2>1. s[1] < t[1] /\ \A l \in 1..(1 - 1) : s[l] = t[l]
    BY <1>1, <1>2
  <2> QED
    BY <2>1 DEF Before, s, t
<1>3. CASE a = x /\ b < y
  <2>1. s[2] < t[2] /\ \A l \in 1..(2 - 1) : s[l] = t[l]
    BY <1>1, <1>3
  <2> QED
    BY <2>1 DEF Before, s, t
<1>4. CASE a = x /\ b = y /\ c < z
  <2>1. s[3] < t[3] /\ \A l \in 1..(3 - 1) : s[l] = t[l]
    BY <1>1, <1>4
  <2> QED
    BY <2>1 DEF Before, s, t
<1> QED
  BY <1>2, <1>3, <1>4

LEMMA LessByKey ==
  ASSUME NEW a \in Entry, NEW b \in Entry, NEW sort
  PROVE  /\ less(a, b, sort) => Before(KeyOf(a, sort), KeyOf(b, sort))
         /\ ~less(a, b, sort) /\ ~less(b, a, sort) => KeyOf(a, sort) = KeyOf(b, sort)
<1> DEFINE p == IF a.type = "directory" THEN 0 ELSE 1
           q == IF b.type = "directory" THEN 0 ELSE 1
           m == IF sort = "size" THEN -a.size ELSE 0
           n == IF sort = "size" THEN -b.size ELSE 0
           x == lower[Last(a.path)]
           y == lower[Last(b.path)]
<1>1. /\ a.type \in {"file", "directory"} /\ a.size \in Nat /\ x \in Nat
      /\ b.type \in {"file", "directory"} /\ b.size \in Nat /\ y \in Nat
  BY EntryKeys
<1>2. KeyOf(a, sort) = <<p, m, x>> /\ KeyOf(b, sort) = <<q, n, y>>
  BY DEF KeyOf
<1>3. p \in Int /\ q \in Int /\ m \in Int /\ n \in Int /\ x \in Int /\ y \in Int
  BY <1>1
<1>4. less(a, b, sort) => p < q \/ (p = q /\ (m < n \/ (m = n /\ x < y)))
  BY <1>1 DEF less
<1>5. ~less(a, b, sort) /\ ~less(b, a, sort) => p = q /\ m = n /\ x = y
  BY <1>1 DEF less
<1> HIDE DEF p, q, m, n, x, y
<1> QED
  BY <1>2, <1>3, <1>4, <1>5, Lexicographic

\* A query with and without a sort.
LEMMA Unsorted ==
  ASSUME torrent \in Torrent, query \in Asked, Answered, Uncut, query.sort # Absent,
         NEW q, q = [query EXCEPT !.sort = Absent]
  PROVE  /\ query.sort \in {"name", "size"}
         /\ getList(torrent, q).items \in Seq(Entry)
         /\ Sorts(listing.items, getList(torrent, q).items, query.sort)
<1> DEFINE args == ListGetArgsFromParams(query)
           plain == ListGetArgsFromParams(q)
           base == IF args.output = "list" THEN buildList(torrent, args.path)
                   ELSE buildTree(torrent, args.path)
<1>1. /\ torrent \in Seq(File) /\ listing.status = 200 /\ ~Refused(query) /\ args \in Args
      /\ args.output = "tree" => ~TreePanics(torrent, args.path)
      /\ Len(listing.items) = listing.count
  BY ListingShows DEF Uncut
<1>2. listing = getList(torrent, query)
  BY <1>1 DEF Answered, NoListing
<1>3. listing.items = Whole(torrent, args)
  BY <1>1, <1>2, FirstPage
<1>4. q \in Asked /\ q.output = query.output /\ q.path = query.path /\ q.limit = query.limit
      /\ q.offset = query.offset /\ q.sort = Absent
  BY DEF Asked, Param
<1>5. ~Refused(q)
  <2>1. Absent # Malformed
    BY ListAssumptions
  <2> QED
    BY <1>1, <1>4, <2>1 DEF Refused
<1>6. /\ plain.output = args.output /\ plain.path = args.path /\ plain.limit = args.limit
      /\ plain.offset = args.offset /\ plain.sort = "none" /\ args.sort = query.sort
  BY <1>4 DEF ListGetArgsFromParams
<1>7. query.sort \in {"name", "size"}
  <2>1. query.sort \in {"name", "size", Absent, Malformed}
    BY DEF Asked, Param
  <2> QED
    BY <1>1, <2>1 DEF Refused
<1>8. plain \in Args
  BY <1>4, <1>5, QueryArgs
<1>9. getList(torrent, q) = ListGet(torrent, plain)
  BY <1>1, <1>5, <1>6 DEF getList
<1> HIDE DEF args, plain
<1>10. Whole(torrent, plain) = base
  BY <1>6 DEF Whole, sortItems
<1>11. /\ base \in Seq(Real(torrent))
       /\ getList(torrent, q).items = paginate(base, args.limit, args.offset)
  BY <1>1, <1>6, <1>8, <1>9, <1>10, WholeListing
<1>12. /\ Whole(torrent, args) \in Seq(Real(torrent))
       /\ Sorts(Whole(torrent, args), base, query.sort)
       /\ ListGet(torrent, args).items = paginate(Whole(torrent, args), args.limit, args.offset)
  BY <1>1, <1>6, WholeListing
<1>13. getList(torrent, query) = ListGet(torrent, args)
  BY <1>1, <1>2, ListingShows DEF args
<1> HIDE DEF base
<1>14. Len(Whole(torrent, args)) = Len(base)
  BY <1>11, <1>12, SortKeeps
<1>15. args.limit \in Nat /\ args.offset \in Nat
  BY <1>1 DEF Args
<1>16. Len(paginate(base, args.limit, args.offset)) = Len(base)
  <2>1. Len(paginate(Whole(torrent, args), args.limit, args.offset)) = Len(Whole(torrent, args))
    BY <1>2, <1>3, <1>12, <1>13
  <2>2. Len(paginate(Whole(torrent, args), args.limit, args.offset))
          = Len(paginate(base, args.limit, args.offset))
    BY <1>11, <1>12, <1>14, <1>15, PageLength
  <2> QED
    BY <1>14, <2>1, <2>2
<1>17. getList(torrent, q).items = base
  <2>1. PICK l \in Nat, o \in Nat : l = args.limit /\ o = args.offset
    BY <1>15
  <2>2. Len(paginate(base, l, o)) = Len(base)
    BY <1>16, <2>1
  <2>3. base \in Seq(Real(torrent))
    BY <1>11
  <2>4. paginate(base, l, o) = base
    BY <2>2, <2>3, PageIsPart
  <2> QED
    BY <1>11, <2>1, <2>4
<1>18. base \in Seq(Entry)
  BY <1>11 DEF Real
<1> QED
  BY <1>3, <1>7, <1>12, <1>17, <1>18

\* A sorted listing is in order, and stably so (sortItems in list.go).
LEMMA SortingIsStable ==
  ASSUME ListInvariant
  PROVE  SortedStably
<1> SUFFICES ASSUME Uncut, query.sort # Absent PROVE SortedStably
  BY DEF SortedStably
<1> DEFINE q == [query EXCEPT !.sort = Absent]
           plain == getList(torrent, q).items
           items == listing.items
           n == Len(plain)
<1>1. /\ query.sort \in {"name", "size"} /\ plain \in Seq(Entry)
      /\ Sorts(items, plain, query.sort)
  BY Unsorted DEF ListInvariant
<1> HIDE DEF plain, items
<1>2. ToBag(items) = ToBag(plain)
  BY <1>1, SortedBag
<1>3. PICK p \in [1..n -> 1..n] :
        /\ items = [k \in 1..n |-> plain[p[k]]]
        /\ \A k, l \in 1..n : k < l => Earlier(plain, query.sort, p[k], p[l])
  BY <1>1 DEF Sorts
<1>4. n \in Nat /\ DOMAIN plain = 1..n /\ DOMAIN items = 1..n
  BY <1>1, <1>3
<1>5. ASSUME NEW i \in DOMAIN items, NEW j \in DOMAIN items, i < j
      PROVE  LET a == items[i]
                 b == items[j]
             IN  \/ Before(KeyOf(a, query.sort), KeyOf(b, query.sort))
                 \/ /\ KeyOf(a, query.sort) = KeyOf(b, query.sort)
                    /\ \E k \in {m \in DOMAIN plain : plain[m] = a},
                          l \in {m \in DOMAIN plain : plain[m] = b} : k <= l
  <2> DEFINE a == items[i]
             b == items[j]
  <2>1. p[i] \in 1..n /\ p[j] \in 1..n /\ a = plain[p[i]] /\ b = plain[p[j]]
    BY <1>3, <1>4
  <2>2. a \in Entry /\ b \in Entry
    BY <1>1, <2>1
  <2>3. Earlier(plain, query.sort, p[i], p[j])
    BY <1>3, <1>4, <1>5
  <2> HIDE DEF a, b
  <2>4. CASE less(a, b, query.sort)
    BY <2>2, <2>4, LessByKey DEF a, b
  <2>5. CASE ~less(a, b, query.sort)
    <3>1. ~less(b, a, query.sort) /\ p[i] < p[j]
      BY <2>1, <2>3, <2>5 DEF Earlier
    <3>2. KeyOf(a, query.sort) = KeyOf(b, query.sort)
      BY <2>2, <2>5, <3>1, LessByKey
    <3>3. /\ p[i] \in {m \in DOMAIN plain : plain[m] = a}
          /\ p[j] \in {m \in DOMAIN plain : plain[m] = b} /\ p[i] <= p[j]
      BY <1>4, <2>1, <3>1
    <3> QED
      BY <3>2, <3>3 DEF a, b
  <2> QED
    BY <2>4, <2>5
<1> QED
  BY <1>2, <1>5 DEF SortedStably, Before, KeyOf, plain, items

THEOREM AlwaysSortedStably == Spec => []SortedStably
BY SortingIsStable, ListInvariantHolds, PTL

-----------------------------------------------------------------------------
(* Listings as trees                                                       *)

LEMMA SizeSame ==
  ASSUME NEW s, Sized(s), NEW t, Sized(t), NEW S, NEW x, Adds(x, s, S), NEW y, Adds(y, t, S),
         NEW c \in Nat, c <= Len(s), c <= Len(t), \A n \in 1..c : s[n].size = t[n].size
  PROVE  x[c] = y[c]
<1> DEFINE P == {n \in Nat : n <= c => x[n] = y[n]}
<1>1. 0 \in P
  BY DEF Adds
<1>2. ASSUME NEW n \in Nat, n \in P PROVE n + 1 \in P
  <2> SUFFICES ASSUME n + 1 <= c PROVE x[n + 1] = y[n + 1]
    OBVIOUS
  <2> DEFINE m == n + 1
  <2>1. x[n] = y[n] /\ m \in 1..c /\ m - 1 = n /\ m \in 1..Len(s) /\ m \in 1..Len(t)
    BY <1>2 DEF Sized
  <2>2. /\ x[m] = x[n] + (IF m \in S THEN s[m].size ELSE 0)
        /\ y[m] = y[n] + (IF m \in S THEN t[m].size ELSE 0)
    BY <2>1 DEF Adds
  <2>3. s[m].size = t[m].size
    BY <2>1
  <2> HIDE DEF m
  <2> QED
    BY <2>1, <2>2, <2>3 DEF m
<1> HIDE DEF P
<1>3. c \in P
  BY <1>1, <1>2, Induct
<1> QED
  BY <1>3 DEF P

\* The size of items to which one more was added.
LEMMA SizeAppend ==
  ASSUME NEW s, Sized(s), NEW t, Sized(t), Len(t) = Len(s) + 1,
         \A n \in 1..Len(s) : s[n].size = t[n].size, NEW S
  PROVE  /\ Size(s, S) \in Nat
         /\ Size(t, S) = Size(s, S) + (IF Len(t) \in S THEN t[Len(t)].size ELSE 0)
<1>1. PICK x : Adds(x, s, S) /\ Size(s, S) = x[Len(s)]
  BY SizeAdds
<1>2. PICK y : Adds(y, t, S) /\ Size(t, S) = y[Len(t)]
  BY SizeAdds
<1>3. Len(s) \in Nat /\ Len(s) <= Len(s) /\ Len(s) <= Len(t)
  BY DEF Sized
<1>4. x[Len(s)] = y[Len(s)]
  BY <1>1, <1>2, <1>3, SizeSame
<1>5. Len(t) \in 1..Len(t) /\ Len(t) - 1 = Len(s)
  BY <1>3
<1>6. y[Len(t)] = y[Len(t) - 1] + (IF Len(t) \in S THEN t[Len(t)].size ELSE 0)
  BY <1>2, <1>5 DEF Adds
<1>7. x[Len(s)] \in Nat
  BY <1>1, <1>3 DEF Adds
<1> QED
  BY <1>1, <1>2, <1>4, <1>5, <1>6, <1>7

\* The size of items of which the last grew.
LEMMA SizeLast ==
  ASSUME NEW s, Sized(s), NEW t, Sized(t), Len(t) = Len(s), Len(s) # 0,
         \A n \in 1..(Len(s) - 1) : s[n].size = t[n].size, NEW S,
         NEW more \in Nat, t[Len(s)].size = s[Len(s)].size + more
  PROVE  /\ Size(s, S) \in Nat
         /\ Size(t, S) = Size(s, S) + (IF Len(s) \in S THEN more ELSE 0)
<1>1. PICK x : Adds(x, s, S) /\ Size(s, S) = x[Len(s)]
  BY SizeAdds
<1>2. PICK y : Adds(y, t, S) /\ Size(t, S) = y[Len(t)]
  BY SizeAdds
<1>3. PICK l \in Nat : l = Len(s) - 1
  <2>1. PICK a \in Nat : a = Len(s) /\ a # 0
    BY DEF Sized
  <2>2. a - 1 \in Nat
    BY <2>1
  <2> QED
    BY <2>1, <2>2
<1>4. l + 1 = Len(s) /\ l <= Len(s) /\ l <= Len(t) /\ l + 1 \in 1..Len(s) /\ l \in 0..Len(s)
  BY <1>3 DEF Sized
<1>5. x[l] = y[l]
  BY <1>1, <1>2, <1>3, <1>4, SizeSame
<1> DEFINE m == l + 1
<1>6. m - 1 = l /\ m \in 1..Len(s) /\ m \in 1..Len(t) /\ m = Len(s)
  BY <1>4
<1>7. /\ x[m] = x[l] + (IF m \in S THEN s[m].size ELSE 0)
      /\ y[m] = y[l] + (IF m \in S THEN t[m].size ELSE 0)
  BY <1>1, <1>2, <1>6 DEF Adds
<1>8. x[l] \in Nat /\ s[m].size \in Nat /\ t[m].size = s[m].size + more
  BY <1>1, <1>4, <1>6 DEF Adds, Sized
<1> HIDE DEF m
<1>9. x[m] \in Nat /\ y[m] = x[m] + (IF m \in S THEN more ELSE 0)
  BY <1>5, <1>7, <1>8
<1> QED
  BY <1>1, <1>2, <1>6, <1>9

LEMMA EntriesSized ==
  ASSUME NEW items \in Seq(Entry)
  PROVE  Sized(items)
<1>1. \A n \in 1..Len(items) : items[n] \in Entry
  OBVIOUS
<1> QED
  BY <1>1 DEF Entry, Sized

\* The files directly below path, those in the directory d directly below it, and
\* the items for that directory.
Shallow(files, path) == {i \in Matching(files, path) : Len(files[i].path) = Len(path) + 1}
Deep(files, path, d) ==
  {i \in Matching(files, path) : Len(files[i].path) > Len(path) + 1
                                 /\ SubSeq(files[i].path, 1, Len(path) + 1) = d}
Entries(items, d) ==
  {m \in DOMAIN items : items[m].type = "directory" /\ items[m].path = d}

\* Among the first n files something follows the first in d that is not in it.
Left(files, path, d, n) ==
  \E i \in Deep(files, path, d) : \E k \in Matching(files, path) \cap 1..n :
    i < k /\ k \notin Deep(files, path, d)

\* What the items of a tree are after n files.
OfLevel(files, path, items, n) ==
  /\ \A m \in 1..Len(items) :
       \/ \E i \in Shallow(files, path) \cap 1..n : items[m] = buildFile(files, i)
       \/ /\ items[m].type = "directory"
          /\ Deep(files, path, items[m].path) \cap 1..n # {}
  /\ \A i \in Shallow(files, path) \cap 1..n :
       \E m \in 1..Len(items) : items[m] = buildFile(files, i)
  /\ \A m, l \in 1..Len(items) : items[m].type = "file" /\ items[m] = items[l] => m = l

\* What the items for a directory are.
OfDirectory(files, path, items, n, d) ==
  /\ Deep(files, path, d) \cap 1..n # {} => Entries(items, d) # {}
  /\ Size(items, Entries(items, d)) = Size(files, Deep(files, path, d) \cap 1..n)
  /\ \A m \in Entries(items, d) : m # Len(items) => Left(files, path, d, n)
  /\ Together(Deep(files, path, d), Matching(files, path)) =>
       \A m, l \in Entries(items, d) : m = l

OfTree(files, path, items, n) ==
  /\ items \in Seq(Real(files))
  /\ OfLevel(files, path, items, n)
  /\ \A d : OfDirectory(files, path, items, n, d)

LEMMA DeepGrows ==
  ASSUME NEW files \in Seq(File), NEW path, NEW n \in Nat, NEW d,
         n + 1 \in Deep(files, path, d)
  PROVE  /\ Deep(files, path, d) \cap 1..(n + 1)
              = (Deep(files, path, d) \cap 1..n) \cup {n + 1}
         /\ Size(files, Deep(files, path, d) \cap 1..(n + 1))
              = Size(files, Deep(files, path, d) \cap 1..n) + files[n + 1].size
<1> DEFINE D == Deep(files, path, d)
           few == D \cap 1..n
<1>1. D \subseteq DOMAIN files /\ DOMAIN files = 1..Len(files) /\ Sized(files)
  BY FilesSized DEF Deep, Matching
<1>2. D \cap 1..(n + 1) = few \cup {n + 1} /\ few \cap {n + 1} = {}
  BY <1>1
<1> HIDE DEF few
<1>3. Size(files, few \cup {n + 1}) = Size(files, few) + Size(files, {n + 1})
  BY <1>1, <1>2, SizeUnion
<1>4. Size(files, {n + 1}) = files[n + 1].size
  BY <1>1, SizeOne
<1> QED
  BY <1>2, <1>3, <1>4 DEF few

LEMMA DeepNext ==
  ASSUME NEW files \in Seq(File), NEW path, NEW n \in Nat, NEW d
  PROVE  /\ n + 1 \notin Deep(files, path, d) =>
              Deep(files, path, d) \cap 1..(n + 1) = Deep(files, path, d) \cap 1..n
         /\ Left(files, path, d, n) => Left(files, path, d, n + 1)
<1> DEFINE D == Deep(files, path, d)
<1>1. D \subseteq DOMAIN files /\ DOMAIN files = 1..Len(files)
  BY DEF Deep, Matching
<1>3. n + 1 \notin D => D \cap 1..(n + 1) = D \cap 1..n
  BY <1>1
<1>4. Left(files, path, d, n) => Left(files, path, d, n + 1)
  <2>1. 1..n \subseteq 1..(n + 1)
    OBVIOUS
  <2> QED
    BY <2>1 DEF Left
<1> QED
  BY <1>3, <1>4

\* A file that does not match the path leaves the items as they are.
LEMMA TreeSkips ==
  ASSUME NEW files \in Seq(File), NEW path, NEW n \in Nat, NEW items,
         OfTree(files, path, items, n), n + 1 \notin Matching(files, path)
  PROVE  OfTree(files, path, items, n + 1)
<1>1. ASSUME NEW d PROVE OfDirectory(files, path, items, n + 1, d)
  <2>1. n + 1 \notin Deep(files, path, d)
    BY DEF Deep
  <2>2. Deep(files, path, d) \cap 1..(n + 1) = Deep(files, path, d) \cap 1..n
    BY <2>1, DeepNext
  <2>4. Left(files, path, d, n) => Left(files, path, d, n + 1)
    BY DeepNext
  <2>3. OfDirectory(files, path, items, n, d)
    BY DEF OfTree
  <2> QED
    BY <2>2, <2>3, <2>4 DEF OfDirectory
<1>2. OfLevel(files, path, items, n + 1)
  <2>1. Shallow(files, path) \cap 1..(n + 1) = Shallow(files, path) \cap 1..n
    <3>1. n + 1 \notin Shallow(files, path)
      BY DEF Shallow
    <3>2. \A i \in Shallow(files, path) : i \in DOMAIN files
      BY DEF Shallow, Matching
    <3> QED
      BY <3>1, <3>2
  <2>2. ASSUME NEW d
        PROVE  Deep(files, path, d) \cap 1..(n + 1) = Deep(files, path, d) \cap 1..n
    <3>1. n + 1 \notin Deep(files, path, d)
      BY DEF Deep
    <3> QED
      BY <3>1, DeepNext
  <2> QED
    BY <2>1, <2>2 DEF OfLevel, OfTree
<1> QED
  BY <1>1, <1>2 DEF OfTree

\* Entries of a tree to which an item was added.
LEMMA EntriesAppend ==
  ASSUME NEW files, NEW items \in Seq(Real(files)), NEW x \in Real(files), NEW d
  PROVE  LET more == Append(items, x)
         IN  /\ more \in Seq(Real(files)) /\ Len(more) = Len(items) + 1
             /\ more[Len(more)] = x /\ \A m \in 1..Len(items) : more[m] = items[m]
             /\ ~(x.type = "directory" /\ x.path = d) =>
                  Entries(more, d) = Entries(items, d)
             /\ x.type = "directory" /\ x.path = d =>
                  Entries(more, d) = Entries(items, d) \cup {Len(more)}
             /\ Entries(items, d) \subseteq 1..Len(items)
             /\ Size(more, Entries(items, d)) = Size(items, Entries(items, d))
             /\ x.type = "directory" /\ x.path = d =>
                  Size(more, Entries(more, d)) = Size(items, Entries(items, d)) + x.size
<1> DEFINE more == Append(items, x)
           N == Len(items)
           E == Entries(items, d)
<1>1. /\ more \in Seq(Real(files)) /\ Len(more) = N + 1 /\ more[N + 1] = x
      /\ \A m \in 1..N : more[m] = items[m]
      /\ N \in Nat /\ DOMAIN items = 1..N /\ DOMAIN more = 1..(N + 1)
  OBVIOUS
<1>2. E \subseteq 1..N
  BY <1>1 DEF Entries
<1>3. Sized(items) /\ Sized(more)
  <2>1. items \in Seq(Entry) /\ more \in Seq(Entry)
    BY <1>1 DEF Real
  <2> QED
    BY <2>1, EntriesSized
<1> HIDE DEF more, N, E
<1>4. \A m : m \in Entries(more, d) <=>
               m \in E \/ (m = N + 1 /\ x.type = "directory" /\ x.path = d)
  <2>1. \A m : m \in Entries(more, d) <=>
                 m \in 1..(N + 1) /\ more[m].type = "directory" /\ more[m].path = d
    BY <1>1 DEF Entries
  <2>2. \A m : m \in E <=> m \in 1..N /\ items[m].type = "directory" /\ items[m].path = d
    BY <1>1 DEF Entries, E
  <2>3. \A m : m \in 1..(N + 1) <=> m \in 1..N \/ m = N + 1
    BY <1>1
  <2> QED
    BY <1>1, <2>1, <2>2, <2>3
<1>5. N + 1 \notin E
  BY <1>1, <1>2
<1>6. \A n \in 1..N : items[n].size = more[n].size
  BY <1>1
<1>7. Size(more, E) = Size(items, E) + 0 /\ Size(items, E) \in Nat
  BY <1>1, <1>3, <1>5, <1>6, SizeAppend DEF N
<1>8. ASSUME x.type = "directory", x.path = d
      PROVE  Size(more, Entries(more, d)) = Size(items, E) + x.size
  <2>1. Entries(more, d) = E \cup {N + 1} /\ E \cap {N + 1} = {}
    BY <1>4, <1>5, <1>8
  <2>2. Size(more, E \cup {N + 1}) = Size(more, E) + Size(more, {N + 1})
    BY <1>3, <2>1, SizeUnion
  <2>3. Size(more, {N + 1}) = x.size
    <3>1. N + 1 \in DOMAIN more
      BY <1>1
    <3> QED
      BY <1>1, <1>3, <3>1, SizeOne
  <2> QED
    BY <1>7, <2>1, <2>2, <2>3
<1>9. Size(more, E) = Size(items, E)
  BY <1>7
<1>10. /\ ~(x.type = "directory" /\ x.path = d) => Entries(more, d) = E
       /\ x.type = "directory" /\ x.path = d => Entries(more, d) = E \cup {Len(more)}
  BY <1>1, <1>4
<1> QED
  BY <1>1, <1>2, <1>8, <1>9, <1>10 DEF more, N, E

\* The level after one more item, for the file that n + 1 is or the directory it is in.
LEMMA LevelAppend ==
  ASSUME NEW files \in Seq(File), NEW path, NEW n \in Nat, n + 1 \in Matching(files, path),
         NEW items \in Seq(Real(files)), OfLevel(files, path, items, n), NEW x \in Real(files),
         \/ n + 1 \in Shallow(files, path) /\ x = buildFile(files, n + 1)
         \/ /\ n + 1 \notin Shallow(files, path) /\ x.type = "directory"
            /\ n + 1 \in Deep(files, path, x.path)
  PROVE  OfLevel(files, path, Append(items, x), n + 1)
<1> DEFINE more == Append(items, x)
           N == Len(items)
           F == Shallow(files, path)
           B(i) == buildFile(files, i)
           D(d) == Deep(files, path, d)
           InFile(y, l) == \E i \in F \cap 1..l : y = B(i)
           InDir(y, l) == y.type = "directory" /\ D(y.path) \cap 1..l # {}
<1>1. /\ Len(more) = N + 1 /\ more[N + 1] = x /\ \A m \in 1..N : more[m] = items[m]
      /\ N \in Nat
  OBVIOUS
<1>2. 1..n \subseteq 1..(n + 1) /\ n + 1 \in 1..(n + 1) /\ \A k \in 1..(n + 1) : k \in 1..n \/ k = n + 1
  OBVIOUS
<1>3. /\ \A m \in 1..N : InFile(items[m], n) \/ InDir(items[m], n)
      /\ \A i \in F \cap 1..n : \E m \in 1..N : items[m] = B(i)
      /\ \A m, l \in 1..N : items[m].type = "file" /\ items[m] = items[l] => m = l
  BY DEF OfLevel
<1>4. \A i : B(i).type = "file" /\ B(i).index = i - 1
  BY DEF buildFile
<1>5. \A k \in 1..(N + 1) : k \in 1..N \/ k = N + 1
  BY <1>1
<1>6. \A k \in 1..N : k \in 1..(N + 1)
  BY <1>1
<1>7. N + 1 \in 1..(N + 1)
  BY <1>1
<1>8. F \subseteq Matching(files, path)
  BY DEF Shallow
<1>9. \/ n + 1 \in F /\ x = B(n + 1)
      \/ n + 1 \notin F /\ x.type = "directory" /\ n + 1 \in D(x.path)
  OBVIOUS
<1> HIDE DEF more, N, F, B, D
<1>10. \A y : (InFile(y, n) => InFile(y, n + 1)) /\ (InDir(y, n) => InDir(y, n + 1))
  BY <1>2
<1>11. InFile(x, n + 1) \/ InDir(x, n + 1)
  BY <1>2, <1>9
<1>12. \A m \in 1..(N + 1) : InFile(more[m], n + 1) \/ InDir(more[m], n + 1)
  <2> HIDE DEF InFile, InDir
  <2> QED
    BY <1>1, <1>3, <1>5, <1>10, <1>11
<1>13. ASSUME NEW i \in F \cap 1..(n + 1) PROVE \E m \in 1..(N + 1) : more[m] = B(i)
  <2>1. CASE i = n + 1
    BY <2>1, <1>1, <1>7, <1>9
  <2>2. CASE i \in 1..n
    BY <2>2, <1>1, <1>3, <1>6
  <2> QED
    BY <1>2, <2>1, <2>2
<1>14. ASSUME NEW m \in 1..N, x.type = "file" PROVE items[m] # x
  <2>1. x = B(n + 1)
    BY <1>9, <1>14
  <2>2. CASE InDir(items[m], n)
    BY <2>2, <1>14
  <2>3. CASE InFile(items[m], n)
    <3>1. PICK i \in 1..n : items[m] = B(i)
      BY <2>3
    <3>2. i \in Nat /\ i - 1 # (n + 1) - 1
      OBVIOUS
    <3> QED
      BY <1>4, <2>1, <3>1, <3>2
  <2> QED
    BY <1>3, <2>2, <2>3
<1>15. ASSUME NEW m \in 1..(N + 1), NEW l \in 1..(N + 1), more[m].type = "file", more[m] = more[l]
       PROVE  m = l
  <2>1. CASE m \in 1..N /\ l \in 1..N
    BY <2>1, <1>1, <1>3, <1>15
  <2>2. CASE m = N + 1 /\ l \in 1..N
    BY <2>2, <1>1, <1>14, <1>15
  <2>3. CASE m \in 1..N /\ l = N + 1
    BY <2>3, <1>1, <1>14, <1>15
  <2> QED
    BY <1>5, <2>1, <2>2, <2>3
<1> QED
  BY <1>1, <1>12, <1>13, <1>15 DEF OfLevel, more, F, B, D

\* A directory that the next matching file is not in is left behind.
LEMMA LeftBehind ==
  ASSUME NEW files \in Seq(File), NEW path, NEW n \in Nat, n + 1 \in Matching(files, path),
         NEW d, n + 1 \notin Deep(files, path, d), Deep(files, path, d) \cap 1..n # {}
  PROVE  Left(files, path, d, n + 1)
<1>1. PICK i \in Deep(files, path, d) : i \in 1..n
  OBVIOUS
<1>2. i < n + 1 /\ n + 1 \in 1..(n + 1)
  BY <1>1
<1> QED
  BY <1>1, <1>2 DEF Left

\* What an item for something else does to the items for a directory.
LEMMA OtherAppend ==
  ASSUME NEW files \in Seq(File), NEW path, NEW n \in Nat, n + 1 \in Matching(files, path),
         NEW items, OfTree(files, path, items, n), NEW x \in Real(files),
         NEW d, ~(x.type = "directory" /\ x.path = d), n + 1 \notin Deep(files, path, d)
  PROVE  OfDirectory(files, path, Append(items, x), n + 1, d)
<1> DEFINE more == Append(items, x)
           E == Entries(items, d)
           D == Deep(files, path, d)
           left(k) == Left(files, path, d, k)
<1>1. /\ items \in Seq(Real(files)) /\ OfLevel(files, path, items, n)
      /\ OfDirectory(files, path, items, n, d)
  BY DEF OfTree
<1>2. /\ Entries(more, d) = E /\ Size(more, E) = Size(items, E)
      /\ E \subseteq 1..Len(items)
  BY <1>1, EntriesAppend
<1>3. D \cap 1..(n + 1) = D \cap 1..n
  BY DeepNext
<1>4. ASSUME NEW m \in E PROVE left(n + 1)
  <2>1. items[m].type = "directory" /\ items[m].path = d /\ m \in 1..Len(items)
    BY <1>2 DEF Entries
  <2>2. D \cap 1..n # {}
    <3>1. ASSUME NEW i, items[m] = buildFile(files, i) PROVE FALSE
      BY <2>1, <3>1 DEF buildFile
    <3> QED
      BY <1>1, <2>1, <3>1 DEF OfLevel
  <2> QED
    BY <2>2, LeftBehind
<1>5. /\ D \cap 1..n # {} => E # {}
      /\ Size(items, E) = Size(files, D \cap 1..n)
      /\ Together(D, Matching(files, path)) => \A m, l \in E : m = l
  BY <1>1 DEF OfDirectory
<1> HIDE DEF more, E, D, left
<1>6. /\ D \cap 1..(n + 1) # {} => Entries(more, d) # {}
      /\ Size(more, Entries(more, d)) = Size(files, D \cap 1..(n + 1))
      /\ \A m \in Entries(more, d) : m # Len(more) => left(n + 1)
      /\ Together(D, Matching(files, path)) => \A m, l \in Entries(more, d) : m = l
  BY <1>2, <1>3, <1>4, <1>5
<1> QED
  BY <1>6 DEF OfDirectory, more, D, left

\* A file directly below the path is one more item.
LEMMA TreeFile ==
  ASSUME NEW files \in Seq(File), NEW path, NEW n \in Nat, n + 1 \in Shallow(files, path),
         NEW items, OfTree(files, path, items, n)
  PROVE  OfTree(files, path, Append(items, buildFile(files, n + 1)), n + 1)
<1> DEFINE x == buildFile(files, n + 1)
<1>1. n + 1 \in Matching(files, path) /\ n + 1 \in DOMAIN files
  BY DEF Shallow, Matching
<1>2. x \in Real(files) /\ x.type = "file"
  BY <1>1, RealFile DEF buildFile
<1>3. items \in Seq(Real(files)) /\ OfLevel(files, path, items, n)
  BY DEF OfTree
<1>4. \A d : n + 1 \notin Deep(files, path, d)
  <2>1. Len(files[n + 1].path) \in Nat /\ Len(files[n + 1].path) = Len(path) + 1
    BY <1>1, FilesAreFiles DEF Shallow
  <2>2. ~(Len(files[n + 1].path) > Len(path) + 1)
    BY <2>1
  <2> QED
    BY <2>2 DEF Deep
<1>5. OfLevel(files, path, Append(items, x), n + 1)
  BY <1>1, <1>2, <1>3, LevelAppend
<1>6. ASSUME NEW d PROVE OfDirectory(files, path, Append(items, x), n + 1, d)
  <2>1. ~(x.type = "directory" /\ x.path = d) /\ n + 1 \notin Deep(files, path, d)
    BY <1>2, <1>4
  <2> HIDE DEF x
  <2> QED
    BY <1>1, <1>2, <2>1, OtherAppend
<1>7. Append(items, x) \in Seq(Real(files))
  BY <1>2, <1>3
<1> QED
  BY <1>5, <1>6, <1>7 DEF OfTree

\* A file of a directory that is not the last item: the directory is one more item.
LEMMA TreeDirectory ==
  ASSUME NEW files \in Seq(File), NEW path, NEW n \in Nat, NEW d,
         n + 1 \in Deep(files, path, d), NEW items, OfTree(files, path, items, n),
         Len(items) \notin Entries(items, d),
         directory(d, files[n + 1].size) \in Real(files)
  PROVE  OfTree(files, path, Append(items, directory(d, files[n + 1].size)), n + 1)
<1> DEFINE x == directory(d, files[n + 1].size)
           more == Append(items, x)
           D == Deep(files, path, d)
           E == Entries(items, d)
           left(k) == Left(files, path, d, k)
<1>1. n + 1 \in Matching(files, path) /\ Len(files[n + 1].path) > Len(path) + 1
  BY DEF Deep
<1>2. x.type = "directory" /\ x.path = d /\ x.size = files[n + 1].size /\ x \in Real(files)
  BY DEF directory
<1>3. /\ items \in Seq(Real(files)) /\ OfLevel(files, path, items, n)
      /\ OfDirectory(files, path, items, n, d)
  BY DEF OfTree
<1>4. n + 1 \notin Shallow(files, path)
  <2>1. n + 1 \in DOMAIN files
    BY <1>1 DEF Matching
  <2>2. Len(files[n + 1].path) \in Nat
    BY <2>1, FilesAreFiles
  <2>3. Len(files[n + 1].path) # Len(path) + 1
    BY <1>1, <2>2
  <2> QED
    BY <2>3 DEF Shallow
<1> HIDE DEF x
<1>5. OfLevel(files, path, more, n + 1)
  BY <1>1, <1>2, <1>3, <1>4, LevelAppend
<1>6. ASSUME NEW e, e # d PROVE OfDirectory(files, path, more, n + 1, e)
  <2>1. n + 1 \notin Deep(files, path, e)
    BY <1>6 DEF Deep
  <2>2. ~(x.type = "directory" /\ x.path = e)
    BY <1>2, <1>6
  <2> QED
    BY <1>1, <1>2, <2>1, <2>2, OtherAppend
<1>7. /\ more \in Seq(Real(files)) /\ Entries(more, d) = E \cup {Len(more)}
      /\ Size(more, Entries(more, d)) = Size(items, E) + files[n + 1].size
  BY <1>2, <1>3, EntriesAppend
<1>8. /\ Size(items, E) = Size(files, D \cap 1..n)
      /\ \A m \in E : m # Len(items) => left(n)
  BY <1>3 DEF OfDirectory
<1>9. Size(files, D \cap 1..(n + 1)) = Size(files, D \cap 1..n) + files[n + 1].size
  BY DeepGrows
<1>10. left(n) => left(n + 1)
  BY DeepNext
<1>11. ASSUME Together(D, Matching(files, path)), NEW m \in E PROVE FALSE
  <2>1. left(n)
    BY <1>8
  <2>2. PICK i \in D : \E k \in Matching(files, path) \cap 1..n : i < k /\ k \notin D
    BY <2>1 DEF Left
  <2>3. PICK k \in Matching(files, path) \cap 1..n : i < k /\ k \notin D
    BY <2>2
  <2>4. k < n + 1 /\ n + 1 \in D
    BY <2>3
  <2> HIDE DEF D
  <2> QED
    BY <1>11, <2>2, <2>3, <2>4 DEF Together
<1> HIDE DEF more, D, E, left
<1>12. OfDirectory(files, path, more, n + 1, d)
  <2>1. Entries(more, d) # {}
    BY <1>7
  <2>2. Size(more, Entries(more, d)) = Size(files, D \cap 1..(n + 1))
    BY <1>7, <1>8, <1>9
  <2>3. \A m \in Entries(more, d) : m # Len(more) => left(n + 1)
    <3>1. \A m \in E : left(n + 1)
      BY <1>8, <1>10 DEF E
    <3> QED
      BY <1>7, <3>1
  <2>4. Together(D, Matching(files, path)) => \A m, l \in Entries(more, d) : m = l
    BY <1>7, <1>11
  <2> QED
    BY <2>1, <2>2, <2>3, <2>4 DEF OfDirectory, D, left
<1>13. \A e : OfDirectory(files, path, more, n + 1, e)
  BY <1>6, <1>12
<1>14. OfTree(files, path, more, n + 1)
  BY <1>5, <1>7, <1>13 DEF OfTree
<1> QED
  BY <1>14 DEF more, x

\* more has the items, of which the last, a directory, became larger.
Enlarged(more, items, d, size) ==
  /\ Len(more) = Len(items)
  /\ \A m \in 1..Len(items) : m # Len(items) => more[m] = items[m]
  /\ more[Len(items)].type = "directory" /\ more[Len(items)].path = d
  /\ more[Len(items)].size = items[Len(items)].size + size

\* A file of the directory that is the last item: the directory grows.
LEMMA TreeLarger ==
  ASSUME NEW files \in Seq(File), NEW path, NEW n \in Nat, NEW d,
         n + 1 \in Deep(files, path, d), NEW items, OfTree(files, path, items, n),
         Len(items) \in Entries(items, d),
         NEW more \in Seq(Real(files)), Enlarged(more, items, d, files[n + 1].size)
  PROVE  OfTree(files, path, more, n + 1)
<1> DEFINE N == Len(items)
           size == files[n + 1].size
           M == Matching(files, path)
           F == Shallow(files, path)
           B(i) == buildFile(files, i)
           D(e) == Deep(files, path, e)
           left(e, k) == Left(files, path, e, k)
           InFile(y, l) == \E i \in F \cap 1..l : y = B(i)
           InDir(y, l) == y.type = "directory" /\ D(y.path) \cap 1..l # {}
<1>1. n + 1 \in M /\ n + 1 \in DOMAIN files /\ Len(files[n + 1].path) > Len(path) + 1 /\ size \in Nat
  <2>1. n + 1 \in M /\ n + 1 \in DOMAIN files /\ Len(files[n + 1].path) > Len(path) + 1
    BY DEF Deep, Matching
  <2> QED
    BY <2>1, FilesAreFiles
<1>2. n + 1 \notin F
  <2>1. Len(files[n + 1].path) \in Nat
    BY <1>1, FilesAreFiles
  <2>2. Len(files[n + 1].path) # Len(path) + 1
    BY <1>1, <2>1
  <2> QED
    BY <2>2 DEF Shallow
<1>3. /\ items \in Seq(Real(files)) /\ OfLevel(files, path, items, n)
      /\ \A e : OfDirectory(files, path, items, n, e)
  BY DEF OfTree
<1>4. N \in Nat /\ N \in 1..N /\ items[N].type = "directory" /\ items[N].path = d
  <2>1. N \in Nat /\ DOMAIN items = 1..N
    BY <1>3
  <2> QED
    BY <2>1 DEF Entries
<1>5. Sized(items) /\ Sized(more)
  <2>1. items \in Seq(Entry) /\ more \in Seq(Entry)
    BY <1>3 DEF Real
  <2> QED
    BY <2>1, EntriesSized
<1>6. /\ Len(more) = N /\ DOMAIN more = 1..N /\ DOMAIN items = 1..N
      /\ \A m \in 1..N : m # N => more[m] = items[m]
  BY <1>3 DEF Enlarged
<1>7. more[N].type = "directory" /\ more[N].path = d /\ more[N].size = items[N].size + size
  BY DEF Enlarged
<1> HIDE DEF M, F, B, D, left, size
<1>8. \A e : Entries(more, e) = Entries(items, e) /\ Entries(items, e) \subseteq 1..N
  <2>1. \A m \in 1..N : more[m].type = items[m].type /\ more[m].path = items[m].path
    BY <1>4, <1>6, <1>7
  <2> QED
    BY <1>6, <2>1 DEF Entries
<1>9. ASSUME NEW e
      PROVE  Size(more, Entries(items, e))
               = Size(items, Entries(items, e)) + (IF N \in Entries(items, e) THEN size ELSE 0)
  <2>1. N # 0 /\ \A m \in 1..(N - 1) : items[m].size = more[m].size
    <3>1. \A m \in 1..(N - 1) : m \in 1..N /\ m # N
      BY <1>4
    <3>2. N # 0
      BY <1>4
    <3>3. ASSUME NEW m \in 1..(N - 1) PROVE items[m].size = more[m].size
      <4>1. more[m] = items[m]
        BY <1>6, <3>1
      <4> QED
        BY <4>1
    <3> QED
      BY <3>2, <3>3
  <2> DEFINE E == Entries(items, e)
  <2> HIDE DEF E
  <2>3. /\ Len(more) = Len(items) /\ Len(items) # 0 /\ size \in Nat
        /\ more[Len(items)].size = items[Len(items)].size + size
        /\ \A m \in 1..(Len(items) - 1) : items[m].size = more[m].size
    BY <1>1, <1>6, <1>7, <2>1
  <2>2. Size(more, E) = Size(items, E) + (IF Len(items) \in E THEN size ELSE 0)
    BY <1>5, <2>3, SizeLast
  <2> QED
    BY <2>2 DEF E
<1>10. ASSUME NEW S PROVE Size(items, S) \in Nat
  <2>1. S \cap {} = {}
    OBVIOUS
  <2> QED
    BY <1>5, <2>1, SizeUnion
<1>11. \A e : left(e, n) => left(e, n + 1)
  BY DeepNext DEF left
<1>12. /\ D(d) \cap 1..(n + 1) = (D(d) \cap 1..n) \cup {n + 1}
       /\ Size(files, D(d) \cap 1..(n + 1)) = Size(files, D(d) \cap 1..n) + size
  <2>1. /\ Deep(files, path, d) \cap 1..(n + 1)
             = (Deep(files, path, d) \cap 1..n) \cup {n + 1}
        /\ Size(files, Deep(files, path, d) \cap 1..(n + 1))
             = Size(files, Deep(files, path, d) \cap 1..n) + files[n + 1].size
    BY DeepGrows
  <2> QED
    BY <2>1 DEF D, size
<1>13. \A e : e # d => n + 1 \notin D(e) /\ D(e) \cap 1..(n + 1) = D(e) \cap 1..n
  <2>1. \A e : e # d => n + 1 \notin D(e)
    BY DEF D, Deep
  <2> QED
    BY <2>1, DeepNext DEF D
<1>14. \A e : /\ D(e) \cap 1..n # {} => Entries(items, e) # {}
              /\ Size(items, Entries(items, e)) = Size(files, D(e) \cap 1..n)
              /\ \A m \in Entries(items, e) : m # N => left(e, n)
              /\ Together(D(e), M) => \A m, l \in Entries(items, e) : m = l
  BY <1>3 DEF OfDirectory, D, left, M
<1>15. ASSUME NEW e PROVE OfDirectory(files, path, more, n + 1, e)
  <2>1. D(e) \cap 1..(n + 1) # {} => Entries(more, e) # {}
    <3>1. CASE e = d
      BY <3>1, <1>8
    <3>2. CASE e # d
      BY <3>2, <1>8, <1>13, <1>14
    <3> QED
      BY <3>1, <3>2
  <2>2. Size(more, Entries(more, e)) = Size(files, D(e) \cap 1..(n + 1))
    <3>1. CASE e = d
      BY <3>1, <1>8, <1>9, <1>12, <1>14
    <3>2. CASE e # d
      <4>1. N \notin Entries(items, e)
        BY <3>2, <1>4 DEF Entries
      <4>2. Size(more, Entries(items, e)) = Size(items, Entries(items, e)) + 0
        BY <1>9, <4>1
      <4>3. Size(more, Entries(items, e)) = Size(items, Entries(items, e))
        BY <4>2, <1>10
      <4> QED
        BY <3>2, <4>3, <1>8, <1>13, <1>14
    <3> QED
      BY <3>1, <3>2
  <2>3. \A m \in Entries(more, e) : m # Len(more) => left(e, n + 1)
    BY <1>6, <1>8, <1>11, <1>14
  <2>4. Together(D(e), M) => \A m, l \in Entries(more, e) : m = l
    BY <1>8, <1>14
  <2> QED
    BY <2>1, <2>2, <2>3, <2>4 DEF OfDirectory, D, left, M
<1>16. OfLevel(files, path, more, n + 1)
  <2>1. /\ \A m \in 1..N : InFile(items[m], n) \/ InDir(items[m], n)
        /\ \A i \in F \cap 1..n : \E m \in 1..N : items[m] = B(i)
        /\ \A m, l \in 1..N : items[m].type = "file" /\ items[m] = items[l] => m = l
    BY <1>3 DEF OfLevel, F, B, D
  <2>2. 1..n \subseteq 1..(n + 1) /\ F \cap 1..(n + 1) = F \cap 1..n
    <3>1. \A k \in 1..(n + 1) : k \in 1..n \/ k = n + 1
      OBVIOUS
    <3> QED
      BY <1>2, <3>1
  <2>3. \A y : (InFile(y, n) => InFile(y, n + 1)) /\ (InDir(y, n) => InDir(y, n + 1))
    BY <2>2
  <2>4. InDir(more[N], n + 1)
    BY <1>7, <1>12
  <2>5. \A m \in 1..N : InFile(more[m], n + 1) \/ InDir(more[m], n + 1)
    <3> HIDE DEF InFile, InDir
    <3> QED
      BY <1>6, <2>1, <2>3, <2>4
  <2>6. \A i \in F \cap 1..(n + 1) : \E m \in 1..N : more[m] = B(i)
    <3>1. \A i : B(i) # items[N]
      BY <1>4 DEF B, buildFile
    <3>2. \A i \in F \cap 1..n : \E m \in 1..N : m # N /\ items[m] = B(i)
      BY <2>1, <3>1
    <3> QED
      BY <1>6, <2>2, <3>2
  <2>7. \A m, l \in 1..N : more[m].type = "file" /\ more[m] = more[l] => m = l
    <3>1. \A m \in 1..N : more[m].type = "file" => m # N
      BY <1>7
    <3> QED
      BY <1>6, <2>1, <3>1
  <2> QED
    BY <1>6, <2>5, <2>6, <2>7 DEF OfLevel, F, B, D
<1> QED
  BY <1>15, <1>16 DEF OfTree

\* What emitTree does to the items of a tree.
LEMMA EmitsTree ==
  ASSUME NEW files \in Seq(File), NEW path \in Seq(Name), ~TreePanics(files, path),
         NEW n \in Nat, n + 1 \in Matching(files, path),
         NEW items, OfTree(files, path, items, n)
  PROVE  OfTree(files, path, emitTree(files, path, n + 1, items), n + 1)
<1> DEFINE i == n + 1
           f == files[i].path
           dir == SubSeq(f, 1, Len(path) + 1)
           size == files[i].size
<1>1. /\ i \in DOMAIN files /\ f \in Seq(Name) /\ Len(f) \in Nat /\ Len(path) \in Nat
      /\ size \in Nat /\ Len(f) > Len(path)
  <2>1. i \in DOMAIN files
    BY DEF Matching
  <2>2. ~(Len(f) <= Len(path))
    BY DEF TreePanics
  <2> QED
    BY <2>1, <2>2, FilesAreFiles
<1>2. items \in Seq(Real(files))
  BY DEF OfTree
<1>3. CASE Len(f) = Len(path) + 1
  <2>1. emitTree(files, path, i, items) = Append(items, buildFile(files, i))
    BY <1>3 DEF emitTree
  <2>2. n + 1 \in Shallow(files, path)
    BY <1>3 DEF Shallow
  <2>3. OfTree(files, path, Append(items, buildFile(files, n + 1)), n + 1)
    BY <2>2, TreeFile
  <2> QED
    BY <2>1, <2>3
<1>4. CASE Len(f) # Len(path) + 1
  <2> DEFINE same == items # <<>> /\ Last(items).type = "directory" /\ Last(items).path = dir
  <2>1. emitTree(files, path, i, items)
          = IF same THEN [items EXCEPT ![Len(items)].size = @ + size]
            ELSE Append(items, directory(dir, size))
    BY <1>4 DEF emitTree
  <2>2. n + 1 \in Deep(files, path, dir)
    <3>1. Len(f) > Len(path) + 1
      BY <1>1, <1>4
    <3> QED
      BY <3>1 DEF Deep
  <2>3. same <=> Len(items) \in Entries(items, dir)
    <3> HIDE DEF dir
    <3>1. Len(items) \in Nat /\ DOMAIN items = 1..Len(items) /\ (items # <<>> <=> Len(items) # 0)
      BY <1>2
    <3>2. Len(items) \in DOMAIN items <=> items # <<>>
      BY <3>1
    <3> QED
      BY <3>2 DEF Entries, Last
  <2>4. CASE ~same
    <3>1. Len(path) + 1 \in 1..(Len(f) - 1)
      BY <1>1, <1>4
    <3>2. directory(dir, size) \in Real(files)
      BY <1>1, <3>1, RealDirectory
    <3>3. Len(items) \notin Entries(items, dir)
      BY <2>3, <2>4
    <3>4. emitTree(files, path, i, items) = Append(items, directory(dir, size))
      BY <2>1, <2>4
    <3> HIDE DEF dir
    <3>5. OfTree(files, path, Append(items, directory(dir, files[n + 1].size)), n + 1)
      BY <2>2, <3>2, <3>3, TreeDirectory
    <3> QED
      BY <3>4, <3>5
  <2>5. CASE same
    <3> DEFINE last == items[Len(items)]
               more == emitTree(files, path, i, items)
    <3>1. /\ Len(items) \in Nat /\ Len(items) \in 1..Len(items) /\ last \in Real(files)
          /\ DOMAIN items = 1..Len(items)
      BY <1>2, <2>5
    <3>2. last.type = "directory" /\ last.path = dir
      BY <2>5 DEF Last
    <3>3. more = [items EXCEPT ![Len(items)] = [last EXCEPT !.size = @ + size]]
      BY <2>1, <2>5
    <3>4. more \in Seq(Real(files))
      BY <1>2, TreeStays
    <3> HIDE DEF more
    <3>5. /\ Len(more) = Len(items)
          /\ \A m \in 1..Len(items) : m # Len(items) => more[m] = items[m]
          /\ more[Len(items)] = [last EXCEPT !.size = @ + size]
      BY <1>2, <3>1, <3>3
    <3> HIDE DEF last, dir
    <3>6. /\ [last EXCEPT !.size = @ + size].type = last.type
          /\ [last EXCEPT !.size = @ + size].path = last.path
          /\ [last EXCEPT !.size = @ + size].size = last.size + size
      BY <3>1 DEF Real, Entry
    <3>7. Enlarged(more, items, dir, files[n + 1].size)
      BY <3>2, <3>5, <3>6 DEF Enlarged, last
    <3>8. Len(items) \in Entries(items, dir)
      BY <2>3, <2>5
    <3>9. OfTree(files, path, more, n + 1)
      BY <2>2, <3>4, <3>7, <3>8, TreeLarger
    <3> QED
      BY <3>9 DEF more
  <2> QED
    BY <2>4, <2>5
<1> QED
  BY <1>3, <1>4

\* What a tree is.
LEMMA TreeBuilt ==
  ASSUME NEW files \in Seq(File), NEW path \in Seq(Name), ~TreePanics(files, path)
  PROVE  OfTree(files, path, buildTree(files, path), Len(files))
<1> DEFINE N == Len(files)
           Is(items, n) == OfTree(files, path, items, n)
<1>1. PICK upTo : Grows(upTo, files, path) /\ buildTree(files, path) = upTo[N]
  BY TreeGrows
<1>2. N \in Nat
  OBVIOUS
<1> DEFINE P == {n \in Nat : n <= N => Is(upTo[n], n)}
<1>3. 0 \in P
  <2>1. upTo[0] = <<>>
    BY <1>1 DEF Grows
  <2>2. 1..0 = {}
    OBVIOUS
  <2>3. OfLevel(files, path, <<>>, 0)
    BY <2>2 DEF OfLevel
  <2>4. ASSUME NEW d PROVE OfDirectory(files, path, <<>>, 0, d)
    <3>1. Entries(<<>>, d) = {}
      BY DEF Entries
    <3>2. Sized(files) /\ Sized(<<>>)
      BY FilesSized DEF Sized
    <3>3. Size(files, {}) = 0 /\ Size(<<>>, {}) = 0
      BY <3>2, SizeNone
    <3> QED
      BY <2>2, <3>1, <3>3 DEF OfDirectory
  <2>5. <<>> \in Seq(Real(files))
    OBVIOUS
  <2>6. Is(<<>>, 0)
    BY <2>3, <2>4, <2>5 DEF OfTree
  <2> HIDE DEF Is
  <2> QED
    BY <2>1, <2>6
<1>4. ASSUME NEW n \in Nat, n \in P PROVE n + 1 \in P
  <2> SUFFICES ASSUME n + 1 <= N PROVE Is(upTo[n + 1], n + 1)
    OBVIOUS
  <2>1. n + 1 \in 1..N /\ (n + 1) - 1 = n /\ n <= N
    BY <1>2
  <2>2. Is(upTo[n], n)
    BY <1>4, <2>1
  <2>3. upTo[n + 1] = IF n + 1 \in Matching(files, path)
                      THEN emitTree(files, path, n + 1, upTo[n]) ELSE upTo[n]
    BY <1>1, <2>1 DEF Grows
  <2>4. CASE n + 1 \in Matching(files, path)
    <3>1. Is(emitTree(files, path, n + 1, upTo[n]), n + 1)
      BY <2>2, <2>4, EmitsTree
    <3> QED
      BY <2>3, <2>4, <3>1
  <2>5. CASE n + 1 \notin Matching(files, path)
    <3>1. Is(upTo[n], n + 1)
      BY <2>2, <2>5, TreeSkips
    <3> QED
      BY <2>3, <2>5, <3>1
  <2> QED
    BY <2>4, <2>5
<1> HIDE DEF P, Is
<1>5. N \in P
  BY <1>2, <1>3, <1>4, Induct
<1>6. Is(upTo[N], N)
  BY <1>2, <1>5 DEF P
<1> QED
  BY <1>1, <1>6 DEF Is

\* p says at which of n places each place takes its item, and takes each once.
Reorders(p, n) ==
  /\ p \in [1..n -> 1..n]
  /\ \A k, l \in 1..n : p[k] = p[l] => k = l
  /\ \A j \in 1..n : \E k \in 1..n : p[k] = j

\* w has the sizes of base at the places that p says.
Resized(w, base, p) == \A k \in 1..Len(w) : w[k].size = base[p[k]].size

\* p says at which of n places each of m places takes its item, takes none twice,
\* and takes all those at the places in T.
Takes(p, m, n, T) ==
  /\ p \in [1..m -> 1..n]
  /\ \A k, l \in 1..m : p[k] = p[l] => k = l
  /\ \A j \in T : j \in 1..n /\ \E k \in 1..m : p[k] = j

\* The places that take theirs from the places in T.
Takers(p, T, n) == {k \in 1..n : p[k] \in T}

\* Items that are taken, whatever their order, add up to what they did.
LEMMA SizeTaken ==
  ASSUME NEW base, Sized(base), NEW w, Sized(w),
         NEW p, NEW T, Takes(p, Len(w), Len(base), T), Resized(w, base, p)
  PROVE  Size(w, Takers(p, T, Len(w))) = Size(base, T)
<1> DEFINE N == Len(w)
           B == Len(base)
           S(c) == {k \in 1..c : p[k] \in T}
           R(c) == {j \in T : \E k \in 1..c : p[k] = j}
           P == {c \in Nat : c <= N => Size(w, S(c)) = Size(base, R(c))}
<1>1. N \in Nat /\ DOMAIN base = 1..B /\ DOMAIN w = 1..N
  BY DEF Sized
<1>7. /\ \A k \in 1..N : p[k] \in 1..B
      /\ \A k, l \in 1..N : p[k] = p[l] => k = l
      /\ \A j \in T : \E k \in 1..N : p[k] = j
  BY DEF Takes
<1>2. 0 \in P
  <2>1. S(0) = {} /\ R(0) = {}
    OBVIOUS
  <2>2. Size(w, {}) = 0 /\ Size(base, {}) = 0
    BY SizeNone
  <2> QED
    BY <2>1, <2>2
<1>3. ASSUME NEW c \in Nat, c \in P PROVE c + 1 \in P
  <2> SUFFICES ASSUME c + 1 <= N PROVE Size(w, S(c + 1)) = Size(base, R(c + 1))
    OBVIOUS
  <2>1. /\ c + 1 \in 1..N /\ c + 1 \notin 1..c /\ 1..c \subseteq 1..N
        /\ \A k : k \in 1..(c + 1) <=> k \in 1..c \/ k = c + 1
    BY <1>1
  <2>2. Size(w, S(c)) = Size(base, R(c))
    BY <1>1, <1>3
  <2> DEFINE m == c + 1
             j == p[m]
  <2>3. m \in 1..N /\ j \in 1..B
    BY <1>7, <2>1
  <2>4. CASE j \in T
    <3>1. S(m) = S(c) \cup {m} /\ S(c) \cap {m} = {}
      BY <2>1, <2>4
    <3>2. R(m) = R(c) \cup {j}
      BY <2>1, <2>4
    <3>3. j \notin R(c)
      <4>1. ASSUME NEW k \in 1..c, p[k] = j PROVE FALSE
        <5>1. k \in 1..N /\ k # m
          BY <2>1
        <5> QED
          BY <1>7, <2>3, <4>1, <5>1
      <4> QED
        BY <4>1
    <3>8. w[m].size = base[j].size
      BY <2>3 DEF Resized
    <3> HIDE DEF S, R, m, j
    <3>4. Size(w, {m}) = w[m].size /\ Size(base, {j}) = base[j].size
      BY <1>1, <2>3, SizeOne
    <3>9. R(c) \cap {j} = {}
      BY <3>3
    <3>5. Size(w, S(c) \cup {m}) = Size(w, S(c)) + Size(w, {m})
      BY <3>1, SizeUnion
    <3>6. Size(base, R(c) \cup {j}) = Size(base, R(c)) + Size(base, {j})
      BY <3>9, SizeUnion
    <3>7. Size(w, S(m)) = Size(base, R(m))
      BY <2>2, <3>1, <3>2, <3>4, <3>5, <3>6, <3>8
    <3> QED
      BY <3>7 DEF m
  <2>5. CASE j \notin T
    <3>1. S(m) = S(c)
      BY <2>1, <2>5
    <3>2. R(m) = R(c)
      <4>1. ASSUME NEW t \in T PROVE t \in R(m) <=> t \in R(c)
        <5>1. t # j
          BY <2>5
        <5>2. (\E k \in 1..m : p[k] = t) <=> (\E k \in 1..c : p[k] = t)
          BY <2>1, <5>1
        <5> QED
          BY <5>2
      <4> QED
        BY <4>1
    <3> QED
      BY <2>2, <3>1, <3>2
  <2> QED
    BY <2>4, <2>5
<1> HIDE DEF P
<1>4. N \in P
  BY <1>1, <1>2, <1>3, Induct
<1>5. Size(w, S(N)) = Size(base, R(N))
  BY <1>1, <1>4 DEF P
<1>6. R(N) = T /\ S(N) = Takers(p, T, N)
  BY <1>7 DEF Takers
<1> QED
  BY <1>5, <1>6

\* What the items for a directory are, whatever their order.
OfOneDirectory(files, path, items, d) ==
  /\ Deep(files, path, d) # {} => Entries(items, d) # {}
  /\ Size(items, Entries(items, d)) = Size(files, Deep(files, path, d))
  /\ Together(Deep(files, path, d), Matching(files, path)) =>
       \A m, l \in Entries(items, d) : m = l

\* A sorted tree.
LEMMA TreeSorted ==
  ASSUME NEW files \in Seq(File), NEW path \in Seq(Name), ~TreePanics(files, path),
         NEW w, NEW sort, Sorts(w, buildTree(files, path), sort)
  PROVE  /\ OfLevel(files, path, w, Len(files))
         /\ \A d : OfOneDirectory(files, path, w, d)
<1> DEFINE base == buildTree(files, path)
           N == Len(base)
           c == Len(files)
           F == Shallow(files, path)
           B(i) == buildFile(files, i)
           D(e) == Deep(files, path, e)
           InFile(y) == \E i \in F \cap 1..c : y = B(i)
           InDir(y) == y.type = "directory" /\ D(y.path) \cap 1..c # {}
<1>1. OfTree(files, path, base, c)
  BY TreeBuilt
<1>2. base \in Seq(Real(files)) /\ OfLevel(files, path, base, c)
  BY <1>1 DEF OfTree
<1>3. PICK p : Reorders(p, N) /\ w = [k \in 1..N |-> base[p[k]]]
  BY DEF Sorts, Reorders
<1>4. w \in Seq(Real(files)) /\ Len(w) = N
  BY <1>2, SortKeeps
<1>9. /\ \A k \in 1..N : p[k] \in 1..N
      /\ \A k, l \in 1..N : p[k] = p[l] => k = l
      /\ \A j \in 1..N : \E k \in 1..N : p[k] = j
  BY <1>3 DEF Reorders
<1>5. /\ N \in Nat /\ DOMAIN base = 1..N /\ DOMAIN w = 1..N
      /\ \A k \in 1..N : w[k] = base[p[k]] /\ p[k] \in 1..N
  <2> HIDE DEF base
  <2>1. N \in Nat /\ DOMAIN base = 1..N
    BY <1>2
  <2>2. DOMAIN w = 1..N /\ \A k \in 1..N : w[k] = base[p[k]]
    BY <1>3
  <2> QED
    BY <1>9, <2>1, <2>2
<1>6. Sized(base) /\ Sized(w)
  <2>1. base \in Seq(Entry) /\ w \in Seq(Entry)
    BY <1>2, <1>4 DEF Real
  <2> HIDE DEF base
  <2> QED
    BY <2>1, EntriesSized
<1> HIDE DEF base, N, F, B, D
<1>7. OfLevel(files, path, w, c)
  <2>1. /\ \A m \in 1..N : InFile(base[m]) \/ InDir(base[m])
        /\ \A i \in F \cap 1..c : \E m \in 1..N : base[m] = B(i)
        /\ \A m, l \in 1..N : base[m].type = "file" /\ base[m] = base[l] => m = l
    BY <1>2 DEF OfLevel, F, B, D, N
  <2> HIDE DEF InFile, InDir
  <2>2. \A m \in 1..N : InFile(w[m]) \/ InDir(w[m])
    BY <1>5, <2>1
  <2>3. ASSUME NEW i \in F \cap 1..c PROVE \E m \in 1..N : w[m] = B(i)
    <3>1. PICK j \in 1..N : base[j] = B(i)
      BY <2>1
    <3>2. PICK k \in 1..N : p[k] = j
      BY <1>9
    <3> QED
      BY <1>5, <3>1, <3>2
  <2>4. ASSUME NEW m \in 1..N, NEW l \in 1..N, w[m].type = "file", w[m] = w[l] PROVE m = l
    <3>1. p[m] = p[l]
      BY <1>5, <2>1, <2>4
    <3> QED
      BY <1>9, <3>1
  <2> QED
    BY <1>4, <2>2, <2>3, <2>4 DEF OfLevel, F, B, D, InFile, InDir
<1>8. ASSUME NEW d PROVE OfOneDirectory(files, path, w, d)
  <2> DEFINE T == Entries(base, d)
  <2>1. D(d) \cap 1..c = D(d)
    BY DEF D, Deep, Matching
  <2>2. /\ D(d) # {} => T # {}
        /\ Size(base, T) = Size(files, D(d))
        /\ Together(D(d), Matching(files, path)) => \A m, l \in T : m = l
    <3>1. OfDirectory(files, path, base, c, d)
      BY <1>1 DEF OfTree
    <3> QED
      BY <2>1, <3>1 DEF OfDirectory, D
  <2>3. Entries(w, d) = Takers(p, T, N)
    BY <1>5 DEF Entries, Takers
  <2>8. \A k : k \in Entries(w, d) <=> k \in 1..N /\ p[k] \in T
    BY <2>3 DEF Takers
  <2>4. T \subseteq 1..N
    BY <1>5 DEF Entries
  <2> HIDE DEF T
  <2>5. Size(w, Entries(w, d)) = Size(base, T)
    <3>1. \A k \in 1..N : w[k].size = base[p[k]].size
      BY <1>5
    <3>3. /\ Sized(base) /\ Sized(w) /\ Len(w) = Len(base)
          /\ Resized(w, base, p) /\ Takes(p, Len(w), Len(base), T)
      BY <1>3, <1>4, <1>6, <2>4, <3>1 DEF N, Resized, Reorders, Takes
    <3>2. Size(w, Takers(p, T, Len(w))) = Size(base, T)
      BY <3>3, SizeTaken
    <3> QED
      BY <2>3, <3>2, <3>3 DEF N
  <2>6. ASSUME T # {} PROVE Entries(w, d) # {}
    <3>1. PICK j \in T : j \in 1..N
      BY <2>4, <2>6
    <3>2. PICK k \in 1..N : p[k] = j
      BY <1>9, <3>1
    <3> QED
      BY <2>8, <3>1, <3>2
  <2>7. ASSUME \A m, l \in T : m = l, NEW m \in Entries(w, d), NEW l \in Entries(w, d)
        PROVE  m = l
    <3>1. m \in 1..N /\ l \in 1..N /\ p[m] = p[l]
      BY <2>7, <2>8
    <3> QED
      BY <1>9, <3>1
  <2> QED
    BY <2>2, <2>5, <2>6, <2>7 DEF OfOneDirectory, D
<1> QED
  BY <1>7, <1>8

\* Exactly the paths of files, and those that go on from one, cannot be shown as trees.
LEMMA TreePanicsAt ==
  ASSUME torrent \in Seq(File), NEW path \in Seq(Name)
  PROVE  TreePanics(torrent, path) <=> \E f \in ToSet(torrent) : IsPrefix(f.path, path)
<1>1. ASSUME NEW i \in DOMAIN torrent
      PROVE  i \in Matching(torrent, path) /\ Len(torrent[i].path) <= Len(path)
               <=> IsPrefix(torrent[i].path, path)
  <2> DEFINE f == torrent[i].path
  <2>1. f \in Seq(Name) /\ Len(f) \in Nat /\ Len(path) \in Nat
    BY FilesAreFiles
  <2>2. i \in Matching(torrent, path) <=> \A k \in DOMAIN f \cap DOMAIN path : f[k] = path[k]
    BY DEF Matching, pathBeginsWith
  <2> HIDE DEF f
  <2>3. IsPrefix(f, path) <=> Len(f) <= Len(path) /\ \A k \in 1..Len(f) : f[k] = path[k]
    BY <2>1, PrefixIs
  <2>4. DOMAIN f = 1..Len(f) /\ DOMAIN path = 1..Len(path)
    BY <2>1
  <2>5. Len(f) <= Len(path) => \A k : k \in DOMAIN f \cap DOMAIN path <=> k \in 1..Len(f)
    BY <2>1, <2>4
  <2> QED
    BY <2>2, <2>3, <2>5 DEF f
<1>2. TreePanics(torrent, path) <=> \E i \in DOMAIN torrent : IsPrefix(torrent[i].path, path)
  BY <1>1 DEF TreePanics, Matching
<1>3. \A f : f \in ToSet(torrent) <=> \E i \in DOMAIN torrent : f = torrent[i]
  BY DEF ToSet
<1> QED
  BY <1>2, <1>3

LEMMA InDirectories ==
  ASSUME NEW path, NEW d
  PROVE  d \in Directories(path) <=>
           \E i \in Below(path) : \E k \in (Len(path) + 1)..(Len(torrent[i].path) - 1) :
             d = SubSeq(torrent[i].path, 1, k)
<1> DEFINE D(i) == {SubSeq(torrent[i].path, 1, k) :
                      k \in (Len(path) + 1)..(Len(torrent[i].path) - 1)}
<1>1. Directories(path) = UNION {D(i) : i \in Below(path)}
  BY Zenon DEF Directories
<1>2. \A i : d \in D(i) <=> \E k \in (Len(path) + 1)..(Len(torrent[i].path) - 1) :
                              d = SubSeq(torrent[i].path, 1, k)
  BY Zenon
<1> HIDE DEF D
<1>3. d \in Directories(path) <=> \E i \in Below(path) : d \in D(i)
  BY <1>1, Zenon
<1> QED
  BY <1>2, <1>3

\* The files a tree collects in a directory are those below it.
LEMMA DeepIsBelow ==
  ASSUME torrent \in Torrent, NEW path \in Seq(Name), ~TreePanics(torrent, path)
  PROVE  /\ \A d \in Directories(path) : Len(d) = Len(path) + 1 =>
              Deep(torrent, path, d) = Below(d) /\ Below(d) # {}
         /\ \A d : Deep(torrent, path, d) # {} =>
              d \in Directories(path) /\ Len(d) = Len(path) + 1
<1> DEFINE L == Len(path) + 1
           D(d) == Deep(torrent, path, d)
<1>1. torrent \in Seq(File) /\ L \in Nat /\ Len(path) \in Nat /\ L - 1 = Len(path)
  BY ListAssumptions
<1>2. Matching(torrent, path) = Below(path)
  <2>1. ~BeyondFile(path)
    BY <1>1, TreePanicsAt DEF BeyondFile, IsStrictPrefix
  <2> QED
    BY <1>1, <2>1, MatchingIsBelow
<1>3. ASSUME NEW i \in DOMAIN torrent
      PROVE  torrent[i].path \in Seq(Name) /\ Len(torrent[i].path) \in Nat
  BY <1>1, FilesAreFiles
<1>4. ASSUME NEW d, NEW i \in D(d) PROVE d \in Directories(path) /\ Len(d) = L
  <2>1. /\ i \in Below(path) /\ i \in DOMAIN torrent /\ Len(torrent[i].path) > L
        /\ d = SubSeq(torrent[i].path, 1, L)
    BY <1>2 DEF Deep, Below
  <2>2. L \in (Len(path) + 1)..(Len(torrent[i].path) - 1)
    BY <1>1, <1>3, <2>1
  <2>3. Len(d) = L
    <3>1. L <= Len(torrent[i].path)
      BY <1>1, <1>3, <2>1
    <3> HIDE DEF L
    <3> QED
      BY <1>1, <1>3, <2>1, <3>1, FirstFew
  <2>4. d \in Directories(path)
    BY <2>1, <2>2, InDirectories
  <2> QED
    BY <2>3, <2>4
<1>5. ASSUME NEW d \in Directories(path), Len(d) = L PROVE D(d) = Below(d) /\ Below(d) # {}
  <2>1. d \in Seq(Name) /\ \A f \in ToSet(torrent) : ~IsPrefix(f.path, d)
    BY DirectoryIsNoFile
  <2>2. PICK i \in Below(path) : \E k \in (Len(path) + 1)..(Len(torrent[i].path) - 1) :
          d = SubSeq(torrent[i].path, 1, k)
    BY InDirectories
  <2>3. PICK k \in (Len(path) + 1)..(Len(torrent[i].path) - 1) : d = SubSeq(torrent[i].path, 1, k)
    BY <2>2
  <2> DEFINE h == torrent[i].path
  <2>4. i \in DOMAIN torrent /\ h \in Seq(Name) /\ Len(h) \in Nat /\ IsPrefix(path, h)
    BY <1>3 DEF Below
  <2>5. k \in Nat /\ k <= Len(h) /\ L <= k /\ k < Len(h)
    BY <1>1, <2>3, <2>4
  <2>6. Len(d) = k /\ \A m \in 1..k : d[m] = h[m]
    BY <2>3, <2>4, <2>5, FirstFew
  <2>7. k = L
    BY <1>5, <2>6
  <2> HIDE DEF h, L
  <2>8. Len(path) <= Len(h) /\ \A m \in 1..Len(path) : path[m] = h[m]
    BY <2>4, PrefixIs
  <2>9. \A m \in 1..Len(path) : path[m] = d[m]
    <3>1. \A m \in 1..Len(path) : m \in 1..k
      BY <1>1, <2>5, <2>7 DEF L
    <3> QED
      BY <2>6, <2>8, <3>1
  <2>10. ASSUME NEW j \in DOMAIN torrent PROVE j \in D(d) <=> j \in Below(d)
    <3> DEFINE g == torrent[j].path
    <3>1. g \in Seq(Name) /\ Len(g) \in Nat
      BY <1>3
    <3>2. j \in D(d) <=> IsPrefix(path, g) /\ Len(g) > L /\ SubSeq(g, 1, L) = d
      BY <1>2 DEF Deep, Below, L
    <3>3. j \in Below(d) <=> IsPrefix(d, g)
      BY DEF Below
    <3>4. ~IsPrefix(g, d)
      <4>1. torrent[j] \in ToSet(torrent)
        BY DEF ToSet
      <4> QED
        BY <2>1, <4>1
    <3> HIDE DEF g
    <3>5. ASSUME Len(g) > L, SubSeq(g, 1, L) = d PROVE IsPrefix(d, g)
      <4>1. L <= Len(g)
        BY <1>1, <3>1, <3>5
      <4> QED
        BY <1>1, <3>1, <3>5, <4>1, PrefixOf
    <3>6. ASSUME IsPrefix(d, g) PROVE IsPrefix(path, g) /\ Len(g) > L /\ SubSeq(g, 1, L) = d
      <4>1. Len(d) <= Len(g) /\ \A m \in 1..Len(d) : d[m] = g[m]
        BY <2>1, <3>1, <3>6, PrefixIs
      <4>2. L <= Len(g) /\ \A m \in 1..L : d[m] = g[m]
        BY <1>5, <4>1
      <4>3. SubSeq(g, 1, L) = d
        <5> DEFINE e == SubSeq(g, 1, L)
        <5>1. e \in Seq(Name) /\ Len(e) = L /\ \A m \in 1..L : e[m] = g[m]
          BY <1>1, <3>1, <4>2, FirstFew
        <5> HIDE DEF e
        <5>2. e = d
          BY <1>5, <2>1, <4>2, <5>1
        <5> QED
          BY <5>2 DEF e
      <4>4. Len(g) # L
        <5>1. ASSUME Len(g) = L PROVE FALSE
          <6>1. \A m \in 1..Len(g) : g[m] = d[m]
            BY <4>2, <5>1
          <6>2. Len(g) <= Len(d)
            BY <1>1, <1>5, <5>1
          <6>3. IsPrefix(g, d)
            BY <2>1, <3>1, <6>1, <6>2, PrefixIs
          <6> QED
            BY <3>4, <6>3
        <5> QED
          BY <5>1
      <4>5. IsPrefix(path, g)
        <5>1. Len(path) <= Len(g) /\ \A m \in 1..Len(path) : m \in 1..L
          BY <1>1, <3>1, <4>2 DEF L
        <5>2. \A m \in 1..Len(path) : path[m] = g[m]
          BY <2>9, <4>2, <5>1
        <5> QED
          BY <3>1, <5>1, <5>2, PrefixIs
      <4> QED
        BY <1>1, <3>1, <4>2, <4>3, <4>4, <4>5
    <3> QED
      BY <3>2, <3>3, <3>5, <3>6
  <2>11. D(d) = Below(d)
    BY <1>2, <2>10 DEF Deep, Below
  <2>12. IsPrefix(d, h)
    BY <2>1, <2>4, <2>5, <2>6, PrefixIs
  <2>13. i \in Below(d)
    BY <2>4, <2>12 DEF Below, h
  <2> QED
    BY <2>11, <2>13
<1> QED
  BY <1>4, <1>5

\* A listing as a tree of which nothing was cut.
LEMMA WholeTree ==
  ASSUME ListInvariant, Complete("tree")
  PROVE  /\ torrent \in Torrent /\ torrent \in Seq(File) /\ query.path \in Seq(Name)
         /\ ~TreePanics(torrent, query.path) /\ listing.items \in Seq(Real(torrent))
         /\ \E sort : Sorts(listing.items, buildTree(torrent, query.path), sort)
<1> DEFINE args == ListGetArgsFromParams(query)
           w == Whole(torrent, args)
<1>1. /\ torrent \in Torrent /\ query \in Asked /\ Answered /\ listing.status = 200
      /\ Len(listing.items) = listing.count
      /\ (IF query.output = Absent THEN "list" ELSE query.output) = "tree"
  BY DEF ListInvariant, Complete, Uncut
<1>2. /\ torrent \in Seq(File) /\ ~Refused(query) /\ args \in Args
      /\ args.output = "tree" => ~TreePanics(torrent, args.path)
  BY <1>1, ListingShows
<1>3. listing = getList(torrent, query)
  BY <1>1 DEF Answered, NoListing
<1>4. listing.items = w
  BY <1>1, <1>2, <1>3, FirstPage
<1>5. args.output = "tree" /\ args.path = query.path /\ query.path \in Seq(Name)
  BY <1>1, <1>2, QueryArgs DEF Asked
<1> HIDE DEF args
<1>6. /\ Sorts(w, IF args.output = "list" THEN buildList(torrent, args.path)
                  ELSE buildTree(torrent, args.path), args.sort)
      /\ w \in Seq(Real(torrent))
  BY <1>2, <1>5, WholeListing
<1> HIDE DEF w
<1>7. Sorts(w, buildTree(torrent, query.path), args.sort)
  BY <1>5, <1>6
<1> QED
  BY <1>1, <1>2, <1>4, <1>5, <1>6, <1>7

\* A listing as a tree fails at the path of a file, or at one that goes on from it.
LEMMA TreeFails ==
  ASSUME ListInvariant, query.output = "tree", listing.status \in {200, 500}
  PROVE  listing.status = 500 <=> \E f \in ToSet(torrent) : IsPrefix(f.path, query.path)
<1> DEFINE args == ListGetArgsFromParams(query)
<1>1. torrent \in Torrent /\ query \in Asked /\ Answered
  BY DEF ListInvariant
<1>2. torrent \in Seq(File)
  BY ListAssumptions, <1>1
<1>3. listing = getList(torrent, query)
  BY <1>1 DEF Answered, NoListing
<1>4. query.path \in Seq(Name)
  BY <1>1 DEF Asked
<1>5. ~Refused(query)
  BY <1>3 DEF getList
<1>6. args.output = "tree" /\ args.path = query.path
  <2>1. "tree" # Absent
    BY ListAssumptions
  <2> QED
    BY <1>1, <1>5, <2>1, QueryArgs
<1>7. ListGet(torrent, args).status = 200
  BY DEF ListGet
<1> HIDE DEF args
<1>8. listing.status = 500 <=> TreePanics(torrent, query.path)
  BY <1>3, <1>5, <1>6, <1>7 DEF getList, args
<1> QED
  BY <1>2, <1>4, <1>8, TreePanicsAt

\* A listing as a tree is one level (buildTree and emitTree in list.go).
LEMMA TreeIsShown ==
  ASSUME ListInvariant, Complete("tree")
  PROVE  LET here == {d \in Directories(query.path) : Len(d) = Len(query.path) + 1}
             entries(d) == {i \in Shown("directory") : listing.items[i].path = d}
         IN  /\ {listing.items[i] : i \in Shown("file")} =
                  {f \in FilesBelow(query.path) : Len(f.path) = Len(query.path) + 1}
             /\ \A i, j \in Shown("file") : listing.items[i] = listing.items[j] => i = j
             /\ {listing.items[i].path : i \in Shown("directory")} = here
             /\ \A d \in here :
                  /\ Size(listing.items, entries(d)) = Size(torrent, Below(d))
                  /\ Adjacent(d, query.path) => Cardinality(entries(d)) = 1
<1> DEFINE items == listing.items
           path == query.path
           N == Len(torrent)
           F == Shallow(torrent, path)
           D(d) == Deep(torrent, path, d)
           here == {d \in Directories(path) : Len(d) = Len(path) + 1}
           entries(d) == {i \in Shown("directory") : items[i].path = d}
<1>1. /\ torrent \in Torrent /\ torrent \in Seq(File) /\ path \in Seq(Name)
      /\ ~TreePanics(torrent, path) /\ items \in Seq(Real(torrent))
  BY WholeTree
<1>2. /\ OfLevel(torrent, path, items, N)
      /\ \A d : OfOneDirectory(torrent, path, items, d)
  <2>1. PICK sort : Sorts(items, buildTree(torrent, path), sort)
    BY WholeTree
  <2> HIDE DEF items, path
  <2> QED
    BY <1>1, <2>1, TreeSorted
<1>3. /\ \A d \in here : D(d) = Below(d) /\ Below(d) # {}
      /\ \A d : D(d) # {} => d \in here
  <2> HIDE DEF path
  <2> QED
    BY <1>1, DeepIsBelow
<1>4. Matching(torrent, path) = Below(path)
  <2>1. ~BeyondFile(path)
    BY <1>1, TreePanicsAt DEF BeyondFile, IsStrictPrefix
  <2> HIDE DEF path
  <2> QED
    BY <1>1, <2>1, MatchingIsBelow
<1>5. \A i : i \in F \cap 1..N <=> i \in Below(path) /\ Len(torrent[i].path) = Len(path) + 1
  BY <1>4 DEF Shallow, Below
<1>6. \A d : D(d) \cap 1..N = D(d)
  BY DEF Deep, Matching
<1> HIDE DEF items, path, N, F, D
<1>7. DOMAIN items = 1..Len(items)
  BY <1>1
<1>8. /\ \A m \in DOMAIN items :
           \/ \E i \in F \cap 1..N : items[m] = buildFile(torrent, i)
           \/ items[m].type = "directory" /\ D(items[m].path) # {}
      /\ \A i \in F \cap 1..N : \E m \in DOMAIN items : items[m] = buildFile(torrent, i)
      /\ \A m, l \in DOMAIN items : items[m].type = "file" /\ items[m] = items[l] => m = l
  BY <1>2, <1>6, <1>7 DEF OfLevel, F, D
<1>9. \A i : buildFile(torrent, i).type = "file" /\ buildFile(torrent, i).path = torrent[i].path
  BY DEF buildFile
<1>10. /\ \A m : m \in Shown("file") <=> m \in DOMAIN items /\ items[m].type = "file"
       /\ \A m : m \in Shown("directory") <=> m \in DOMAIN items /\ items[m].type = "directory"
  BY DEF Shown, items
<1>11. {items[i] : i \in Shown("file")} = {f \in FilesBelow(path) : Len(f.path) = Len(path) + 1}
  <2>1. ASSUME NEW m \in Shown("file")
        PROVE  items[m] \in FilesBelow(path) /\ Len(items[m].path) = Len(path) + 1
    <3>1. m \in DOMAIN items /\ items[m].type # "directory"
      BY <1>10
    <3>2. PICK i \in F \cap 1..N : items[m] = buildFile(torrent, i)
      BY <1>8, <3>1
    <3>3. i \in Below(path) /\ Len(torrent[i].path) = Len(path) + 1
      BY <1>5
    <3> QED
      BY <1>9, <3>2, <3>3 DEF FilesBelow
  <2>2. ASSUME NEW f \in FilesBelow(path), Len(f.path) = Len(path) + 1
        PROVE  \E m \in Shown("file") : items[m] = f
    <3>1. PICK i \in Below(path) : f = buildFile(torrent, i)
      BY DEF FilesBelow
    <3>2. i \in F \cap 1..N
      BY <1>5, <1>9, <2>2, <3>1
    <3>3. PICK m \in DOMAIN items : items[m] = buildFile(torrent, i)
      BY <1>8, <3>2
    <3> QED
      BY <1>9, <1>10, <3>1, <3>3
  <2> QED
    BY <2>1, <2>2
<1>12. \A i, j \in Shown("file") : items[i] = items[j] => i = j
  BY <1>8, <1>10
<1>13. \A d : entries(d) = Entries(items, d)
  BY <1>10 DEF Entries
<1>14. {items[i].path : i \in Shown("directory")} = here
  <2>1. ASSUME NEW m \in Shown("directory") PROVE items[m].path \in here
    <3>1. m \in DOMAIN items /\ items[m].type # "file"
      BY <1>10
    <3>2. D(items[m].path) # {}
      BY <1>8, <1>9, <3>1
    <3> HIDE DEF here
    <3> QED
      BY <1>3, <3>2
  <2>2. ASSUME NEW d \in here PROVE \E m \in Shown("directory") : items[m].path = d
    <3>1. D(d) # {}
      BY <1>3
    <3>2. OfOneDirectory(torrent, path, items, d)
      BY <1>2
    <3>3. Entries(items, d) # {}
      BY <3>1, <3>2 DEF OfOneDirectory, D
    <3>4. PICK m : m \in Entries(items, d)
      BY <3>3
    <3> QED
      BY <1>10, <3>4 DEF Entries
  <2> HIDE DEF here
  <2> QED
    BY <2>1, <2>2
<1>15. ASSUME NEW d \in here
       PROVE  /\ Size(items, entries(d)) = Size(torrent, Below(d))
              /\ Adjacent(d, path) => Cardinality(entries(d)) = 1
  <2>1. D(d) = Below(d) /\ Below(d) # {}
    BY <1>3
  <2>2. OfOneDirectory(torrent, path, items, d)
    BY <1>2
  <2>3. entries(d) = Entries(items, d)
    BY <1>13
  <2> HIDE DEF entries, here
  <2>4. Size(items, entries(d)) = Size(torrent, Below(d))
    BY <2>1, <2>2, <2>3 DEF OfOneDirectory, D
  <2>5. ASSUME Adjacent(d, path) PROVE Cardinality(entries(d)) = 1
    <3>1. Together(Deep(torrent, path, d), Matching(torrent, path))
      BY <1>4, <2>1, <2>5 DEF Adjacent, Together, D
    <3>2. Entries(items, d) # {} /\ \A m, l \in Entries(items, d) : m = l
      BY <2>1, <2>2, <3>1 DEF OfOneDirectory, D
    <3>3. PICK m : Entries(items, d) = {m}
      BY <3>2
    <3>4. Cardinality({m}) = 1
      BY FS_Singleton
    <3> QED
      BY <2>3, <3>3, <3>4
  <2> QED
    BY <2>4, <2>5
<1> QED
  BY <1>11, <1>12, <1>14, <1>15 DEF items, path

\* Listed as a tree, what is directly below a path is shown, every file once and
\* every directory with the size of its files in all; a path at which there is a
\* file, or that goes on from one, is answered 500, and no other is.
THEOREM TreeAlwaysOneLevel == Spec => []TreeIsOneLevel
<1>1. ListInvariant => TreeIsOneLevel
  BY TreeIsShown, TreeFails DEF TreeIsOneLevel
<1> QED
  BY <1>1, ListInvariantHolds, PTL

=============================================================================
