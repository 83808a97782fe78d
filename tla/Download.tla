------------------------------ MODULE Download ------------------------------
(***************************************************************************)
(* What is fetched of the files that List shows: the pieces parseTorrent   *)
(* of services/resource.go gives each file, and the files of an archive    *)
(* that getSelectedPaths of services/url_builder.go lets through.  Both    *)
(* are functions of the torrent and of what a client sends.                *)
(***************************************************************************)
EXTENDS List

CONSTANTS
  Nul,        \* a component with a NUL byte in it
  Selection,  \* values of ?paths=, each split at its slashes
  Piece,      \* lengths of pieces, as a torrent has it
  Hashes,     \* numbers of hashes of pieces in a torrent, whatever it needs
  maxSelectedPaths,           \* 1024 in the code
  maxSelectedPathsEncodedLen  \* 6000 in the code

ASSUME DownloadAssumptions ==
  /\ "" \notin Name /\ Nul \notin Name
  /\ \A values \in Selection : values \in Seq(Seq(Name \cup {"", Nul}))
  /\ Piece \cup Hashes \subseteq Nat
  /\ {maxSelectedPaths, maxSelectedPathsEncodedLen} \subseteq Nat

-----------------------------------------------------------------------------
(* resource.go: the pieces of the files                                    *)

offset(files, i) == Size(files, 1..(i - 1))

\* Mutant: as many hashes are made room for as there are.
splitPiecesExactly(n) == [len |-> n, cap |-> n]

\* The hashes of n pieces, numbered from 0, with room for one more.
splitPieces(n) == [len |-> n, cap |-> n + 1]

\* The pieces a file takes, from first to last.
Pieces(files, length, i) ==
  [first |-> offset(files, i) \div length,
   last  |-> (offset(files, i) + files[i].size) \div length]

\* Nothing checks what a torrent says.  Slicing the hashes reaches up to their room,
\* and finds zeros for one beyond their number.
parsePanics(files, length, n) ==
  \E i \in DOMAIN files : \/ length = 0
                         \/ Pieces(files, length, i).last + 1 > splitPieces(n).cap

-----------------------------------------------------------------------------
(* url_builder.go: the paths selected for an archive                       *)

\* A value without the slashes around it.
Trim(v) ==
  LET named == {k \in DOMAIN v : v[k] # ""}
  IN  IF named = {} THEN <<>> ELSE SubSeq(v, Min(named), Max(named))

\* What a path adds to the URL: "&paths=", and its components escaped.
EncodedLen(p) == 1 + Len(p)

Bad(files, base, v) ==
  \/ Nul \in ToSet(v)
  \/ Trim(v) # <<>> /\ ~IsPrefix(base, Trim(v))

Missing(files, v) == Trim(v) # <<>> /\ \A f \in ToSet(files) : ~IsPrefix(Trim(v), f.path)

\* Mutant: the paths are not looked up in the torrent.
getSelectedPathsUnseen(files, base, values) ==
  LET paths == {Trim(v) : v \in ToSet(values)} \ {<<>>}
  IN  IF \E v \in ToSet(values) : Bad(files, base, v)
      THEN [status |-> 400, paths |-> {}] ELSE [status |-> 200, paths |-> paths]

\* One more value.  One at fault decides, and after it nothing is looked at.
selectPath(files, base, acc, v) ==
  LET p == Trim(v)
  IN  IF acc.status # 200 \/ (p = <<>> /\ ~Bad(files, base, v)) THEN acc
      ELSE IF Bad(files, base, v) THEN [acc EXCEPT !.status = 400]
      ELSE IF Missing(files, v) THEN [acc EXCEPT !.status = 404]
      ELSE IF acc.len + EncodedLen(p) > maxSelectedPathsEncodedLen
      THEN [acc EXCEPT !.status = 400]
      ELSE [acc EXCEPT !.len = @ + EncodedLen(p), !.paths = @ \cup {p}]

\* What the values add up to counts a path as often as it comes; what is left of
\* them is a set.
getSelectedPaths(files, base, values) ==
  LET upTo[n \in 0..Len(values)] ==
        IF n = 0 THEN [status |-> 200, len |-> 0, paths |-> {}]
        ELSE selectPath(files, base, upTo[n - 1], values[n])
      end == upTo[Len(values)]
  IN  IF Len(values) > maxSelectedPaths THEN [status |-> 400, paths |-> {}]
      ELSE [status |-> end.status, paths |-> end.paths]

\* The files torrent-archiver packs: those at or below the paths it is given,
\* all those of the directory if there are none.
Archived(files, base, paths) ==
  {i \in DOMAIN files : /\ IsPrefix(base, files[i].path)
                        /\ paths = {} \/ \E p \in paths : IsPrefix(p, files[i].path)}

-----------------------------------------------------------------------------

\* Nothing has been asked of the torrent yet: what is a function of it alone is
\* looked at once.
Fresh == listing = NoListing /\ exported = NoExport

\* What the paths at the places in S add to the URL.
UrlLen(paths, S) == Size([k \in DOMAIN paths |-> [size |-> EncodedLen(paths[k])]], S)

\* Parsing a torrent panics if it has pieces of no length or lacks the hash of a
\* whole piece, and on no other: never on one that has the hashes it needs, although
\* a file that ends where a piece does, or has no bytes, asks for the piece after
\* it.  Then the pieces of a file are those its bytes are in, and at most one more;
\* and zeros are taken for a hash only where the last one is missing, or for a file
\* that ends with the last piece (resource.go:54, 132-144).
PiecesCover ==
  Fresh => \A length \in Piece, n \in Hashes :
    LET total == Size(torrent, DOMAIN torrent)
    IN  /\ parsePanics(torrent, length, n)
             <=> torrent # <<>> /\ (length = 0 \/ total >= (n + 1) * length)
        /\ ~parsePanics(torrent, length, n) => \A i \in DOMAIN torrent :
             LET p     == Pieces(torrent, length, i)
                 start == offset(torrent, i)
                 bytes == {b \div length : b \in start..(start + torrent[i].size - 1)}
             IN  /\ bytes \subseteq p.first..p.last
                 /\ Cardinality(p.first..p.last) <= Cardinality(bytes) + 1
                 /\ \/ p.last < n
                    \/ total > n * length
                    \/ start + torrent[i].size = n * length

\* An archive of a directory holds what was ticked in it and nothing else,
\* whatever the order, the repetitions and the slashes around the paths; if all
\* are slashes nothing was, and it holds everything.  The URL is never longer
\* than the edge takes, and only a path that is not there, or too many as they
\* were sent, is refused (url_builder.go:359-374).
ArchiveIsSelection ==
  Fresh => \A base \in {<<>>} \cup Directories(<<>>), values \in Selection :
    LET sel    == getSelectedPaths(torrent, base, values)
        sent   == [k \in DOMAIN values |-> Trim(values[k])]
        ticked == ToSet(sent) \ {<<>>}
        url    == SetToSeq(sel.paths)
    IN  /\ sel.status = 200 =>
             /\ Archived(torrent, base, sel.paths)
                  = IF ticked = {} THEN Below(base) ELSE UNION {Below(p) : p \in ticked}
             /\ \A p \in ticked : Below(p) # {}
             /\ UrlLen(url, DOMAIN url) <= maxSelectedPathsEncodedLen
             /\ getSelectedPaths(torrent, base, Reverse(values)) = sel
        /\ sel.status # 200 =>
             \/ Len(values) > maxSelectedPaths
             \/ UrlLen(sent, {k \in DOMAIN sent : sent[k] # <<>>}) > maxSelectedPathsEncodedLen
             \/ \E v \in ToSet(values) : Nul \in ToSet(v)
             \/ \E p \in ticked : ~IsPrefix(base, p) \/ Below(p) = {}

=============================================================================
