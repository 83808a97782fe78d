------------------------------- MODULE MCList -------------------------------
(***************************************************************************)
(* Instances of List and Download.                                         *)
(* Torrents named "S" of up to MaxFiles files out of Leaves, in every      *)
(* order, so that the files of a directory need not be adjacent; "a" and   *)
(* "A" differ in case only, "S/S" is a directory named as the torrent, and *)
(* there is a torrent of one file at its root.                             *)
(***************************************************************************)
EXTENDS Download

CONSTANTS Leaves, MaxFiles, Sizes, Limits, Sorts

Names == {"S", "a", "A", "b", "d", "e", "x"}
Lower == [n \in Names |-> CASE n \in {"a", "A"} -> 1
                            [] n = "b" -> 2
                            [] n = "d" -> 3
                            [] n = "e" -> 4
                            [] n = "S" -> 5
                            [] n = "x" -> 6]

\* A directory within a directory, between files of both, and one directory
\* with the name of the torrent.
Nested == {<<"S", "a">>, <<"S", "A">>, <<"S", "d", "b">>, <<"S", "d", "e", "a">>,
           <<"S", "S", "b">>}

\* Names that differ in case only.
Flat == {<<"S", "a">>, <<"S", "A">>, <<"S", "d", "b">>}

Torrents ==
  {<<[path |-> <<"S">>, size |-> 1]>>} \cup
  UNION {{[i \in 1..n |-> [path |-> p[i], size |-> s[i]]] :
            p \in Injection(1..n, Leaves), s \in [1..n -> Sizes]} : n \in 1..MaxFiles}

Good == [output : {"list", "tree"},
         path   : {<<>>, <<"S">>, <<"S", "d">>, <<"S", "d", "b">>, <<"x">>},
         limit  : Limits, offset : {Absent}, sort : Sorts]

Odd == {[NoQuery EXCEPT !.output = Malformed], [NoQuery EXCEPT !.sort = Malformed],
        [NoQuery EXCEPT !.limit = Malformed],  [NoQuery EXCEPT !.limit = 0],
        [NoQuery EXCEPT !.limit = MaxLimit],   [NoQuery EXCEPT !.limit = MaxLimit + 1],
        [NoQuery EXCEPT !.offset = Malformed], [NoQuery EXCEPT !.offset = -1],
        NoQuery}

Queries == Good \cup Odd

\* Up to three paths to archive: of files, of directories, of what there is
\* not, as clients are shown them and with slashes after them, and slashes alone.
Values == {<<"", "S", "a">>, <<"", "S", "d">>, <<"S", "d", "">>,
           <<"", "S", "d", "e", "a">>, <<"x">>, <<"", "">>}
Selections == UNION {[1..n -> Values] : n \in 0..2}
              \cup [1..3 -> {<<"", "S", "a">>, <<"", "S", "d">>, <<"", "">>}]
              \cup {<<<<"S", "NUL">>>>, [n \in 1..4 |-> <<"", "">>]}

=============================================================================
