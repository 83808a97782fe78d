--------------------------- MODULE MCResourceMap ---------------------------
(***************************************************************************)
(* Small instances of ResourceMap, with what Resolve needs to have seen.   *)
(* Requests are interchangeable, and so are the infohashes: the code       *)
(* compares them, and no more.                                             *)
(***************************************************************************)
EXTENDS ResourceMapResolve, TLC

Symmetry == Permutations(Req) \cup Permutations(Hash)

\* No property that is checked of it needs fairness.
SeenSafetySpec == SeenInit /\ [][SeenNext]_<<vars, seen>>

=============================================================================
