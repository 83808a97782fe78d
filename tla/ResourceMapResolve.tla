------------------------- MODULE ResourceMapResolve -------------------------
(***************************************************************************)
(* ResourceMap implements Resolve.  A request has its answer when it is    *)
(* back in the handler: what the fallback of getManifest returned to the   *)
(* closure is not one yet.                                                 *)
(***************************************************************************)
EXTENDS ResourceMap

VARIABLE seen  \* history: what else than held its hash was since the request arrived

Promise == INSTANCE Resolve WITH
             answer <- [r \in Req |-> IF pc[r] = "reply" THEN out[r] ELSE Pending]

SeenInit == Init /\ seen = [r \in Req |-> {}]
SeenNext == Next /\ Promise!Observe
SeenSpec == SeenInit /\ [][SeenNext]_<<vars, seen>> /\ Fairness

\* Whatever goes on between its maps, their slots and the calls, ResourceMap
\* keeps the promise: no answer to a request of another hash or twice, no
\* torrent the store never held, no error that was already over when the
\* requests told it arrived.
Resolves == Promise!Spec

=============================================================================
