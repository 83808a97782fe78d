------------------------- MODULE MCResourceMapLive -------------------------
(***************************************************************************)
(* An instance of ResourceMap in which requests for different hashes wait  *)
(* for the slots of both maps.                                             *)
(***************************************************************************)
EXTENDS ResourceMap

\* What the store holds when it starts; it may ban that, and receives the rest
\* only from magnets.
CONSTANT Held

LiveInit == Init /\ \A h \in Hash : store[h].state = IF h \in Held THEN "held" ELSE "absent"

Bans(h) == h \in Held /\ StoreForgets(h) /\ store'[h].state = "banned"

\* What a request does that has neither a torrent nor trackers to push: all but Push
\* and PushTrackers.
Resolve(r) ==
  \/ Arrive(r) \/ Reject(r) \/ Hangup(r) \/ Answer(r)
  \/ Get(r) \/ Start(r) \/ Touch(r) \/ Pull(r) \/ FetchMagnet(r) \/ PushMagnet(r)
  \/ GetManifest(r) \/ StartManifest(r) \/ Files(r) \/ FallBack(r)
  \/ ManifestBuilt(r)
  \/ Timeout(r) \/ Cancel(r) \/ Break(r)

LiveNext ==
  \/ \E r \in Req : Resolve(r)
  \/ \E h \in Hash : EvictResource(h) \/ EvictManifest(h) \/ Bans(h)

LiveSpec == LiveInit /\ [][LiveNext]_vars /\ Fairness

=============================================================================
