------------------------------ MODULE CacheMap ------------------------------
(***************************************************************************)
(* services/cache_map.go: whether the seeder holds the whole of some       *)
(* content.  The answer is probed through the edge and kept for a while in *)
(* a memoizing map whose key is the path of the URL alone.                 *)
(*                                                                         *)
(* pc[r] is where a call of CacheMap.Get stands:                           *)
(*   idle     no call                   get     about to look in the map   *)
(*   waiting  blocked on another's      probe   in the request to the edge *)
(*   got      returned, with got[r]     other   its caller's business      *)
(*                                                                         *)
(* The map is made without a Concurrency: the library's default is taken   *)
(* to be more than there are requests.                                     *)
(***************************************************************************)
EXTENDS Naturals, FiniteSets

CONSTANTS
  Req,      \* calls
  Path,     \* paths of URLs
  NoReq,
  NoPath,
  NotKept

ASSUME CacheMapAssumptions == NoReq \notin Req /\ NotKept \notin BOOLEAN

VARIABLES
  up,     \* whether the edge answers within cache-probe-timeout
  done,   \* the paths whose content the seeder holds the whole of
  cache,  \* CacheMap.LazyMap
  fresh,  \* history: the paths done at some time since they were last unkept
  pc, path, got

cacheVars == <<up, done, cache, fresh, pc, path, got>>

INSTANCE LazyMap WITH Caller <- Req, Key <- Path, Value <- BOOLEAN,
                      NoCaller <- NoReq, NoValue <- NotKept,
                      Concurrency <- Cardinality(Req)

-----------------------------------------------------------------------------

CacheInit ==
  /\ up \in BOOLEAN
  /\ done = {}
  /\ cache = New
  /\ fresh = {}
  /\ pc   = [r \in Req |-> "idle"]
  /\ path = [r \in Req |-> NoPath]
  /\ got  = [r \in Req |-> FALSE]

\* The probe of r ends with v: it is kept, and r and those blocked on it return.
Return(r, v) ==
  LET rs == {r} \cup cache.waiting[path[r]]
  IN  /\ cache' = Finish(cache, r, path[r], v)
      /\ got'   = [q \in Req |-> IF q \in rs THEN v ELSE got[q]]
      /\ pc'    = [q \in Req |-> IF q \in rs THEN "got" ELSE pc[q]]

Get(r) ==
  /\ pc[r] = "get"
  /\ \/ /\ Kept(cache, path[r])
        /\ got' = [got EXCEPT ![r] = cache.memo[path[r]]]
        /\ pc'  = [pc EXCEPT ![r] = "got"]
        /\ UNCHANGED cache
     \/ /\ ~Kept(cache, path[r])
        /\ InFlight(cache, path[r])
        /\ cache' = Join(cache, r, path[r])
        /\ pc'    = [pc EXCEPT ![r] = "waiting"]
        /\ UNCHANGED got
     \/ /\ ~Kept(cache, path[r])
        /\ ~InFlight(cache, path[r])
        /\ cache' = Run(Claim(cache, r, path[r]), r)
        /\ pc'    = [pc EXCEPT ![r] = "probe"]
        /\ UNCHANGED got
  /\ UNCHANGED <<up, done, fresh, path>>

\* Mutant: an edge that does not answer is taken to be serving its own copy.
ProbeTrusting(r, reached) ==
  /\ pc[r] = "probe"
  /\ Return(r, up => reached /\ path[r] \in done)
  /\ UNCHANGED <<up, done, fresh, path>>

\* Mutant: a failed probe is no answer at all.
ProbeRaw(r, reached) ==
  /\ pc[r] = "probe"
  /\ Return(r, IF up THEN reached /\ path[r] \in done ELSE NotKept)
  /\ UNCHANGED <<up, done, fresh, path>>

\* Mutant: the request to the edge has no deadline.
ProbeForever(r, reached) ==
  /\ pc[r] = "probe"
  /\ up
  /\ Return(r, reached /\ path[r] \in done)
  /\ UNCHANGED <<up, done, fresh, path>>

\* Mutant: a failed probe is handed out but not kept.
ProbeUnkept(r, reached) ==
  /\ pc[r] = "probe"
  /\ LET rs == {r} \cup cache.waiting[path[r]]
     IN  /\ cache' = Finish(cache, r, path[r],
                             IF up THEN reached /\ path[r] \in done ELSE NotKept)
         /\ got'   = [q \in Req |->
                       IF q \in rs THEN up /\ reached /\ path[r] \in done ELSE got[q]]
         /\ pc'    = [q \in Req |-> IF q \in rs THEN "got" ELSE pc[q]]
  /\ UNCHANGED <<up, done, fresh, path>>

\* Done is what is answered with 200: any other status, an edge that does not
\* answer in time, and a URL that the edge cannot be reached by or refuses, is an
\* answer too, and is kept as one for every URL with that path.
Probe(r, reached) ==
  /\ pc[r] = "probe"
  /\ Return(r, up /\ reached /\ path[r] \in done)
  /\ UNCHANGED <<up, done, fresh, path>>

\* reaches is what may be of the URL of r: whether the edge is reached by it.
CacheStep(r, reaches) ==
  \/ Get(r)
  \/ pc[r] = "probe" /\ \E reached \in reaches : Probe(r, reached)

\* Mutant: the answers are kept for good.
ExpireNever(p) == FALSE /\ p \in Path

Expire(p) ==
  /\ Kept(cache, p)
  /\ cache' = Evict(cache, p)
  /\ fresh' = IF p \in done THEN fresh \cup {p} ELSE fresh \ {p}
  /\ UNCHANGED <<up, done, pc, path, got>>

\* The edge goes down or comes back; the seeder completes some content, or
\* drops it.
EdgeTurns ==
  /\ up' = ~up
  /\ UNCHANGED <<done, cache, fresh, pc, path, got>>

SeederCompletes(p) ==
  /\ p \notin done
  /\ done'  = done \cup {p}
  /\ fresh' = fresh \cup {p}
  /\ UNCHANGED <<up, cache, pc, path, got>>

SeederDrops(p) ==
  /\ p \in done
  /\ done'  = done \ {p}
  /\ fresh' = IF Kept(cache, p) THEN fresh ELSE fresh \ {p}
  /\ UNCHANGED <<up, cache, pc, path, got>>

Environment ==
  \/ EdgeTurns
  \/ \E p \in Path : SeederCompletes(p) \/ SeederDrops(p)

CacheTypeOK ==
  /\ up \in BOOLEAN
  /\ done \subseteq Path /\ fresh \subseteq Path
  /\ cache.owner \in [Path -> Req \cup {NoReq}]
  /\ cache.memo \in [Path -> BOOLEAN \cup {NotKept}]
  /\ cache.waiting \in [Path -> SUBSET Req]
  /\ cache.running \subseteq Req
  /\ path \in [Req -> Path \cup {NoPath}]
  /\ got \in [Req -> BOOLEAN]

=============================================================================
