------------------------- MODULE ResourceMapProofs -------------------------
(***************************************************************************)
(* Theorems about ResourceMap, for any number of requests, hashes,         *)
(* trackers and slots.                                                     *)
(***************************************************************************)
EXTENDS ResourceMap, FiniteSetTheorems, TLAPS

\* The operators of the memoizing map keep the shape of a map.
LEMMA MapOps ==
  ASSUME NEW m \in Map, NEW r \in Req, NEW h \in Hash
  PROVE  /\ Claim(m, r, h) \in Map
         /\ Join(m, r, h) \in Map
         /\ Run(m, r) \in Map
         /\ \A v \in Resource \cup {NoResource} : Finish(m, r, h, v) \in Map
BY DEF Map, Claim, Join, Run, Finish

LEMMA EvictType ==
  ASSUME NEW m \in Map, NEW h \in Hash
  PROVE  Evict(m, h) \in Map
BY DEF Map, Evict

\* A new map is a map.
LEMMA NewMap == New \in Map
BY DEF Map, New

\* What an outcome may be.
LEMMA OutcomeOps ==
  /\ Pending \in Outcome
  /\ \A v \in Resource : Ok(v) \in Outcome
  /\ \A e \in ErrorKind : Failed(e) \in Outcome
  /\ \A o \in Outcome : o.res \in Resource \cup {NoResource}
BY DEF Outcome, Pending, Ok, Failed

\* parseTorrent and the manifest of a hash are resources.
LEMMA ResourceOps ==
  ASSUME NEW h \in Hash, NEW ts \in SUBSET Tracker
  PROVE  parseTorrent(h, ts) \in Resource /\ Manifest(h) \in Resource
BY DEF parseTorrent, Manifest, Resource

\* The hash and the trackers of a request that asks something.
LEMMA CallOps ==
  ASSUME TypeOK, NEW r \in Req, call[r] # NoCall
  PROVE  call[r] \in Call /\ hash(r) \in Hash /\ call[r].trackers \in SUBSET Tracker
BY DEF TypeOK, Call, hash

-----------------------------------------------------------------------------
(* Types                                                                   *)

LEMMA ReturnType ==
  ASSUME TypeOK, NEW rs \in SUBSET Req, NEW o \in Outcome, Return(rs, o)
  PROVE  out' \in [Req -> Outcome] /\ pc' \in [Req -> Step]
BY DEF TypeOK, Return, Step

LEMMA ConcludeType ==
  ASSUME TypeOK, NEW r \in Req, call[r] # NoCall, NEW o \in Outcome,
         Conclude(r, o)
  PROVE  /\ resources' \in Map
         /\ out' \in [Req -> Outcome]
         /\ pc' \in [Req -> Step]
         /\ payload' \in [Req -> SUBSET Tracker]
<1>1. hash(r) \in Hash /\ resources \in Map
  BY CallOps DEF TypeOK
<1>2. resources.waiting[hash(r)] \in SUBSET Req
  BY <1>1 DEF Map
<1>3. resources' \in Map
  BY <1>1, MapOps, OutcomeOps DEF Conclude
<1>4. out' \in [Req -> Outcome] /\ pc' \in [Req -> Step]
  BY <1>2, ReturnType DEF Conclude
<1>5. payload' \in [Req -> SUBSET Tracker]
  BY DEF Conclude, TypeOK
<1> QED
  BY <1>3, <1>4, <1>5

LEMMA ConcludeManifestType ==
  ASSUME TypeOK, NEW r \in Req, call[r] # NoCall, NEW o \in Outcome,
         ConcludeManifest(r, o)
  PROVE  /\ manifests' \in Map
         /\ out' \in [Req -> Outcome]
         /\ pc' \in [Req -> Step]
<1>1. hash(r) \in Hash /\ manifests \in Map
  BY CallOps DEF TypeOK
<1>2. manifests' \in Map
  BY <1>1, MapOps, OutcomeOps DEF ConcludeManifest
<1>3. out' \in [Req -> Outcome] /\ pc' \in [Req -> Step]
  BY DEF TypeOK, ConcludeManifest, Step
<1> QED
  BY <1>2, <1>3

LEMMA MergeType ==
  ASSUME TypeOK, NEW r \in Req, call[r] # NoCall, Merge(r)
  PROVE  /\ store' \in [Hash -> [state : {"held", "absent", "banned"},
                                 trackers : SUBSET Tracker]]
         /\ history' \in [Hash -> [held : BOOLEAN, trackers : SUBSET Tracker]]
<1>1. hash(r) \in Hash /\ Pushed(r) \in SUBSET Tracker
  BY CallOps DEF TypeOK, Pushed
<1>2. /\ store[hash(r)].trackers \in SUBSET Tracker
      /\ history[hash(r)].trackers \in SUBSET Tracker
  BY <1>1 DEF TypeOK
<1> QED
  BY <1>1, <1>2 DEF TypeOK, Merge

\* A failure ends a closure with an outcome.
LEMMA FailType ==
  ASSUME TypeOK, Asks, NEW r \in Req,
         NEW e \in {"deadline", "canceled", "unavailable"}, Fail(r, e)
  PROVE  TypeOK'
<1>1. call[r] # NoCall
  BY DEF Asks, Fail, FailRpc, FailFiles, Rpc
<1>2. hash(r) \in Hash
  BY <1>1, CallOps
<1>3. Failed(e) \in Outcome /\ Failed("magnetTimeout") \in Outcome
  BY OutcomeOps DEF ErrorKind
<1>4. Ok(parseTorrent(hash(r), payload[r])) \in Outcome
  BY <1>2, ResourceOps, OutcomeOps DEF TypeOK
<1>5. CASE FailRpc(r, e)
  <2>1. PICK o \in Outcome : Conclude(r, o)
    BY <1>3, <1>4, <1>5 DEF FailRpc
  <2>2. UNCHANGED <<manifests, askVars>>
    BY <2>1 DEF Conclude
  <2>3. /\ store' \in [Hash -> [state : {"held", "absent", "banned"},
                                 trackers : SUBSET Tracker]]
        /\ history' \in [Hash -> [held : BOOLEAN, trackers : SUBSET Tracker]]
    BY <1>1, <1>5, MergeType DEF FailRpc, TypeOK
  <2> QED
    BY <1>1, <2>1, <2>2, <2>3, ConcludeType DEF TypeOK, askVars
<1>6. CASE FailFiles(r, e)
  <2>1. ConcludeManifest(r, Failed(e)) /\ UNCHANGED <<store, history>>
    BY <1>6 DEF FailFiles
  <2> QED
    BY <1>1, <1>3, <2>1, ConcludeManifestType DEF TypeOK, askVars, ConcludeManifest
<1> QED
  BY <1>5, <1>6 DEF Fail

\* Every step of a request keeps the types.
LEMMA ServeType ==
  ASSUME TypeOK, Asks, NEW r \in Req, Serve(r)
  PROVE  TypeOK'
<1>h. call[r] # NoCall => hash(r) \in Hash /\ call[r].trackers \in SUBSET Tracker
  BY CallOps
<1>1. CASE Arrive(r)
  BY <1>1 DEF Arrive, TypeOK, Step
<1>2. CASE Reject(r)
  BY <1>2, OutcomeOps DEF Reject, TypeOK, Step, ErrorKind
<1>3. CASE Hangup(r)
  BY <1>3 DEF Hangup, TypeOK
<1>4. CASE Answer(r)
  BY <1>4, OutcomeOps DEF Answer, TypeOK, Step
<1>5. CASE Get(r)
  <2>1. hash(r) \in Hash
    BY <1>5, <1>h DEF Get, Asks
  <2>2. resources' \in Map
    BY <1>5, <2>1, MapOps DEF Get, TypeOK
  <2>3. out' \in [Req -> Outcome] /\ pc' \in [Req -> Step]
    <3>1. CASE /\ Kept(resources, hash(r))
               /\ Return({r}, Ok(resources.memo[hash(r)]))
      <4>1. resources.memo[hash(r)] \in Resource
        BY <2>1, <3>1 DEF TypeOK, Map, Kept
      <4> QED
        BY <3>1, <4>1, OutcomeOps, ReturnType
    <3>2. CASE /\ UNCHANGED out
               /\ \/ pc' = [pc EXCEPT ![r] = "waiting"]
                  \/ pc' = [pc EXCEPT ![r] = "queued"]
      BY <3>2 DEF TypeOK, Step
    <3> QED
      BY <1>5, <3>1, <3>2 DEF Get
  <2> QED
    BY <1>5, <2>2, <2>3 DEF Get, TypeOK
<1>6. CASE Start(r)
  BY <1>6, <1>h, MapOps DEF Start, Asks, TypeOK, Step, Rpc, askVars
<1>7. CASE Touch(r) \/ Pull(r) \/ PushTrackers(r) \/ Push(r) \/ PushMagnet(r)
  <2>1. call[r] # NoCall
    BY <1>7 DEF Touch, Pull, PushTrackers, Push, PushMagnet, Asks
  <2>2. /\ Failed("forbidden") \in Outcome
        /\ Failed("notFound") \in Outcome
        /\ Failed("refused") \in Outcome
        /\ Failed("missing") \in Outcome
        /\ Failed("unavailable") \in Outcome
    BY OutcomeOps DEF ErrorKind
  <2>3. \A ts \in SUBSET Tracker : Ok(parseTorrent(hash(r), ts)) \in Outcome
    BY <1>h, <2>1, ResourceOps, OutcomeOps
  <2>4. /\ store[hash(r)].trackers \in SUBSET Tracker
        /\ payload[r] \in SUBSET Tracker
        /\ call[r].trackers \in SUBSET Tracker
    BY <1>h, <2>1 DEF TypeOK
  <2>5. /\ store' \in [Hash -> [state : {"held", "absent", "banned"},
                                 trackers : SUBSET Tracker]]
        /\ history' \in [Hash -> [held : BOOLEAN, trackers : SUBSET Tracker]]
    BY <1>7, <2>1, MergeType
       DEF Touch, Pull, PushTrackers, Push, PushMagnet, TypeOK
  <2>6. CASE \E o \in Outcome : Conclude(r, o)
    <3>1. PICK o \in Outcome : Conclude(r, o)
      BY <2>6
    <3> QED
      BY <2>1, <2>5, <3>1, ConcludeType DEF Conclude, TypeOK, askVars
  <2>7. CASE \E step \in {"magnet", "pull", "push"} : Goto(r, step)
    BY <2>5, <2>7 DEF Goto, TypeOK, Step, Rpc, askVars
  <2>8. CASE /\ pc' = [pc EXCEPT ![r] = "pushTrackers"]
             /\ payload' = [payload EXCEPT ![r] = store[hash(r)].trackers]
             /\ UNCHANGED <<resources, out, manifests, askVars>>
    BY <2>4, <2>5, <2>8 DEF TypeOK, Step, Rpc, askVars
  <2>9. CASE Touch(r)
    BY <2>2, <2>6, <2>7, <2>9 DEF Touch
  <2>10. CASE Pull(r)
    BY <2>2, <2>3, <2>4, <2>6, <2>8, <2>10 DEF Pull
  <2>11. CASE PushTrackers(r) \/ Push(r) \/ PushMagnet(r)
    BY <2>2, <2>3, <2>4, <2>6, <2>11 DEF PushTrackers, Push, PushMagnet
  <2> QED
    BY <1>7, <2>9, <2>10, <2>11
<1>8. CASE FetchMagnet(r)
  BY <1>8, <1>h DEF FetchMagnet, Asks, TypeOK, Step, Rpc, askVars
<1>9. CASE GetManifest(r)
  <2>1. hash(r) \in Hash
    BY <1>9, <1>h DEF GetManifest, Asks
  <2>2. Kept(manifests, hash(r)) => Ok(manifests.memo[hash(r)]) \in Outcome
    BY <2>1, OutcomeOps DEF TypeOK, Map, Kept
  <2>3. manifests' \in Map
    BY <1>9, <2>1, MapOps DEF GetManifest, TypeOK
  <2>4. out' \in [Req -> Outcome] /\ pc' \in [Req -> Step]
    BY <1>9, <2>2 DEF GetManifest, TypeOK, Step
  <2> QED
    BY <1>9, <2>3, <2>4 DEF GetManifest, TypeOK, askVars
<1>10. CASE StartManifest(r)
  BY <1>10, <1>h, MapOps DEF StartManifest, Asks, TypeOK, Step, Rpc, askVars
<1>11. CASE Files(r) \/ ManifestBuilt(r)
  <2>1. call[r] # NoCall
    BY <1>11 DEF Files, ManifestBuilt, Asks
  <2>2. /\ Failed("forbidden") \in Outcome
        /\ Failed("notFound") \in Outcome
        /\ Ok(Manifest(hash(r))) \in Outcome
    BY <1>h, <2>1, ResourceOps, OutcomeOps DEF ErrorKind
  <2>3. out[r] \in Outcome
    BY DEF TypeOK
  <2>4. PICK o \in Outcome : ConcludeManifest(r, o)
    BY <1>11, <2>2, <2>3 DEF Files, ManifestBuilt
  <2>5. UNCHANGED <<store, history>>
    BY <1>11 DEF Files, ManifestBuilt
  <2> QED
    BY <2>1, <2>4, <2>5, ConcludeManifestType DEF ConcludeManifest, TypeOK, askVars
<1>12. CASE FallBack(r)
  BY <1>12 DEF FallBack, TypeOK, Step, askVars
<1>13. CASE Timeout(r) \/ Cancel(r) \/ Break(r)
  BY <1>13, FailType DEF Timeout, Cancel, Break
<1> QED
  BY <1>1, <1>2, <1>3, <1>4, <1>5, <1>6, <1>7, <1>8, <1>9, <1>10, <1>11, <1>12,
     <1>13 DEF Serve

\* Every step keeps the types.
LEMMA NextType ==
  ASSUME TypeOK, Asks, [Next]_vars
  PROVE  TypeOK'
<1>1. CASE \E r \in Req : Serve(r)
  BY <1>1, ServeType
<1>2. CASE \E h \in Hash : Environment(h)
  <2>1. PICK h \in Hash : Environment(h)
    BY <1>2
  <2>2. CASE EvictResource(h)
    BY <2>2, EvictType DEF EvictResource, TypeOK
  <2>3. CASE EvictManifest(h)
    BY <2>3, EvictType DEF EvictManifest, TypeOK
  <2>4. CASE StoreForgets(h)
    <3>1. PICK s \in {"held", "absent", "banned"} :
            store' = [store EXCEPT ![h] = [state |-> s, trackers |-> {}]]
      BY <2>4 DEF StoreForgets
    <3>2. store' \in [Hash -> [state : {"held", "absent", "banned"},
                               trackers : SUBSET Tracker]]
      BY <3>1 DEF TypeOK
    <3> QED
      BY <2>4, <3>2 DEF StoreForgets, TypeOK
  <2>5. CASE StoreReceives(h)
    BY <2>5 DEF StoreReceives, TypeOK
  <2> QED
    BY <2>1, <2>2, <2>3, <2>4, <2>5 DEF Environment
<1>3. CASE UNCHANGED vars
  BY <1>3 DEF vars, TypeOK
<1> QED
  BY <1>1, <1>2, <1>3 DEF Next

-----------------------------------------------------------------------------
(* The maps agree with the requests                                        *)

\* Nobody is no request.
LEMMA NoReqWaits ==
  ASSUME NEW m \in Map
  PROVE  \A k \in Hash : NoReq \notin m.waiting[k]
BY ResourceMapAssumptions DEF ResourceMapAssumptions, Map

\* What an operator changes in each field of a map.
LEMMA ClaimFields ==
  ASSUME NEW m \in Map, NEW r \in Req, NEW h \in Hash
  PROVE  /\ \A k \in Hash :
              Claim(m, r, h).owner[k] = IF k = h THEN r ELSE m.owner[k]
         /\ Claim(m, r, h).memo = m.memo
         /\ Claim(m, r, h).waiting = m.waiting
         /\ Claim(m, r, h).running = m.running
BY DEF Map, Claim

LEMMA JoinFields ==
  ASSUME NEW m \in Map, NEW r \in Req, NEW h \in Hash
  PROVE  /\ Join(m, r, h).owner = m.owner
         /\ Join(m, r, h).memo = m.memo
         /\ Join(m, r, h).waiting[h] = m.waiting[h] \cup {r}
         /\ \A k \in Hash \ {h} : Join(m, r, h).waiting[k] = m.waiting[k]
         /\ Join(m, r, h).running = m.running
BY DEF Map, Join

LEMMA RunFields ==
  ASSUME NEW m \in Map, NEW r \in Req
  PROVE  /\ Run(m, r).owner = m.owner
         /\ Run(m, r).memo = m.memo
         /\ Run(m, r).waiting = m.waiting
         /\ Run(m, r).running = m.running \cup {r}
BY DEF Map, Run

LEMMA FinishFields ==
  ASSUME NEW m \in Map, NEW r \in Req, NEW h \in Hash, NEW v
  PROVE  /\ Finish(m, r, h, v).owner[h] = NoReq
         /\ Finish(m, r, h, v).memo[h] = v
         /\ Finish(m, r, h, v).waiting[h] = {}
         /\ \A k \in Hash \ {h} :
              /\ Finish(m, r, h, v).owner[k] = m.owner[k]
              /\ Finish(m, r, h, v).memo[k] = m.memo[k]
              /\ Finish(m, r, h, v).waiting[k] = m.waiting[k]
         /\ Finish(m, r, h, v).running = m.running \ {r}
BY DEF Map, Finish

LEMMA EvictFields ==
  ASSUME NEW m \in Map, NEW h \in Hash
  PROVE  /\ Evict(m, h).owner = m.owner
         /\ \A k \in Hash :
              Evict(m, h).memo[k] = IF k = h THEN NoResource ELSE m.memo[k]
         /\ Evict(m, h).waiting = m.waiting
         /\ Evict(m, h).running = m.running
BY DEF Map, Evict

\* The fields of a map.
LEMMA MapFields ==
  ASSUME NEW m \in Map
  PROVE  /\ m.owner \in [Hash -> Req \cup {NoReq}]
         /\ m.memo \in [Hash -> Resource \cup {NoResource}]
         /\ m.waiting \in [Hash -> SUBSET Req]
         /\ m.running \in SUBSET Req
BY DEF Map

\* The operators of a map keep it sound, used as Get uses them.
LEMMA SoundNew == Sound(New)
<1>1. Cardinality({}) <= Concurrency
  BY FS_EmptySet, ResourceMapAssumptions DEF ResourceMapAssumptions
<1>2. /\ \A h \in Hash : ~InFlight(New, h) /\ ~Kept(New, h)
      /\ \A h \in Hash : New.waiting[h] = {}
      /\ New.running = {}
  BY DEF New, InFlight, Kept
<1> QED
  BY <1>1, <1>2 DEF Sound

LEMMA SoundEvict ==
  ASSUME NEW m \in Map, Sound(m), NEW h \in Hash
  PROVE  Sound(Evict(m, h))
<1> DEFINE n == Evict(m, h)
<1>1. /\ n.owner = m.owner
      /\ n.waiting = m.waiting
      /\ n.running = m.running
      /\ \A k \in Hash : n.memo[k] = IF k = h THEN NoResource ELSE m.memo[k]
  BY EvictFields
<1> HIDE DEF n
<1>2. Sound(n)
  BY <1>1 DEF Sound, InFlight, Kept
<1> QED
  BY <1>2 DEF n

LEMMA SoundJoin ==
  ASSUME NEW m \in Map, Sound(m), NEW r \in Req, NEW h \in Hash,
         InFlight(m, h), \A k \in Hash : m.owner[k] # r
  PROVE  Sound(Join(m, r, h))
<1> DEFINE n == Join(m, r, h)
<1>1. /\ n.owner = m.owner
      /\ n.memo = m.memo
      /\ n.running = m.running
      /\ n.waiting[h] = m.waiting[h] \cup {r}
      /\ \A k \in Hash \ {h} : n.waiting[k] = m.waiting[k]
  BY JoinFields
<1> HIDE DEF n
<1>2. Sound(n)
  BY <1>1 DEF Sound, InFlight, Kept
<1> QED
  BY <1>2 DEF n

LEMMA SoundClaim ==
  ASSUME NEW m \in Map, Sound(m), NEW r \in Req, NEW h \in Hash,
         ~InFlight(m, h), ~Kept(m, h),
         \A k \in Hash : m.owner[k] # r /\ r \notin m.waiting[k]
  PROVE  Sound(Claim(m, r, h))
<1> DEFINE n == Claim(m, r, h)
<1>1. /\ n.memo = m.memo
      /\ n.waiting = m.waiting
      /\ n.running = m.running
      /\ \A k \in Hash : n.owner[k] = IF k = h THEN r ELSE m.owner[k]
  BY ClaimFields
<1>2. r # NoReq /\ m.running \in SUBSET Req
  BY MapFields, ResourceMapAssumptions DEF ResourceMapAssumptions
<1> HIDE DEF n
<1>3. \A c \in n.running : \E k \in Hash : n.owner[k] = c
  <2> SUFFICES ASSUME NEW c \in m.running
               PROVE  \E k \in Hash : n.owner[k] = c
    BY <1>1
  <2>1. PICK k \in Hash : m.owner[k] = c
    BY DEF Sound
  <2>2. c # NoReq
    BY <1>2, ResourceMapAssumptions DEF ResourceMapAssumptions
  <2>3. k # h
    BY <2>1, <2>2 DEF InFlight
  <2> QED
    BY <1>1, <2>1, <2>3
<1>4. /\ \A k \in Hash : InFlight(n, k) => ~Kept(n, k)
      /\ \A k \in Hash : n.waiting[k] # {} => InFlight(n, k)
      /\ \A k, l \in Hash : n.owner[k] \notin n.waiting[l]
  BY <1>1, <1>2 DEF Sound, InFlight, Kept
<1>5. \A k, l \in Hash : InFlight(n, k) /\ n.owner[k] = n.owner[l] => k = l
  BY <1>1 DEF Sound, InFlight
<1>6. Cardinality(n.running) <= Concurrency
  BY <1>1 DEF Sound
<1>7. Sound(n)
  BY <1>3, <1>4, <1>5, <1>6 DEF Sound
<1> QED
  BY <1>7 DEF n

\* A set of requests is finite.
LEMMA RequestsFinite ==
  ASSUME NEW S \in SUBSET Req
  PROVE  IsFiniteSet(S) /\ Cardinality(S) \in Nat
BY FS_Subset, FS_CardinalityType, ResourceMapAssumptions
   DEF ResourceMapAssumptions

LEMMA SoundRun ==
  ASSUME NEW m \in Map, Sound(m), NEW r \in Req, NEW h \in Hash,
         m.owner[h] = r, r \notin m.running, HasSlot(m)
  PROVE  Sound(Run(m, r))
<1>1. Cardinality(m.running \cup {r}) = Cardinality(m.running) + 1
  BY RequestsFinite, FS_AddElement DEF Map
<1>2. Cardinality(m.running \cup {r}) <= Concurrency
  BY <1>1, RequestsFinite, ResourceMapAssumptions
     DEF Map, HasSlot, ResourceMapAssumptions
<1> DEFINE n == Run(m, r)
<1>3. /\ n.owner = m.owner
      /\ n.memo = m.memo
      /\ n.waiting = m.waiting
      /\ n.running = m.running \cup {r}
  BY RunFields
<1> HIDE DEF n
<1>4. Sound(n)
  BY <1>2, <1>3 DEF Sound, InFlight, Kept
<1> QED
  BY <1>4 DEF n

LEMMA SoundFinish ==
  ASSUME NEW m \in Map, Sound(m), NEW r \in Req, NEW h \in Hash,
         NEW v \in Resource \cup {NoResource}, m.owner[h] = r
  PROVE  Sound(Finish(m, r, h, v))
<1>1. r # NoReq /\ \A k \in Hash : NoReq \notin m.waiting[k]
  BY NoReqWaits, ResourceMapAssumptions DEF ResourceMapAssumptions
<1>2. /\ IsFiniteSet(m.running)
      /\ Cardinality(m.running \ {r}) \in Nat
      /\ Cardinality(m.running) \in Nat
  BY RequestsFinite DEF Map
<1>3. Cardinality(m.running \ {r}) <= Cardinality(m.running)
  BY <1>2, FS_Subset
<1>4. Cardinality(m.running \ {r}) <= Concurrency
  BY <1>2, <1>3, ResourceMapAssumptions DEF Sound, ResourceMapAssumptions
<1> DEFINE n == Finish(m, r, h, v)
<1>5. /\ n.running = m.running \ {r}
      /\ n.owner[h] = NoReq
      /\ n.memo[h] = v
      /\ n.waiting[h] = {}
      /\ \A k \in Hash \ {h} : /\ n.owner[k] = m.owner[k]
                              /\ n.memo[k] = m.memo[k]
                              /\ n.waiting[k] = m.waiting[k]
  BY FinishFields
<1> HIDE DEF n
<1>6. /\ \A k \in Hash : InFlight(n, k) => ~Kept(n, k)
      /\ \A k \in Hash : n.waiting[k] # {} => InFlight(n, k)
  <2> SUFFICES ASSUME NEW k \in Hash
               PROVE  /\ InFlight(n, k) => ~Kept(n, k)
                      /\ n.waiting[k] # {} => InFlight(n, k)
    OBVIOUS
  <2>1. CASE k = h
    BY <1>5, <2>1 DEF InFlight
  <2>2. CASE k # h
    BY <1>5, <2>2 DEF Sound, InFlight, Kept
  <2> QED
    BY <2>1, <2>2
<1>7. \A c \in n.running : \E k \in Hash : n.owner[k] = c
  BY <1>5 DEF Sound, Map
<1>8. /\ \A k, l \in Hash : InFlight(n, k) /\ n.owner[k] = n.owner[l] => k = l
      /\ \A k, l \in Hash : n.owner[k] \notin n.waiting[l]
  BY <1>1, <1>5 DEF Sound, InFlight
<1> QED
  BY <1>4, <1>5, <1>6, <1>7, <1>8 DEF Sound, n

\* What a step must leave alone for the agreement with a map to survive it.
LEMMA ResourcesFrame ==
  ASSUME ResourcesAgree,
         resources'.owner = resources.owner,
         resources'.waiting = resources.waiting,
         resources'.running = resources.running,
         \A q \in Req :
           /\ pc'[q] \in BuildStep <=> pc[q] \in BuildStep
           /\ pc'[q] = "queued" <=> pc[q] = "queued"
           /\ pc'[q] = "waiting" <=> pc[q] = "waiting"
           /\ pc[q] \in BuildStep \cup {"waiting"} => hash(q)' = hash(q)
  PROVE  ResourcesAgree'
BY DEF ResourcesAgree

LEMMA ManifestsFrame ==
  ASSUME ManifestsAgree,
         manifests'.owner = manifests.owner,
         manifests'.waiting = manifests.waiting,
         manifests'.running = manifests.running,
         \A q \in Req :
           /\ pc'[q] \in ManifestStep /\ call'[q].kind = "manifest"
              <=> pc[q] \in ManifestStep /\ call[q].kind = "manifest"
           /\ pc'[q] = "manifestQueued" <=> pc[q] = "manifestQueued"
           /\ pc'[q] = "manifestWaiting" <=> pc[q] = "manifestWaiting"
           /\ pc[q] \in ManifestStep \cup {"manifestWaiting"} => hash(q)' = hash(q)
  PROVE  ManifestsAgree'
BY DEF ManifestsAgree

\* Every closure of resources that ends leaves the requests and the maps in
\* agreement.
LEMMA ConcludeAgrees ==
  ASSUME TypeOK, MapsAgree, NEW r \in Req, pc[r] \in BuildStep \ {"queued"},
         NEW o \in Outcome, Conclude(r, o)
  PROVE  MapsAgree'
<1> DEFINE h == hash(r)
           rs == {r} \cup resources.waiting[h]
<1>1. call[r] # NoCall /\ h \in Hash /\ resources \in Map
  BY CallOps DEF MapsAgree, Asks, BuildStep, Rpc, TypeOK
<1>2. resources.owner[h] = r /\ \A k \in Hash : resources.owner[k] = r => k = h
  BY <1>1 DEF MapsAgree, ResourcesAgree
<1>3. \A q \in Req : q \in rs <=> q = r \/ (pc[q] = "waiting" /\ hash(q) = h)
  BY <1>1 DEF MapsAgree, ResourcesAgree
<1>4. \A q \in Req : pc'[q] = IF q \notin rs THEN pc[q]
                             ELSE IF call[q].kind = "manifest"
                                  THEN "manifestBuilt" ELSE "reply"
  BY DEF Conclude, Return
<1>5. call' = call /\ manifests' = manifests /\ \A q \in Req : hash(q)' = hash(q)
  BY DEF Conclude, askVars, hash
<1>6. Sound(resources')
  BY <1>1, <1>2, SoundFinish, OutcomeOps DEF MapsAgree, Conclude
<1>7. /\ resources'.owner[h] = NoReq
      /\ resources'.waiting[h] = {}
      /\ \A k \in Hash \ {h} : /\ resources'.owner[k] = resources.owner[k]
                              /\ resources'.waiting[k] = resources.waiting[k]
      /\ resources'.running = resources.running \ {r}
  BY <1>1, FinishFields DEF Conclude
<1> HIDE DEF h, rs
<1>8. Asks'
  BY <1>3, <1>4, <1>5 DEF MapsAgree, Asks, BuildStep, Rpc
<1>9. \A k \in Hash, q \in Req :
        /\ resources'.owner[k] = q <=> pc'[q] \in BuildStep /\ hash(q)' = k
        /\ q \in resources'.waiting[k] <=> pc'[q] = "waiting" /\ hash(q)' = k
  <2> SUFFICES ASSUME NEW k \in Hash, NEW q \in Req
               PROVE  /\ resources'.owner[k] = q <=>
                           pc'[q] \in BuildStep /\ hash(q)' = k
                      /\ q \in resources'.waiting[k] <=>
                           pc'[q] = "waiting" /\ hash(q)' = k
    OBVIOUS
  <2>1. q # NoReq
    BY ResourceMapAssumptions DEF ResourceMapAssumptions
  <2>2. /\ resources.owner[k] = q <=> pc[q] \in BuildStep /\ hash(q) = k
        /\ q \in resources.waiting[k] <=> pc[q] = "waiting" /\ hash(q) = k
    BY DEF MapsAgree, ResourcesAgree
  <2>3. CASE k = h
    BY <1>1, <1>2, <1>3, <1>4, <1>5, <1>7, <2>1, <2>2, <2>3 DEF BuildStep, Rpc
  <2>4. CASE k # h
    BY <1>2, <1>3, <1>4, <1>5, <1>7, <2>1, <2>2, <2>4 DEF BuildStep, Rpc
  <2> QED
    BY <2>3, <2>4
<1>10. resources'.running = {q \in Req : pc'[q] \in BuildStep \ {"queued"}}
  <2>1. resources.running = {q \in Req : pc[q] \in BuildStep \ {"queued"}}
    BY DEF MapsAgree, ResourcesAgree
  <2>2. ASSUME NEW q \in Req
        PROVE  pc'[q] \in BuildStep \ {"queued"}
               <=> q # r /\ pc[q] \in BuildStep \ {"queued"}
    <3>1. CASE q \in rs
      BY <1>3, <1>4, <3>1 DEF BuildStep, Rpc
    <3>2. CASE q \notin rs
      <4>1. q # r
        BY <3>2 DEF rs
      <4>2. pc'[q] = pc[q]
        BY <1>4, <3>2
      <4> QED
        BY <4>1, <4>2
    <3> QED
      BY <3>1, <3>2
  <2> QED
    BY <1>7, <2>1, <2>2
<1>11. ManifestsAgree'
  <2>1. \A q \in Req :
          /\ pc'[q] \in ManifestStep /\ call'[q].kind = "manifest"
             <=> pc[q] \in ManifestStep /\ call[q].kind = "manifest"
          /\ pc'[q] = "manifestQueued" <=> pc[q] = "manifestQueued"
          /\ pc'[q] = "manifestWaiting" <=> pc[q] = "manifestWaiting"
    BY <1>3, <1>4, <1>5 DEF ManifestStep, BuildStep, Rpc
  <2> QED
    BY <1>5, <2>1, ManifestsFrame DEF MapsAgree
<1> QED
  BY <1>5, <1>6, <1>8, <1>9, <1>10, <1>11 DEF MapsAgree, ResourcesAgree

\* So does every closure of manifests that ends.
LEMMA ConcludeManifestAgrees ==
  ASSUME TypeOK, MapsAgree, NEW r \in Req, pc[r] \in {"files", "manifestBuilt"},
         NEW o \in Outcome, ConcludeManifest(r, o)
  PROVE  MapsAgree'
<1> DEFINE h == hash(r)
           rs == {r} \cup manifests.waiting[h]
<1>1. /\ call[r] # NoCall /\ call[r].kind = "manifest"
      /\ h \in Hash /\ manifests \in Map
  BY CallOps DEF MapsAgree, Asks, TypeOK
<1>2. manifests.owner[h] = r /\ \A k \in Hash : manifests.owner[k] = r => k = h
  BY <1>1 DEF MapsAgree, ManifestsAgree, ManifestStep
<1>3. \A q \in Req :
        q \in rs <=> q = r \/ (pc[q] = "manifestWaiting" /\ hash(q) = h)
  BY <1>1 DEF MapsAgree, ManifestsAgree
<1>4. \A q \in Req : pc'[q] = IF q \in rs THEN "reply" ELSE pc[q]
  BY DEF ConcludeManifest
<1>5. call' = call /\ resources' = resources /\ \A q \in Req : hash(q)' = hash(q)
  BY DEF ConcludeManifest, askVars, hash
<1>6. Sound(manifests')
  BY <1>1, <1>2, SoundFinish, OutcomeOps DEF MapsAgree, ConcludeManifest
<1>7. /\ manifests'.owner[h] = NoReq
      /\ manifests'.waiting[h] = {}
      /\ \A k \in Hash \ {h} : /\ manifests'.owner[k] = manifests.owner[k]
                              /\ manifests'.waiting[k] = manifests.waiting[k]
      /\ manifests'.running = manifests.running \ {r}
  BY <1>1, FinishFields DEF ConcludeManifest
<1> HIDE DEF h, rs
<1>8. Asks'
  BY <1>4, <1>5 DEF MapsAgree, Asks
<1>9. \A k \in Hash, q \in Req :
        /\ manifests'.owner[k] = q <=> /\ pc'[q] \in ManifestStep
                                       /\ call'[q].kind = "manifest"
                                       /\ hash(q)' = k
        /\ q \in manifests'.waiting[k] <=>
             pc'[q] = "manifestWaiting" /\ hash(q)' = k
  <2> SUFFICES ASSUME NEW k \in Hash, NEW q \in Req
               PROVE  /\ manifests'.owner[k] = q <=>
                           /\ pc'[q] \in ManifestStep
                           /\ call'[q].kind = "manifest"
                           /\ hash(q)' = k
                      /\ q \in manifests'.waiting[k] <=>
                           pc'[q] = "manifestWaiting" /\ hash(q)' = k
    OBVIOUS
  <2>1. q # NoReq
    BY ResourceMapAssumptions DEF ResourceMapAssumptions
  <2>2. /\ manifests.owner[k] = q <=> /\ pc[q] \in ManifestStep
                                      /\ call[q].kind = "manifest"
                                      /\ hash(q) = k
        /\ q \in manifests.waiting[k] <=> pc[q] = "manifestWaiting" /\ hash(q) = k
    BY DEF MapsAgree, ManifestsAgree
  <2>3. CASE k = h
    BY <1>1, <1>2, <1>3, <1>4, <1>5, <1>7, <2>1, <2>2, <2>3
       DEF ManifestStep, BuildStep, Rpc
  <2>4. CASE k # h
    BY <1>2, <1>3, <1>4, <1>5, <1>7, <2>1, <2>2, <2>4
       DEF ManifestStep, BuildStep, Rpc
  <2> QED
    BY <2>3, <2>4
<1>10. manifests'.running = {q \in Req : /\ pc'[q] \in ManifestStep \ {"manifestQueued"}
                                         /\ call'[q].kind = "manifest"}
  <2>1. manifests.running = {q \in Req : /\ pc[q] \in ManifestStep \ {"manifestQueued"}
                                         /\ call[q].kind = "manifest"}
    BY DEF MapsAgree, ManifestsAgree
  <2>2. ASSUME NEW q \in Req
        PROVE  pc'[q] \in ManifestStep \ {"manifestQueued"}
               <=> q # r /\ pc[q] \in ManifestStep \ {"manifestQueued"}
    <3>1. CASE q \in rs
      BY <1>3, <1>4, <3>1 DEF ManifestStep, BuildStep, Rpc
    <3>2. CASE q \notin rs
      <4>1. q # r
        BY <3>2 DEF rs
      <4>2. pc'[q] = pc[q]
        BY <1>4, <3>2
      <4> QED
        BY <4>1, <4>2
    <3> QED
      BY <3>1, <3>2
  <2> QED
    BY <1>5, <1>7, <2>1, <2>2
<1>11. ResourcesAgree'
  <2>1. \A q \in Req : /\ pc'[q] \in BuildStep <=> pc[q] \in BuildStep
                       /\ pc'[q] = "queued" <=> pc[q] = "queued"
                       /\ pc'[q] = "waiting" <=> pc[q] = "waiting"
    BY <1>3, <1>4 DEF BuildStep, Rpc
  <2> QED
    BY <1>5, <2>1, ResourcesFrame DEF MapsAgree
<1> QED
  BY <1>5, <1>6, <1>8, <1>9, <1>10, <1>11 DEF MapsAgree, ManifestsAgree

\* A lookup in resources, in its three outcomes.
LEMMA GetAgrees ==
  ASSUME TypeOK, MapsAgree, NEW r \in Req, Get(r)
  PROVE  MapsAgree'
<1> DEFINE h == hash(r)
<1>1. pc[r] = "get" /\ call[r] # NoCall /\ h \in Hash /\ resources \in Map
  BY CallOps DEF Get, MapsAgree, Asks, TypeOK
<1>2. \A k \in Hash : resources.owner[k] # r /\ r \notin resources.waiting[k]
  BY <1>1 DEF MapsAgree, ResourcesAgree, BuildStep, Rpc
<1>3. call' = call /\ manifests' = manifests /\ \A q \in Req : hash(q)' = hash(q)
  BY DEF Get, hash
<1>4. PICK p \in {"waiting", "queued", "manifestBuilt", "reply"} :
        /\ \A q \in Req : pc'[q] = IF q = r THEN p ELSE pc[q]
        /\ p = "waiting" => InFlight(resources, h) /\ resources' = Join(resources, r, h)
        /\ p = "queued" => /\ ~InFlight(resources, h) /\ ~Kept(resources, h)
                           /\ resources' = Claim(resources, r, h)
        /\ p \in {"manifestBuilt", "reply"} => resources' = resources
        /\ p = "manifestBuilt" => call[r].kind = "manifest"
        /\ p = "reply" => call[r].kind # "manifest"
  BY DEF Get, Return, TypeOK
<1>5. Asks'
  BY <1>1, <1>3, <1>4 DEF MapsAgree, Asks
<1>6. Sound(resources')
  BY <1>1, <1>2, <1>4, SoundJoin, SoundClaim DEF MapsAgree
<1>7. ManifestsAgree'
  <2>1. \A q \in Req :
          /\ pc'[q] \in ManifestStep /\ call'[q].kind = "manifest"
             <=> pc[q] \in ManifestStep /\ call[q].kind = "manifest"
          /\ pc'[q] = "manifestQueued" <=> pc[q] = "manifestQueued"
          /\ pc'[q] = "manifestWaiting" <=> pc[q] = "manifestWaiting"
    BY <1>1, <1>3, <1>4 DEF ManifestStep, BuildStep, Rpc
  <2> QED
    BY <1>3, <2>1, ManifestsFrame DEF MapsAgree
<1>8. ResourcesAgree'
  <2>1. /\ \A k \in Hash : resources'.owner[k] =
             IF p = "queued" /\ k = h THEN r ELSE resources.owner[k]
        /\ resources'.running = resources.running
    BY <1>1, <1>4, JoinFields, ClaimFields
  <2>2. \A k \in Hash, q \in Req : q \in resources'.waiting[k] <=>
          \/ q \in resources.waiting[k]
          \/ p = "waiting" /\ k = h /\ q = r
    <3>1. CASE p = "waiting"
      BY <1>1, <1>4, <3>1, JoinFields
    <3>2. CASE p = "queued"
      BY <1>1, <1>4, <3>2, ClaimFields
    <3> QED
      BY <1>4, <3>1, <3>2
  <2> HIDE DEF h
  <2>3. \A k \in Hash, q \in Req :
          /\ resources'.owner[k] = q <=> pc'[q] \in BuildStep /\ hash(q)' = k
          /\ q \in resources'.waiting[k] <=> pc'[q] = "waiting" /\ hash(q)' = k
    <3> SUFFICES ASSUME NEW k \in Hash, NEW q \in Req
                 PROVE  /\ resources'.owner[k] = q <=>
                             pc'[q] \in BuildStep /\ hash(q)' = k
                        /\ q \in resources'.waiting[k] <=>
                             pc'[q] = "waiting" /\ hash(q)' = k
      OBVIOUS
    <3>1. /\ resources.owner[k] = q <=> pc[q] \in BuildStep /\ hash(q) = k
          /\ q \in resources.waiting[k] <=> pc[q] = "waiting" /\ hash(q) = k
      BY DEF MapsAgree, ResourcesAgree
    <3>2. p = "queued" => resources.owner[h] = NoReq
      BY <1>4 DEF InFlight, h
    <3>3. q # NoReq
      BY ResourceMapAssumptions DEF ResourceMapAssumptions
    <3>4. hash(r) = h
      BY DEF h
    <3>5. CASE q = r
      BY <1>1, <1>2, <1>3, <1>4, <2>1, <2>2, <3>1, <3>4, <3>5 DEF BuildStep, Rpc
    <3>6. CASE q # r
      BY <1>1, <1>3, <1>4, <2>1, <2>2, <3>1, <3>2, <3>3, <3>6
    <3> QED
      BY <3>5, <3>6
  <2>4. resources'.running = {q \in Req : pc'[q] \in BuildStep \ {"queued"}}
    <3>1. resources.running = {q \in Req : pc[q] \in BuildStep \ {"queued"}}
      BY DEF MapsAgree, ResourcesAgree
    <3>2. \A q \in Req : pc'[q] \in BuildStep \ {"queued"}
                         <=> pc[q] \in BuildStep \ {"queued"}
      BY <1>1, <1>4 DEF BuildStep, Rpc
    <3> QED
      BY <2>1, <3>1, <3>2
  <2> QED
    BY <2>3, <2>4 DEF ResourcesAgree
<1> QED
  BY <1>3, <1>5, <1>6, <1>7, <1>8 DEF MapsAgree

\* A lookup in manifests.
LEMMA GetManifestAgrees ==
  ASSUME TypeOK, MapsAgree, NEW r \in Req, GetManifest(r)
  PROVE  MapsAgree'
<1> DEFINE h == hash(r)
<1>1. /\ pc[r] = "getManifest" /\ call[r] # NoCall /\ call[r].kind = "manifest"
      /\ h \in Hash /\ manifests \in Map
  BY CallOps DEF GetManifest, MapsAgree, Asks, TypeOK
<1>2. \A k \in Hash : manifests.owner[k] # r /\ r \notin manifests.waiting[k]
  BY <1>1 DEF MapsAgree, ManifestsAgree, ManifestStep, BuildStep, Rpc
<1>3. call' = call /\ resources' = resources /\ \A q \in Req : hash(q)' = hash(q)
  BY DEF GetManifest, askVars, hash
<1>4. PICK p \in {"manifestWaiting", "manifestQueued", "reply"} :
        /\ \A q \in Req : pc'[q] = IF q = r THEN p ELSE pc[q]
        /\ p = "manifestWaiting" => /\ InFlight(manifests, h)
                                    /\ manifests' = Join(manifests, r, h)
        /\ p = "manifestQueued" => /\ ~InFlight(manifests, h) /\ ~Kept(manifests, h)
                                   /\ manifests' = Claim(manifests, r, h)
        /\ p = "reply" => manifests' = manifests
  BY DEF GetManifest, TypeOK
<1>5. Asks'
  BY <1>1, <1>3, <1>4 DEF MapsAgree, Asks
<1>6. Sound(manifests')
  BY <1>1, <1>2, <1>4, SoundJoin, SoundClaim DEF MapsAgree
<1>7. ResourcesAgree'
  <2>1. \A q \in Req : /\ pc'[q] \in BuildStep <=> pc[q] \in BuildStep
                       /\ pc'[q] = "queued" <=> pc[q] = "queued"
                       /\ pc'[q] = "waiting" <=> pc[q] = "waiting"
    BY <1>1, <1>4 DEF BuildStep, Rpc
  <2> QED
    BY <1>3, <2>1, ResourcesFrame DEF MapsAgree
<1>8. ManifestsAgree'
  <2>1. /\ \A k \in Hash : manifests'.owner[k] =
             IF p = "manifestQueued" /\ k = h THEN r ELSE manifests.owner[k]
        /\ manifests'.running = manifests.running
    BY <1>1, <1>4, JoinFields, ClaimFields
  <2>2. \A k \in Hash, q \in Req : q \in manifests'.waiting[k] <=>
          \/ q \in manifests.waiting[k]
          \/ p = "manifestWaiting" /\ k = h /\ q = r
    <3>1. CASE p = "manifestWaiting"
      BY <1>1, <1>4, <3>1, JoinFields
    <3>2. CASE p = "manifestQueued"
      BY <1>1, <1>4, <3>2, ClaimFields
    <3> QED
      BY <1>4, <3>1, <3>2
  <2> HIDE DEF h
  <2>3. \A k \in Hash, q \in Req :
          /\ manifests'.owner[k] = q <=> /\ pc'[q] \in ManifestStep
                                         /\ call'[q].kind = "manifest"
                                         /\ hash(q)' = k
          /\ q \in manifests'.waiting[k] <=>
               pc'[q] = "manifestWaiting" /\ hash(q)' = k
    <3> SUFFICES ASSUME NEW k \in Hash, NEW q \in Req
                 PROVE  /\ manifests'.owner[k] = q <=>
                             /\ pc'[q] \in ManifestStep
                             /\ call'[q].kind = "manifest"
                             /\ hash(q)' = k
                        /\ q \in manifests'.waiting[k] <=>
                             pc'[q] = "manifestWaiting" /\ hash(q)' = k
      OBVIOUS
    <3>1. /\ manifests.owner[k] = q <=> /\ pc[q] \in ManifestStep
                                        /\ call[q].kind = "manifest"
                                        /\ hash(q) = k
          /\ q \in manifests.waiting[k] <=>
               pc[q] = "manifestWaiting" /\ hash(q) = k
      BY DEF MapsAgree, ManifestsAgree
    <3>2. p = "manifestQueued" => manifests.owner[h] = NoReq
      BY <1>4 DEF InFlight, h
    <3>3. q # NoReq
      BY ResourceMapAssumptions DEF ResourceMapAssumptions
    <3>4. hash(r) = h
      BY DEF h
    <3>5. CASE q = r
      BY <1>1, <1>2, <1>3, <1>4, <2>1, <2>2, <3>1, <3>4, <3>5
         DEF ManifestStep, BuildStep, Rpc
    <3>6. CASE q # r
      BY <1>1, <1>3, <1>4, <2>1, <2>2, <3>1, <3>2, <3>3, <3>6
    <3> QED
      BY <3>5, <3>6
  <2>4. manifests'.running =
          {q \in Req : /\ pc'[q] \in ManifestStep \ {"manifestQueued"}
                       /\ call'[q].kind = "manifest"}
    <3>1. manifests.running =
            {q \in Req : /\ pc[q] \in ManifestStep \ {"manifestQueued"}
                         /\ call[q].kind = "manifest"}
      BY DEF MapsAgree, ManifestsAgree
    <3>2. \A q \in Req : pc'[q] \in ManifestStep \ {"manifestQueued"}
                         <=> pc[q] \in ManifestStep \ {"manifestQueued"}
      BY <1>1, <1>4 DEF ManifestStep, BuildStep, Rpc
    <3> QED
      BY <1>3, <2>1, <3>1, <3>2
  <2> QED
    BY <2>3, <2>4 DEF ManifestsAgree
<1> QED
  BY <1>3, <1>5, <1>6, <1>7, <1>8 DEF MapsAgree

\* A closure that gets its slot.
LEMMA StartAgrees ==
  ASSUME TypeOK, MapsAgree, NEW r \in Req, Start(r)
  PROVE  MapsAgree'
<1>1. pc[r] = "queued" /\ call[r] # NoCall /\ hash(r) \in Hash /\ resources \in Map
  BY CallOps DEF Start, MapsAgree, Asks, TypeOK
<1>2. resources.owner[hash(r)] = r /\ r \notin resources.running
  BY <1>1 DEF MapsAgree, ResourcesAgree, BuildStep
<1>3. /\ \A q \in Req : pc'[q] = IF q = r THEN "touch" ELSE pc[q]
      /\ call' = call /\ manifests' = manifests
      /\ \A q \in Req : hash(q)' = hash(q)
  BY DEF Start, TypeOK, askVars, hash
<1>4. Asks'
  BY <1>1, <1>3 DEF MapsAgree, Asks
<1>5. Sound(resources')
  BY <1>1, <1>2, SoundRun DEF MapsAgree, Start
<1>6. ManifestsAgree'
  <2>1. \A q \in Req :
          /\ pc'[q] \in ManifestStep <=> pc[q] \in ManifestStep
          /\ pc'[q] = "manifestQueued" <=> pc[q] = "manifestQueued"
          /\ pc'[q] = "manifestWaiting" <=> pc[q] = "manifestWaiting"
    BY <1>1, <1>3 DEF ManifestStep, BuildStep, Rpc
  <2> QED
    BY <1>3, <2>1, ManifestsFrame DEF MapsAgree
<1>7. ResourcesAgree'
  <2>1. /\ resources'.owner = resources.owner
        /\ resources'.waiting = resources.waiting
        /\ resources'.running = resources.running \cup {r}
    BY <1>1, RunFields DEF Start
  <2>2. \A q \in Req : /\ pc'[q] \in BuildStep <=> pc[q] \in BuildStep
                       /\ pc'[q] = "waiting" <=> pc[q] = "waiting"
                       /\ pc'[q] \in BuildStep \ {"queued"}
                          <=> q = r \/ pc[q] \in BuildStep \ {"queued"}
    BY <1>1, <1>3 DEF BuildStep, Rpc
  <2> QED
    BY <1>3, <2>1, <2>2 DEF MapsAgree, ResourcesAgree
<1> QED
  BY <1>3, <1>4, <1>5, <1>6, <1>7 DEF MapsAgree

LEMMA StartManifestAgrees ==
  ASSUME TypeOK, MapsAgree, NEW r \in Req, StartManifest(r)
  PROVE  MapsAgree'
<1>1. /\ pc[r] = "manifestQueued" /\ call[r] # NoCall
      /\ call[r].kind = "manifest" /\ hash(r) \in Hash /\ manifests \in Map
  BY CallOps DEF StartManifest, MapsAgree, Asks, TypeOK
<1>2. manifests.owner[hash(r)] = r /\ r \notin manifests.running
  BY <1>1 DEF MapsAgree, ManifestsAgree, ManifestStep
<1>3. /\ \A q \in Req : pc'[q] = IF q = r THEN "files" ELSE pc[q]
      /\ call' = call /\ resources' = resources
      /\ \A q \in Req : hash(q)' = hash(q)
  BY DEF StartManifest, TypeOK, askVars, hash
<1>4. Asks'
  BY <1>1, <1>3 DEF MapsAgree, Asks
<1>5. Sound(manifests')
  BY <1>1, <1>2, SoundRun DEF MapsAgree, StartManifest
<1>6. ResourcesAgree'
  <2>1. \A q \in Req : /\ pc'[q] \in BuildStep <=> pc[q] \in BuildStep
                       /\ pc'[q] = "queued" <=> pc[q] = "queued"
                       /\ pc'[q] = "waiting" <=> pc[q] = "waiting"
    BY <1>1, <1>3 DEF BuildStep, Rpc
  <2> QED
    BY <1>3, <2>1, ResourcesFrame DEF MapsAgree
<1>7. ManifestsAgree'
  <2>1. /\ manifests'.owner = manifests.owner
        /\ manifests'.waiting = manifests.waiting
        /\ manifests'.running = manifests.running \cup {r}
    BY <1>1, RunFields DEF StartManifest
  <2>2. \A q \in Req : /\ pc'[q] \in ManifestStep <=> pc[q] \in ManifestStep
                       /\ pc'[q] = "manifestWaiting" <=> pc[q] = "manifestWaiting"
                       /\ pc'[q] \in ManifestStep \ {"manifestQueued"}
                          <=> q = r \/ pc[q] \in ManifestStep \ {"manifestQueued"}
    BY <1>1, <1>3 DEF ManifestStep, BuildStep, Rpc
  <2> QED
    BY <1>1, <1>3, <2>1, <2>2 DEF MapsAgree, ManifestsAgree
<1> QED
  BY <1>3, <1>4, <1>5, <1>6, <1>7 DEF MapsAgree

\* A failure ends a closure with its maps in agreement.
LEMMA FailAgrees ==
  ASSUME TypeOK, MapsAgree, NEW r \in Req,
         NEW e \in {"deadline", "canceled", "unavailable"}, Fail(r, e)
  PROVE  MapsAgree'
<1>1. Failed(e) \in Outcome /\ Failed("magnetTimeout") \in Outcome
  BY OutcomeOps DEF ErrorKind
<1>2. CASE FailRpc(r, e)
  <2>1. pc[r] \in BuildStep \ {"queued"} /\ call[r] # NoCall
    BY <1>2 DEF FailRpc, BuildStep, Rpc, MapsAgree, Asks
  <2>2. Ok(parseTorrent(hash(r), payload[r])) \in Outcome
    BY <2>1, CallOps, ResourceOps, OutcomeOps DEF TypeOK
  <2>3. PICK o \in Outcome : Conclude(r, o)
    BY <1>1, <1>2, <2>2 DEF FailRpc
  <2> QED
    BY <2>1, <2>3, ConcludeAgrees
<1>3. CASE FailFiles(r, e)
  BY <1>1, <1>3, ConcludeManifestAgrees DEF FailFiles
<1> QED
  BY <1>2, <1>3 DEF Fail

\* A step within the closure of resources.
LEMMA BuildAgrees ==
  ASSUME TypeOK, MapsAgree, NEW r \in Req,
         pc[r] \in BuildStep \ {"queued"},
         NEW step \in BuildStep \ {"queued"},
         pc' = [pc EXCEPT ![r] = step], UNCHANGED <<resources, manifests, askVars>>
  PROVE  MapsAgree'
<1>1. /\ call' = call /\ resources' = resources /\ manifests' = manifests
      /\ \A q \in Req : hash(q)' = hash(q)
  BY DEF askVars, hash
<1>2. \A q \in Req : pc'[q] = IF q = r THEN step ELSE pc[q]
  BY DEF TypeOK
<1>3. \A q \in Req :
        /\ pc'[q] \in BuildStep <=> pc[q] \in BuildStep
        /\ pc'[q] = "queued" <=> pc[q] = "queued"
        /\ pc'[q] = "waiting" <=> pc[q] = "waiting"
        /\ pc'[q] \in ManifestStep <=> pc[q] \in ManifestStep
        /\ pc'[q] = "manifestQueued" <=> pc[q] = "manifestQueued"
        /\ pc'[q] = "manifestWaiting" <=> pc[q] = "manifestWaiting"
  BY <1>2 DEF ManifestStep, BuildStep, Rpc
<1>4. Asks'
  BY <1>1, <1>2 DEF MapsAgree, Asks, BuildStep, Rpc
<1>5. ResourcesAgree'
  BY <1>1, <1>3, ResourcesFrame DEF MapsAgree
<1>6. ManifestsAgree'
  BY <1>1, <1>3, ManifestsFrame DEF MapsAgree
<1> QED
  BY <1>1, <1>4, <1>5, <1>6 DEF MapsAgree

\* A step of a handler outside both maps.
LEMMA HandlerAgrees ==
  ASSUME TypeOK, MapsAgree, NEW r \in Req,
         Arrive(r) \/ Reject(r) \/ Hangup(r) \/ Answer(r)
  PROVE  MapsAgree'
<1>1. resources' = resources /\ manifests' = manifests
  BY DEF Arrive, Reject, Hangup, Answer
<1>2. \A q \in Req \ {r} : pc'[q] = pc[q] /\ call'[q] = call[q]
  BY DEF Arrive, Reject, Hangup, Answer, TypeOK
<1>3. \/ pc'[r] = pc[r] /\ call'[r] = call[r]
      \/ /\ pc[r] \in {"idle", "reply"}
         /\ pc'[r] \in {"idle", "reply"}
      \/ /\ pc[r] = "idle"
         /\ call'[r] # NoCall
         /\ \/ pc'[r] = "get" /\ call'[r].kind # "manifest"
            \/ pc'[r] = "getManifest" /\ call'[r].kind = "manifest"
  BY ResourceMapAssumptions
     DEF Arrive, Reject, Hangup, Answer, TypeOK, ResourceMapAssumptions
<1>4. Asks'
  BY <1>2, <1>3 DEF MapsAgree, Asks
<1>5. \A q \in Req :
        /\ pc'[q] \in BuildStep <=> pc[q] \in BuildStep
        /\ pc'[q] = "queued" <=> pc[q] = "queued"
        /\ pc'[q] = "waiting" <=> pc[q] = "waiting"
        /\ pc'[q] = "manifestQueued" <=> pc[q] = "manifestQueued"
        /\ pc'[q] = "manifestWaiting" <=> pc[q] = "manifestWaiting"
        /\ pc'[q] \in ManifestStep /\ call'[q].kind = "manifest"
           <=> pc[q] \in ManifestStep /\ call[q].kind = "manifest"
        /\ pc[q] \in ManifestStep \cup {"manifestWaiting"}
           => call'[q] = call[q]
  BY <1>2, <1>3 DEF ManifestStep, BuildStep, Rpc
<1>6. \A q \in Req : pc[q] \in BuildStep \cup {"waiting"} => call'[q] = call[q]
  BY <1>5 DEF ManifestStep, BuildStep
<1>7. ResourcesAgree'
  BY <1>1, <1>5, <1>6, ResourcesFrame DEF MapsAgree, hash
<1>8. ManifestsAgree'
  BY <1>1, <1>5, ManifestsFrame DEF MapsAgree, hash
<1> QED
  BY <1>1, <1>4, <1>7, <1>8 DEF MapsAgree

\* Every step of a request leaves its maps in agreement.
LEMMA ServeAgrees ==
  ASSUME TypeOK, MapsAgree, NEW r \in Req, Serve(r)
  PROVE  MapsAgree'
<1>a. call[r] # NoCall => hash(r) \in Hash /\ call[r].trackers \in SUBSET Tracker
  BY CallOps
<1>b. pc[r] \notin {"idle", "reply"} => call[r] # NoCall
  BY DEF MapsAgree, Asks
<1>1. CASE Touch(r) \/ Pull(r) \/ PushTrackers(r) \/ Push(r) \/ PushMagnet(r)
  <2>1. pc[r] \in BuildStep \ {"queued"} /\ call[r] # NoCall
    BY <1>1, <1>b DEF Touch, Pull, PushTrackers, Push, PushMagnet, BuildStep, Rpc
  <2>2. /\ Failed("forbidden") \in Outcome
        /\ Failed("notFound") \in Outcome
        /\ Failed("refused") \in Outcome
        /\ Failed("missing") \in Outcome
        /\ Failed("unavailable") \in Outcome
    BY OutcomeOps DEF ErrorKind
  <2>3. \A ts \in SUBSET Tracker : Ok(parseTorrent(hash(r), ts)) \in Outcome
    BY <1>a, <2>1, ResourceOps, OutcomeOps
  <2>4. /\ store[hash(r)].trackers \in SUBSET Tracker
        /\ payload[r] \in SUBSET Tracker
        /\ call[r].trackers \in SUBSET Tracker
    BY <1>a, <2>1 DEF TypeOK
  <2>5. CASE \E o \in Outcome : Conclude(r, o)
    BY <2>1, <2>5, ConcludeAgrees
  <2>6. CASE \E step \in {"magnet", "pull", "push", "pushTrackers"} :
               /\ pc' = [pc EXCEPT ![r] = step]
               /\ UNCHANGED <<resources, manifests, askVars>>
    BY <2>1, <2>6, BuildAgrees DEF BuildStep, Rpc
  <2>7. CASE Touch(r)
    BY <2>2, <2>5, <2>6, <2>7 DEF Touch, Goto
  <2>8. CASE Pull(r)
    BY <2>2, <2>3, <2>4, <2>5, <2>6, <2>8 DEF Pull
  <2>9. CASE PushTrackers(r) \/ Push(r) \/ PushMagnet(r)
    BY <2>2, <2>3, <2>4, <2>5, <2>9 DEF PushTrackers, Push, PushMagnet
  <2> QED
    BY <1>1, <2>7, <2>8, <2>9
<1>2. CASE FetchMagnet(r)
  <2>1. /\ pc[r] \in BuildStep \ {"queued"}
        /\ pc' = [pc EXCEPT ![r] = "pushMagnet"]
        /\ UNCHANGED <<resources, manifests, askVars>>
    BY <1>2 DEF FetchMagnet, BuildStep, Rpc
  <2>2. "pushMagnet" \in BuildStep \ {"queued"}
    BY DEF BuildStep, Rpc
  <2> QED
    BY <2>1, <2>2, BuildAgrees
<1>3. CASE Files(r) \/ ManifestBuilt(r)
  <2>1. call[r] # NoCall /\ pc[r] \in {"files", "manifestBuilt"}
    BY <1>3, <1>b DEF Files, ManifestBuilt
  <2>2. /\ Failed("forbidden") \in Outcome
        /\ Failed("notFound") \in Outcome
        /\ Ok(Manifest(hash(r))) \in Outcome
        /\ out[r] \in Outcome
    BY <1>a, <2>1, ResourceOps, OutcomeOps DEF ErrorKind, TypeOK
  <2>3. PICK o \in Outcome : ConcludeManifest(r, o)
    BY <1>3, <2>2 DEF Files, ManifestBuilt
  <2> QED
    BY <2>1, <2>3, ConcludeManifestAgrees
<1>4. CASE FallBack(r)
  <2>1. /\ call' = call /\ resources' = resources /\ manifests' = manifests
        /\ \A q \in Req : hash(q)' = hash(q)
    BY <1>4 DEF FallBack, askVars, hash
  <2>2. pc[r] = "files" /\ \A q \in Req : pc'[q] = IF q = r THEN "get" ELSE pc[q]
    BY <1>4 DEF FallBack, TypeOK
  <2>3. \A q \in Req :
          /\ pc'[q] \in BuildStep <=> pc[q] \in BuildStep
          /\ pc'[q] = "queued" <=> pc[q] = "queued"
          /\ pc'[q] = "waiting" <=> pc[q] = "waiting"
          /\ pc'[q] \in ManifestStep <=> pc[q] \in ManifestStep
          /\ pc'[q] = "manifestQueued" <=> pc[q] = "manifestQueued"
          /\ pc'[q] = "manifestWaiting" <=> pc[q] = "manifestWaiting"
    BY <2>2 DEF ManifestStep, BuildStep, Rpc
  <2>4. Asks'
    BY <1>b, <2>1, <2>2 DEF MapsAgree, Asks
  <2>5. ResourcesAgree'
    BY <2>1, <2>3, ResourcesFrame DEF MapsAgree
  <2>6. ManifestsAgree'
    BY <2>1, <2>3, ManifestsFrame DEF MapsAgree
  <2> QED
    BY <2>1, <2>4, <2>5, <2>6 DEF MapsAgree
<1>5. CASE Timeout(r) \/ Cancel(r) \/ Break(r)
  BY <1>5, FailAgrees DEF Timeout, Cancel, Break
<1> QED
  BY <1>1, <1>2, <1>3, <1>4, <1>5, HandlerAgrees, GetAgrees, StartAgrees,
     GetManifestAgrees, StartManifestAgrees DEF Serve

\* Every step does.
LEMMA NextAgrees ==
  ASSUME TypeOK, MapsAgree, [Next]_vars
  PROVE  MapsAgree'
<1>1. CASE \E r \in Req : Serve(r)
  BY <1>1, ServeAgrees
<1>2. CASE \E h \in Hash : Environment(h)
  <2>1. PICK h \in Hash : Environment(h)
    BY <1>2
  <2>2. pc' = pc /\ call' = call /\ \A q \in Req : hash(q)' = hash(q)
    BY <2>1 DEF Environment, EvictResource, EvictManifest, StoreForgets,
                StoreReceives, hash
  <2>3. /\ resources' \in {resources, Evict(resources, h)}
        /\ manifests' \in {manifests, Evict(manifests, h)}
    BY <2>1 DEF Environment, EvictResource, EvictManifest, StoreForgets,
                StoreReceives
  <2>4. Sound(resources') /\ Sound(manifests')
    BY <2>3, SoundEvict DEF MapsAgree, TypeOK
  <2>5. /\ resources'.owner = resources.owner
        /\ resources'.waiting = resources.waiting
        /\ resources'.running = resources.running
        /\ manifests'.owner = manifests.owner
        /\ manifests'.waiting = manifests.waiting
        /\ manifests'.running = manifests.running
    BY <2>3, EvictFields DEF TypeOK
  <2>6. Asks' /\ ResourcesAgree' /\ ManifestsAgree'
    BY <2>2, <2>5 DEF MapsAgree, Asks, ResourcesAgree, ManifestsAgree
  <2> QED
    BY <2>4, <2>6 DEF MapsAgree
<1>3. CASE UNCHANGED vars
  <2>1. /\ pc' = pc /\ call' = call /\ resources' = resources
        /\ manifests' = manifests /\ \A q \in Req : hash(q)' = hash(q)
    BY <1>3 DEF vars, hash
  <2>2. Asks' /\ ResourcesAgree' /\ ManifestsAgree'
    BY <2>1 DEF MapsAgree, Asks, ResourcesAgree, ManifestsAgree
  <2> QED
    BY <2>1, <2>2 DEF MapsAgree
<1> QED
  BY <1>1, <1>2, <1>3 DEF Next

\* The initial states.
LEMMA InitAgrees == Init => TypeOK /\ MapsAgree
<1> SUFFICES ASSUME Init PROVE TypeOK /\ MapsAgree
  OBVIOUS
<1>1. TypeOK
  BY NewMap, OutcomeOps DEF Init, TypeOK, Step
<1>2. /\ \A h \in Hash : New.owner[h] = NoReq /\ New.waiting[h] = {}
      /\ New.running = {}
      /\ NoReq \notin Req
  BY ResourceMapAssumptions DEF New, ResourceMapAssumptions
<1>3. Asks /\ ResourcesAgree /\ ManifestsAgree
  BY <1>2 DEF Init, Asks, ResourcesAgree, ManifestsAgree, ManifestStep, BuildStep,
              Rpc
<1> QED
  BY <1>1, <1>3, SoundNew DEF Init, MapsAgree

-----------------------------------------------------------------------------

\* In every reachable state, each variable has its type and what the two maps
\* record of owners, blocked requests and slots is what the requests do: no
\* slot leaks, and nobody is blocked on a closure that does not run.
THEOREM MapsAlwaysAgree == SafetySpec => [](TypeOK /\ MapsAgree)
<1>1. TypeOK /\ MapsAgree /\ [Next]_vars => (TypeOK /\ MapsAgree)'
  BY NextType, NextAgrees DEF MapsAgree
<1> QED
  BY <1>1, InitAgrees, PTL DEF SafetySpec

\* Every variable always has its type.
THEOREM TypeCorrect == SafetySpec => []TypeOK
BY MapsAlwaysAgree, PTL

\* However many requests ask for a hash at once, at most one talks to the
\* services for its resource and at most one for its manifest.
THEOREM SingleFlightAlways == SafetySpec => []SingleFlight
<1>1. TypeOK /\ MapsAgree => SingleFlight
  <2> SUFFICES ASSUME TypeOK, MapsAgree, NEW q \in Asking, NEW r \in Asking,
                      hash(q) = hash(r)
               PROVE  /\ pc[q] \in BuildStep /\ pc[r] \in BuildStep => q = r
                      /\ pc[q] = "files" /\ pc[r] = "files" => q = r
    BY DEF SingleFlight
  <2>1. q \in Req /\ r \in Req /\ hash(q) \in Hash
    BY CallOps DEF Asking
  <2>2. pc[q] \in BuildStep /\ pc[r] \in BuildStep => q = r
    <3>1. pc[q] \in BuildStep => resources.owner[hash(q)] = q
      BY <2>1 DEF MapsAgree, ResourcesAgree
    <3>2. pc[r] \in BuildStep => resources.owner[hash(q)] = r
      BY <2>1 DEF MapsAgree, ResourcesAgree
    <3> QED
      BY <3>1, <3>2
  <2>3. pc[q] = "files" /\ pc[r] = "files" => q = r
    <3>1. pc[q] = "files" => manifests.owner[hash(q)] = q
      BY <2>1 DEF MapsAgree, ManifestsAgree, ManifestStep, Asks
    <3>2. pc[r] = "files" => manifests.owner[hash(q)] = r
      BY <2>1 DEF MapsAgree, ManifestsAgree, ManifestStep, Asks
    <3> QED
      BY <3>1, <3>2
  <2> QED
    BY <2>2, <2>3
<1> QED
  BY <1>1, MapsAlwaysAgree, PTL

-----------------------------------------------------------------------------
(* Answers are stored                                                      *)

\* The strengthening of AnswersAreStored: what the store holds it has held, and
\* what a closure pulled was there, until it is returned.
StoreRecorded ==
  \A h \in Hash : /\ store[h].state = "held" => history[h].held
                  /\ store[h].trackers \subseteq history[h].trackers
PullRecorded ==
  \A r \in Req : pc[r] = "pushTrackers" =>
    Stored(parseTorrent(hash(r), payload[r]), hash(r))
MemoStored ==
  \A h \in Hash :
    /\ Kept(resources, h) => Stored(resources.memo[h], h)
    /\ Kept(manifests, h) => Stored(manifests.memo[h], h)
OutStored ==
  \A r \in Req :
    /\ out[r].res # NoResource => call[r] # NoCall /\ Stored(out[r].res, hash(r))
    /\ pc[r] = "idle" => out[r].res = NoResource
Backed == StoreRecorded /\ PullRecorded /\ MemoStored /\ OutStored

\* The history of a hash only grows.
Grown == \A h \in Hash : /\ history[h].held => history'[h].held
                         /\ history[h].trackers \subseteq history'[h].trackers

\* What was stored remains so when the history grows.
LEMMA StoredGrows ==
  ASSUME Grown, NEW h \in Hash, NEW v, Stored(v, h)
  PROVE  Stored(v, h)'
BY DEF Grown, Stored

\* A merge records what it merges, and keeps what the store holds recorded.
LEMMA MergeRecords ==
  ASSUME TypeOK, StoreRecorded, NEW r \in Req, call[r] # NoCall, Merge(r)
  PROVE  /\ Grown
         /\ StoreRecorded'
         /\ history'[hash(r)].held /\ Pushed(r) \subseteq history'[hash(r)].trackers
<1> DEFINE h == hash(r)
<1>1. h \in Hash
  BY CallOps
<1>2. /\ history'[h] = [held |-> TRUE, trackers |-> history[h].trackers \cup Pushed(r)]
      /\ store'[h] = [state |-> "held", trackers |-> store[h].trackers \cup Pushed(r)]
      /\ \A k \in Hash \ {h} : history'[k] = history[k] /\ store'[k] = store[k]
      /\ store[h].state # "banned"
  BY <1>1 DEF Merge, TypeOK
<1> HIDE DEF h
<1>3. Grown
  BY <1>1, <1>2 DEF Grown
<1>4. StoreRecorded'
  BY <1>1, <1>2 DEF StoreRecorded
<1>5. history'[h].held /\ Pushed(r) \subseteq history'[h].trackers
  BY <1>2
<1> QED
  BY <1>3, <1>4, <1>5 DEF h

\* A closure of resources that ends with something stored, or with an error,
\* keeps what is kept and what is returned stored.
LEMMA ConcludeStored ==
  ASSUME TypeOK, MapsAgree, Backed, NEW r \in Req,
         pc[r] \in BuildStep \ {"queued"}, NEW o \in Outcome, Conclude(r, o),
         Grown, StoreRecorded',
         o.res # NoResource => Stored(o.res, hash(r))'
  PROVE  Backed'
<1> DEFINE h == hash(r)
           rs == {r} \cup resources.waiting[h]
<1>1. call[r] # NoCall /\ h \in Hash /\ resources \in Map
  BY CallOps DEF MapsAgree, Asks, BuildStep, Rpc, TypeOK
<1>2. \A q \in rs : q \in Req /\ hash(q) = h /\ call[q] # NoCall
  BY <1>1, MapFields DEF MapsAgree, ResourcesAgree, Asks
<1>3. /\ call' = call /\ manifests' = manifests
      /\ \A q \in Req : hash(q)' = hash(q)
      /\ h' = h
  BY DEF Conclude, askVars, hash
<1>4. PullRecorded'
  <2>1. \A q \in Req : pc'[q] = "pushTrackers" =>
                         pc[q] = "pushTrackers" /\ payload'[q] = payload[q]
    BY DEF Conclude, Return, TypeOK
  <2> SUFFICES ASSUME NEW q \in Req, pc'[q] = "pushTrackers"
               PROVE  Stored(parseTorrent(hash(q), payload[q]), hash(q))'
    BY DEF PullRecorded
  <2>2. call[q] # NoCall
    BY <2>1 DEF MapsAgree, Asks
  <2>3. hash(q) \in Hash /\ Stored(parseTorrent(hash(q), payload[q]), hash(q))
    BY <2>1, <2>2, CallOps DEF Backed, PullRecorded
  <2> QED
    BY <1>3, <2>1, <2>3 DEF Stored, Grown, parseTorrent
<1>5. /\ resources'.memo[h] = o.res
      /\ \A k \in Hash \ {h} : resources'.memo[k] = resources.memo[k]
  BY <1>1, FinishFields DEF Conclude
<1>7. MemoStored'
  BY <1>1, <1>3, <1>5, StoredGrows DEF Backed, MemoStored, Stored, Grown, Kept
<1>8. \A q \in Req : out'[q] = IF q \in rs THEN o ELSE out[q]
  BY DEF Conclude, Return
<1>9. OutStored'
  <2>0. \A q \in Req : pc'[q] = "idle" => out'[q].res = NoResource
    BY DEF Backed, OutStored, Conclude, Return, TypeOK
  <2> SUFFICES ASSUME NEW q \in Req, out'[q].res # NoResource
               PROVE  call'[q] # NoCall /\ Stored(out[q].res, hash(q))'
    BY <2>0 DEF OutStored
  <2>1. CASE q \in rs
    BY <1>2, <1>3, <1>8, <2>1 DEF Stored
  <2>2. CASE q \notin rs
    <3>1. out'[q] = out[q] /\ call[q] # NoCall /\ Stored(out[q].res, hash(q))
      BY <1>8, <2>2 DEF Backed, OutStored
    <3> QED
      BY <1>3, <3>1, CallOps DEF Stored, Grown
  <2> QED
    BY <2>1, <2>2
<1> QED
  BY <1>4, <1>7, <1>9 DEF Backed

\* So does a closure of manifests.
LEMMA ConcludeManifestStored ==
  ASSUME TypeOK, MapsAgree, Backed, NEW r \in Req,
         pc[r] \in {"files", "manifestBuilt"}, NEW o \in Outcome,
         ConcludeManifest(r, o), UNCHANGED <<store, history>>,
         o.res # NoResource => Stored(o.res, hash(r))
  PROVE  Backed'
<1> DEFINE h == hash(r)
           rs == {r} \cup manifests.waiting[h]
<1>1. call[r] # NoCall /\ h \in Hash /\ manifests \in Map
  BY CallOps DEF MapsAgree, Asks, TypeOK
<1>2. \A q \in rs : q \in Req /\ hash(q) = h /\ call[q] # NoCall
  BY <1>1, MapFields DEF MapsAgree, ManifestsAgree, Asks
<1>3. /\ call' = call /\ resources' = resources /\ payload' = payload
      /\ history' = history /\ store' = store
      /\ \A q \in Req : hash(q)' = hash(q)
      /\ \A q \in Req : out'[q] = IF q \in rs THEN o ELSE out[q]
      /\ \A q \in Req : pc'[q] = "pushTrackers" => pc[q] = "pushTrackers"
  BY DEF ConcludeManifest, askVars, hash
<1>4. /\ manifests'.memo[h] = o.res
      /\ \A k \in Hash \ {h} : manifests'.memo[k] = manifests.memo[k]
  BY <1>1, FinishFields DEF ConcludeManifest
<1>5. StoreRecorded' /\ PullRecorded'
  BY <1>3 DEF Backed, StoreRecorded, PullRecorded, Stored, parseTorrent
<1>6. MemoStored'
  BY <1>1, <1>3, <1>4 DEF Backed, MemoStored, Stored, Kept
<1>7. OutStored'
  <2>0. \A q \in Req : pc'[q] = "idle" => out'[q].res = NoResource
    BY DEF Backed, OutStored, ConcludeManifest, TypeOK
  <2> SUFFICES ASSUME NEW q \in Req, out'[q].res # NoResource
               PROVE  call'[q] # NoCall /\ Stored(out[q].res, hash(q))'
    BY <2>0 DEF OutStored
  <2>1. CASE q \in rs
    BY <1>2, <1>3, <2>1 DEF Stored
  <2>2. CASE q \notin rs
    BY <1>3, <2>2 DEF Backed, OutStored, Stored
  <2> QED
    BY <2>1, <2>2
<1> QED
  BY <1>5, <1>6, <1>7 DEF Backed

\* A step that returns nothing new and keeps nothing new.
LEMMA StoredFrame ==
  ASSUME MapsAgree, Backed, TypeOK, Grown, StoreRecorded', PullRecorded',
         resources'.memo = resources.memo, manifests'.memo = manifests.memo,
         out' = out, call' = call, \A q \in Req : pc'[q] = "idle" => pc[q] = "idle"
  PROVE  Backed'
<1>1. MemoStored'
  BY DEF Backed, MemoStored, Stored, Grown, Kept
<1>2. OutStored'
  <2> SUFFICES ASSUME NEW q \in Req, out[q].res # NoResource
               PROVE  call[q] # NoCall /\ Stored(out[q].res, hash(q))'
    BY DEF OutStored, Backed
  <2>1. call[q] # NoCall /\ Stored(out[q].res, hash(q)) /\ hash(q)' = hash(q)
    BY DEF Backed, OutStored, hash
  <2> QED
    BY <2>1, CallOps DEF Stored, Grown
<1> QED
  BY <1>1, <1>2 DEF Backed

\* The steps of a closure of resources.
LEMMA BuildStored ==
  ASSUME TypeOK, MapsAgree, Backed, NEW r \in Req,
         \/ Touch(r) \/ Pull(r) \/ PushTrackers(r) \/ Push(r) \/ FetchMagnet(r)
         \/ PushMagnet(r)
  PROVE  Backed'
<1>1. pc[r] \in BuildStep \ {"queued"} /\ call[r] # NoCall
  BY DEF Touch, Pull, PushTrackers, Push, FetchMagnet, PushMagnet, BuildStep, Rpc,
         MapsAgree, Asks
<1>2. /\ hash(r) \in Hash /\ call[r].trackers \in SUBSET Tracker
      /\ store[hash(r)].trackers \in SUBSET Tracker
      /\ payload[r] \in SUBSET Tracker
  BY <1>1, CallOps DEF TypeOK
<1>3. \A ts \in SUBSET Tracker :
        /\ Ok(parseTorrent(hash(r), ts)) \in Outcome
        /\ Ok(parseTorrent(hash(r), ts)).res = parseTorrent(hash(r), ts)
  BY <1>2, ResourceOps, OutcomeOps DEF Ok
<1>4. \A e \in {"forbidden", "notFound", "refused", "missing", "unavailable"} :
        Failed(e) \in Outcome /\ Failed(e).res = NoResource
  BY OutcomeOps DEF ErrorKind, Failed
<1>5. \A q \in Req : UNCHANGED call => hash(q)' = hash(q)
  BY DEF hash
<1>6. UNCHANGED <<store, history>> => Grown /\ StoreRecorded'
  BY DEF Grown, Backed, StoreRecorded
<1>7. Merge(r) => /\ Grown /\ StoreRecorded'
                  /\ history'[hash(r)].held
                  /\ Pushed(r) \subseteq history'[hash(r)].trackers
  BY <1>1, MergeRecords DEF Backed
<1>8. \A o \in Outcome :
        Conclude(r, o) /\ Grown /\ StoreRecorded'
          /\ (o.res # NoResource => Stored(o.res, hash(r))') => Backed'
  BY <1>1, ConcludeStored
<1>9. CASE Touch(r)
  <2>1. CASE \E e \in {"forbidden", "notFound", "refused", "missing"} :
               Conclude(r, Failed(e))
    BY <1>4, <1>6, <1>8, <1>9, <2>1 DEF Touch
  <2>2. CASE \E step \in {"magnet", "pull", "push"} : Goto(r, step)
    <3>1. /\ pc[r] = "touch" /\ \A q \in Req : pc'[q] = "idle" => pc[q] = "idle"
          /\ \A q \in Req : pc'[q] = "pushTrackers" => pc[q] = "pushTrackers"
      BY <1>9, <2>2 DEF Touch, Goto, TypeOK
    <3>2. PullRecorded'
      BY <1>5, <1>9, <2>2, <3>1
         DEF Touch, Goto, Backed, PullRecorded, Stored, parseTorrent, askVars
    <3> QED
      BY <1>6, <1>9, <2>2, <3>1, <3>2, StoredFrame DEF Touch, Goto, askVars
  <2> QED
    BY <1>9, <2>1, <2>2 DEF Touch
<1>10. CASE Pull(r)
  <2>1. CASE \E e \in {"forbidden", "notFound", "refused", "missing"} :
               Conclude(r, Failed(e))
    BY <1>4, <1>6, <1>8, <1>10, <2>1 DEF Pull
  <2>2. store[hash(r)].state = "held" =>
          Stored(parseTorrent(hash(r), store[hash(r)].trackers), hash(r))
    BY <1>2 DEF Backed, StoreRecorded, Stored, parseTorrent
  <2>3. CASE /\ store[hash(r)].state = "held"
             /\ Conclude(r, Ok(parseTorrent(hash(r), store[hash(r)].trackers)))
    <3>1. Stored(parseTorrent(hash(r), store[hash(r)].trackers), hash(r))
      BY <2>2, <2>3
    <3>2. history' = history /\ hash(r)' = hash(r)
      BY <1>5, <1>10, <2>3 DEF Pull, Conclude, askVars
    <3>3. Grown /\ StoreRecorded'
      BY <1>6, <1>10 DEF Pull
    <3>4. PICK o \in Outcome :
            /\ o = Ok(parseTorrent(hash(r), store[hash(r)].trackers))
            /\ o.res = parseTorrent(hash(r), store[hash(r)].trackers)
      BY <1>2, <1>3
    <3>5. Stored(o.res, hash(r))'
      BY <3>1, <3>2, <3>4 DEF Stored
    <3>6. Conclude(r, o)
      BY <2>3, <3>4
    <3> QED
      BY <1>1, <3>3, <3>4, <3>5, <3>6, ConcludeStored
  <2>4. CASE /\ store[hash(r)].state = "held"
             /\ pc' = [pc EXCEPT ![r] = "pushTrackers"]
             /\ payload' = [payload EXCEPT ![r] = store[hash(r)].trackers]
             /\ UNCHANGED <<resources, out, manifests, askVars>>
    <3>1. \A q \in Req : pc'[q] = "idle" => pc[q] = "idle"
      BY <2>4 DEF TypeOK
    <3>2. PullRecorded'
      <4> SUFFICES ASSUME NEW q \in Req, pc'[q] = "pushTrackers"
                   PROVE  Stored(parseTorrent(hash(q), payload[q]), hash(q))'
        BY DEF PullRecorded
      <4>1. hash(q)' = hash(q) /\ history' = history
        BY <1>5, <1>10, <2>4 DEF askVars, Pull
      <4>2. CASE q = r
        BY <2>2, <2>4, <4>1, <4>2 DEF TypeOK, Stored, parseTorrent
      <4>3. CASE q # r
        BY <2>4, <4>1, <4>3 DEF TypeOK, Backed, PullRecorded, Stored, parseTorrent
      <4> QED
        BY <4>2, <4>3
    <3> QED
      BY <1>6, <1>10, <2>4, <3>1, <3>2, StoredFrame DEF Pull, askVars
  <2> QED
    BY <1>10, <2>1, <2>3, <2>4 DEF Pull
<1>11. CASE PushTrackers(r) \/ Push(r) \/ PushMagnet(r)
  <2>1. CASE \E e \in {"forbidden", "notFound", "refused", "missing"} :
               Conclude(r, Failed(e)) /\ UNCHANGED <<store, history>>
    BY <1>4, <1>6, <1>8, <2>1
  <2>2. CASE PushTrackers(r) /\ Conclude(r, Ok(parseTorrent(hash(r), payload[r])))
    <3>1. Grown /\ StoreRecorded'
      BY <1>6, <1>7, <2>2 DEF PushTrackers
    <3>2. PICK o \in Outcome : /\ o = Ok(parseTorrent(hash(r), payload[r]))
                              /\ o.res = parseTorrent(hash(r), payload[r])
      BY <1>2, <1>3
    <3>3. Stored(parseTorrent(hash(r), payload[r]), hash(r))
      BY <2>2 DEF PushTrackers, Backed, PullRecorded
    <3>4. Conclude(r, o) /\ hash(r)' = hash(r)
      BY <1>5, <2>2, <3>2 DEF PushTrackers, Conclude, askVars
    <3>5. Stored(o.res, hash(r))'
      <4>1. Stored(o.res, hash(r))
        BY <3>2, <3>3
      <4> QED
        BY <1>2, <3>1, <3>4, <4>1 DEF Stored, Grown
    <3> QED
      BY <1>1, <3>1, <3>2, <3>4, <3>5, ConcludeStored
  <2>3. CASE Merge(r) /\ \E ts \in SUBSET Tracker :
               ts = Pushed(r) /\ Conclude(r, Ok(parseTorrent(hash(r), ts)))
    <3>1. PICK ts \in SUBSET Tracker :
            ts = Pushed(r) /\ Conclude(r, Ok(parseTorrent(hash(r), ts)))
      BY <2>3
    <3>2. PICK o \in Outcome : /\ o = Ok(parseTorrent(hash(r), ts))
                              /\ o.res = parseTorrent(hash(r), ts)
      BY <1>3
    <3>3. Conclude(r, o) /\ hash(r)' = hash(r)
      BY <1>5, <3>1, <3>2 DEF Conclude, askVars
    <3>4. Stored(o.res, hash(r))'
      <4>1. o.res.id = hash(r) /\ o.res.trackers = ts
        BY <3>2 DEF parseTorrent
      <4>2. history'[hash(r)].held /\ ts \subseteq history'[hash(r)].trackers
        BY <1>7, <2>3, <3>1
      <4> QED
        BY <3>3, <4>1, <4>2 DEF Stored
    <3> QED
      BY <1>1, <1>7, <2>3, <3>2, <3>3, <3>4, ConcludeStored
  <2>4. CASE PushTrackers(r) /\ Conclude(r, Failed("unavailable"))
    <3>1. Grown /\ StoreRecorded'
      BY <1>6, <1>7, <2>4 DEF PushTrackers
    <3> QED
      BY <1>4, <1>8, <2>4, <3>1
  <2> QED
    BY <1>2, <1>11, <2>1, <2>2, <2>3, <2>4 DEF PushTrackers, Push, PushMagnet, Pushed
<1>12. CASE FetchMagnet(r)
  <2>1. /\ pc[r] = "magnet" /\ \A q \in Req : pc'[q] = "idle" => pc[q] = "idle"
        /\ \A q \in Req : pc'[q] = "pushTrackers" =>
             pc[q] = "pushTrackers" /\ payload'[q] = payload[q]
    BY <1>12 DEF FetchMagnet, TypeOK
  <2>2. PullRecorded'
    BY <1>5, <1>12, <2>1
       DEF FetchMagnet, Backed, PullRecorded, Stored, parseTorrent, askVars
  <2> QED
    BY <1>6, <1>12, <2>1, <2>2, StoredFrame DEF FetchMagnet, askVars
<1> QED
  BY <1>9, <1>10, <1>11, <1>12

\* The failures of a call.
LEMMA FailStored ==
  ASSUME TypeOK, MapsAgree, Backed, NEW r \in Req,
         NEW e \in {"deadline", "canceled", "unavailable"}, Fail(r, e)
  PROVE  Backed'
<1>1. \A x \in {e, "magnetTimeout"} :
        Failed(x) \in Outcome /\ Failed(x).res = NoResource
  BY OutcomeOps DEF ErrorKind, Failed
<1>2. CASE FailRpc(r, e)
  <2>1. pc[r] \in BuildStep \ {"queued"} /\ call[r] # NoCall
    BY <1>2 DEF FailRpc, BuildStep, Rpc, MapsAgree, Asks
  <2>2. hash(r) \in Hash /\ payload[r] \in SUBSET Tracker
    BY <2>1, CallOps DEF TypeOK
  <2>3. Grown /\ StoreRecorded'
    <3>1. CASE Merge(r)
      BY <2>1, <3>1, MergeRecords DEF Backed
    <3>2. CASE UNCHANGED <<store, history>>
      BY <3>2 DEF Grown, Backed, StoreRecorded
    <3> QED
      BY <1>2, <3>1, <3>2 DEF FailRpc
  <2>4. CASE pc[r] = "pushTrackers"
    <3>1. PICK o \in Outcome : /\ o = Ok(parseTorrent(hash(r), payload[r]))
                              /\ o.res = parseTorrent(hash(r), payload[r])
      BY <2>2, ResourceOps, OutcomeOps DEF Ok
    <3>2. Stored(parseTorrent(hash(r), payload[r]), hash(r))
      BY <2>4 DEF Backed, PullRecorded
    <3>3. Conclude(r, o) /\ hash(r)' = hash(r)
      BY <1>2, <2>4, <3>1 DEF FailRpc, Conclude, askVars, hash
    <3>4. Stored(o.res, hash(r))'
      <4>1. Stored(o.res, hash(r))
        BY <3>1, <3>2
      <4> QED
        BY <2>2, <2>3, <3>3, <4>1 DEF Stored, Grown
    <3> QED
      BY <2>1, <2>3, <3>1, <3>3, <3>4, ConcludeStored
  <2>5. CASE pc[r] # "pushTrackers"
    <3>1. PICK x \in {e, "magnetTimeout"} : Conclude(r, Failed(x))
      BY <1>2, <2>5 DEF FailRpc
    <3> QED
      BY <1>1, <2>1, <2>3, <3>1, ConcludeStored
  <2> QED
    BY <2>4, <2>5
<1>3. CASE FailFiles(r, e)
  BY <1>1, <1>3, ConcludeManifestStored DEF FailFiles
<1> QED
  BY <1>2, <1>3 DEF Fail

\* The other steps of a request.
LEMMA ServeStored ==
  ASSUME TypeOK, MapsAgree, Backed, NEW r \in Req, Serve(r)
  PROVE  Backed'
<1>1. \A q \in Req : UNCHANGED call => hash(q)' = hash(q)
  BY DEF hash
<1>2. UNCHANGED <<store, history>> => Grown /\ StoreRecorded'
  BY DEF Grown, Backed, StoreRecorded
<1>3. ASSUME UNCHANGED <<call, payload, history>>,
             \A q \in Req : pc'[q] = "pushTrackers" => pc[q] = "pushTrackers"
      PROVE  PullRecorded'
  BY <1>1, <1>3 DEF Backed, PullRecorded, Stored, parseTorrent
<1>4. CASE Arrive(r)
  <2>1. /\ pc[r] = "idle" /\ resources' = resources /\ manifests' = manifests
        /\ payload' = payload /\ out' = out /\ store' = store /\ history' = history
        /\ \A q \in Req \ {r} : call'[q] = call[q] /\ pc'[q] = pc[q]
        /\ pc'[r] \in {"get", "getManifest"}
    BY <1>4 DEF Arrive, TypeOK
  <2>2. out[r].res = NoResource
    BY <2>1 DEF Backed, OutStored
  <2>3. PullRecorded'
    BY <2>1 DEF Backed, PullRecorded, Stored, parseTorrent, hash
  <2>4. OutStored'
    BY <2>1, <2>2 DEF Backed, OutStored, Stored, hash
  <2>5. MemoStored'
    BY <2>1 DEF Backed, MemoStored, Stored, Kept
  <2> QED
    BY <1>2, <2>1, <2>3, <2>4, <2>5 DEF Backed
<1>5. CASE Reject(r) \/ Answer(r)
  <2>1. /\ pc[r] \in {"idle", "reply"}
        /\ resources' = resources /\ manifests' = manifests
        /\ payload' = payload /\ store' = store /\ history' = history
        /\ \A q \in Req \ {r} :
             call'[q] = call[q] /\ pc'[q] = pc[q] /\ out'[q] = out[q]
        /\ pc'[r] \in {"idle", "reply"}
        /\ out'[r].res = NoResource
    BY <1>5 DEF Reject, Answer, TypeOK, Pending, Failed
  <2>2. PullRecorded'
    BY <2>1 DEF Backed, PullRecorded, Stored, parseTorrent, hash
  <2>3. OutStored'
    BY <2>1 DEF Backed, OutStored, Stored, hash
  <2>4. MemoStored'
    BY <2>1 DEF Backed, MemoStored, Stored, Kept
  <2> QED
    BY <1>2, <2>1, <2>2, <2>3, <2>4 DEF Backed
<1>6. CASE Hangup(r)
  BY <1>2, <1>3, <1>6, StoredFrame DEF Hangup
<1>7. CASE Get(r) \/ GetManifest(r)
  <2>0. call[r] # NoCall /\ hash(r) \in Hash
    BY <1>7, CallOps DEF Get, GetManifest, MapsAgree, Asks
  <2>1. /\ UNCHANGED <<call, payload, store, history>>
        /\ pc' \in [Req -> Step]
        /\ \A q \in Req \ {r} : pc'[q] = pc[q]
        /\ pc'[r] \notin {"idle", "pushTrackers"}
    BY <1>7 DEF Get, GetManifest, Return, TypeOK, askVars, Step
  <2>2. resources'.memo = resources.memo /\ manifests'.memo = manifests.memo
    BY <1>7, <2>0, JoinFields, ClaimFields DEF Get, GetManifest, TypeOK
  <2>3. /\ \A q \in Req \ {r} : out'[q] = out[q]
        /\ \/ out'[r] = out[r]
           \/ Kept(resources, hash(r)) /\ out'[r] = Ok(resources.memo[hash(r)])
           \/ Kept(manifests, hash(r)) /\ out'[r] = Ok(manifests.memo[hash(r)])
    BY <1>7 DEF Get, GetManifest, Return, TypeOK
  <2>4. out'[r].res # NoResource => Stored(out'[r].res, hash(r))
    BY <2>0, <2>3 DEF Backed, MemoStored, OutStored, Ok
  <2>5. OutStored'
    BY <1>1, <2>0, <2>1, <2>3, <2>4 DEF Backed, OutStored, Stored
  <2>6. MemoStored'
    BY <2>1, <2>2 DEF Backed, MemoStored, Stored, Kept
  <2>7. PullRecorded'
    BY <1>3, <2>1
  <2> QED
    BY <1>2, <2>1, <2>5, <2>6, <2>7 DEF Backed
<1>8. CASE Start(r) \/ StartManifest(r) \/ FallBack(r)
  <2>1. resources'.memo = resources.memo /\ manifests'.memo = manifests.memo
    BY <1>8, RunFields DEF Start, StartManifest, FallBack, TypeOK
  <2>2. /\ UNCHANGED <<call, payload, out, store, history>>
        /\ \A q \in Req : pc'[q] = "idle" => pc[q] = "idle"
        /\ \A q \in Req : pc'[q] = "pushTrackers" => pc[q] = "pushTrackers"
    BY <1>8 DEF Start, StartManifest, FallBack, TypeOK, askVars
  <2> QED
    BY <1>2, <1>3, <2>1, <2>2, StoredFrame
<1>9. CASE Files(r) \/ ManifestBuilt(r)
  <2>1. /\ pc[r] \in {"files", "manifestBuilt"} /\ call[r] # NoCall
        /\ UNCHANGED <<store, history>>
    BY <1>9 DEF Files, ManifestBuilt, MapsAgree, Asks
  <2>2. hash(r) \in Hash
    BY <2>1, CallOps
  <2>3. \A e \in {"notFound", "forbidden"} :
          Failed(e) \in Outcome /\ Failed(e).res = NoResource
    BY OutcomeOps DEF ErrorKind, Failed
  <2>4. CASE \E e \in {"notFound", "forbidden"} : ConcludeManifest(r, Failed(e))
    BY <2>1, <2>3, <2>4, ConcludeManifestStored
  <2>5. CASE /\ store[hash(r)].state = "held"
             /\ ConcludeManifest(r, Ok(Manifest(hash(r))))
    <3>1. PICK o \in Outcome : /\ o = Ok(Manifest(hash(r)))
                              /\ o.res = Manifest(hash(r))
      BY <2>2, ResourceOps, OutcomeOps DEF Ok
    <3>2. Stored(Manifest(hash(r)), hash(r))
      BY <2>2, <2>5 DEF Backed, StoreRecorded, Stored, Manifest
    <3> QED
      BY <2>1, <2>5, <3>1, <3>2, ConcludeManifestStored
  <2>6. CASE ManifestBuilt(r)
    <3>1. PICK o \in Outcome : o = out[r]
      BY DEF TypeOK
    <3>2. o.res # NoResource => Stored(o.res, hash(r))
      BY <3>1 DEF Backed, OutStored
    <3>3. ConcludeManifest(r, o)
      BY <2>6, <3>1 DEF ManifestBuilt
    <3> QED
      BY <2>1, <3>2, <3>3, ConcludeManifestStored
  <2> QED
    BY <1>9, <2>4, <2>5, <2>6 DEF Files
<1>10. CASE Timeout(r) \/ Cancel(r) \/ Break(r)
  BY <1>10, FailStored DEF Timeout, Cancel, Break
<1> QED
  BY <1>4, <1>5, <1>6, <1>7, <1>8, <1>9, <1>10, BuildStored DEF Serve

\* Every step keeps what is kept and what is returned stored.
LEMMA NextStored ==
  ASSUME TypeOK, MapsAgree, Backed, [Next]_vars
  PROVE  Backed'
<1>1. CASE \E r \in Req : Serve(r)
  BY <1>1, ServeStored
<1>2. CASE \E h \in Hash : Environment(h)
  <2>1. PICK h \in Hash : Environment(h)
    BY <1>2
  <2>2. /\ UNCHANGED <<pc, call, payload, out>>
        /\ \A q \in Req : hash(q)' = hash(q)
    BY <2>1 DEF Environment, EvictResource, EvictManifest, StoreForgets,
                StoreReceives, hash
  <2>3. Grown /\ StoreRecorded'
    <3>1. CASE EvictResource(h) \/ EvictManifest(h)
      BY <3>1 DEF EvictResource, EvictManifest, Grown, Backed, StoreRecorded
    <3>2. CASE StoreForgets(h)
      <4>1. PICK x \in {"absent", "banned"} :
              store' = [store EXCEPT ![h] = [state |-> x, trackers |-> {}]]
        BY <3>2 DEF StoreForgets
      <4>2. history' = history
        BY <3>2 DEF StoreForgets
      <4>3. \A k \in Hash : store'[k] = IF k = h THEN [state |-> x, trackers |-> {}]
                                                 ELSE store[k]
        BY <4>1 DEF TypeOK
      <4> QED
        BY <4>2, <4>3 DEF Grown, Backed, StoreRecorded
    <3>3. CASE StoreReceives(h)
      <4>1. PICK ts \in SUBSET Tracker :
              /\ store' = [store EXCEPT ![h] = [state |-> "held", trackers |-> ts]]
              /\ history' = [history EXCEPT ![h] =
                   [held |-> TRUE, trackers |-> history[h].trackers \cup ts]]
        BY <3>3 DEF StoreReceives
      <4>2. /\ store'[h] = [state |-> "held", trackers |-> ts]
            /\ history'[h] = [held |-> TRUE, trackers |-> history[h].trackers \cup ts]
            /\ \A k \in Hash \ {h} : store'[k] = store[k] /\ history'[k] = history[k]
        BY <4>1 DEF TypeOK
      <4>3. Grown
        BY <4>2 DEF Grown
      <4>4. StoreRecorded'
        BY <4>2 DEF Backed, StoreRecorded
      <4> QED
        BY <4>3, <4>4
    <3> QED
      BY <2>1, <3>1, <3>2, <3>3 DEF Environment
  <2>4. PullRecorded'
    <3> SUFFICES ASSUME NEW q \in Req, pc[q] = "pushTrackers"
                 PROVE  Stored(parseTorrent(hash(q), payload[q]), hash(q))'
      BY <2>2 DEF PullRecorded
    <3>1. hash(q) \in Hash
      BY CallOps DEF MapsAgree, Asks
    <3>2. Stored(parseTorrent(hash(q), payload[q]), hash(q))
      BY DEF Backed, PullRecorded
    <3> QED
      BY <2>2, <2>3, <3>1, <3>2 DEF Stored, Grown, parseTorrent
  <2>5. OutStored'
    <3> SUFFICES ASSUME NEW q \in Req, out[q].res # NoResource
                 PROVE  call[q] # NoCall /\ Stored(out[q].res, hash(q))'
      BY <2>2 DEF OutStored, Backed
    <3>1. call[q] # NoCall /\ Stored(out[q].res, hash(q))
      BY DEF Backed, OutStored
    <3> QED
      BY <2>2, <2>3, <3>1, CallOps DEF Stored, Grown
  <2>6. MemoStored'
    <3>1. /\ resources' \in {resources, Evict(resources, h)}
          /\ manifests' \in {manifests, Evict(manifests, h)}
      BY <2>1 DEF Environment, EvictResource, EvictManifest, StoreForgets,
                  StoreReceives
    <3>2. \A k \in Hash : /\ resources'.memo[k] \in {resources.memo[k], NoResource}
                          /\ manifests'.memo[k] \in {manifests.memo[k], NoResource}
      BY <3>1, EvictFields DEF TypeOK
    <3> QED
      BY <2>3, <3>2 DEF Backed, MemoStored, Stored, Grown, Kept
  <2> QED
    BY <2>3, <2>4, <2>5, <2>6 DEF Backed
<1>3. CASE UNCHANGED vars
  BY <1>3 DEF vars, Backed, StoreRecorded, PullRecorded, MemoStored, OutStored,
              Stored, parseTorrent, hash, Kept
<1> QED
  BY <1>1, <1>2, <1>3 DEF Next

\* A resource kept in a map, or returned to a request, is one of its hash, and
\* torrent-store really held it with all its trackers at some time.
THEOREM AnswersAlwaysStored == SafetySpec => []AnswersAreStored
<1>1. Init => Backed
  <2> SUFFICES ASSUME Init PROVE Backed
    OBVIOUS
  <2>1. \A h \in Hash : New.memo[h] = NoResource
    BY DEF New
  <2>2. StoreRecorded
    BY DEF Init, StoreRecorded
  <2>3. PullRecorded /\ MemoStored /\ OutStored
    BY <2>1 DEF Init, PullRecorded, MemoStored, OutStored, Kept, Pending
  <2> QED
    BY <2>2, <2>3 DEF Backed
<1>2. Backed => AnswersAreStored
  BY DEF Backed, MemoStored, OutStored, AnswersAreStored, Asking
<1>3. TypeOK /\ MapsAgree /\ Backed /\ [Next]_vars => Backed'
  BY NextStored
<1> QED
  BY <1>1, <1>2, <1>3, MapsAlwaysAgree, PTL DEF SafetySpec

-----------------------------------------------------------------------------
(* Manifests stay out of the map of resources                              *)

\* The strengthening of FullAnswers: a full resource is all that is kept in the
\* map of resources and all that a caller of Get is given; before it asks, a
\* request has been given nothing.
FullMemo == \A h \in Hash : Kept(resources, h) => resources.memo[h].bytes
FullOut ==
  \A r \in Req :
    /\ out[r].res # NoResource /\ call[r] # NoCall /\ call[r].kind # "manifest"
         => out[r].res.bytes
    /\ pc[r] = "idle" => out[r].res = NoResource
Full == FullMemo /\ FullOut

\* A closure of resources that ends with a full resource, or with an error.
LEMMA ConcludeFull ==
  ASSUME TypeOK, MapsAgree, Full, NEW r \in Req,
         pc[r] \in BuildStep \ {"queued"}, NEW o \in Outcome, Conclude(r, o),
         o.res # NoResource => o.res.bytes
  PROVE  Full'
<1> DEFINE h == hash(r)
           rs == {r} \cup resources.waiting[h]
<1>1. h \in Hash /\ resources \in Map
  BY CallOps DEF MapsAgree, Asks, BuildStep, Rpc, TypeOK
<1>2. /\ resources'.memo[h] = o.res
      /\ \A k \in Hash \ {h} : resources'.memo[k] = resources.memo[k]
  BY <1>1, FinishFields DEF Conclude
<1>3. FullMemo'
  BY <1>1, <1>2 DEF Full, FullMemo, Kept
<1>4. /\ call' = call
      /\ \A q \in Req : out'[q] = IF q \in rs THEN o ELSE out[q]
      /\ \A q \in Req : pc'[q] = "idle" => q \notin rs /\ pc[q] = "idle"
  BY DEF Conclude, Return, askVars, TypeOK
<1>5. FullOut'
  BY <1>4 DEF Full, FullOut
<1> QED
  BY <1>3, <1>5 DEF Full

\* A closure of manifests returns what it has to callers of GetManifest only.
LEMMA ConcludeManifestFull ==
  ASSUME TypeOK, MapsAgree, Full, NEW r \in Req,
         pc[r] \in {"files", "manifestBuilt"}, NEW o \in Outcome,
         ConcludeManifest(r, o)
  PROVE  Full'
<1> DEFINE h == hash(r)
           rs == {r} \cup manifests.waiting[h]
<1>1. h \in Hash /\ manifests \in Map
  BY CallOps DEF MapsAgree, Asks, TypeOK
<1>2. \A q \in rs : q \in Req /\ call[q].kind = "manifest"
  BY <1>1, MapFields DEF MapsAgree, ManifestsAgree, Asks
<1>3. /\ call' = call /\ resources' = resources
      /\ \A q \in Req : out'[q] = IF q \in rs THEN o ELSE out[q]
      /\ \A q \in Req : pc'[q] = "idle" => q \notin rs /\ pc[q] = "idle"
  BY DEF ConcludeManifest, askVars, TypeOK
<1> QED
  BY <1>2, <1>3 DEF Full, FullMemo, FullOut, Kept

\* A step that keeps nothing new and returns nothing.
LEMMA FullFrame ==
  ASSUME Full, resources'.memo = resources.memo, out' = out, call' = call,
         \A q \in Req : pc'[q] = "idle" => pc[q] = "idle"
  PROVE  Full'
BY DEF Full, FullMemo, FullOut, Kept

\* The steps of a closure of resources, and their failures.
LEMMA BuildFull ==
  ASSUME TypeOK, MapsAgree, Full, NEW r \in Req,
         \/ Touch(r) \/ Pull(r) \/ PushTrackers(r) \/ Push(r) \/ FetchMagnet(r)
         \/ PushMagnet(r)
         \/ \E e \in {"deadline", "canceled", "unavailable"} : FailRpc(r, e)
  PROVE  Full'
<1>1. pc[r] \in BuildStep \ {"queued"} /\ call[r] # NoCall
  BY DEF Touch, Pull, PushTrackers, Push, FetchMagnet, PushMagnet, FailRpc,
         BuildStep, Rpc, MapsAgree, Asks
<1>2. /\ hash(r) \in Hash /\ call[r].trackers \in SUBSET Tracker
      /\ store[hash(r)].trackers \in SUBSET Tracker
      /\ payload[r] \in SUBSET Tracker
  BY <1>1, CallOps DEF TypeOK
<1>3. CASE \E ts \in SUBSET Tracker : Conclude(r, Ok(parseTorrent(hash(r), ts)))
  <2>1. PICK ts \in SUBSET Tracker : Conclude(r, Ok(parseTorrent(hash(r), ts)))
    BY <1>3
  <2>2. PICK o \in Outcome : /\ o = Ok(parseTorrent(hash(r), ts))
                            /\ o.res = parseTorrent(hash(r), ts)
    BY <1>2, ResourceOps, OutcomeOps DEF Ok
  <2>3. o.res.bytes
    BY <2>2 DEF parseTorrent
  <2> QED
    BY <1>1, <2>1, <2>2, <2>3, ConcludeFull
<1>4. CASE \E e \in ErrorKind : Conclude(r, Failed(e))
  <2>1. PICK e \in ErrorKind : Conclude(r, Failed(e))
    BY <1>4
  <2>2. Failed(e) \in Outcome /\ Failed(e).res = NoResource
    BY OutcomeOps DEF Failed
  <2> QED
    BY <1>1, <2>1, <2>2, ConcludeFull
<1>5. CASE /\ \E step \in Step \ {"idle"} : pc' = [pc EXCEPT ![r] = step]
           /\ UNCHANGED <<resources, out, manifests, askVars>>
  <2>1. \A q \in Req : pc'[q] = "idle" => pc[q] = "idle"
    BY <1>5 DEF TypeOK
  <2> QED
    BY <1>5, <2>1, FullFrame DEF askVars
<1>6. CASE Touch(r)
  BY <1>3, <1>4, <1>5, <1>6 DEF Touch, Goto, ErrorKind, Step, Rpc
<1>7. CASE Pull(r)
  BY <1>2, <1>3, <1>4, <1>5, <1>7 DEF Pull, ErrorKind, Step, Rpc
<1>8. CASE PushTrackers(r) \/ Push(r) \/ PushMagnet(r)
  BY <1>2, <1>3, <1>4, <1>8 DEF PushTrackers, Push, PushMagnet, ErrorKind
<1>9. CASE FetchMagnet(r)
  BY <1>5, <1>9 DEF FetchMagnet, Step, Rpc
<1>10. CASE \E e \in {"deadline", "canceled", "unavailable"} : FailRpc(r, e)
  <2>1. PICK e \in {"deadline", "canceled", "unavailable"} : FailRpc(r, e)
    BY <1>10
  <2>2. \/ Conclude(r, Ok(parseTorrent(hash(r), payload[r])))
        \/ Conclude(r, Failed("magnetTimeout"))
        \/ Conclude(r, Failed(e))
    BY <2>1 DEF FailRpc
  <2> QED
    BY <1>2, <1>3, <1>4, <2>2 DEF ErrorKind
<1> QED
  BY <1>6, <1>7, <1>8, <1>9, <1>10

\* The other steps of a request.
LEMMA ServeFull ==
  ASSUME TypeOK, MapsAgree, Full, NEW r \in Req, Serve(r)
  PROVE  Full'
<1>1. CASE Arrive(r) \/ Reject(r) \/ Answer(r)
  <2>1. /\ resources' = resources
        /\ \A q \in Req \ {r} :
             call'[q] = call[q] /\ pc'[q] = pc[q] /\ out'[q] = out[q]
        /\ out'[r].res = NoResource
    BY <1>1 DEF Arrive, Reject, Answer, TypeOK, Pending, Failed, Full, FullOut
  <2> QED
    BY <2>1 DEF Full, FullMemo, FullOut, Kept
<1>2. CASE Hangup(r) \/ Start(r) \/ StartManifest(r) \/ FallBack(r)
  <2>1. /\ resources'.memo = resources.memo /\ out' = out /\ call' = call
        /\ \A q \in Req : pc'[q] = "idle" => pc[q] = "idle"
    BY <1>2, RunFields
       DEF Hangup, Start, StartManifest, FallBack, TypeOK, askVars
  <2> QED
    BY <2>1, FullFrame
<1>3. CASE Get(r)
  <2>1. call[r] # NoCall /\ hash(r) \in Hash
    BY <1>3, CallOps DEF Get, MapsAgree, Asks
  <2>2. /\ call' = call
        /\ resources' \in {resources, Join(resources, r, hash(r)),
                           Claim(resources, r, hash(r))}
    BY <1>3 DEF Get
  <2>m. resources'.memo = resources.memo
    BY <2>1, <2>2, JoinFields, ClaimFields DEF TypeOK
  <2>p. \A q \in Req : pc'[q] = "idle" => q # r /\ pc[q] = "idle"
    BY <1>3 DEF Get, Return, TypeOK
  <2>3. /\ \A q \in Req \ {r} : out'[q] = out[q]
        /\ \/ out'[r] = out[r]
           \/ Kept(resources, hash(r)) /\ out'[r].res = resources.memo[hash(r)]
    BY <1>3 DEF Get, Return, TypeOK, Ok
  <2>4. FullMemo'
    BY <2>m DEF Full, FullMemo, Kept
  <2>5. FullOut'
    BY <2>1, <2>2, <2>p, <2>3 DEF Full, FullMemo, FullOut
  <2> QED
    BY <2>4, <2>5 DEF Full
<1>4. CASE GetManifest(r)
  <2>1. /\ call[r].kind = "manifest" /\ call' = call /\ resources' = resources
        /\ \A q \in Req \ {r} : out'[q] = out[q]
        /\ \A q \in Req : pc'[q] = "idle" => q # r /\ pc[q] = "idle"
    BY <1>4 DEF GetManifest, MapsAgree, Asks, TypeOK, askVars
  <2> QED
    BY <2>1 DEF Full, FullMemo, FullOut, Kept
<1>5. CASE \/ Files(r) \/ ManifestBuilt(r)
           \/ \E e \in {"deadline", "canceled", "unavailable"} : FailFiles(r, e)
  <2>1. pc[r] \in {"files", "manifestBuilt"} /\ call[r] # NoCall
    BY <1>5 DEF Files, ManifestBuilt, FailFiles, MapsAgree, Asks
  <2>2. hash(r) \in Hash /\ out[r] \in Outcome
    BY <2>1, CallOps DEF TypeOK
  <2>3. /\ Ok(Manifest(hash(r))) \in Outcome
        /\ \A e \in ErrorKind : Failed(e) \in Outcome
    BY <2>2, ResourceOps, OutcomeOps
  <2>4. \E o \in Outcome : ConcludeManifest(r, o)
    BY <1>5, <2>2, <2>3 DEF Files, ManifestBuilt, FailFiles, ErrorKind
  <2> QED
    BY <2>1, <2>4, ConcludeManifestFull
<1> QED
  BY <1>1, <1>2, <1>3, <1>4, <1>5, BuildFull
     DEF Serve, Timeout, Cancel, Break, Fail

\* Every step keeps manifests out of the map of resources, and away from the
\* callers of Get.
LEMMA NextFull ==
  ASSUME TypeOK, MapsAgree, Full, [Next]_vars
  PROVE  Full'
<1>1. CASE \E r \in Req : Serve(r)
  BY <1>1, ServeFull
<1>2. CASE \E h \in Hash : Environment(h)
  <2>1. PICK h \in Hash : Environment(h)
    BY <1>2
  <2>2. /\ UNCHANGED <<pc, call, out>>
        /\ resources' \in {resources, Evict(resources, h)}
    BY <2>1 DEF Environment, EvictResource, EvictManifest, StoreForgets,
                StoreReceives
  <2>3. \A k \in Hash : resources'.memo[k] \in {resources.memo[k], NoResource}
    BY <2>2, EvictFields DEF TypeOK
  <2> QED
    BY <2>2, <2>3 DEF Full, FullMemo, FullOut, Kept
<1>3. CASE UNCHANGED vars
  BY <1>3 DEF vars, Full, FullMemo, FullOut, Kept
<1> QED
  BY <1>1, <1>2, <1>3 DEF Next

\* A caller of Get is never handed a manifest, although both maps have the same
\* keys and the closure of one calls Get of the other.
THEOREM FullAnswersAlways == SafetySpec => []FullAnswers
<1>1. Init => Full
  <2> SUFFICES ASSUME Init PROVE Full
    OBVIOUS
  <2>1. \A h \in Hash : New.memo[h] = NoResource
    BY DEF New
  <2> QED
    BY <2>1 DEF Init, Full, FullMemo, FullOut, Kept, Pending
<1>2. Full => FullAnswers
  BY DEF Full, FullOut, FullAnswers, Asking
<1>3. TypeOK /\ MapsAgree /\ Full /\ [Next]_vars => Full'
  BY NextFull
<1> QED
  BY <1>1, <1>2, <1>3, MapsAlwaysAgree, PTL DEF SafetySpec

-----------------------------------------------------------------------------
(* Who can be told that its context was canceled                           *)

\* A closure that ends with o tells o to its request and to those blocked on it.
LEMMA ConcludeTells ==
  ASSUME TypeOK, MapsAgree, NEW q \in Req, pc[q] \in BuildStep, NEW o, Conclude(q, o),
         NEW r \in Req, out'[r] # out[r]
  PROVE  out'[r] = o /\ hash(r) = hash(q) /\ (r = q \/ pc[r] = "waiting")
<1>1. hash(q) \in Hash /\ resources \in Map
  BY CallOps DEF MapsAgree, Asks, BuildStep, Rpc, TypeOK
<1>2. r \in {q} \cup resources.waiting[hash(q)] /\ out'[r] = o
  BY DEF Conclude, Return
<1> QED
  BY <1>1, <1>2 DEF MapsAgree, ResourcesAgree

LEMMA ConcludeManifestTells ==
  ASSUME TypeOK, MapsAgree, NEW q \in Req, pc[q] \in {"files", "manifestBuilt"},
         NEW o, ConcludeManifest(q, o), NEW r \in Req, out'[r] # out[r]
  PROVE  out'[r] = o /\ hash(r) = hash(q) /\ (r = q \/ pc[r] = "manifestWaiting")
<1>1. hash(q) \in Hash /\ manifests \in Map
  BY CallOps DEF MapsAgree, Asks, TypeOK
<1>2. r \in {q} \cup manifests.waiting[hash(q)] /\ out'[r] = o
  BY DEF ConcludeManifest
<1> QED
  BY <1>1, <1>2 DEF MapsAgree, ManifestsAgree

\* A request told so by a step of q is told by q, gone or relaying, or q itself.
Told(q, r) == /\ call[q] # NoCall /\ hash(q) = hash(r)
              /\ q = r \/ pc[r] \in {"waiting", "manifestWaiting"}
              /\ ~live[q] \/ Relays(q)

LEMMA ServeTells ==
  ASSUME TypeOK, MapsAgree, NEW q \in Req, Serve(q), NEW r \in Req,
         out'[r].err = "canceled", out[r].err # "canceled"
  PROVE  Told(q, r)
<1>1. out'[r] # out[r]
  OBVIOUS
<1>2. \A e : Failed(e).err = e
  BY DEF Failed
<1>3. \A v : Ok(v).err = "none"
  BY DEF Ok
<1>4. \A o : Conclude(q, o) /\ pc[q] \in BuildStep =>
               out'[r] = o /\ hash(r) = hash(q) /\ (r = q \/ pc[r] = "waiting")
  BY <1>1, ConcludeTells
<1>5. \A o : ConcludeManifest(q, o) /\ pc[q] \in {"files", "manifestBuilt"} =>
               /\ out'[r] = o /\ hash(r) = hash(q)
               /\ r = q \/ pc[r] = "manifestWaiting"
  BY <1>1, ConcludeManifestTells
<1>6. pc[q] \in BuildStep \cup {"files", "manifestBuilt"} => call[q] # NoCall
  BY DEF MapsAgree, Asks, BuildStep, Rpc
<1>7. CASE Touch(q) \/ Pull(q) \/ PushTrackers(q) \/ Push(q) \/ PushMagnet(q)
  <2>1. pc[q] \in BuildStep
    BY <1>7 DEF Touch, Pull, PushTrackers, Push, PushMagnet, BuildStep, Rpc
  <2>2. PICK o : Conclude(q, o) /\ o.err # "canceled"
    BY <1>1, <1>2, <1>3, <1>7
       DEF Touch, Pull, PushTrackers, Push, PushMagnet, Goto
  <2> QED
    BY <1>4, <2>1, <2>2
<1>8. CASE Files(q)
  <2>1. pc[q] = "files" /\ \E o : ConcludeManifest(q, o) /\ o.err # "canceled"
    BY <1>2, <1>3, <1>8 DEF Files
  <2> QED
    BY <1>5, <2>1
<1>9. CASE ManifestBuilt(q)
  <2>1. pc[q] = "manifestBuilt" /\ ConcludeManifest(q, out[q])
    BY <1>9 DEF ManifestBuilt
  <2> QED
    BY <1>5, <1>6, <2>1 DEF Told, Relays
<1>10. ASSUME NEW e \in {"deadline", "canceled", "unavailable"}, Fail(q, e),
              e = "canceled" => ~live[q]
       PROVE  Told(q, r)
  <2>1. CASE FailRpc(q, e)
    <3>1. pc[q] \in BuildStep
      BY <2>1 DEF FailRpc, BuildStep, Rpc
    <3>2. PICK o : Conclude(q, o) /\ (o.err = "canceled" => e = "canceled")
      BY <1>2, <1>3, <2>1 DEF FailRpc
    <3> QED
      BY <1>4, <1>6, <1>10, <3>1, <3>2 DEF Told
  <2>2. CASE FailFiles(q, e)
    <3>1. pc[q] = "files" /\ ConcludeManifest(q, Failed(e))
      BY <2>2 DEF FailFiles
    <3> QED
      BY <1>2, <1>5, <1>6, <1>10, <3>1 DEF Told
  <2> QED
    BY <1>10, <2>1, <2>2 DEF Fail
<1>11. CASE Timeout(q) \/ Cancel(q) \/ Break(q)
  BY <1>10, <1>11 DEF Timeout, Cancel, Break
<1>12. CASE Get(q) \/ GetManifest(q)
  <2>1. out' = out \/ \E v : \/ out' = [out EXCEPT ![q] = Ok(v)]
                            \/ out' = [x \in Req |-> IF x \in {q} THEN Ok(v)
                                                               ELSE out[x]]
    BY <1>12 DEF Get, GetManifest, Return
  <2>2. \A x \in Req : out'[x] = out[x] \/ out'[x].err = "none"
    BY <1>3, <2>1 DEF TypeOK
  <2> QED
    BY <1>1, <2>2
<1>13. CASE Reject(q) \/ Answer(q)
  BY <1>1, <1>13 DEF Reject, Answer, Failed, Pending, TypeOK
<1>14. CASE \/ Arrive(q) \/ Hangup(q) \/ Start(q) \/ FetchMagnet(q)
            \/ StartManifest(q) \/ FallBack(q)
  BY <1>1, <1>14 DEF Arrive, Hangup, Start, FetchMagnet, StartManifest, FallBack
<1> QED
  BY <1>7, <1>8, <1>9, <1>11, <1>12, <1>13, <1>14 DEF Serve

\* A request is told that its context was canceled only by the closure of a
\* request for the same hash whose client has gone, or by a manifest closure
\* that relays what such a closure told it.
THEOREM CanceledOnlyByBuilder == SafetySpec => CanceledByBuilder
<1>1. ASSUME TypeOK, MapsAgree, [Next]_vars, NEW r \in Req,
             out'[r].err = "canceled", out[r].err # "canceled"
      PROVE  \E q \in Asking : Told(q, r)
  <2>1. out' # out
    BY <1>1
  <2>2. PICK q \in Req : Serve(q)
    BY <1>1, <2>1 DEF vars, Next, Environment, EvictResource, EvictManifest,
                      StoreForgets, StoreReceives
  <2>3. Told(q, r)
    BY <1>1, <2>2, ServeTells
  <2> QED
    BY <2>3 DEF Told, Asking
<1>2. TypeOK /\ MapsAgree /\ [Next]_vars =>
        [\A r \in Req : out'[r].err = "canceled" /\ out[r].err # "canceled" =>
           \E q \in Asking : hash(q) = hash(r) /\
                             (q = r \/ pc[r] \in {"waiting", "manifestWaiting"}) /\
                             (~live[q] \/ Relays(q))]_vars
  BY <1>1 DEF Told
<1> QED
  BY <1>2, MapsAlwaysAgree, PTL DEF SafetySpec, CanceledByBuilder

=============================================================================
