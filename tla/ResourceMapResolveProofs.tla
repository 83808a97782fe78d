--------------------- MODULE ResourceMapResolveProofs ----------------------
(***************************************************************************)
(* ResourceMap implements Resolve, for any number of requests, hashes,     *)
(* trackers and slots.                                                     *)
(***************************************************************************)
EXTENDS ResourceMapResolve, ResourceMapProofs

\* What a request has been answered: the mapping of Resolve's answer.
Given(r) == IF pc[r] = "reply" THEN out[r] ELSE Pending

\* A request that has asked and has no answer.
Waits(r) == call[r] # NoCall /\ Given(r) = Pending

\* What a closure may return: a resource or an error, not both, not neither.
Good(o) == \/ o.err = "none" /\ o.res \in Resource
           \/ o.res = NoResource /\ o.err \in ErrorKind \ {"parse"}

\* A request asks nothing before it arrives, and what it is given, or relays,
\* is an answer.
Settled ==
  \A r \in Req :
    /\ pc[r] = "idle" => call[r] = NoCall
    /\ pc[r] = "reply" => Good(out[r]) \/ out[r] = Failed("parse")
    /\ pc[r] = "manifestBuilt" => Good(out[r])

\* Those who wait have seen the store as it is; nobody else has seen a thing.
SeenNow ==
  /\ seen = [r \in Req |-> seen[r]]
  /\ \A r \in Req : IF Waits(r) THEN store[hash(r)].state \in seen[r] \cup {"held"}
                                ELSE seen[r] = {}

\* A manifest closure relays an error of the store it has seen for itself, as
\* it waited while the closure it fell back to was told.
Relayed ==
  \A r \in Req : pc[r] = "manifestBuilt" /\ out[r].err \in DOMAIN Promise!Says =>
    Promise!Says[out[r].err] \in seen[r]

Mapped == TypeOK /\ MapsAgree /\ Backed /\ Full /\ Settled

-----------------------------------------------------------------------------
(* The steps of Resolve                                                    *)

LEMMA WaitingAre == Promise!Waiting = {r \in Req : Waits(r)}
BY DEF Promise!Waiting, Promise!Unanswered, Waits, Given, Pending

\* A step in which nothing happens between a request and its answer.
LEMMA AskStep ==
  ASSUME NEW r \in Req, call[r] = NoCall, Given(r) = Pending, call'[r] \in Call,
         call' = [call EXCEPT ![r] = call'[r]],
         \A q \in Req : Given(q)' = Given(q), UNCHANGED <<store, history>>, Promise!Observe
  PROVE  Promise!Next
<1>1. Promise!Ask(r)
  BY DEF Promise!Ask, Promise!Unanswered, Given, Pending
<1> QED
  BY <1>1 DEF Promise!Next

LEMMA RefuseStep ==
  ASSUME NEW r \in Req, call[r] = NoCall, Given(r) = Pending, Given(r)' = Failed("parse"),
         \A q \in Req \ {r} : Given(q)' = Given(q),
         UNCHANGED <<call, store, history>>, Promise!Observe
  PROVE  Promise!Next
<1>1. Promise!Refuse(r)
  BY DEF Promise!Refuse, Promise!Unanswered, Given, Pending, Failed
<1> QED
  BY <1>1 DEF Promise!Next

LEMMA LeaveStep ==
  ASSUME NEW r \in Req, Given(r) # Pending, Given(r)' = Pending,
         call' = [call EXCEPT ![r] = NoCall],
         \A q \in Req \ {r} : Given(q)' = Given(q), UNCHANGED <<store, history>>,
         Promise!Observe
  PROVE  Promise!Next
<1>1. Promise!Leave(r)
  BY DEF Promise!Leave, Promise!Unanswered, Given, Pending
<1> QED
  BY <1>1 DEF Promise!Next

\* The requests rs, all of hash h, are given o, while the store moves or not.
LEMMA AnswerStep ==
  ASSUME NEW rs \in SUBSET Req, NEW h \in Hash, NEW o, Good(o),
         \A q \in rs : Waits(q) /\ hash(q) = h,
         \A q \in Req : Given(q)' = IF q \in rs THEN o ELSE Given(q),
         o.res # NoResource => Stored(o.res, h)'
                               /\ \A q \in rs : call[q].kind # "manifest" => o.res.bytes,
         rs # {} /\ o.err \in DOMAIN Promise!Says =>
           \E q \in rs : Promise!Says[o.err] \in seen[q],
         Promise!Moves(h), UNCHANGED call, Promise!Observe
  PROVE  Promise!Next
<1>1. CASE rs = {}
  <2>1. [q \in Req |-> Given(q)]' = [q \in Req |-> Given(q)]
    BY <1>1
  <2> QED
    BY <2>1 DEF Promise!Next, Given
<1>2. CASE rs # {}
  <2>1. o # Pending
    BY ResourceMapAssumptions DEF Good, Pending, ErrorKind
  <2>2. {q \in Promise!Waiting : Given(q)' # Pending} = rs
    BY <2>1, WaitingAre DEF Waits
  <2>3. /\ \A q \in rs : Given(q)' = o
        /\ \A q \in Req \ rs : Given(q)' = Given(q)
    OBVIOUS
  <2>4. o.err = "none" /\ o.res \in Resource => Promise!Promised(o.res, h, rs)
    BY ResourceMapAssumptions DEF Promise!Promised, Stored, Resource
  <2>5. o.res = NoResource /\ o.err \in ErrorKind \ {"parse"} =>
          Promise!Excused(o.err, h, rs)
    BY <1>2 DEF Promise!Excused, Promise!ErrorKind, ErrorKind
  <2>6. Promise!Answer(h)
    <3>1. \A q \in Req : [x \in Req |-> Given(x)]'[q] = Given(q)'
      OBVIOUS
    <3>2. \A q \in Req : [x \in Req |-> Given(x)][q] = Given(q)
      OBVIOUS
    <3>3. {q \in Promise!Waiting : [x \in Req |-> Given(x)]'[q] # Promise!Unanswered} = rs
      BY <2>2, <3>1, WaitingAre DEF Promise!Unanswered, Pending
    <3>4. \A q \in rs : hash(q) = h
      OBVIOUS
    <3> QED
      BY <1>2, <2>3, <2>4, <2>5, <3>1, <3>2, <3>3, <3>4
         DEF Promise!Answer, Given, Good, hash
  <2> QED
    BY <2>6 DEF Promise!Next
<1> QED
  BY <1>1, <1>2

\* Nothing that Resolve speaks of changes.
LEMMA QuietStep ==
  ASSUME SeenNow, \A q \in Req : Given(q)' = Given(q), UNCHANGED <<call, store, history>>,
         Promise!Observe
  PROVE  UNCHANGED Promise!vars
<1>1. [q \in Req |-> Given(q)]' = [q \in Req |-> Given(q)]
  OBVIOUS
<1>2. Promise!Waiting = {r \in Req : Waits(r)} /\ Promise!Waiting' = {r \in Req : Waits(r)}
  <2>1. \A r \in Req : Waits(r)' <=> Waits(r)
    BY DEF Waits, Pending
  <2>2. Promise!Waiting' = {r \in Req : Waits(r)'}
    BY DEF Promise!Waiting, Promise!Unanswered, Waits, Given, Pending
  <2> QED
    BY <2>1, <2>2, WaitingAre
<1>3. seen' = [r \in Req |-> IF ~Waits(r) THEN {}
                             ELSE seen[r] \cup ({store[call[r].hash].state} \ {"held"})]
  BY <1>2 DEF Promise!Observe
<1>4. \A r \in Req : seen'[r] = seen[r]
  BY <1>3 DEF SeenNow, hash
<1>5. seen' = seen
  BY <1>3, <1>4 DEF SeenNow
<1> QED
  BY <1>1, <1>5 DEF Promise!vars, Given

LEMMA SeenStep ==
  ASSUME Promise!Observe
  PROVE  /\ SeenNow'
         /\ \A r \in Req : Waits(r) /\ Waits(r)' => seen[r] \subseteq seen'[r]
<1>1. Promise!Waiting' = {r \in Req : Waits(r)'}
  BY DEF Promise!Waiting, Promise!Unanswered, Waits, Given, Pending
<1>2. seen' = [r \in Req |->
                 IF ~Waits(r)' THEN {}
                 ELSE (IF Waits(r) THEN seen[r] ELSE {})
                      \cup ({store'[call'[r].hash].state} \ {"held"})]
  BY <1>1, WaitingAre DEF Promise!Observe
<1>3. SeenNow'
  BY <1>2 DEF SeenNow, hash
<1> QED
  BY <1>2, <1>3

-----------------------------------------------------------------------------
(* The moves of the store                                                  *)

LEMMA MovesNot ==
  ASSUME TypeOK, StoreRecorded, NEW h \in Hash, UNCHANGED <<store, history>>
  PROVE  Promise!Moves(h)
<1>1. /\ store[h].state \in {"held", "absent", "banned"} /\ store[h].trackers \subseteq Tracker
      /\ history \in [Hash -> [held : BOOLEAN, trackers : SUBSET Tracker]]
  BY DEF TypeOK
<1>2. ASSUME store[h].state = "held"
      PROVE  history = [history EXCEPT ![h] =
                         [held |-> TRUE, trackers |-> @.trackers \cup store[h].trackers]]
  <2>1. history[h].held = TRUE /\ history[h].trackers \cup store[h].trackers = history[h].trackers
    BY <1>1, <1>2 DEF StoreRecorded
  <2>2. history[h] = [held |-> TRUE, trackers |-> history[h].trackers \cup store[h].trackers]
    BY <1>1, <2>1
  <2> QED
    BY <1>1, <2>2
<1> QED
  BY <1>1, <1>2 DEF Promise!Moves, Promise!StoreState

LEMMA MovesMerge ==
  ASSUME TypeOK, StoreRecorded, NEW r \in Req, call[r] # NoCall, Merge(r)
  PROVE  Promise!Moves(hash(r))
<1> DEFINE h == hash(r)
<1>1. h \in Hash /\ Pushed(r) \in SUBSET Tracker
  BY CallOps DEF TypeOK, Pushed
<1>2. /\ store'[h].state = "held" /\ store'[h].trackers = store[h].trackers \cup Pushed(r)
      /\ \A g \in Hash \ {h} : store'[g] = store[g]
      /\ store[h].trackers \subseteq Tracker
  BY <1>1 DEF Merge, TypeOK
<1>3. history[h].trackers \cup store'[h].trackers = history[h].trackers \cup Pushed(r)
  BY <1>1, <1>2 DEF StoreRecorded
<1>4. history' = [history EXCEPT ![h] =
                    [held |-> TRUE, trackers |-> @.trackers \cup store'[h].trackers]]
  BY <1>3 DEF Merge
<1> QED
  BY <1>1, <1>2, <1>4 DEF Promise!Moves, Promise!StoreState

LEMMA MovesOfItself ==
  ASSUME TypeOK, NEW h \in Hash, StoreForgets(h) \/ StoreReceives(h)
  PROVE  Promise!Moves(h)
<1>1. CASE StoreForgets(h)
  <2>1. PICK s \in {"absent", "banned"} :
          store' = [store EXCEPT ![h] = [state |-> s, trackers |-> {}]]
    BY <1>1 DEF StoreForgets
  <2>2. store'[h] = [state |-> s, trackers |-> {}] /\ \A g \in Hash \ {h} : store'[g] = store[g]
    BY <2>1 DEF TypeOK
  <2>3. history' = history
    BY <1>1 DEF StoreForgets
  <2> QED
    BY <2>2, <2>3 DEF Promise!Moves, Promise!StoreState
<1>2. CASE StoreReceives(h)
  <2>1. PICK ts \in SUBSET Tracker :
          /\ store' = [store EXCEPT ![h] = [state |-> "held", trackers |-> ts]]
          /\ history' = [history EXCEPT ![h] =
                           [held |-> TRUE, trackers |-> history[h].trackers \cup ts]]
    BY <1>2 DEF StoreReceives
  <2>2. /\ store'[h] = [state |-> "held", trackers |-> ts]
        /\ \A g \in Hash \ {h} : store'[g] = store[g]
    BY <2>1 DEF TypeOK
  <2>3. store'[h].trackers = ts
    BY <2>2
  <2>4. history' = [history EXCEPT ![h] =
                      [held |-> TRUE, trackers |-> @.trackers \cup store'[h].trackers]]
    BY <2>1, <2>3
  <2> QED
    BY <2>2, <2>4 DEF Promise!Moves, Promise!StoreState
<1> QED
  BY <1>1, <1>2

-----------------------------------------------------------------------------
(* What the maps tell the requests                                         *)

\* What the error e says of the store is seen by r.
Sees(r, e) == e \in DOMAIN Promise!Says => Promise!Says[e] \in seen[r]

LEMMA SeesNow ==
  ASSUME SeenNow, NEW r \in Req, Waits(r), NEW e,
         e \in DOMAIN Promise!Says => store[hash(r)].state = Promise!Says[e]
  PROVE  Sees(r, e)
BY DEF Sees, SeenNow, Promise!Says

\* Who goes on waiting goes on having seen what it relays.
LEMMA RelayedKept ==
  ASSUME MapsAgree, Relayed, Promise!Observe, NEW r \in Req, pc[r] = "manifestBuilt",
         pc'[r] = "manifestBuilt", out'[r] = out[r], call'[r] = call[r]
  PROVE  Sees(r, out[r].err)'
<1>1. Waits(r) /\ Waits(r)'
  BY DEF Waits, Given, Pending, MapsAgree, Asks
<1>2. seen[r] \subseteq seen'[r]
  BY <1>1, SeenStep
<1> QED
  BY <1>2 DEF Relayed, Sees

\* The requests rs, all of hash h and blocked on a closure or running it, are
\* told o: a handler replies, a manifest closure goes on.
LEMMA TellStep ==
  ASSUME Mapped, SeenNow, Relayed, NEW rs \in SUBSET Req, NEW h \in Hash, NEW o, Good(o),
         \A q \in rs : call[q] # NoCall /\ hash(q) = h /\ pc[q] \notin {"idle", "reply"},
         \A q \in Req \ rs : pc'[q] = pc[q] /\ out'[q] = out[q],
         \A q \in rs : out'[q] = o /\ pc'[q] \in {"reply", "manifestBuilt"},
         o.res # NoResource =>
           /\ Stored(o.res, h)'
           /\ \A q \in rs : call[q].kind # "manifest" => o.res.bytes,
         \A q \in rs : pc'[q] = "manifestBuilt" => Sees(q, o.err),
         \A p \in rs : pc'[p] = "reply" => \E q \in rs : pc'[q] = "reply" /\ Sees(q, o.err),
         Promise!Moves(h), UNCHANGED call, Promise!Observe
  PROVE  Promise!Next /\ Settled' /\ Relayed'
<1> DEFINE ts == {q \in rs : pc'[q] = "reply"}
<1>1. \A q \in rs : Waits(q)
  BY DEF Waits, Given
<1>2. Promise!Next
  <2>1. ts \in SUBSET Req /\ \A q \in ts : Waits(q) /\ hash(q) = h
    BY <1>1
  <2>2. \A q \in Req : Given(q)' = IF q \in ts THEN o ELSE Given(q)
    BY DEF Given, Pending
  <2>3. o.res # NoResource => /\ Stored(o.res, h)'
                              /\ \A q \in ts : call[q].kind # "manifest" => o.res.bytes
    OBVIOUS
  <2>4. ts # {} /\ o.err \in DOMAIN Promise!Says =>
          \E q \in ts : Promise!Says[o.err] \in seen[q]
    BY DEF Sees
  <2> HIDE DEF ts
  <2> QED
    BY <2>1, <2>2, <2>3, <2>4, AnswerStep
<1>3. Settled'
  BY DEF Mapped, Settled, Good
<1>4. Relayed'
  <2>1. ASSUME NEW q \in Req, pc'[q] = "manifestBuilt" PROVE Sees(q, out[q].err)'
    <3>1. CASE q \in rs
      <4>1. Waits(q) /\ Waits(q)'
        BY <1>1, <2>1, <3>1 DEF Waits, Given, Pending
      <4>2. seen[q] \subseteq seen'[q] /\ out'[q] = o /\ Sees(q, o.err)
        BY <2>1, <3>1, <4>1, SeenStep
      <4> QED
        BY <4>2 DEF Sees
    <3>2. CASE q \notin rs
      BY <2>1, <3>2, RelayedKept DEF Mapped
    <3> QED
      BY <3>1, <3>2
  <2> QED
    BY <2>1 DEF Relayed, Sees
<1> QED
  BY <1>2, <1>3, <1>4

\* Steps between asking and being told.
LEMMA InnerStep ==
  ASSUME Mapped, SeenNow, Relayed, UNCHANGED <<call, out, store, history>>,
         \A q \in Req : \/ pc'[q] = pc[q]
                        \/ /\ pc[q] \notin {"idle", "reply", "manifestBuilt"}
                           /\ pc'[q] \notin {"idle", "reply", "manifestBuilt"},
         Promise!Observe
  PROVE  UNCHANGED Promise!vars /\ Settled' /\ Relayed'
<1>1. \A q \in Req : Given(q)' = Given(q)
  BY DEF Given, Pending
<1>2. UNCHANGED Promise!vars
  BY <1>1, QuietStep
<1>3. Settled'
  BY DEF Mapped, Settled, Good
<1>4. Relayed'
  <2>1. ASSUME NEW q \in Req, pc'[q] = "manifestBuilt" PROVE Sees(q, out[q].err)'
    BY <2>1, RelayedKept DEF Mapped
  <2> QED
    BY <2>1 DEF Relayed, Sees
<1> QED
  BY <1>2, <1>3, <1>4

\* The closure of resources that r runs ends with o, true of the store now.
LEMMA ConcludeMaps ==
  ASSUME Mapped, SeenNow, Relayed, NEW r \in Req, pc[r] \in BuildStep \ {"queued"},
         NEW o, Good(o), Conclude(r, o),
         o.res # NoResource => Stored(o.res, hash(r))' /\ o.res.bytes,
         o.err \in DOMAIN Promise!Says => store[hash(r)].state = Promise!Says[o.err],
         Promise!Moves(hash(r)), Promise!Observe
  PROVE  Promise!Next /\ Settled' /\ Relayed'
<1>1. call[r] # NoCall /\ pc[r] \notin {"idle", "reply"}
  BY DEF Mapped, MapsAgree, Asks, BuildStep, Rpc
<1>2. PICK h \in Hash : h = hash(r)
  BY <1>1, CallOps DEF Mapped
<1>3. PICK rs \in SUBSET Req : rs = {r} \cup resources.waiting[h]
  BY MapFields DEF Mapped, TypeOK
<1>4. \A q \in rs : call[q] # NoCall /\ hash(q) = h /\ pc[q] \notin {"idle", "reply"}
  BY <1>1, <1>2, <1>3 DEF Mapped, MapsAgree, ResourcesAgree, Asks
<1>5. /\ UNCHANGED call
      /\ \A q \in rs : out'[q] = o /\ pc'[q] \in {"reply", "manifestBuilt"}
      /\ \A q \in Req \ rs : pc'[q] = pc[q] /\ out'[q] = out[q]
  BY <1>2, <1>3 DEF Conclude, Return, askVars
<1>6. \A q \in rs : Sees(q, o.err)
  <2>1. \A q \in rs : Waits(q)
    BY <1>4 DEF Waits, Given
  <2>2. o.err \in DOMAIN Promise!Says =>
          \A q \in rs : store[hash(q)].state = Promise!Says[o.err]
    BY <1>2, <1>4
  <2> QED
    BY <2>1, <2>2, SeesNow
<1>7. o.res # NoResource => Stored(o.res, h)' /\ o.res.bytes
  BY <1>2, <1>5 DEF Stored, hash
<1>8. Promise!Moves(h)
  BY <1>2
<1> QED
  BY <1>4, <1>5, <1>6, <1>7, <1>8, TellStep

\* The closure of manifests that r runs ends with o.
LEMMA ConcludeManifestMaps ==
  ASSUME Mapped, SeenNow, Relayed, NEW r \in Req, pc[r] \in {"files", "manifestBuilt"},
         NEW o, Good(o), ConcludeManifest(r, o),
         o.res # NoResource => Stored(o.res, hash(r)), Sees(r, o.err),
         UNCHANGED <<store, history>>, Promise!Observe
  PROVE  Promise!Next /\ Settled' /\ Relayed'
<1>1. call[r] # NoCall /\ call[r].kind = "manifest"
  BY DEF Mapped, MapsAgree, Asks
<1>2. PICK h \in Hash : h = hash(r)
  BY <1>1, CallOps DEF Mapped
<1>3. PICK rs \in SUBSET Req : rs = {r} \cup manifests.waiting[h]
  BY MapFields DEF Mapped, TypeOK
<1>4. \A q \in rs : /\ call[q] # NoCall /\ hash(q) = h /\ pc[q] \notin {"idle", "reply"}
                    /\ call[q].kind = "manifest"
  BY <1>1, <1>2, <1>3 DEF Mapped, MapsAgree, ManifestsAgree, Asks
<1>5. /\ UNCHANGED call
      /\ \A q \in rs : out'[q] = o /\ pc'[q] = "reply"
      /\ \A q \in Req \ rs : pc'[q] = pc[q] /\ out'[q] = out[q]
  BY <1>2, <1>3 DEF ConcludeManifest, askVars
<1>6. o.res # NoResource => Stored(o.res, h)'
  BY <1>2 DEF Stored
<1>7. Promise!Moves(h)
  BY MovesNot DEF Mapped, Backed
<1>8. r \in rs /\ pc'[r] = "reply"
  BY <1>3, <1>5
<1> QED
  BY <1>4, <1>5, <1>6, <1>7, <1>8, TellStep

\* Get finds v kept for the hash of r.
LEMMA KeptMaps ==
  ASSUME Mapped, SeenNow, Relayed, NEW r \in Req, pc[r] \notin {"idle", "reply"},
         call[r] # NoCall,
         NEW v \in Resource, Stored(v, hash(r)), call[r].kind # "manifest" => v.bytes,
         \A q \in Req \ {r} : pc'[q] = pc[q] /\ out'[q] = out[q],
         out'[r] = Ok(v), pc'[r] \in {"reply", "manifestBuilt"},
         UNCHANGED <<call, store, history>>, Promise!Observe
  PROVE  Promise!Next /\ Settled' /\ Relayed'
<1>1. PICK h \in Hash : h = hash(r)
  BY CallOps DEF Mapped
<1>2. PICK o : o = Ok(v)
  OBVIOUS
<1>3. Good(o) /\ o.res = v /\ Sees(r, o.err)
  BY <1>2 DEF Good, Ok, Sees, Promise!Says
<1>4. Stored(v, h)'
  BY <1>1 DEF Stored
<1>5. Promise!Moves(h)
  BY MovesNot DEF Mapped, Backed
<1>6. PICK rs \in SUBSET Req : rs = {r}
  OBVIOUS
<1>7. /\ \A q \in rs : call[q] # NoCall /\ hash(q) = h /\ pc[q] \notin {"idle", "reply"}
      /\ \A q \in Req \ rs : pc'[q] = pc[q] /\ out'[q] = out[q]
      /\ \A q \in rs : out'[q] = o /\ pc'[q] \in {"reply", "manifestBuilt"} /\ Sees(q, o.err)
      /\ \A q \in rs : call[q].kind # "manifest" => o.res.bytes
  BY <1>1, <1>2, <1>3, <1>6
<1> QED
  BY <1>3, <1>4, <1>5, <1>7, TellStep

-----------------------------------------------------------------------------
(* Every step is one of Resolve, or none                                   *)

\* A step that Resolve allows, or does not see.
Simulates == (Promise!Next \/ UNCHANGED Promise!vars) /\ Settled' /\ Relayed'

\* A request arrives, is refused, loses its client, or leaves.
LEMMA HandlerMaps ==
  ASSUME Mapped, SeenNow, Relayed, Promise!Observe, NEW r \in Req,
         Arrive(r) \/ Reject(r) \/ Hangup(r) \/ Answer(r)
  PROVE  Simulates
<1>1. UNCHANGED <<store, history>>
  BY DEF Arrive, Reject, Hangup, Answer
<1>2. CASE Hangup(r)
  BY <1>2, InnerStep DEF Hangup, Simulates
<1>3. ASSUME Arrive(r) \/ Reject(r) \/ Answer(r)
      PROVE  /\ \A q \in Req \ {r} :
                  call'[q] = call[q] /\ pc'[q] = pc[q] /\ out'[q] = out[q]
             /\ \A q \in Req \ {r} : Given(q)' = Given(q)
             /\ pc'[r] # "manifestBuilt"
  BY <1>3 DEF Arrive, Reject, Answer, Given, Pending, Mapped, TypeOK
<1>4. ASSUME Arrive(r) \/ Reject(r) \/ Answer(r) PROVE Relayed'
  <2> SUFFICES ASSUME NEW q \in Req, pc'[q] = "manifestBuilt"
               PROVE  Sees(q, out[q].err)'
    BY DEF Relayed, Sees
  <2>1. q # r
    BY <1>3, <1>4
  <2> QED
    BY <1>3, <1>4, <2>1, RelayedKept DEF Mapped
<1>5. CASE Arrive(r)
  <2>1. /\ pc[r] = "idle" /\ pc'[r] \in {"get", "getManifest"}
        /\ call'[r] \in Call /\ call' = [call EXCEPT ![r] = call'[r]]
    BY <1>5 DEF Arrive, Mapped, TypeOK
  <2>2. call[r] = NoCall
    BY <2>1 DEF Mapped, Settled
  <2>3. Given(r) = Pending /\ Given(r)' = Pending
    BY <2>1 DEF Given, Pending
  <2>4. Promise!Next
    BY <1>1, <1>3, <1>5, <2>1, <2>2, <2>3, AskStep
  <2>5. Settled'
    BY <1>3, <1>5, <2>1 DEF Mapped, Settled, Good
  <2> QED
    BY <1>4, <1>5, <2>4, <2>5 DEF Simulates
<1>6. CASE Reject(r)
  <2>1. /\ pc[r] = "idle" /\ pc'[r] = "reply" /\ out'[r] = Failed("parse")
        /\ call' = call
    BY <1>6 DEF Reject, Mapped, TypeOK
  <2>2. call[r] = NoCall
    BY <2>1 DEF Mapped, Settled
  <2>3. Given(r) = Pending /\ Given(r)' = Failed("parse")
    BY <2>1 DEF Given, Pending
  <2>4. Promise!Next
    BY <1>1, <1>3, <1>6, <2>1, <2>2, <2>3, RefuseStep
  <2>5. Settled'
    BY <1>3, <1>6, <2>1 DEF Mapped, Settled, Good, Failed
  <2> QED
    BY <1>4, <1>6, <2>4, <2>5 DEF Simulates
<1>7. CASE Answer(r)
  <2>1. /\ pc[r] = "reply" /\ pc'[r] = "idle" /\ call' = [call EXCEPT ![r] = NoCall]
        /\ call'[r] = NoCall
    BY <1>7 DEF Answer, Mapped, TypeOK
  <2>2. Given(r) # Pending
    BY <2>1, ResourceMapAssumptions
       DEF Mapped, Settled, Given, Good, Pending, Failed, ErrorKind
  <2>3. Given(r)' = Pending
    BY <2>1 DEF Given, Pending
  <2>4. Promise!Next
    BY <1>1, <1>3, <1>7, <2>1, <2>2, <2>3, LeaveStep
  <2>5. Settled'
    BY <1>3, <1>7, <2>1 DEF Mapped, Settled, Good
  <2> QED
    BY <1>4, <1>7, <2>4, <2>5 DEF Simulates
<1> QED
  BY <1>2, <1>5, <1>6, <1>7

\* A look-up finds the value, or joins or claims the closure in flight.
LEMMA LookupMaps ==
  ASSUME Mapped, SeenNow, Relayed, Promise!Observe, NEW r \in Req,
         Get(r) \/ GetManifest(r)
  PROVE  Simulates
<1>1. /\ call[r] # NoCall /\ pc[r] \in {"get", "getManifest"}
      /\ UNCHANGED <<call, store, history>>
  BY DEF Get, GetManifest, Mapped, MapsAgree, Asks, askVars
<1>2. PICK h \in Hash : h = hash(r)
  BY <1>1, CallOps DEF Mapped
<1>3. CASE /\ UNCHANGED out
           /\ \E step \in {"waiting", "queued", "manifestWaiting", "manifestQueued"} :
                pc' = [pc EXCEPT ![r] = step]
  <2>1. \A q \in Req : \/ pc'[q] = pc[q]
                       \/ /\ pc[q] \notin {"idle", "reply", "manifestBuilt"}
                          /\ pc'[q] \notin {"idle", "reply", "manifestBuilt"}
    BY <1>1, <1>3 DEF Mapped, TypeOK
  <2> QED
    BY <1>1, <1>3, <2>1, InnerStep DEF Simulates
<1>4. CASE \E v \in Resource :
             /\ Stored(v, h) /\ (call[r].kind # "manifest" => v.bytes)
             /\ \A q \in Req \ {r} : pc'[q] = pc[q] /\ out'[q] = out[q]
             /\ out'[r] = Ok(v) /\ pc'[r] \in {"reply", "manifestBuilt"}
  <2>1. PICK v \in Resource :
          /\ Stored(v, h) /\ (call[r].kind # "manifest" => v.bytes)
          /\ \A q \in Req \ {r} : pc'[q] = pc[q] /\ out'[q] = out[q]
          /\ out'[r] = Ok(v) /\ pc'[r] \in {"reply", "manifestBuilt"}
    BY <1>4
  <2>2. Promise!Next /\ Settled' /\ Relayed'
    BY <1>1, <1>2, <2>1, KeptMaps
  <2> QED
    BY <2>2 DEF Simulates
<1>5. CASE Get(r)
  <2>1. CASE /\ Kept(resources, hash(r))
             /\ Return({r}, Ok(resources.memo[hash(r)]))
    <3>1. PICK v \in Resource : v = resources.memo[h]
      BY <1>2, <2>1 DEF Mapped, TypeOK, Map, Kept
    <3>2. Stored(v, h) /\ v.bytes
      BY <1>2, <2>1, <3>1 DEF Mapped, Backed, MemoStored, Full, FullMemo
    <3>3. /\ \A q \in Req \ {r} : pc'[q] = pc[q] /\ out'[q] = out[q]
          /\ out'[r] = Ok(v) /\ pc'[r] \in {"reply", "manifestBuilt"}
      BY <1>2, <2>1, <3>1 DEF Return
    <3> QED
      BY <1>4, <3>2, <3>3
  <2> QED
    BY <1>3, <1>5, <2>1 DEF Get
<1>6. CASE GetManifest(r)
  <2>1. CASE /\ Kept(manifests, hash(r))
             /\ out' = [out EXCEPT ![r] = Ok(manifests.memo[hash(r)])]
             /\ pc'  = [pc EXCEPT ![r] = "reply"]
    <3>1. PICK v \in Resource : v = manifests.memo[h]
      BY <1>2, <2>1 DEF Mapped, TypeOK, Map, Kept
    <3>2. Stored(v, h) /\ call[r].kind = "manifest"
      BY <1>2, <1>6, <2>1, <3>1
         DEF Mapped, Backed, MemoStored, MapsAgree, Asks, GetManifest
    <3>3. /\ \A q \in Req \ {r} : pc'[q] = pc[q] /\ out'[q] = out[q]
          /\ out'[r] = Ok(v) /\ pc'[r] \in {"reply", "manifestBuilt"}
      BY <1>2, <2>1, <3>1 DEF Mapped, TypeOK
    <3> QED
      BY <1>4, <3>2, <3>3
  <2> QED
    BY <1>3, <1>6, <2>1 DEF GetManifest
<1> QED
  BY <1>5, <1>6

\* A closure starts, or falls back to the other map, or goes on to a call.
LEMMA StartMaps ==
  ASSUME Mapped, SeenNow, Relayed, Promise!Observe, NEW r \in Req,
         Start(r) \/ StartManifest(r) \/ FallBack(r) \/ FetchMagnet(r)
  PROVE  Simulates
<1>1. /\ UNCHANGED <<call, out, store, history>>
      /\ \A q \in Req : \/ pc'[q] = pc[q]
                        \/ /\ pc[q] \notin {"idle", "reply", "manifestBuilt"}
                           /\ pc'[q] \notin {"idle", "reply", "manifestBuilt"}
  BY DEF Start, StartManifest, FallBack, FetchMagnet, Mapped, TypeOK, askVars
<1> QED
  BY <1>1, InnerStep DEF Simulates

\* The closure of resources fails with e, true of the store now if it says
\* anything of it.
LEMMA ErrorMaps ==
  ASSUME Mapped, SeenNow, Relayed, Promise!Observe, NEW r \in Req,
         pc[r] \in BuildStep \ {"queued"},
         NEW e \in ErrorKind \ {"parse"}, Conclude(r, Failed(e)),
         e \in DOMAIN Promise!Says => store[hash(r)].state = Promise!Says[e],
         Promise!Moves(hash(r))
  PROVE  Simulates
<1>1. PICK o : o = Failed(e)
  OBVIOUS
<1>2. Good(o) /\ o.res = NoResource /\ o.err = e /\ Conclude(r, o)
  BY <1>1 DEF Good, Failed
<1>3. Promise!Next /\ Settled' /\ Relayed'
  BY <1>2, ConcludeMaps
<1> QED
  BY <1>3 DEF Simulates

\* It ends with a torrent that the store has held, with the trackers ts.
LEMMA TorrentMaps ==
  ASSUME Mapped, SeenNow, Relayed, Promise!Observe, NEW r \in Req,
         pc[r] \in BuildStep \ {"queued"},
         NEW ts \in SUBSET Tracker, Conclude(r, Ok(parseTorrent(hash(r), ts))),
         history'[hash(r)].held, ts \subseteq history'[hash(r)].trackers,
         Promise!Moves(hash(r))
  PROVE  Simulates
<1>1. PICK h \in Hash : h = hash(r)
  BY CallOps DEF Mapped, MapsAgree, Asks, BuildStep, Rpc
<1>2. PICK v \in Resource : v = parseTorrent(h, ts)
  BY ResourceOps
<1>3. PICK o : o = Ok(v)
  OBVIOUS
<1>4. /\ Good(o) /\ o.res = v /\ o.err = "none" /\ Conclude(r, o)
      /\ "none" \notin DOMAIN Promise!Says
  BY <1>1, <1>2, <1>3 DEF Good, Ok, Promise!Says
<1>5. Stored(v, h)' /\ v.bytes
  BY <1>1, <1>2 DEF Stored, parseTorrent
<1>6. hash(r)' = h
  BY <1>1, <1>4 DEF Conclude, askVars, hash
<1>7. Promise!Next /\ Settled' /\ Relayed'
  <2>1. o.res # NoResource => Stored(o.res, hash(r))' /\ o.res.bytes
    BY <1>4, <1>5, <1>6 DEF Stored
  <2> QED
    BY <1>4, <2>1, ConcludeMaps
<1> QED
  BY <1>7 DEF Simulates

\* It goes on to its next call.
LEMMA GoOnMaps ==
  ASSUME Mapped, SeenNow, Relayed, Promise!Observe, NEW r \in Req,
         pc[r] \in BuildStep, NEW step \in BuildStep, pc' = [pc EXCEPT ![r] = step],
         UNCHANGED <<call, out, store, history>>
  PROVE  Simulates
<1>1. \A q \in Req : \/ pc'[q] = pc[q]
                     \/ /\ pc[q] \notin {"idle", "reply", "manifestBuilt"}
                        /\ pc'[q] \notin {"idle", "reply", "manifestBuilt"}
  BY DEF Mapped, TypeOK, BuildStep, Rpc
<1> QED
  BY <1>1, InnerStep DEF Simulates

LEMMA TouchMaps ==
  ASSUME Mapped, SeenNow, Relayed, Promise!Observe, NEW r \in Req, Touch(r)
  PROVE  Simulates
<1>1. /\ pc[r] \in BuildStep \ {"queued"} /\ call[r] # NoCall /\ hash(r) \in Hash
      /\ UNCHANGED <<store, history>>
  BY CallOps DEF Touch, BuildStep, Rpc, Mapped, MapsAgree, Asks
<1>2. Promise!Moves(hash(r))
  BY <1>1, MovesNot DEF Mapped, Backed
<1>3. CASE store[hash(r)].state = "banned" /\ Conclude(r, Failed("forbidden"))
  BY <1>1, <1>2, <1>3, ErrorMaps DEF ErrorKind, Promise!Says
<1>4. CASE store[hash(r)].state = "absent" /\ Conclude(r, Failed("notFound"))
  BY <1>1, <1>2, <1>4, ErrorMaps DEF ErrorKind, Promise!Says
<1>5. CASE \E step \in {"magnet", "pull", "push"} : Goto(r, step)
  BY <1>1, <1>5, GoOnMaps DEF Goto, askVars, BuildStep, Rpc
<1> QED
  BY <1>3, <1>4, <1>5 DEF Touch

LEMMA PullMaps ==
  ASSUME Mapped, SeenNow, Relayed, Promise!Observe, NEW r \in Req, Pull(r)
  PROVE  Simulates
<1>1. /\ pc[r] \in BuildStep \ {"queued"} /\ call[r] # NoCall /\ hash(r) \in Hash
      /\ UNCHANGED <<store, history>>
  BY CallOps DEF Pull, BuildStep, Rpc, Mapped, MapsAgree, Asks
<1>2. Promise!Moves(hash(r))
  BY <1>1, MovesNot DEF Mapped, Backed
<1>3. CASE store[hash(r)].state = "banned" /\ Conclude(r, Failed("refused"))
  BY <1>1, <1>2, <1>3, ErrorMaps DEF ErrorKind, Promise!Says
<1>4. CASE store[hash(r)].state = "absent" /\ Conclude(r, Failed("missing"))
  BY <1>1, <1>2, <1>4, ErrorMaps DEF ErrorKind, Promise!Says
<1>5. CASE /\ store[hash(r)].state = "held"
           /\ Conclude(r, Ok(parseTorrent(hash(r), store[hash(r)].trackers)))
  <2>1. PICK ts \in SUBSET Tracker : ts = store[hash(r)].trackers
    BY <1>1 DEF Mapped, TypeOK
  <2>2. PICK h \in Hash : h = hash(r)
    BY <1>1
  <2>3. history'[h].held /\ ts \subseteq history'[h].trackers
    BY <1>1, <1>5, <2>1, <2>2 DEF Mapped, Backed, StoreRecorded
  <2>4. hash(r)' = h
    BY <1>5, <2>2 DEF Conclude, askVars, hash
  <2>5. Conclude(r, Ok(parseTorrent(hash(r), ts)))
    BY <1>5, <2>1
  <2> QED
    BY <1>1, <1>2, <2>2, <2>3, <2>5, TorrentMaps
<1>6. CASE /\ pc' = [pc EXCEPT ![r] = "pushTrackers"]
           /\ UNCHANGED <<resources, out, manifests, askVars>>
  BY <1>1, <1>6, GoOnMaps DEF askVars, BuildStep, Rpc
<1> QED
  BY <1>3, <1>4, <1>5, <1>6 DEF Pull

\* A push that reaches the store makes a move of the store, which then holds
\* what was pushed.
LEMMA PushReaches ==
  ASSUME Mapped, NEW r \in Req, call[r] # NoCall,
         Merge(r) \/ UNCHANGED <<store, history>>
  PROVE  /\ Promise!Moves(hash(r))
         /\ Merge(r) => /\ history'[hash(r)].held
                        /\ Pushed(r) \subseteq history'[hash(r)].trackers
<1>1. hash(r) \in Hash
  BY CallOps DEF Mapped
<1>2. Promise!Moves(hash(r))
  BY <1>1, MovesNot, MovesMerge DEF Mapped, Backed
<1>3. Merge(r) => /\ history'[hash(r)].held
                  /\ Pushed(r) \subseteq history'[hash(r)].trackers
  BY MergeRecords DEF Mapped, Backed
<1> QED
  BY <1>2, <1>3

\* The closure that has pulled returns what it pulled, the push of the trackers
\* reaching the store or not.
LEMMA PulledMaps ==
  ASSUME Mapped, SeenNow, Relayed, Promise!Observe, NEW r \in Req,
         pc[r] = "pushTrackers", Merge(r) \/ UNCHANGED <<store, history>>,
         Conclude(r, Ok(parseTorrent(hash(r), payload[r])))
  PROVE  Simulates
<1>1. /\ pc[r] \in BuildStep \ {"queued"} /\ call[r] # NoCall /\ hash(r) \in Hash
  BY CallOps DEF BuildStep, Rpc, Mapped, MapsAgree, Asks
<1>2. PICK ts \in SUBSET Tracker : ts = payload[r]
  BY DEF Mapped, TypeOK
<1>3. PICK h \in Hash : h = hash(r)
  BY <1>1
<1>4. history[h].held /\ ts \subseteq history[h].trackers
  BY <1>2, <1>3 DEF Mapped, Backed, PullRecorded, Stored, parseTorrent
<1>5. Grown
  BY <1>1, MergeRecords DEF Grown, Mapped, Backed
<1>6. history'[h].held /\ ts \subseteq history'[h].trackers
  BY <1>3, <1>4, <1>5 DEF Grown
<1>7. Conclude(r, Ok(parseTorrent(hash(r), ts)))
  BY <1>2
<1> QED
  BY <1>1, <1>3, <1>6, <1>7, PushReaches, TorrentMaps

LEMMA PushMaps ==
  ASSUME Mapped, SeenNow, Relayed, Promise!Observe, NEW r \in Req,
         PushTrackers(r) \/ Push(r) \/ PushMagnet(r)
  PROVE  Simulates
<1>1. /\ pc[r] \in BuildStep \ {"queued"} /\ call[r] # NoCall /\ hash(r) \in Hash
      /\ Merge(r) \/ UNCHANGED <<store, history>>
  BY CallOps DEF PushTrackers, Push, PushMagnet, BuildStep, Rpc, Mapped, MapsAgree, Asks
<1>2. Promise!Moves(hash(r))
  BY <1>1, PushReaches
<1>3. CASE PushTrackers(r)
  <2>1. CASE Conclude(r, Failed("unavailable"))
    BY <1>1, <1>2, <2>1, ErrorMaps DEF ErrorKind, Promise!Says
  <2>2. CASE Conclude(r, Ok(parseTorrent(hash(r), payload[r])))
    BY <1>3, <2>2, PulledMaps DEF PushTrackers
  <2> QED
    BY <1>3, <2>1, <2>2 DEF PushTrackers
<1>4. CASE store[hash(r)].state = "banned" /\ Conclude(r, Failed("refused"))
  BY <1>1, <1>2, <1>4, ErrorMaps DEF ErrorKind, Promise!Says
<1>5. CASE Merge(r) /\ Conclude(r, Ok(parseTorrent(hash(r), Pushed(r))))
  <2>1. PICK ts \in SUBSET Tracker : ts = Pushed(r)
    BY <1>1, CallOps DEF Mapped, TypeOK, Pushed
  <2>2. history'[hash(r)].held /\ ts \subseteq history'[hash(r)].trackers
    BY <1>1, <1>5, <2>1, PushReaches
  <2>3. Conclude(r, Ok(parseTorrent(hash(r), ts)))
    BY <1>5, <2>1
  <2> QED
    BY <1>1, <1>2, <2>2, <2>3, TorrentMaps
<1>6. CASE Push(r)
  BY <1>4, <1>5, <1>6 DEF Push, Pushed
<1>7. CASE PushMagnet(r)
  BY <1>4, <1>5, <1>7 DEF PushMagnet, Pushed
<1> QED
  BY <1>3, <1>6, <1>7

\* A call fails: of the store nothing is said.
LEMMA FailMaps ==
  ASSUME Mapped, SeenNow, Relayed, Promise!Observe, NEW r \in Req,
         NEW e \in {"deadline", "canceled", "unavailable"}, Fail(r, e)
  PROVE  Simulates
<1>1. /\ \A x \in {e, "magnetTimeout"} :
           x \in ErrorKind \ {"parse"} /\ x \notin DOMAIN Promise!Says
  BY DEF ErrorKind, Promise!Says
<1>2. CASE FailRpc(r, e)
  <2>1. /\ pc[r] \in BuildStep \ {"queued"} /\ call[r] # NoCall
        /\ Merge(r) \/ UNCHANGED <<store, history>>
    BY <1>2 DEF FailRpc, BuildStep, Rpc, Mapped, MapsAgree, Asks
  <2>2. CASE pc[r] = "pushTrackers"
    BY <1>2, <2>1, <2>2, PulledMaps DEF FailRpc
  <2>3. CASE \E x \in {e, "magnetTimeout"} : Conclude(r, Failed(x))
    BY <1>1, <2>1, <2>3, PushReaches, ErrorMaps
  <2> QED
    BY <1>2, <2>2, <2>3 DEF FailRpc
<1>3. CASE FailFiles(r, e)
  <2>1. PICK o : o = Failed(e)
    OBVIOUS
  <2>2. Good(o) /\ o.res = NoResource /\ Sees(r, o.err)
    BY <1>1, <2>1 DEF Good, Failed, Sees
  <2>3. pc[r] = "files" /\ ConcludeManifest(r, o) /\ UNCHANGED <<store, history>>
    BY <1>3, <2>1 DEF FailFiles
  <2>4. Promise!Next /\ Settled' /\ Relayed'
    BY <2>2, <2>3, ConcludeManifestMaps
  <2> QED
    BY <2>4 DEF Simulates
<1> QED
  BY <1>2, <1>3 DEF Fail

\* A closure of manifests returns the manifest, an error of the store, or what
\* the closure it fell back to was told.
LEMMA FilesMaps ==
  ASSUME Mapped, SeenNow, Relayed, Promise!Observe, NEW r \in Req,
         Files(r) \/ ManifestBuilt(r)
  PROVE  Simulates
<1>1. /\ pc[r] \in {"files", "manifestBuilt"} /\ call[r] # NoCall /\ hash(r) \in Hash
      /\ UNCHANGED <<store, history>>
  BY CallOps DEF Files, ManifestBuilt, Mapped, MapsAgree, Asks
<1>2. CASE \E o : /\ Good(o) /\ ConcludeManifest(r, o) /\ Sees(r, o.err)
                  /\ o.res # NoResource => Stored(o.res, hash(r))
  <2>1. PICK o : /\ Good(o) /\ ConcludeManifest(r, o) /\ Sees(r, o.err)
                 /\ o.res # NoResource => Stored(o.res, hash(r))
    BY <1>2
  <2>2. Promise!Next /\ Settled' /\ Relayed'
    BY <1>1, <2>1, ConcludeManifestMaps
  <2> QED
    BY <2>2 DEF Simulates
<1>3. CASE \E e \in {"notFound", "forbidden"} :
             /\ ConcludeManifest(r, Failed(e))
             /\ store[hash(r)].state = Promise!Says[e]
  <2>1. PICK e \in {"notFound", "forbidden"} :
          ConcludeManifest(r, Failed(e)) /\ store[hash(r)].state = Promise!Says[e]
    BY <1>3
  <2>2. PICK o : o = Failed(e)
    OBVIOUS
  <2>3. Good(o) /\ o.res = NoResource /\ o.err = e
    BY <2>2 DEF Good, Failed, ErrorKind
  <2>4. Waits(r)
    BY <1>1 DEF Waits, Given
  <2>5. Sees(r, o.err)
    BY <2>1, <2>3, <2>4, SeesNow
  <2> QED
    BY <1>2, <2>1, <2>2, <2>3, <2>5
<1>4. CASE /\ store[hash(r)].state = "held"
           /\ ConcludeManifest(r, Ok(Manifest(hash(r))))
  <2>1. PICK h \in Hash : h = hash(r)
    BY <1>1
  <2>2. PICK v \in Resource : v = Manifest(h)
    BY ResourceOps
  <2>3. PICK o : o = Ok(v)
    OBVIOUS
  <2>4. Good(o) /\ o.res = v /\ Sees(r, o.err) /\ ConcludeManifest(r, o)
    BY <1>4, <2>1, <2>2, <2>3 DEF Good, Ok, Sees, Promise!Says
  <2>5. Stored(v, h)
    BY <1>4, <2>1, <2>2 DEF Mapped, Backed, StoreRecorded, Stored, Manifest
  <2> QED
    BY <1>2, <2>1, <2>4, <2>5
<1>5. CASE Files(r)
  <2>1. Promise!Says["notFound"] = "absent" /\ Promise!Says["forbidden"] = "banned"
    BY DEF Promise!Says
  <2> QED
    BY <1>3, <1>4, <1>5, <2>1 DEF Files
<1>6. CASE ManifestBuilt(r)
  <2>1. pc[r] = "manifestBuilt" /\ ConcludeManifest(r, out[r])
    BY <1>6 DEF ManifestBuilt
  <2>2. Good(out[r]) /\ Sees(r, out[r].err)
    BY <2>1 DEF Mapped, Settled, Relayed, Sees
  <2>3. out[r].res # NoResource => Stored(out[r].res, hash(r))
    BY DEF Mapped, Backed, OutStored
  <2> QED
    BY <1>2, <2>1, <2>2, <2>3
<1> QED
  BY <1>5, <1>6

\* A map forgets, and the store moves of itself.
LEMMA EnvironmentMaps ==
  ASSUME Mapped, SeenNow, Relayed, Promise!Observe, NEW h \in Hash, Environment(h)
  PROVE  Simulates
<1>1. CASE EvictResource(h) \/ EvictManifest(h)
  BY <1>1, InnerStep DEF EvictResource, EvictManifest, Simulates
<1>2. CASE StoreForgets(h) \/ StoreReceives(h)
  <2>1. UNCHANGED <<pc, call, out>>
    BY <1>2 DEF StoreForgets, StoreReceives
  <2>2. [q \in Req |-> Given(q)]' = [q \in Req |-> Given(q)]
    BY <2>1 DEF Given, Pending
  <2>3. Promise!Next
    BY <1>2, <2>1, <2>2, MovesOfItself DEF Promise!Next, Given, Mapped
  <2>4. Settled'
    BY <2>1 DEF Mapped, Settled, Good
  <2>5. Relayed'
    BY <2>1, RelayedKept DEF Mapped, Relayed, Sees
  <2> QED
    BY <2>3, <2>4, <2>5 DEF Simulates
<1> QED
  BY <1>1, <1>2 DEF Environment

LEMMA NextMaps ==
  ASSUME Mapped, SeenNow, Relayed, SeenNext
  PROVE  Simulates
<1>1. Promise!Observe /\ Next
  BY DEF SeenNext
<1>2. CASE \E r \in Req : Serve(r)
  <2>1. PICK r \in Req : Serve(r)
    BY <1>2
  <2>2. CASE Timeout(r) \/ Cancel(r) \/ Break(r)
    BY <1>1, <2>2, FailMaps DEF Timeout, Cancel, Break
  <2> QED
    BY <1>1, <2>1, <2>2, HandlerMaps, LookupMaps, StartMaps, TouchMaps, PullMaps,
       PushMaps, FilesMaps DEF Serve
<1>3. CASE \E h \in Hash : Environment(h)
  BY <1>1, <1>3, EnvironmentMaps
<1> QED
  BY <1>1, <1>2, <1>3 DEF Next

-----------------------------------------------------------------------------
(* The theorem                                                             *)

LEMMA InitMaps ==
  ASSUME SeenInit
  PROVE  Promise!Init /\ Mapped /\ SeenNow /\ Relayed
<1>1. Init /\ seen = [r \in Req |-> {}]
  BY DEF SeenInit
<1>2. \A h \in Hash : New.memo[h] = NoResource
  BY DEF New
<1>3. TypeOK /\ MapsAgree
  BY <1>1, InitAgrees
<1>4. Backed
  <2>1. StoreRecorded
    BY <1>1 DEF Init, StoreRecorded
  <2>2. PullRecorded /\ MemoStored /\ OutStored
    BY <1>1, <1>2 DEF Init, PullRecorded, MemoStored, OutStored, Kept, Pending
  <2> QED
    BY <2>1, <2>2 DEF Backed
<1>5. Full
  BY <1>1, <1>2 DEF Init, Full, FullMemo, FullOut, Kept, Pending
<1>6. Settled /\ Relayed
  BY <1>1 DEF Init, Settled, Relayed
<1>7. SeenNow
  BY <1>1 DEF Init, SeenNow, Waits
<1>8. Promise!Init
  <2>1. [r \in Req |-> Given(r)] = [r \in Req |-> Promise!Unanswered]
    BY <1>1 DEF Init, Given, Pending, Promise!Unanswered
  <2>2. store \in [Hash -> [state : Promise!StoreState, trackers : SUBSET Tracker]]
    BY <1>3 DEF TypeOK, Promise!StoreState
  <2> QED
    BY <1>1, <2>1, <2>2 DEF Init, Promise!Init, Given
<1> QED
  BY <1>3, <1>4, <1>5, <1>6, <1>7, <1>8 DEF Mapped

\* ResourceMap keeps what Resolve promises: between asking and being answered a
\* request sees nothing of the two maps, their slots, their shared closures and
\* the calls; it is answered once, for its own hash, with a torrent that
\* torrent-store has held and with its bytes unless it asked for a manifest, or
\* with an error that was true of the store while one of those who are told it
\* together waited (resource.go:174, 291, 308).
THEOREM ResolvesAlways == SeenSpec => Resolves
<1>1. SeenInit => Promise!Init /\ Mapped /\ SeenNow /\ Relayed
  BY InitMaps
<1>2. ASSUME Mapped, SeenNow, Relayed, [SeenNext]_<<vars, seen>>
      PROVE  /\ [Promise!Next]_(Promise!vars)
             /\ Mapped' /\ SeenNow' /\ Relayed'
  <2>1. [Next]_vars
    BY <1>2 DEF SeenNext
  <2>2. TypeOK' /\ MapsAgree' /\ Backed' /\ Full'
    BY <1>2, <2>1, NextType, NextAgrees, NextStored, NextFull DEF Mapped, MapsAgree
  <2>3. CASE SeenNext
    <3>1. Simulates
      BY <1>2, <2>3, NextMaps
    <3>2. SeenNow'
      BY <2>3, SeenStep DEF SeenNext
    <3> QED
      BY <2>2, <3>1, <3>2 DEF Simulates, Mapped
  <2>4. CASE UNCHANGED <<vars, seen>>
    <3>1. /\ pc' = pc /\ out' = out /\ call' = call /\ store' = store
          /\ history' = history /\ seen' = seen
      BY <2>4 DEF vars
    <3>2. Settled' /\ Relayed' /\ SeenNow'
      BY <1>2, <3>1
         DEF Mapped, Settled, Good, Relayed, SeenNow, Waits, Given, Pending, hash
    <3>3. [q \in Req |-> Given(q)]' = [q \in Req |-> Given(q)]
      BY <3>1 DEF Given, Pending
    <3> QED
      BY <2>2, <3>1, <3>2, <3>3 DEF Mapped, Promise!vars, Given
  <2> QED
    BY <1>2, <2>3, <2>4
<1> QED
  BY <1>1, <1>2, PTL DEF SeenSpec, Resolves, Promise!Spec

=============================================================================
