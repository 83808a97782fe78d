---------------------------- MODULE ResourceMap ----------------------------
(***************************************************************************)
(* services/resource.go and the handlers of services/web.go that call it:  *)
(* how a torrent, a magnet or an infohash becomes a Resource, through two  *)
(* memoizing maps, the gRPC service torrent-store and the gRPC service     *)
(* magnet2torrent.                                                         *)
(*                                                                         *)
(* A Req is the goroutine of one HTTP request.  pc[r] is where it stands:  *)
(*   idle            no request                                            *)
(*   getManifest     about to look the hash up in manifests                *)
(*   manifestWaiting blocked on another request's manifest closure         *)
(*   manifestQueued  claimed the hash in manifests, waits for a slot       *)
(*   files           in the Files call of its manifest closure             *)
(*   get             about to look the hash up in resources                *)
(*   waiting         blocked on another request's resource closure         *)
(*   queued          claimed the hash in resources, waits for a slot       *)
(*   touch, pull, push, pushTrackers, magnet, pushMagnet                   *)
(*                   in that call of its resource closure                  *)
(*   manifestBuilt   back in its manifest closure from the fallback        *)
(*   reply           back in the handler, with out[r]                      *)
(***************************************************************************)
EXTENDS ErrorHandler, FiniteSets

CONSTANTS
  Req,          \* requests being served
  Kind,         \* kinds of requests they may be
  Hash,         \* infohashes
  Tracker,      \* announce URLs
  Concurrency,  \* slots of each map (100 in the code)
  NoReq, NoResource, NoCall

\* A Resource: the torrent's infohash, the trackers its torrent announces,
\* and whether it holds the .torrent bytes and the piece hashes (a manifest
\* holds neither, and no trackers).
Resource == [id : Hash, trackers : SUBSET Tracker, bytes : BOOLEAN]

\* What a request asks.  torrent and magnet come with trackers of their own;
\* sha1 stands for every caller of Get with a bare infohash (getTorrent,
\* getExport, postResource), manifest for the callers of GetManifest.
Call == [kind : Kind \cap {"torrent", "magnet"}, hash : Hash,
         trackers : SUBSET Tracker]
        \cup [kind : Kind \cap {"sha1", "manifest"}, hash : Hash,
              trackers : {{}}]

ASSUME ResourceMapAssumptions ==
  /\ IsFiniteSet(Req)
  /\ NoReq \notin Req
  /\ NoResource \notin Resource
  /\ NoCall \notin Call
  /\ Concurrency \in Nat \ {0}

VARIABLES
  resources,  \* ResourceMap.LazyMap
  manifests,  \* ResourceMap.manifests
  pc,
  call,       \* what the request asks
  live,       \* its context is not canceled
  payload,    \* trackers of the torrent its closure holds (rep, payload)
  out,        \* what Get or GetManifest returned to it
  store,      \* torrent-store: per hash, its state and the trackers it merged
  history     \* per hash, whether it was ever held and all it ever announced

vars == <<resources, manifests, pc, call, live, payload, out, store, history>>
askVars == <<call, live>>

INSTANCE LazyMap WITH Caller <- Req, Key <- Hash, Value <- Resource,
                      NoCaller <- NoReq, NoValue <- NoResource

-----------------------------------------------------------------------------

\* A (Resource, error) pair of Go.
Outcome   == [res : Resource \cup {NoResource}, err : ErrorKind \cup {"none"}]
Pending   == [res |-> NoResource, err |-> "none"]
Ok(v)     == [res |-> v, err |-> "none"]
Failed(e) == [res |-> NoResource, err |-> e]

Rpc       == {"files", "touch", "pull", "push", "pushTrackers", "magnet",
              "pushMagnet"}
PushStep  == {"push", "pushTrackers", "pushMagnet"}
BuildStep == {"queued"} \cup (Rpc \ {"files"})
Step      == {"idle", "getManifest", "manifestWaiting", "manifestQueued",
              "get", "waiting", "manifestBuilt", "reply"}
             \cup Rpc \cup {"queued"}

hash(r) == call[r].hash

\* The closure resolves a bare infohash: asked as such, or the manifest
\* fallback s.Get(ctx, []byte(infohash)).
Sha1(r) == call[r].kind \in {"sha1", "manifest"}

\* Mutant: the ID is not set.
parseTorrentWithoutID(h, ts) == [trackers |-> ts, bytes |-> TRUE]

\* parseTorrent of a torrent of hash h announcing ts.
parseTorrent(h, ts) == [id |-> h, trackers |-> ts, bytes |-> TRUE]

\* The torrent the closure of r sends to the store: the uploaded one, or the
\* one it holds with the magnet's trackers written in place of its own.
Pushed(r) == IF pc[r] = "pushMagnet" THEN payload[r] ELSE call[r].trackers

-----------------------------------------------------------------------------

Init ==
  /\ resources = New
  /\ manifests = New
  /\ pc        = [r \in Req |-> "idle"]
  /\ call      = [r \in Req |-> NoCall]
  /\ live      = [r \in Req |-> TRUE]
  /\ payload   = [r \in Req |-> {}]
  /\ out       = [r \in Req |-> Pending]
  /\ store \in [Hash -> [state : {"held"}, trackers : SUBSET Tracker]
                        \cup [state : {"absent", "banned"}, trackers : {{}}]]
  /\ history   = [h \in Hash |-> [held     |-> store[h].state = "held",
                                  trackers |-> store[h].trackers]]

\* A request arrives and its handler parses what it asks.
Arrive(r) ==
  /\ pc[r] = "idle"
  /\ \E c \in Call :
       /\ call' = [call EXCEPT ![r] = c]
       /\ pc'   = [pc EXCEPT ![r] = IF c.kind = "manifest" THEN "getManifest"
                                                           ELSE "get"]
  /\ UNCHANGED <<resources, manifests, live, payload, out, store, history>>

\* parse fails: no map is consulted.
Reject(r) ==
  /\ pc[r] = "idle"
  /\ pc'  = [pc EXCEPT ![r] = "reply"]
  /\ out' = [out EXCEPT ![r] = Failed("parse")]
  /\ UNCHANGED <<resources, manifests, call, live, payload, store,
                 history>>

\* The client goes away: net/http cancels the context of the request.  Once
\* there is an answer it makes no difference.
Hangup(r) ==
  /\ pc[r] \notin {"idle", "reply"}
  /\ live[r]
  /\ live' = [live EXCEPT ![r] = FALSE]
  /\ UNCHANGED <<resources, manifests, pc, call, payload, out, store, history>>

\* The statuses the handler may write for what the map returned.
Statuses(o) == IF o.err = "none" THEN {200} ELSE StatusOf(o.err)

\* The handler writes the answer; the goroutine may serve another request.
Answer(r) ==
  /\ pc[r] = "reply"
  /\ pc'   = [pc EXCEPT ![r] = "idle"]
  /\ call' = [call EXCEPT ![r] = NoCall]
  /\ live' = [live EXCEPT ![r] = TRUE]
  /\ out'  = [out EXCEPT ![r] = Pending]
  /\ UNCHANGED <<resources, manifests, payload, store, history>>

-----------------------------------------------------------------------------
(* LazyMap.Get of resources                                                *)

\* Get returns o to the requests rs: a handler replies, the manifest closure
\* that fell back goes on.
Return(rs, o) ==
  /\ out' = [q \in Req |-> IF q \in rs THEN o ELSE out[q]]
  /\ pc'  = [q \in Req |-> IF q \notin rs THEN pc[q]
                           ELSE IF call[q].kind = "manifest" THEN "manifestBuilt"
                           ELSE "reply"]

\* Mutant: uploads skip the map, to be always pushed.
GetUnlessTorrent(r) ==
  /\ pc[r] = "get"
  /\ IF Kept(resources, hash(r)) /\ call[r].kind # "torrent"
     THEN Return({r}, Ok(resources.memo[hash(r)])) /\ UNCHANGED resources
     ELSE /\ resources' = Claim(resources, r, hash(r))
          /\ pc' = [pc EXCEPT ![r] = "queued"]
          /\ UNCHANGED out
  /\ UNCHANGED <<manifests, call, live, payload, store, history>>

Get(r) ==
  /\ pc[r] = "get"
  /\ \/ /\ Kept(resources, hash(r))
        /\ Return({r}, Ok(resources.memo[hash(r)]))
        /\ UNCHANGED resources
     \/ /\ ~Kept(resources, hash(r))
        /\ InFlight(resources, hash(r))
        /\ resources' = Join(resources, r, hash(r))
        /\ pc' = [pc EXCEPT ![r] = "waiting"]
        /\ UNCHANGED out
     \/ /\ ~Kept(resources, hash(r))
        /\ ~InFlight(resources, hash(r))
        /\ resources' = Claim(resources, r, hash(r))
        /\ pc' = [pc EXCEPT ![r] = "queued"]
        /\ UNCHANGED out
  /\ UNCHANGED <<manifests, call, live, payload, store, history>>

\* A slot is free: the closure s.get(ctx, r, b) starts.
Start(r) ==
  /\ pc[r] = "queued"
  /\ HasSlot(resources)
  /\ resources' = Run(resources, r)
  /\ pc' = [pc EXCEPT ![r] = "touch"]
  /\ UNCHANGED <<manifests, askVars, payload, out, store, history>>

\* The closure of r returns o: it is kept if it is a value, and handed to r
\* and to the requests blocked on it.
Conclude(r, o) ==
  /\ resources' = Finish(resources, r, hash(r), o.res)
  /\ Return({r} \cup resources.waiting[hash(r)], o)
  /\ payload' = [payload EXCEPT ![r] = {}]
  /\ UNCHANGED <<manifests, askVars>>

Goto(r, step) ==
  /\ pc' = [pc EXCEPT ![r] = step]
  /\ UNCHANGED <<resources, payload, out, manifests, askVars>>

\* The store merges what r pushes into what it holds.
Merge(r) ==
  /\ store[hash(r)].state # "banned"
  /\ store'   = [store EXCEPT ![hash(r)] =
                   [state    |-> "held",
                    trackers |-> store[hash(r)].trackers \cup Pushed(r)]]
  /\ history' = [history EXCEPT ![hash(r)] =
                   [held     |-> TRUE,
                    trackers |-> history[hash(r)].trackers \cup Pushed(r)]]

-----------------------------------------------------------------------------
(* The closure of Get: ResourceMap.get                                     *)

Touch(r) ==
  /\ pc[r] = "touch"
  /\ \/ /\ store[hash(r)].state = "banned"
        /\ Conclude(r, Failed("forbidden"))
     \/ /\ store[hash(r)].state = "absent"
        /\ Sha1(r)
        /\ Conclude(r, Failed("notFound"))
     \/ /\ store[hash(r)].state = "absent"
        /\ call[r].kind = "magnet"
        /\ Goto(r, "magnet")
     \/ /\ store[hash(r)].state = "held"
        /\ call[r].kind # "torrent"
        /\ Goto(r, "pull")
     \/ /\ store[hash(r)].state # "banned"
        /\ call[r].kind = "torrent"
        /\ Goto(r, "push")
  /\ UNCHANGED <<store, history>>

\* The store may have lost, or banned, the torrent since Touch.
Pull(r) ==
  /\ pc[r] = "pull"
  /\ \/ /\ store[hash(r)].state = "banned"
        /\ Conclude(r, Failed("refused"))
     \/ /\ store[hash(r)].state = "absent"
        /\ Conclude(r, Failed("missing"))
     \/ /\ store[hash(r)].state = "held"
        /\ call[r].trackers = {}
        /\ Conclude(r, Ok(parseTorrent(hash(r), store[hash(r)].trackers)))
     \/ /\ store[hash(r)].state = "held"
        /\ call[r].trackers # {}
        /\ pc' = [pc EXCEPT ![r] = "pushTrackers"]
        /\ payload' = [payload EXCEPT ![r] = store[hash(r)].trackers]
        /\ UNCHANGED <<resources, out, manifests, askVars>>
  /\ UNCHANGED <<store, history>>

\* The trackers of the magnet are offered to the store, and the answer
\* ignored: the torrent that was pulled is returned either way, if it parses.
PushTrackers(r) ==
  /\ pc[r] = "pushTrackers"
  /\ Merge(r) \/ UNCHANGED <<store, history>>
  /\ \/ Conclude(r, Ok(parseTorrent(hash(r), payload[r])))
     \/ Conclude(r, Failed("unavailable"))

\* Mutant: the error of the push is dropped, as that of the tracker push is.
PushIgnored(r) ==
  /\ pc[r] = "push"
  /\ Merge(r) \/ UNCHANGED <<store, history>>
  /\ Conclude(r, Ok(parseTorrent(hash(r), call[r].trackers)))

\* The uploaded torrent is pushed whether or not the store holds it.
Push(r) ==
  /\ pc[r] = "push"
  /\ \/ /\ Merge(r)
        /\ Conclude(r, Ok(parseTorrent(hash(r), call[r].trackers)))
     \/ /\ store[hash(r)].state = "banned"
        /\ Conclude(r, Failed("refused"))
        /\ UNCHANGED <<store, history>>

\* magnet2torrent finds the torrent; it comes without trackers, those of the
\* magnet are written into it.
FetchMagnet(r) ==
  /\ pc[r] = "magnet"
  /\ pc' = [pc EXCEPT ![r] = "pushMagnet"]
  /\ payload' = [payload EXCEPT ![r] = call[r].trackers]
  /\ UNCHANGED <<resources, out, manifests, askVars, store, history>>

\* This push has no deadline of its own.
PushMagnet(r) ==
  /\ pc[r] = "pushMagnet"
  /\ \/ /\ Merge(r)
        /\ Conclude(r, Ok(parseTorrent(hash(r), payload[r])))
     \/ /\ store[hash(r)].state = "banned"
        /\ Conclude(r, Failed("refused"))
        /\ UNCHANGED <<store, history>>

\* A call of the closure fails with e.  A push may have reached the store;
\* the error of the tracker push is dropped; an error of Magnet2Torrent is a
\* "magnet timeout" once its context is done, be it expired or canceled.
FailRpc(r, e) ==
  /\ pc[r] \in Rpc \ {"files"}
  /\ \/ pc[r] \in PushStep /\ Merge(r)
     \/ UNCHANGED <<store, history>>
  /\ Conclude(r, IF pc[r] = "pushTrackers"
                 THEN Ok(parseTorrent(hash(r), payload[r]))
                 ELSE IF pc[r] = "magnet" /\ e \in {"deadline", "canceled"}
                 THEN Failed("magnetTimeout")
                 ELSE Failed(e))

-----------------------------------------------------------------------------
(* GetManifest and its closure getManifest                                 *)

\* Mutant: the requests blocked on the closure are not released.
ConcludeManifestAlone(r, o) ==
  /\ manifests' = Finish(manifests, r, hash(r), o.res)
  /\ out' = [out EXCEPT ![r] = o]
  /\ pc'  = [pc EXCEPT ![r] = "reply"]
  /\ UNCHANGED <<resources, payload, askVars>>

\* Mutant: the manifest is kept in the map of resources, s.Get for s.manifests.Get.
ConcludeManifestInResources(r, o) ==
  /\ manifests' = Finish(manifests, r, hash(r), NoResource)
  /\ resources' = IF InFlight(resources, hash(r)) THEN resources
                  ELSE [resources EXCEPT !.memo[hash(r)] = o.res]
  /\ LET rs == {r} \cup manifests.waiting[hash(r)]
     IN  /\ out' = [q \in Req |-> IF q \in rs THEN o ELSE out[q]]
         /\ pc'  = [q \in Req |-> IF q \in rs THEN "reply" ELSE pc[q]]
  /\ UNCHANGED <<payload, askVars>>

\* GetManifest returns o to r and to the requests blocked on its closure.
ConcludeManifest(r, o) ==
  LET rs == {r} \cup manifests.waiting[hash(r)]
  IN  /\ manifests' = Finish(manifests, r, hash(r), o.res)
      /\ out' = [q \in Req |-> IF q \in rs THEN o ELSE out[q]]
      /\ pc'  = [q \in Req |-> IF q \in rs THEN "reply" ELSE pc[q]]
      /\ UNCHANGED <<resources, payload, askVars>>

GetManifest(r) ==
  /\ pc[r] = "getManifest"
  /\ \/ /\ Kept(manifests, hash(r))
        /\ out' = [out EXCEPT ![r] = Ok(manifests.memo[hash(r)])]
        /\ pc'  = [pc EXCEPT ![r] = "reply"]
        /\ UNCHANGED manifests
     \/ /\ ~Kept(manifests, hash(r))
        /\ InFlight(manifests, hash(r))
        /\ manifests' = Join(manifests, r, hash(r))
        /\ pc' = [pc EXCEPT ![r] = "manifestWaiting"]
        /\ UNCHANGED out
     \/ /\ ~Kept(manifests, hash(r))
        /\ ~InFlight(manifests, hash(r))
        /\ manifests' = Claim(manifests, r, hash(r))
        /\ pc' = [pc EXCEPT ![r] = "manifestQueued"]
        /\ UNCHANGED out
  /\ UNCHANGED <<resources, payload, askVars, store, history>>

StartManifest(r) ==
  /\ pc[r] = "manifestQueued"
  /\ HasSlot(manifests)
  /\ manifests' = Run(manifests, r)
  /\ pc' = [pc EXCEPT ![r] = "files"]
  /\ UNCHANGED <<resources, payload, out, askVars, store, history>>

\* A manifest carries no trackers, no piece hashes and no torrent.
Manifest(h) == [id |-> h, trackers |-> {}, bytes |-> FALSE]

\* Mutant: of a torrent that is banned it is said that there is none.
FilesBannedAsAbsent(r) ==
  /\ pc[r] = "files"
  /\ ConcludeManifest(r, IF store[hash(r)].state = "held"
                         THEN Ok(Manifest(hash(r))) ELSE Failed("notFound"))
  /\ UNCHANGED <<store, history>>

Files(r) ==
  /\ pc[r] = "files"
  /\ \/ /\ store[hash(r)].state = "held"
        /\ ConcludeManifest(r, Ok(Manifest(hash(r))))
     \/ /\ store[hash(r)].state = "absent"
        /\ ConcludeManifest(r, Failed("notFound"))
     \/ /\ store[hash(r)].state = "banned"
        /\ ConcludeManifest(r, Failed("forbidden"))
  /\ UNCHANGED <<store, history>>

\* A store without the Files call: the closure falls back to Get, and keeps
\* its slot of manifests meanwhile.
FallBack(r) ==
  /\ pc[r] = "files"
  /\ pc' = [pc EXCEPT ![r] = "get"]
  /\ UNCHANGED <<resources, manifests, payload, out, askVars, store, history>>

ManifestBuilt(r) ==
  /\ pc[r] = "manifestBuilt"
  /\ ConcludeManifest(r, out[r])
  /\ UNCHANGED <<store, history>>

FailFiles(r, e) ==
  /\ pc[r] = "files"
  /\ ConcludeManifest(r, Failed(e))
  /\ UNCHANGED <<store, history>>

Fail(r, e) == FailRpc(r, e) \/ FailFiles(r, e)

\* Mutant: Magnet2Torrent has no deadline.
TimeoutButMagnet(r) == pc[r] \notin {"pushMagnet", "magnet"} /\ Fail(r, "deadline")

\* The deadline of the call passes: every call has one but the push that
\* follows Magnet2Torrent.
Timeout(r) == pc[r] # "pushMagnet" /\ Fail(r, "deadline")

\* Mutant: the closures share one context.
CancelShared(r) == (\E q \in Req : ~live[q]) /\ Fail(r, "canceled")

\* The closure runs with the context of the request that started it.
Cancel(r) == ~live[r] /\ Fail(r, "canceled")

\* Any other failure: of the call, of the client it is made with, or of
\* parsing the torrent that it brought or, pushed after Magnet2Torrent, stored.
Break(r) == Fail(r, "unavailable")

-----------------------------------------------------------------------------
(* Expiry of the maps, and the life of torrent-store: it loses and bans    *)
(* torrents and receives others from elsewhere.                            *)

EvictResource(h) ==
  /\ Kept(resources, h)
  /\ resources' = Evict(resources, h)
  /\ UNCHANGED <<manifests, pc, call, live, payload, out, store, history>>

\* Mutant: manifests is made without Expire.
EvictManifestNever(h) == FALSE

EvictManifest(h) ==
  /\ Kept(manifests, h)
  /\ manifests' = Evict(manifests, h)
  /\ UNCHANGED <<resources, pc, call, live, payload, out, store, history>>

StoreForgets(h) ==
  /\ \/ store[h].state = "held" /\ \E s \in {"absent", "banned"} :
          store' = [store EXCEPT ![h] = [state |-> s, trackers |-> {}]]
     \/ store[h].state = "absent" /\
          store' = [store EXCEPT ![h] = [state |-> "banned", trackers |-> {}]]
     \/ store[h].state = "banned" /\
          store' = [store EXCEPT ![h] = [state |-> "absent", trackers |-> {}]]
  /\ UNCHANGED <<resources, manifests, pc, call, live, payload, out, history>>

StoreReceives(h) ==
  /\ store[h].state = "absent"
  /\ \E ts \in SUBSET Tracker :
       /\ store'   = [store EXCEPT ![h] = [state |-> "held", trackers |-> ts]]
       /\ history' = [history EXCEPT ![h] =
                        [held     |-> TRUE,
                         trackers |-> history[h].trackers \cup ts]]
  /\ UNCHANGED <<resources, manifests, pc, call, live, payload, out>>

-----------------------------------------------------------------------------

Serve(r) ==
  \/ Arrive(r) \/ Reject(r) \/ Hangup(r) \/ Answer(r)
  \/ Get(r) \/ Start(r) \/ Touch(r) \/ Pull(r) \/ PushTrackers(r) \/ Push(r)
  \/ FetchMagnet(r) \/ PushMagnet(r)
  \/ GetManifest(r) \/ StartManifest(r) \/ Files(r) \/ FallBack(r)
  \/ ManifestBuilt(r)
  \/ Timeout(r) \/ Cancel(r) \/ Break(r)

Environment(h) ==
  EvictResource(h) \/ EvictManifest(h) \/ StoreForgets(h) \/ StoreReceives(h)

Next == (\E r \in Req : Serve(r)) \/ (\E h \in Hash : Environment(h))

\* What r does next without being given a slot, or a call ending well.
GoesOn(r) ==
  Get(r) \/ GetManifest(r) \/ ManifestBuilt(r) \/ Answer(r) \/ Timeout(r) \/ Cancel(r)

\* A goroutine that can run does; a slot is a place in a channel, granted in
\* order, so a queued closure is not overtaken for ever; a call with a
\* deadline, or whose context is canceled, ends; what is kept expires.
\* Nothing obliges the push that follows Magnet2Torrent to end.
Fairness ==
  /\ \A r \in Req :
       /\ WF_vars(GoesOn(r))
       /\ SF_vars(Start(r) \/ StartManifest(r))
  /\ \A h \in Hash : WF_vars(EvictResource(h)) /\ WF_vars(EvictManifest(h))

SafetySpec == Init /\ [][Next]_vars
Spec       == SafetySpec /\ Fairness

-----------------------------------------------------------------------------
(* Properties                                                              *)

\* Every variable has its type.
TypeOK ==
  /\ resources \in Map
  /\ manifests \in Map
  /\ pc      \in [Req -> Step]
  /\ call    \in [Req -> Call \cup {NoCall}]
  /\ live    \in [Req -> BOOLEAN]
  /\ payload \in [Req -> SUBSET Tracker]
  /\ out     \in [Req -> Outcome]
  /\ store   \in [Hash -> [state : {"held", "absent", "banned"},
                           trackers : SUBSET Tracker]]
  /\ history \in [Hash -> [held : BOOLEAN, trackers : SUBSET Tracker]]

\* A request being served has asked something, a manifest if it is in a step
\* of getManifest.
Asks ==
  \A r \in Req :
    /\ pc[r] \notin {"idle", "reply"} => call[r] # NoCall
    /\ pc[r] \in {"getManifest", "manifestWaiting", "manifestQueued", "files",
                  "manifestBuilt"} => call[r].kind = "manifest"

ManifestStep == {"manifestQueued", "files", "get", "waiting", "manifestBuilt"}
                \cup BuildStep

ResourcesAgree ==
  /\ \A h \in Hash, r \in Req :
       /\ resources.owner[h] = r <=> pc[r] \in BuildStep /\ hash(r) = h
       /\ r \in resources.waiting[h] <=> pc[r] = "waiting" /\ hash(r) = h
  /\ resources.running = {r \in Req : pc[r] \in BuildStep \ {"queued"}}

ManifestsAgree ==
  /\ \A h \in Hash, r \in Req :
       /\ manifests.owner[h] = r <=> /\ pc[r] \in ManifestStep
                                     /\ call[r].kind = "manifest"
                                     /\ hash(r) = h
       /\ r \in manifests.waiting[h] <=> pc[r] = "manifestWaiting" /\ hash(r) = h
  /\ manifests.running = {r \in Req : /\ pc[r] \in ManifestStep \ {"manifestQueued"}
                                      /\ call[r].kind = "manifest"}

\* What the maps say of the requests is what the requests do: the owner of a
\* hash is the request in its closure, the requests blocked on a hash are
\* those that wait for its closure, and a slot is held exactly as long as a
\* closure runs, the fallback of getManifest holding one in each map.  So no
\* request is left blocked on a closure nobody runs (resource.go:296, 309).
MapsAgree ==
  Asks /\ ResourcesAgree /\ ManifestsAgree /\ Sound(resources) /\ Sound(manifests)

\* The requests that ask something.
Asking == {r \in Req : call[r] # NoCall}

\* However many requests ask for a hash at once, whatever their kind, at most
\* one of them talks to the services to build its resource, and at most one
\* its manifest.
SingleFlight ==
  \A q, r \in Asking :
    /\ hash(q) = hash(r) /\ pc[q] \in BuildStep /\ pc[r] \in BuildStep => q = r
    /\ hash(q) = hash(r) /\ pc[q] = "files" /\ pc[r] = "files" => q = r

\* A resource that is kept, or returned to a request, is one of its hash, and
\* torrent-store really held it and all its trackers at some time: neither
\* map ever serves a torrent whose push failed, or another one's.
Stored(v, h) ==
  v.id = h /\ history[h].held /\ v.trackers \subseteq history[h].trackers
AnswersAreStored ==
  /\ \A h \in Hash :
       /\ Kept(resources, h) => Stored(resources.memo[h], h)
       /\ Kept(manifests, h) => Stored(manifests.memo[h], h)
  /\ \A r \in Asking : out[r].res # NoResource => Stored(out[r].res, hash(r))

\* A caller of Get is never handed a lightweight manifest, which has neither
\* torrent bytes nor piece hashes, although both maps have the same keys and
\* the closure of one calls Get of the other (resource.go:329).
FullAnswers ==
  \A r \in Asking :
    out[r].res # NoResource /\ call[r].kind # "manifest" => out[r].res.bytes

\* A request can be told that its context was canceled while its own client
\* is still there, but only by the closure of a request for the same hash
\* whose client has gone (the closure captures that request's context), or by
\* a manifest closure that fell back to such a closure and relays its error.
Relays(q) == pc[q] = "manifestBuilt" /\ out[q].err = "canceled"
CanceledByBuilder ==
  [][\A r \in Req : out'[r].err = "canceled" /\ out[r].err # "canceled" =>
       \E q \in Asking : hash(q) = hash(r) /\
                         (q = r \/ pc[r] \in {"waiting", "manifestWaiting"}) /\
                         (~live[q] \/ Relays(q))]_vars

\* Every request is answered, whoever has the slots it waits for, whoever it
\* is blocked on and whatever is nested in the closures of the two maps, unless
\* a push that follows Magnet2Torrent hangs for ever with its client still
\* there: it is the only call without a deadline (resource.go:256).
Answered(r) == []<>(pc[r] = "idle")
PushHangs   == \E q \in Req : pc[q] = "pushMagnet" /\ live[q]
AnsweredUnlessPushHangs == (\A r \in Req : Answered(r)) \/ <>[]PushHangs

\* A torrent the store bans for good stops being served out of both maps,
\* although a manifest may be filled from a resource that is about to expire,
\* and resources are kept by requests that pulled them before the ban.
BansTakeEffect ==
  \A h \in Hash : <>[](store[h].state = "banned")
                  => <>[](~Kept(resources, h) /\ ~Kept(manifests, h))

\* resource.go:211 "Always push: torrent-store merges announces/url-list with
\* whatever already exists, so re-uploading a .torrent with fresher trackers
\* extends the swarm instead of being silently dropped."
UploadNotDropped ==
  \A r \in Asking :
    pc[r] = "reply" /\ call[r].kind = "torrent" /\ 200 \in Statuses(out[r])
      => call[r].trackers \subseteq history[hash(r)].trackers

=============================================================================
