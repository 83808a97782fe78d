------------------------------ MODULE Resolve ------------------------------
(***************************************************************************)
(* What ResourceMap promises to the handlers of services/web.go, with      *)
(* nothing said of maps, slots, contexts and calls.  A request asks for a  *)
(* hash and is answered once: with a torrent the store held at some time,  *)
(* which may be long ago, or with an error, which may not: what an error   *)
(* says of the store was so while one of those who are told it waited.     *)
(* Requests for one hash may be answered together, and then they are told  *)
(* the same.                                                               *)
(***************************************************************************)
EXTENDS ErrorHandler

CONSTANTS
  Req, Hash, Tracker,
  Call, NoCall,          \* what a request may ask: a record with its kind and hash
  Resource, NoResource   \* what it may be given: id, trackers, bytes

VARIABLES
  call,     \* what the request asks
  answer,   \* a resource or an error, or Unanswered
  store,    \* torrent-store: per hash, its state and the trackers it announces
  history,  \* per hash, whether it was ever held and all it ever announced
  seen      \* what else than held its hash has been since the request arrived

vars == <<call, answer, store, history, seen>>

StoreState == {"held", "absent", "banned"}
Unanswered == [res |-> NoResource, err |-> "none"]
Waiting    == {r \in Req : call[r] # NoCall /\ answer[r] = Unanswered}

\* What an error says of the store, if it does.
Says == [forbidden |-> "banned", refused |-> "banned",
         notFound  |-> "absent", missing |-> "absent"]

-----------------------------------------------------------------------------

Init ==
  /\ call   = [r \in Req |-> NoCall]
  /\ answer = [r \in Req |-> Unanswered]
  /\ store \in [Hash -> [state : StoreState, trackers : SUBSET Tracker]]
  /\ history = [h \in Hash |-> [held     |-> store[h].state = "held",
                                trackers |-> store[h].trackers]]
  /\ seen   = [r \in Req |-> {}]

\* Those who wait see the store go from state to state.
Observe ==
  seen' = [r \in Req |->
             IF r \notin Waiting' THEN {}
             ELSE (IF r \in Waiting THEN seen[r] ELSE {})
                  \cup ({store'[call'[r].hash].state} \ {"held"})]

\* The store moves to any state, of the hash h only.
Moves(h) ==
  /\ \A g \in Hash \ {h} : store'[g] = store[g]
  /\ store'[h].state \in StoreState /\ store'[h].trackers \subseteq Tracker
  /\ history' = IF store'[h].state # "held" THEN history
                ELSE [history EXCEPT ![h] =
                        [held     |-> TRUE,
                         trackers |-> @.trackers \cup store'[h].trackers]]

Ask(r) ==
  /\ call[r] = NoCall /\ answer[r] = Unanswered
  /\ call'[r] \in Call
  /\ call' = [call EXCEPT ![r] = call'[r]]
  /\ UNCHANGED <<answer, store, history>>

\* What is asked makes no sense.
Refuse(r) ==
  /\ call[r] = NoCall /\ answer[r] = Unanswered
  /\ answer' = [answer EXCEPT ![r] = [res |-> NoResource, err |-> "parse"]]
  /\ UNCHANGED <<call, store, history>>

\* A torrent of hash h, held by the store and announcing what the store did;
\* with its bytes unless only its files were asked for.
Promised(v, h, rs) ==
  /\ v \in Resource /\ v.id = h
  /\ history'[h].held /\ v.trackers \subseteq history'[h].trackers
  /\ \A r \in rs : call[r].kind # "manifest" => v.bytes

\* An error that was true of the store while one of rs waited.
Excused(err, h, rs) ==
  /\ err \in ErrorKind \ {"parse"}
  /\ err \in DOMAIN Says => \E r \in rs : Says[err] \in seen[r]

\* The requests rs, all of hash h, are answered, the store being sent a torrent
\* meanwhile or not.
Answer(h) ==
  LET rs == {r \in Waiting : answer'[r] # Unanswered}
  IN  /\ rs # {}
      /\ \A r \in rs : call[r].hash = h
      /\ \A q, r \in rs : answer'[q] = answer'[r]
      /\ \A r \in Req \ rs : answer'[r] = answer[r]
      /\ \A r \in rs :
           \/ answer'[r].err = "none" /\ Promised(answer'[r].res, h, rs)
           \/ answer'[r].res = NoResource /\ Excused(answer'[r].err, h, rs)
      /\ Moves(h)
      /\ UNCHANGED call

\* The handler has written the answer.
Leave(r) ==
  /\ answer[r] # Unanswered
  /\ call'   = [call EXCEPT ![r] = NoCall]
  /\ answer' = [answer EXCEPT ![r] = Unanswered]
  /\ UNCHANGED <<store, history>>

Next ==
  /\ \/ \E r \in Req : Ask(r) \/ Refuse(r) \/ Leave(r)
     \/ \E h \in Hash : Answer(h) \/ (Moves(h) /\ UNCHANGED <<call, answer>>)
  /\ Observe

Spec == Init /\ [][Next]_vars

=============================================================================
