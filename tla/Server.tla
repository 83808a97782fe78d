------------------------------- MODULE Server -------------------------------
(***************************************************************************)
(* serve.go, Serve and Close of services/web.go, and the clients of        *)
(* services/torrent_store.go and services/magnet2torrent.go: how the       *)
(* process starts, shares its connections and stops.  The goroutine of     *)
(* serve() closes what the goroutines of the listener and of the requests  *)
(* are using: nobody drains requests, and no lock is held.                 *)
(***************************************************************************)
EXTENDS Naturals, Sequences, FiniteSets

CONSTANTS
  Req,  \* requests
  Idle  \* once is neither done nor being done

ASSUME ServerAssumptions == Idle \notin Req \cup {"done"}

VARIABLES
  main,      \* serve(): serving, closing, exited
  deferred,  \* what serve() has yet to close
  web,       \* Web.Serve: starting, accepting, ended
  ln,        \* Web.ln: none, open, closed, or late: opened after Close
  once,      \* per client: Idle, the request that makes it, or done
  conns,     \* per client: the connections ever made, open or closed
  conn,      \* per client: the one in its field conn, 0 if nil
  cl,        \* per client: the one once.Do left in cl, 0 if nil
  pc,        \* per client connection: idle if there is none, kept between two
             \* requests, or where its request is: working, answered, failed,
             \* dropped
  todo,      \* what it has yet to do
  holds,     \* per client, the one it was given
  fault      \* why it failed

mainVars == <<main, deferred, web, ln>>
onceVars == <<once, conns, conn, cl>>
reqVars  == <<pc, todo, holds, fault>>
vars     == <<mainVars, onceVars, reqVars>>

Client == {"ts", "m2t"}

Get(c)  == [op |-> "get", client |-> c]
Call(c) == [op |-> "call", client |-> c]

\* A push whose failure is dropped, and one that has no deadline.
Offer(c) == [op |-> "offer", client |-> c]
Push(c)  == [op |-> "push", client |-> c]

Called == {"call", "offer", "push"}

\* What ResourceMap does of it: Files, or a Touch that settles it; Touch and Pull
\* or Push; the same after a store that has no Files; for a magnet that the store
\* holds, and for one that it does not.
Program == {<<Get("ts"), Call("ts")>>,
            <<Get("ts"), Call("ts"), Call("ts")>>,
            <<Get("ts"), Call("ts"), Get("ts"), Call("ts"), Call("ts")>>,
            <<Get("ts"), Call("ts"), Call("ts"), Offer("ts")>>,
            <<Get("ts"), Call("ts"), Get("m2t"), Call("m2t"), Push("ts")>>}

\* Mutant: the web server is closed last.
DeferredUpsideDown == <<"ts", "m2t", "web">>

\* The deferred calls of serve(), the last one deferred first.
Deferred == <<"web", "m2t", "ts">>

-----------------------------------------------------------------------------

Init ==
  /\ main = "serving" /\ deferred = Deferred
  /\ web = "starting" /\ ln = "none"
  /\ once   = [c \in Client |-> Idle]
  /\ conns  = [c \in Client |-> <<>>]
  /\ conn   = [c \in Client |-> 0]
  /\ cl     = [c \in Client |-> 0]
  /\ pc     = [r \in Req |-> "idle"]
  /\ todo   = [r \in Req |-> <<>>]
  /\ holds  = [r \in Req |-> [c \in Client |-> 0]]
  /\ fault  = [r \in Req |-> "none"]

Alive == main # "exited"

(* Web.Serve *)

\* Nobody waits for the listener: Close may have found none.
Listen ==
  /\ Alive /\ web = "starting"
  /\ web' = "accepting"
  /\ ln'  = IF \E i \in DOMAIN deferred : deferred[i] = "web" THEN "open" ELSE "late"
  /\ UNCHANGED <<main, deferred, onceVars, reqVars>>

\* The address is in use, or Accept fails, as it does once the listener is
\* closed; http.Serve closes the listener when it returns.
WebEnds ==
  /\ Alive /\ web \in {"starting", "accepting"}
  /\ web' = "ended"
  /\ ln'  = IF web = "starting" THEN ln ELSE "closed"
  /\ UNCHANGED <<main, deferred, onceVars, reqVars>>

\* A request comes over a new connection, or over one that is kept alive,
\* which outlives the listener.
Accept(r) ==
  /\ Alive
  /\ \/ pc[r] = "idle" /\ web = "accepting" /\ ln # "closed"
     \/ pc[r] = "kept"
  /\ pc' = [pc EXCEPT ![r] = "working"]
  /\ \E p \in Program : todo' = [todo EXCEPT ![r] = p]
  /\ UNCHANGED <<mainVars, onceVars, holds, fault>>

-----------------------------------------------------------------------------
(* Get of a client, and the calls made with it                             *)

Doing(r, op) == Alive /\ pc[r] = "working" /\ todo[r] # <<>> /\ Head(todo[r]).op = op

Fails(r, why) ==
  /\ pc'    = [pc EXCEPT ![r] = "failed"]
  /\ fault' = [fault EXCEPT ![r] = why]
  /\ UNCHANGED todo

\* once.Do of c: r makes its client while the others wait.
Makes(r, c) == Doing(r, "get") /\ c = Head(todo[r]).client /\ once[c] = Idle

\* Mutant: nobody waits.
DialUnlocked(r) ==
  \E c \in Client :
    /\ Doing(r, "get") /\ c = Head(todo[r]).client /\ once[c] \notin {r, "done"}
    /\ once'  = [once EXCEPT ![c] = r]
    /\ conns' = [conns EXCEPT ![c] = Append(@, "open")]
    /\ conn'  = [conn EXCEPT ![c] = Len(conns'[c])]
    /\ UNCHANGED <<mainVars, cl, reqVars>>

\* Mutant: get leaves it to its caller to keep the connection.
DialUnkept(r) ==
  \E c \in Client :
    /\ Makes(r, c)
    /\ once'  = [once EXCEPT ![c] = r]
    /\ conns' = [conns EXCEPT ![c] = Append(@, "open")]
    /\ UNCHANGED <<mainVars, conn, cl, reqVars>>

\* grpc.NewClient; get keeps the connection in conn, where Close looks for it.
Dial(r) ==
  \E c \in Client :
    /\ Makes(r, c)
    /\ once'  = [once EXCEPT ![c] = r]
    /\ conns' = [conns EXCEPT ![c] = Append(@, "open")]
    /\ conn'  = [conn EXCEPT ![c] = Len(conns'[c])]
    /\ UNCHANGED <<mainVars, cl, reqVars>>

\* once.Do keeps the client in cl and is done.
Made(r) ==
  \E c \in Client :
    /\ Doing(r, "get") /\ once[c] = r
    /\ cl'   = [cl EXCEPT ![c] = Len(conns[c])]
    /\ once' = [once EXCEPT ![c] = "done"]
    /\ UNCHANGED <<mainVars, conns, conn, reqVars>>


\* Mutant: what is kept of a failed dial is taken for a connection.
DialFailsKept(r) ==
  \E c \in Client :
    /\ Makes(r, c)
    /\ once' = [once EXCEPT ![c] = "done"]
    /\ conn' = [conn EXCEPT ![c] = Len(conns[c]) + 1]
    /\ UNCHANGED <<mainVars, conns, cl, reqVars>>

\* The address makes no sense: cl is nil for good.
DialFails(r) ==
  \E c \in Client :
    /\ Makes(r, c)
    /\ once' = [once EXCEPT ![c] = "done"]
    /\ UNCHANGED <<mainVars, conns, conn, cl, reqVars>>

\* Get returns the client, or the error there was.
GetReturns(r) ==
  LET c == Head(todo[r]).client
  IN  /\ Doing(r, "get") /\ once[c] = "done"
      /\ \/ /\ cl[c] = 0
            /\ Fails(r, "client")
            /\ UNCHANGED holds
         \/ /\ cl[c] # 0
            /\ holds' = [holds EXCEPT ![r][c] = cl[c]]
            /\ todo'  = [todo EXCEPT ![r] = Tail(@)]
            /\ UNCHANGED <<pc, fault>>
      /\ UNCHANGED <<mainVars, onceVars>>

\* What a call of the service comes back with: a call over a closed connection
\* fails at once.
CallReturns(r) ==
  LET c == Head(todo[r]).client
      over == conns[c][holds[r][c]]
      offered == Head(todo[r]).op = "offer"
  IN  /\ \E op \in Called : Doing(r, op)
      /\ \/ /\ over = "open" \/ offered
            /\ todo' = [todo EXCEPT ![r] = Tail(@)]
            /\ UNCHANGED <<pc, fault>>
         \/ over = "open" /\ ~offered /\ Fails(r, "call")
         \/ over = "closed" /\ ~offered /\ Fails(r, "closing")
      /\ UNCHANGED <<mainVars, onceVars, holds>>

\* The push of what magnet2torrent found is on its way: it may stay so as long as
\* its connection is open.
Hangs(r) ==
  LET c == Head(todo[r]).client
  IN  Doing(r, "push") /\ conns[c][holds[r][c]] = "open"

Answer(r) ==
  /\ Alive /\ pc[r] = "working" /\ todo[r] = <<>>
  /\ pc' = [pc EXCEPT ![r] = "answered"]
  /\ UNCHANGED <<mainVars, onceVars, todo, holds, fault>>

\* The client reads its answer, and goes or keeps its connection.
Leave(r) ==
  /\ Alive /\ pc[r] \in {"answered", "failed"}
  /\ \E next \in {"idle", "kept"} : pc' = [pc EXCEPT ![r] = next]
  /\ todo'  = [todo EXCEPT ![r] = <<>>]
  /\ holds' = [holds EXCEPT ![r] = [c \in Client |-> 0]]
  /\ fault' = [fault EXCEPT ![r] = "none"]
  /\ UNCHANGED <<mainVars, onceVars>>

-----------------------------------------------------------------------------
(* serve()                                                                 *)

\* A service ended, or the process is told to stop: serve.Serve returns.
Stop ==
  /\ main = "serving"
  /\ main' = "closing"
  /\ UNCHANGED <<deferred, web, ln, onceVars, reqVars>>

\* Close of a client looks at conn, that of the web server at ln; nil is let be.
Close ==
  /\ main = "closing" /\ deferred # <<>>
  /\ deferred' = Tail(deferred)
  /\ \/ /\ Head(deferred) = "web"
        /\ ln' = IF ln = "open" THEN "closed" ELSE ln
        /\ UNCHANGED conns
     \/ /\ Head(deferred) \in Client
        /\ LET c == Head(deferred)
           IN  conns' = IF conn[c] = 0 THEN conns
                        ELSE [conns EXCEPT ![c][conn[c]] = "closed"]
        /\ UNCHANGED ln
  /\ UNCHANGED <<main, web, once, conn, cl, reqVars>>

\* main returns, and with it whatever was going on.
Exit ==
  /\ main = "closing" /\ deferred = <<>>
  /\ main' = "exited"
  /\ pc'   = [r \in Req |-> IF pc[r] = "working" THEN "dropped" ELSE pc[r]]
  /\ UNCHANGED <<deferred, web, ln, onceVars, todo, holds, fault>>

Gone == ~Alive /\ UNCHANGED vars

-----------------------------------------------------------------------------

Work(r) ==
  \/ Dial(r) \/ DialFails(r) \/ Made(r) \/ GetReturns(r) \/ CallReturns(r)
  \/ Answer(r)

Next ==
  \/ Listen \/ WebEnds \/ Stop \/ Close \/ Exit \/ Gone
  \/ \E r \in Req : Accept(r) \/ Work(r) \/ Leave(r)

\* A goroutine that can run does, a call that has a deadline ends by it, and
\* serve() returns when a service has.
Fairness ==
  /\ \A r \in Req : WF_vars(~Hangs(r) /\ Work(r))
  /\ WF_vars(Close \/ Exit)
  /\ WF_vars(web = "ended" /\ Stop)

Spec == Init /\ [][Next]_vars /\ Fairness

-----------------------------------------------------------------------------

TypeOK ==
  /\ main \in {"serving", "closing", "exited"}
  /\ deferred \in Seq(Client \cup {"web"})
  /\ web \in {"starting", "accepting", "ended"}
  /\ ln \in {"none", "open", "closed", "late"}
  /\ once \in [Client -> Req \cup {Idle, "done"}]
  /\ conns \in [Client -> Seq({"open", "closed"})]
  /\ conn \in [Client -> Nat] /\ cl \in [Client -> Nat]
  /\ \A c \in Client : conn[c] <= Len(conns[c]) /\ cl[c] <= Len(conns[c])
  /\ pc \in [Req -> {"idle", "kept", "working", "answered", "failed", "dropped"}]
  /\ holds \in [Req -> [Client -> Nat]]
  /\ \A r \in Req, c \in Client : holds[r][c] <= Len(conns[c])
  /\ todo \in [Req -> Seq([op : Called \cup {"get"}, client : Client])]
  /\ fault \in [Req -> {"none", "client", "call", "closing"}]

\* One connection to each service is made in the life of the process, however
\* many requests ask for it first at once, while it is being made, or after
\* Close; and whoever has a client has that one.
OneConnection ==
  \A c \in Client :
    /\ Len(conns[c]) <= 1
    /\ \A q, r \in Req : holds[q][c] # 0 /\ holds[r][c] # 0 => holds[q][c] = holds[r][c]

\* No request fails because the process closes its own connections while it
\* still takes new clients: the listener goes first (serve.go:148).  The exception
\* is a listener that is made when Close has already looked for it.
ListenerGoesFirst ==
  \A r \in Req : fault[r] = "closing" => ln # "open"

\* Close of a client, which looks at its conn without the lock that wrote it,
\* leaves nobody with an open connection who has got it by then: a connection
\* it misses is one no Get has returned (torrent_store.go:65, 80).  The word is
\* read whole and as it is at that moment.
CloseReaches ==
  [][\A c \in Client : deferred # <<>> /\ Head(deferred) = c /\ deferred' = Tail(deferred)
       => \A r \in Req : holds[r][c] # 0 => conns'[c][holds[r][c]] = "closed"]_vars


=============================================================================
