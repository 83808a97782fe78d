---------------------------- MODULE ServerProofs ----------------------------
(***************************************************************************)
(* Theorems about Server, for any number of requests.                      *)
(***************************************************************************)
EXTENDS Server, TLAPS

Op == [op : Called \cup {"get"}, client : Client]

\* What a request has to do.
LEMMA ProgramOps == Program \subseteq Seq(Op)
BY DEF Program, Get, Call, Offer, Push, Called, Op, Client

\* A request that is at an operation has one, and the rest are operations.
LEMMA DoingOps ==
  ASSUME TypeOK, NEW r \in Req, NEW op, Doing(r, op)
  PROVE  /\ Head(todo[r]) \in Op /\ Head(todo[r]).client \in Client
         /\ Tail(todo[r]) \in Seq(Op)
<1>1. todo[r] \in Seq(Op) /\ todo[r] # <<>>
  BY DEF TypeOK, Doing, Op
<1>2. Head(todo[r]) \in Op /\ Tail(todo[r]) \in Seq(Op)
  BY <1>1
<1> QED
  BY <1>2 DEF Op

-----------------------------------------------------------------------------
(* Types                                                                   *)

LEMMA InitType == Init => TypeOK
BY ServerAssumptions DEF Init, TypeOK, Deferred, Client

LEMMA WebType ==
  ASSUME TypeOK, Listen \/ WebEnds \/ Stop \/ Exit \/ Gone
  PROVE  TypeOK'
<1>1. CASE Listen
  BY <1>1 DEF TypeOK, Listen, onceVars, reqVars
<1>2. CASE WebEnds
  BY <1>2 DEF TypeOK, WebEnds, onceVars, reqVars
<1>3. CASE Stop
  BY <1>3 DEF TypeOK, Stop, onceVars, reqVars
<1>4. CASE Exit
  BY <1>4 DEF TypeOK, Exit, onceVars
<1>5. CASE Gone
  BY <1>5 DEF TypeOK, Gone, vars, mainVars, onceVars, reqVars
<1> QED
  BY <1>1, <1>2, <1>3, <1>4, <1>5

LEMMA CloseType ==
  ASSUME TypeOK, Close
  PROVE  TypeOK'
<1>1. deferred' \in Seq(Client \cup {"web"})
  BY DEF TypeOK, Close
<1>2. /\ conns' \in [Client -> Seq({"open", "closed"})]
      /\ \A c \in Client : Len(conns'[c]) = Len(conns[c])
  <2>1. CASE Head(deferred) = "web"
    BY <2>1 DEF TypeOK, Close, Client
  <2>2. CASE Head(deferred) \in Client
    <3> DEFINE c == Head(deferred)
    <3>1. CASE conn[c] = 0
      BY <2>2, <3>1 DEF TypeOK, Close, Client
    <3>2. CASE conn[c] # 0
      <4>1. conn[c] \in 1..Len(conns[c]) /\ conns[c] \in Seq({"open", "closed"})
        BY <2>2, <3>2 DEF TypeOK
      <4>2. conns' = [conns EXCEPT ![c] = [conns[c] EXCEPT ![conn[c]] = "closed"]]
        BY <2>2, <3>2 DEF Close, Client
      <4>3. /\ [conns[c] EXCEPT ![conn[c]] = "closed"] \in Seq({"open", "closed"})
            /\ Len([conns[c] EXCEPT ![conn[c]] = "closed"]) = Len(conns[c])
        BY <4>1
      <4> QED
        BY <2>2, <4>2, <4>3 DEF TypeOK
    <3> QED
      BY <3>1, <3>2
  <2> QED
    BY <2>1, <2>2 DEF Close
<1>3. ln' \in {"none", "open", "closed", "late"}
  BY DEF TypeOK, Close
<1> QED
  BY <1>1, <1>2, <1>3 DEF TypeOK, Close, reqVars

LEMMA RequestType ==
  ASSUME TypeOK, NEW r \in Req, Accept(r) \/ Answer(r) \/ Leave(r)
  PROVE  TypeOK'
<1>1. CASE Accept(r)
  BY <1>1, ProgramOps DEF TypeOK, Accept, mainVars, onceVars, Op
<1>2. CASE Answer(r)
  BY <1>2 DEF TypeOK, Answer, mainVars, onceVars
<1>3. CASE Leave(r)
  <2>1. /\ pc' \in [Req -> {"idle", "kept", "working", "answered", "failed", "dropped"}]
        /\ fault' \in [Req -> {"none", "client", "call", "closing"}]
    <3>1. PICK next \in {"idle", "kept"} : pc' = [pc EXCEPT ![r] = next]
      BY <1>3 DEF Leave
    <3>2. fault' = [fault EXCEPT ![r] = "none"]
      BY <1>3 DEF Leave
    <3> QED
      BY <3>1, <3>2 DEF TypeOK
  <2>2. todo' \in [Req -> Seq(Op)]
    <3>1. todo \in [Req -> Seq(Op)]
      BY DEF TypeOK, Op
    <3>2. todo' = [todo EXCEPT ![r] = <<>>]
      BY <1>3 DEF Leave
    <3>3. <<>> \in Seq(Op)
      OBVIOUS
    <3> QED
      BY <3>1, <3>2, <3>3
  <2>3. holds' = [holds EXCEPT ![r] = [c \in Client |-> 0]]
    BY <1>3 DEF Leave
  <2>4. /\ holds' \in [Req -> [Client -> Nat]]
        /\ \A q \in Req, c \in Client : holds'[q][c] = holds[q][c] \/ holds'[q][c] = 0
    BY <2>3 DEF TypeOK
  <2>5. \A q \in Req, c \in Client : holds'[q][c] <= Len(conns[c])
    <3>1. /\ \A c \in Client : Len(conns[c]) \in Nat
          /\ \A q \in Req, c \in Client : holds[q][c] <= Len(conns[c])
      BY DEF TypeOK
    <3>2. ASSUME NEW n \in Nat PROVE 0 <= n
      BY <3>2
    <3> QED
      BY <2>4, <3>1, <3>2
  <2>6. UNCHANGED <<mainVars, onceVars>>
    BY <1>3 DEF Leave
  <2> QED
    BY <2>1, <2>2, <2>4, <2>5, <2>6 DEF TypeOK, mainVars, onceVars, Op
<1> QED
  BY <1>1, <1>2, <1>3

LEMMA DialType ==
  ASSUME TypeOK, NEW r \in Req, Dial(r)
  PROVE  TypeOK'
<1>1. PICK c \in Client :
        /\ Makes(r, c)
        /\ once'  = [once EXCEPT ![c] = r]
        /\ conns' = [conns EXCEPT ![c] = Append(@, "open")]
        /\ conn'  = [conn EXCEPT ![c] = Len(conns'[c])]
        /\ UNCHANGED <<mainVars, cl, reqVars>>
  BY DEF Dial
<1>2. /\ conns[c] \in Seq({"open", "closed"})
      /\ conns'[c] = Append(conns[c], "open")
  BY <1>1 DEF TypeOK
<1>3. /\ conns'[c] \in Seq({"open", "closed"})
      /\ Len(conns'[c]) = Len(conns[c]) + 1 /\ Len(conns[c]) \in Nat
  BY <1>2
<1>4. \A d \in Client : /\ Len(conns[d]) \in Nat /\ Len(conns'[d]) \in Nat
                        /\ Len(conns[d]) <= Len(conns'[d])
  BY <1>1, <1>3 DEF TypeOK
<1>5. conns' \in [Client -> Seq({"open", "closed"})] /\ once' \in [Client -> Req \cup {Idle, "done"}]
  BY <1>1, <1>3 DEF TypeOK
<1>6. conn' \in [Client -> Nat] /\ \A d \in Client : conn'[d] <= Len(conns'[d])
  BY <1>1, <1>3, <1>4 DEF TypeOK
<1>7. \A d \in Client : /\ cl'[d] <= Len(conns'[d])
                        /\ \A q \in Req : holds'[q][d] <= Len(conns'[d])
  BY <1>1, <1>4 DEF TypeOK, reqVars
<1> QED
  BY <1>1, <1>5, <1>6, <1>7 DEF TypeOK, mainVars, reqVars

LEMMA OnceType ==
  ASSUME TypeOK, NEW r \in Req, Made(r) \/ DialFails(r)
  PROVE  TypeOK'
<1>1. CASE Made(r)
  <2>1. PICK c \in Client :
          /\ cl'   = [cl EXCEPT ![c] = Len(conns[c])]
          /\ once' = [once EXCEPT ![c] = "done"]
          /\ UNCHANGED <<mainVars, conns, conn, reqVars>>
    BY <1>1 DEF Made
  <2>2. \A d \in Client : Len(conns[d]) \in Nat
    BY DEF TypeOK
  <2>3. cl' \in [Client -> Nat] /\ once' \in [Client -> Req \cup {Idle, "done"}]
    BY <2>1, <2>2 DEF TypeOK
  <2>4. \A d \in Client : cl'[d] <= Len(conns[d])
    BY <2>1, <2>2 DEF TypeOK
  <2> QED
    BY <2>1, <2>3, <2>4 DEF TypeOK, mainVars, reqVars
<1>2. CASE DialFails(r)
  BY <1>2 DEF TypeOK, DialFails, mainVars, reqVars
<1> QED
  BY <1>1, <1>2

LEMMA CallType ==
  ASSUME TypeOK, NEW r \in Req, GetReturns(r) \/ CallReturns(r)
  PROVE  TypeOK'
<1>1. CASE GetReturns(r)
  <2> DEFINE c == Head(todo[r]).client
  <2>1. c \in Client /\ Tail(todo[r]) \in Seq(Op)
    BY <1>1, DoingOps DEF GetReturns
  <2>2. CASE cl[c] = 0 /\ Fails(r, "client") /\ UNCHANGED holds
    BY <1>1, <2>2 DEF TypeOK, GetReturns, Fails, mainVars, onceVars
  <2>3. CASE /\ holds' = [holds EXCEPT ![r][c] = cl[c]]
             /\ todo'  = [todo EXCEPT ![r] = Tail(@)]
             /\ UNCHANGED <<pc, fault>>
    <3>1. todo' \in [Req -> Seq([op : Called \cup {"get"}, client : Client])]
      BY <2>1, <2>3 DEF TypeOK, Op
    <3>2. cl[c] \in Nat /\ cl[c] <= Len(conns[c])
      BY <2>1 DEF TypeOK
    <3>3. /\ holds' \in [Req -> [Client -> Nat]]
          /\ \A q \in Req, d \in Client : holds'[q][d] <= Len(conns[d])
      BY <2>1, <2>3, <3>2 DEF TypeOK
    <3> QED
      BY <1>1, <2>3, <3>1, <3>3 DEF TypeOK, GetReturns, mainVars, onceVars
  <2> QED
    BY <1>1, <2>2, <2>3 DEF GetReturns
<1>2. CASE CallReturns(r)
  <2>1. Tail(todo[r]) \in Seq(Op)
    BY <1>2, DoingOps DEF CallReturns
  <2>2. todo' \in [Req -> Seq([op : Called \cup {"get"}, client : Client])]
    BY <1>2, <2>1 DEF TypeOK, CallReturns, Fails, Op
  <2>3. /\ pc' \in [Req -> {"idle", "kept", "working", "answered", "failed", "dropped"}]
        /\ fault' \in [Req -> {"none", "client", "call", "closing"}]
    BY <1>2 DEF TypeOK, CallReturns, Fails
  <2> QED
    BY <1>2, <2>2, <2>3 DEF TypeOK, CallReturns, mainVars, onceVars
<1> QED
  BY <1>1, <1>2

LEMMA NextType == TypeOK /\ [Next]_vars => TypeOK'
<1> SUFFICES ASSUME TypeOK, [Next]_vars PROVE TypeOK'
  OBVIOUS
<1>1. CASE UNCHANGED vars
  BY <1>1 DEF TypeOK, vars, mainVars, onceVars, reqVars
<1>2. CASE Close
  BY <1>2, CloseType
<1>3. CASE Listen \/ WebEnds \/ Stop \/ Exit \/ Gone
  BY <1>3, WebType
<1>4. ASSUME NEW r \in Req, Accept(r) \/ Work(r) \/ Leave(r)
      PROVE  TypeOK'
  BY <1>4, RequestType, DialType, OnceType, CallType DEF Work
<1> QED
  BY <1>1, <1>2, <1>3, <1>4 DEF Next

\* The variables have their types, however many requests there are: no client
\* and no request has a connection that was never made.
THEOREM TypeCorrect == Spec => []TypeOK
<1> QED
  BY InitType, NextType, PTL DEF Spec

-----------------------------------------------------------------------------
(* Connections                                                             *)

\* What OneConnection rests on: there is no connection until once.Do has begun,
\* it begins once, and Close finds in conn whatever was made.
Kept ==
  \A c \in Client :
    /\ Len(conns[c]) <= 1
    /\ once[c] = Idle => conns[c] = <<>>
    /\ conn[c] = Len(conns[c])

LEMMA KeptInit == Init => Kept
BY DEF Init, Kept

LEMMA DialKeeps ==
  ASSUME TypeOK, Kept, NEW r \in Req, Dial(r)
  PROVE  Kept'
<1>1. PICK c \in Client :
        /\ Makes(r, c)
        /\ once'  = [once EXCEPT ![c] = r]
        /\ conns' = [conns EXCEPT ![c] = Append(@, "open")]
        /\ conn'  = [conn EXCEPT ![c] = Len(conns'[c])]
  BY DEF Dial
<1>2. conns[c] = <<>> /\ once'[c] # Idle
  BY <1>1, ServerAssumptions DEF Kept, Makes, TypeOK
<1>3. conns'[c] = Append(<<>>, "open") /\ conn'[c] = Len(conns'[c])
  BY <1>1, <1>2 DEF TypeOK
<1>4. Len(conns'[c]) <= 1
  BY <1>3
<1>5. \A d \in Client \ {c} : conns'[d] = conns[d] /\ conn'[d] = conn[d] /\ once'[d] = once[d]
  BY <1>1 DEF TypeOK
<1> QED
  BY <1>2, <1>3, <1>4, <1>5 DEF Kept

LEMMA CloseKeeps ==
  ASSUME TypeOK, Kept, Close
  PROVE  Kept'
<1>1. UNCHANGED <<once, conn>>
  BY DEF Close
<1>2. CASE UNCHANGED conns
  BY <1>1, <1>2 DEF Kept
<1>3. ASSUME NEW c \in Client, conn[c] # 0,
             conns' = [conns EXCEPT ![c][conn[c]] = "closed"]
      PROVE  Kept'
  <2>1. conns[c] \in Seq({"open", "closed"}) /\ conns[c] # <<>>
    BY <1>3 DEF TypeOK, Kept
  <2>2. conns'[c] = [conns[c] EXCEPT ![conn[c]] = "closed"]
    BY <1>3 DEF TypeOK
  <2>3. Len(conns'[c]) = Len(conns[c])
    BY <2>1, <2>2
  <2>4. once[c] # Idle
    BY <2>1 DEF Kept
  <2>5. \A d \in Client \ {c} : conns'[d] = conns[d]
    BY <1>3 DEF TypeOK
  <2> QED
    BY <1>1, <2>3, <2>4, <2>5 DEF Kept
<1> QED
  BY <1>2, <1>3 DEF Close

LEMMA NextKeeps == TypeOK /\ Kept /\ [Next]_vars => Kept'
<1> SUFFICES ASSUME TypeOK, Kept, [Next]_vars PROVE Kept'
  OBVIOUS
<1>1. CASE UNCHANGED onceVars
  BY <1>1 DEF Kept, onceVars
<1>2. CASE Close
  BY <1>2, CloseKeeps
<1>3. ASSUME NEW r \in Req, Dial(r)
      PROVE  Kept'
  BY <1>3, DialKeeps
<1>4. ASSUME NEW r \in Req, Made(r) \/ DialFails(r)
      PROVE  Kept'
  <2>1. UNCHANGED <<conns, conn>>
    BY <1>4 DEF Made, DialFails
  <2>2. PICK c \in Client : once' = [once EXCEPT ![c] = "done"]
    BY <1>4 DEF Made, DialFails
  <2>3. \A d \in Client : once'[d] = Idle => once[d] = Idle
    BY <2>2, ServerAssumptions DEF TypeOK
  <2> QED
    BY <2>1, <2>3 DEF Kept
<1>5. CASE Listen \/ WebEnds \/ Stop \/ Exit \/ Gone
  BY <1>1, <1>5 DEF Listen, WebEnds, Stop, Exit, Gone, vars
<1>6. ASSUME NEW r \in Req,
             Accept(r) \/ GetReturns(r) \/ CallReturns(r) \/ Answer(r) \/ Leave(r)
      PROVE  Kept'
  BY <1>1, <1>6 DEF Accept, GetReturns, CallReturns, Answer, Leave
<1>7. CASE UNCHANGED vars
  BY <1>1, <1>7 DEF vars
<1> QED
  BY <1>2, <1>3, <1>4, <1>5, <1>6, <1>7 DEF Next, Work

\* One connection to each service is made in the life of the process: every
\* request that got a client has the only one there is.
THEOREM OneConnectionAlways == Spec => []OneConnection
<1>1. ASSUME TypeOK, Kept PROVE OneConnection
  <2>1. ASSUME NEW c \in Client, NEW r \in Req, holds[r][c] # 0
        PROVE  holds[r][c] = 1
    <3>1. /\ holds[r][c] \in Nat /\ Len(conns[c]) \in Nat
          /\ holds[r][c] <= Len(conns[c]) /\ Len(conns[c]) <= 1
      BY <1>1 DEF TypeOK, Kept
    <3> QED
      BY <2>1, <3>1
  <2> QED
    BY <1>1, <2>1 DEF OneConnection, Kept
<1> QED
  BY <1>1, InitType, NextType, KeptInit, NextKeeps, PTL DEF Spec

\* Only serve() closes what it deferred.
LEMMA OnlyCloseDefers ==
  ASSUME TypeOK, [Next]_vars, deferred # <<>>, deferred' = Tail(deferred)
  PROVE  Close
<1>1. deferred' # deferred
  <2>1. deferred \in Seq(Client \cup {"web"})
    BY DEF TypeOK
  <2>2. Len(Tail(deferred)) = Len(deferred) - 1 /\ Len(deferred) \in Nat
    BY <2>1
  <2>3. ASSUME NEW n \in Nat PROVE n - 1 # n
    BY <2>3
  <2>4. Len(Tail(deferred)) # Len(deferred)
    BY <2>2, <2>3
  <2> QED
    BY <2>4
<1> QED
  BY <1>1 DEF Next, Work, Listen, WebEnds, Stop, Exit, Gone, Accept, Dial, DialFails,
              Made, GetReturns, CallReturns, Answer, Leave, vars, mainVars

\* Close of a client, which looks at conn without the lock that wrote it, leaves
\* nobody with an open connection: whoever has one has the one in conn.
THEOREM CloseReachesAlways == Spec => CloseReaches
<1> DEFINE Reaches ==
      \A c \in Client : deferred # <<>> /\ Head(deferred) = c /\ deferred' = Tail(deferred)
        => \A r \in Req : holds[r][c] # 0 => conns'[c][holds[r][c]] = "closed"
<1>1. ASSUME TypeOK, Kept, [Next]_vars PROVE Reaches
  <2> SUFFICES ASSUME NEW c \in Client, deferred # <<>>, Head(deferred) = c,
                      deferred' = Tail(deferred), NEW r \in Req, holds[r][c] # 0
               PROVE  conns'[c][holds[r][c]] = "closed"
    OBVIOUS
  <2>1. Close
    BY <1>1, OnlyCloseDefers
  <2>2. /\ holds[r][c] \in Nat /\ conns[c] \in Seq({"open", "closed"})
        /\ holds[r][c] <= Len(conns[c]) /\ Len(conns[c]) <= 1 /\ conn[c] = Len(conns[c])
    BY <1>1 DEF TypeOK, Kept
  <2>3. holds[r][c] = 1 /\ conn[c] = 1 /\ Len(conns[c]) = 1
    <3>1. Len(conns[c]) \in Nat
      BY <2>2
    <3>2. ASSUME NEW n \in Nat, NEW k \in Nat, n # 0, n <= k, k <= 1
          PROVE  n = 1 /\ k = 1
      BY <3>2
    <3> QED
      BY <2>2, <3>1, <3>2
  <2>4. conns' = [conns EXCEPT ![c][conn[c]] = "closed"]
    BY <2>1, <2>3 DEF Close, Client
  <2>5. conns'[c] = [conns[c] EXCEPT ![1] = "closed"]
    BY <1>1, <2>3, <2>4 DEF TypeOK
  <2> QED
    BY <2>2, <2>3, <2>5
<1>2. TypeOK /\ Kept /\ [Next]_vars => [Reaches]_vars
  BY <1>1
<1> QED
  BY <1>2, InitType, NextType, KeptInit, NextKeeps, PTL DEF Spec, CloseReaches

-----------------------------------------------------------------------------
(* The order of closing                                                    *)

\* Every call of s is made with a client that hs has, or that s gets before.
Handed(s, hs) ==
  \A i \in DOMAIN s : s[i].op \in Called =>
    hs[s[i].client] # 0 \/ \E j \in 1..(i - 1) : s[j] = Get(s[i].client)

\* Every call of p is made with a client that p got before.
GetsFirst(p) ==
  \A i \in DOMAIN p : p[i].op \in Called => \E j \in 1..(i - 1) : p[j] = Get(p[i].client)

LEMMA ProgramGetsFirst ==
  ASSUME NEW p \in Program
  PROVE  GetsFirst(p)
<1> USE DEF GetsFirst, Called, Get, Call, Offer, Push
<1>1. CASE p = <<Get("ts"), Call("ts")>>
  <2>1. DOMAIN p = 1..2 /\ p[1] = Get("ts") /\ p[2] = Call("ts")
    BY <1>1
  <2> QED
    BY <2>1
<1>2. CASE p = <<Get("ts"), Call("ts"), Call("ts")>>
  <2>1. DOMAIN p = 1..3 /\ p[1] = Get("ts") /\ p[2] = Call("ts") /\ p[3] = Call("ts")
    BY <1>2
  <2>2. \A i \in 2..3 : 1 \in 1..(i - 1)
    OBVIOUS
  <2> QED
    BY <2>1, <2>2
<1>3. CASE p = <<Get("ts"), Call("ts"), Get("ts"), Call("ts"), Call("ts")>>
  <2>1. /\ DOMAIN p = 1..5 /\ p[1] = Get("ts") /\ p[2] = Call("ts")
        /\ p[3] = Get("ts") /\ p[4] = Call("ts") /\ p[5] = Call("ts")
    BY <1>3
  <2>2. \A i \in 2..5 : 1 \in 1..(i - 1)
    OBVIOUS
  <2> QED
    BY <2>1, <2>2
<1>4. CASE p = <<Get("ts"), Call("ts"), Call("ts"), Offer("ts")>>
  <2>1. /\ DOMAIN p = 1..4 /\ p[1] = Get("ts") /\ p[2] = Call("ts")
        /\ p[3] = Call("ts") /\ p[4] = Offer("ts")
    BY <1>4
  <2>2. \A i \in 2..4 : 1 \in 1..(i - 1)
    OBVIOUS
  <2> QED
    BY <2>1, <2>2
<1>5. CASE p = <<Get("ts"), Call("ts"), Get("m2t"), Call("m2t"), Push("ts")>>
  <2>1. /\ DOMAIN p = 1..5 /\ p[1] = Get("ts") /\ p[2] = Call("ts")
        /\ p[3] = Get("m2t") /\ p[4] = Call("m2t") /\ p[5] = Push("ts")
    BY <1>5
  <2>2. \A i \in 2..5 : 1 \in 1..(i - 1)
    OBVIOUS
  <2>3. 3 \in 1..(4 - 1)
    OBVIOUS
  <2> QED
    BY <2>1, <2>2, <2>3
<1> QED
  BY <1>1, <1>2, <1>3, <1>4, <1>5 DEF Program

LEMMA ProgramHanded ==
  ASSUME NEW p \in Program, NEW hs
  PROVE  Handed(p, hs)
BY ProgramGetsFirst DEF GetsFirst, Handed

\* What is left when the first operation is done.
LEMMA HandedTail ==
  ASSUME NEW s \in Seq(Op), s # <<>>, NEW hs, NEW hs1, Handed(s, hs),
         \A c \in Client : hs[c] # 0 => hs1[c] # 0,
         Head(s).op = "get" => hs1[Head(s).client] # 0
  PROVE  Handed(Tail(s), hs1)
<1> SUFFICES ASSUME NEW i \in DOMAIN Tail(s), Tail(s)[i].op \in Called,
                    hs1[Tail(s)[i].client] = 0
             PROVE  \E j \in 1..(i - 1) : Tail(s)[j] = Get(Tail(s)[i].client)
  BY DEF Handed
<1>1. /\ i \in 1..(Len(s) - 1) /\ Len(s) \in Nat /\ i + 1 \in DOMAIN s
      /\ Tail(s)[i] = s[i + 1] /\ s[i + 1] \in Op /\ Head(s) = s[1]
  OBVIOUS
<1>2. s[i + 1].op \in Called /\ s[i + 1].client \in Client /\ hs[s[i + 1].client] = 0
  BY <1>1 DEF Op
<1>3. PICK j \in 1..((i + 1) - 1) : s[j] = Get(s[i + 1].client)
  BY <1>1, <1>2 DEF Handed
<1>4. j # 1
  BY <1>1, <1>3 DEF Get
<1>5. j - 1 \in 1..(i - 1) /\ Tail(s)[j - 1] = s[j]
  BY <1>1, <1>3, <1>4
<1> QED
  BY <1>1, <1>3, <1>5

\* The first operation, if it is a call.
LEMMA HandedHead ==
  ASSUME NEW s \in Seq(Op), s # <<>>, NEW hs, Handed(s, hs), Head(s).op \in Called
  PROVE  hs[Head(s).client] # 0
<1>1. 1 \in DOMAIN s /\ Head(s) = s[1]
  OBVIOUS
<1>2. ~\E j \in 1..(1 - 1) : s[j] = Get(s[1].client)
  OBVIOUS
<1> QED
  BY <1>1, <1>2 DEF Handed

\* What ListenerGoesFirst rests on: as long as the listener has not been closed
\* no connection has, and calls are made with connections there are.
Order ==
  /\ deferred \in {Deferred, <<"m2t", "ts">>, <<"ts">>, <<>>}
  /\ deferred = Deferred => \A c \in Client : \A i \in DOMAIN conns[c] : conns[c][i] = "open"
  /\ deferred # Deferred => ln # "open"
  /\ \A r \in Req : fault[r] = "closing" => deferred # Deferred
  /\ \A r \in Req : Handed(todo[r], holds[r])

\* What is left to close, one by one.
LEMMA DeferredOps ==
  /\ Tail(Deferred) = <<"m2t", "ts">> /\ Head(Deferred) = "web"
  /\ Tail(<<"m2t", "ts">>) = <<"ts">> /\ Tail(<<"ts">>) = <<>>
  /\ \A s \in {<<"m2t", "ts">>, <<"ts">>, <<>>} :
       s # Deferred /\ \A i \in DOMAIN s : s[i] # "web"
  /\ Head(<<"m2t", "ts">>) # "web" /\ Head(<<"ts">>) # "web"
BY DEF Deferred

LEMMA OrderInit == Init => Order
<1>1. Init => \A c \in Client : conns[c] = <<>>
  BY DEF Init
<1>2. Init => \A r \in Req : todo[r] = <<>>
  BY DEF Init
<1> QED
  BY <1>1, <1>2 DEF Init, Order, Handed

LEMMA CloseOrders ==
  ASSUME TypeOK, Order, Close
  PROVE  Order'
<1>1. deferred # <<>> /\ deferred' = Tail(deferred)
  BY DEF Close
<1>2. deferred' \in {<<"m2t", "ts">>, <<"ts">>, <<>>}
  BY <1>1, DeferredOps DEF Order
<1>3. deferred' # Deferred
  BY <1>2, DeferredOps
<1>4. ln' # "open"
  <2>1. CASE deferred = Deferred
    BY <2>1, DeferredOps DEF Close, Client
  <2>2. CASE deferred # Deferred
    BY <2>2, <1>1, DeferredOps DEF Order, Close
  <2> QED
    BY <2>1, <2>2
<1> QED
  BY <1>2, <1>3, <1>4 DEF Order, Close, reqVars

LEMMA WebOrders ==
  ASSUME TypeOK, Order, Listen \/ WebEnds \/ Stop \/ Exit \/ Gone
  PROVE  Order'
<1>1. UNCHANGED <<deferred, conns, todo, holds, fault>>
  BY DEF Listen, WebEnds, Stop, Exit, Gone, vars, mainVars, onceVars, reqVars
<1>2. deferred # Deferred => ln' # "open"
  <2>1. CASE Listen
    BY <2>1, DeferredOps DEF Listen, Order
  <2>2. CASE ~Listen
    BY <2>2 DEF WebEnds, Stop, Exit, Gone, vars, mainVars, Order
  <2> QED
    BY <2>1, <2>2
<1> QED
  BY <1>1, <1>2 DEF Order

LEMMA DialOrders ==
  ASSUME TypeOK, Order, NEW r \in Req, Dial(r) \/ Made(r) \/ DialFails(r)
  PROVE  Order'
<1>1. UNCHANGED <<deferred, ln, todo, holds, fault>>
  BY DEF Dial, Made, DialFails, mainVars, reqVars
<1>2. deferred = Deferred => \A c \in Client : \A i \in DOMAIN conns'[c] : conns'[c][i] = "open"
  <2>1. CASE UNCHANGED conns
    BY <2>1 DEF Order
  <2>2. ASSUME NEW c \in Client, conns' = [conns EXCEPT ![c] = Append(@, "open")],
               deferred = Deferred
        PROVE  \A d \in Client : \A i \in DOMAIN conns'[d] : conns'[d][i] = "open"
    <3>1. conns[c] \in Seq({"open", "closed"}) /\ conns'[c] = Append(conns[c], "open")
      BY <2>2 DEF TypeOK
    <3>2. \A i \in DOMAIN conns[c] : conns[c][i] = "open"
      BY <2>2 DEF Order
    <3>3. \A i \in DOMAIN conns'[c] : conns'[c][i] = "open"
      BY <3>1, <3>2
    <3>4. \A d \in Client \ {c} : conns'[d] = conns[d]
      BY <2>2 DEF TypeOK
    <3> QED
      BY <2>2, <3>3, <3>4 DEF Order
  <2> QED
    BY <2>1, <2>2 DEF Dial, Made, DialFails
<1> QED
  BY <1>1, <1>2 DEF Order

LEMMA RequestOrders ==
  ASSUME TypeOK, Order, NEW r \in Req, Accept(r) \/ Answer(r) \/ Leave(r)
  PROVE  Order'
<1>1. UNCHANGED <<deferred, ln, conns>>
  BY DEF Accept, Answer, Leave, mainVars, onceVars
<1>2. \A q \in Req : fault'[q] = "closing" => fault[q] = "closing"
  BY DEF Accept, Answer, Leave, TypeOK
<1>3. \A q \in Req : Handed(todo'[q], holds'[q])
  <2>1. CASE Accept(r)
    <3>1. PICK p \in Program : todo' = [todo EXCEPT ![r] = p]
      BY <2>1 DEF Accept
    <3>2. UNCHANGED holds
      BY <2>1 DEF Accept
    <3> QED
      BY <3>1, <3>2, ProgramHanded DEF TypeOK, Order
  <2>2. CASE Answer(r)
    BY <2>2 DEF Answer, Order
  <2>3. CASE Leave(r)
    <3>1. todo'[r] = <<>> /\ \A q \in Req \ {r} : todo'[q] = todo[q] /\ holds'[q] = holds[q]
      BY <2>3 DEF Leave, TypeOK
    <3>2. Handed(todo'[r], holds'[r])
      BY <3>1 DEF Handed
    <3> QED
      BY <3>1, <3>2 DEF Order
  <2> QED
    BY <2>1, <2>2, <2>3
<1> QED
  BY <1>1, <1>2, <1>3 DEF Order

LEMMA GetOrders ==
  ASSUME TypeOK, Order, NEW r \in Req, GetReturns(r)
  PROVE  Order'
<1> DEFINE c == Head(todo[r]).client
<1>1. UNCHANGED <<deferred, ln, conns>>
  BY DEF GetReturns, mainVars, onceVars
<1>2. CASE Fails(r, "client") /\ UNCHANGED holds
  BY <1>1, <1>2 DEF Fails, Order, TypeOK
<1>3. CASE /\ cl[c] # 0
           /\ holds' = [holds EXCEPT ![r][c] = cl[c]]
           /\ todo'  = [todo EXCEPT ![r] = Tail(@)]
           /\ UNCHANGED fault
  <2>1. c \in Client /\ todo[r] \in Seq(Op) /\ todo[r] # <<>>
    BY DoingOps DEF GetReturns, Doing, TypeOK, Op
  <2>2. /\ holds'[r][c] # 0 /\ \A d \in Client : holds[r][d] # 0 => holds'[r][d] # 0
        /\ todo'[r] = Tail(todo[r])
        /\ \A q \in Req \ {r} : todo'[q] = todo[q] /\ holds'[q] = holds[q]
    BY <1>3, <2>1 DEF TypeOK
  <2>3. Handed(todo[r], holds[r])
    BY DEF Order
  <2>4. Handed(Tail(todo[r]), holds'[r])
    <3>1. \A d \in Client : holds[r][d] # 0 => holds'[r][d] # 0
      BY <2>2
    <3>2. Head(todo[r]).op = "get" => holds'[r][Head(todo[r]).client] # 0
      BY <2>2
    <3> HIDE DEF c
    <3> QED
      BY <2>1, <2>3, <3>1, <3>2, HandedTail, Zenon
  <2> QED
    BY <1>1, <1>3, <2>2, <2>4 DEF Order
<1> QED
  BY <1>2, <1>3 DEF GetReturns

LEMMA CallOrders ==
  ASSUME TypeOK, Order, NEW r \in Req, CallReturns(r)
  PROVE  Order'
<1> DEFINE c == Head(todo[r]).client
<1>1. UNCHANGED <<deferred, ln, conns, holds>>
  BY DEF CallReturns, mainVars, onceVars
<1>2. /\ c \in Client /\ todo[r] \in Seq(Op) /\ todo[r] # <<>> /\ Head(todo[r]).op \in Called
      /\ Handed(todo[r], holds[r])
  BY DoingOps DEF CallReturns, Doing, TypeOK, Op, Order
<1>3. CASE todo' = [todo EXCEPT ![r] = Tail(@)] /\ UNCHANGED fault
  <2>1. Handed(Tail(todo[r]), holds[r])
    <3>1. Head(todo[r]).op # "get"
      BY <1>2 DEF Called
    <3> QED
      BY <1>2, <3>1, HandedTail
  <2> QED
    BY <1>1, <1>3, <2>1 DEF Order, TypeOK
<1>4. CASE Fails(r, "call")
  BY <1>1, <1>4 DEF Fails, Order, TypeOK
<1>5. CASE conns[c][holds[r][c]] = "closed" /\ Fails(r, "closing")
  <2>1. holds[r][c] \in DOMAIN conns[c]
    <3>1. holds[r][c] # 0
      BY <1>2, HandedHead
    <3>2. /\ holds[r][c] \in Nat /\ holds[r][c] <= Len(conns[c])
          /\ conns[c] \in Seq({"open", "closed"})
      BY <1>2 DEF TypeOK
    <3> QED
      BY <3>1, <3>2
  <2>2. deferred # Deferred
    BY <1>2, <1>5, <2>1 DEF Order
  <2> QED
    BY <1>1, <1>5, <2>2 DEF Fails, Order, TypeOK
<1> QED
  BY <1>3, <1>4, <1>5 DEF CallReturns

LEMMA NextOrders == TypeOK /\ Order /\ [Next]_vars => Order'
<1> SUFFICES ASSUME TypeOK, Order, [Next]_vars PROVE Order'
  OBVIOUS
<1>1. CASE UNCHANGED vars
  BY <1>1 DEF Order, vars, mainVars, onceVars, reqVars
<1>2. ASSUME NEW r \in Req, Accept(r) \/ Work(r) \/ Leave(r)
      PROVE  Order'
  BY <1>2, DialOrders, RequestOrders, GetOrders, CallOrders DEF Work
<1> QED
  BY <1>1, <1>2, CloseOrders, WebOrders DEF Next

\* No request fails because of a connection that serve() closed while the
\* listener it serves is open.
THEOREM ListenerFirstAlways == Spec => []ListenerGoesFirst
<1>1. Order => ListenerGoesFirst
  BY DEF Order, ListenerGoesFirst
<1> QED
  BY <1>1, InitType, NextType, OrderInit, NextOrders, PTL DEF Spec

=============================================================================
