----------------------------- MODULE Subdomains -----------------------------
(***************************************************************************)
(* services/subdomains.go and services/speedtest.go: which nodes the URLs  *)
(* of a torrent point to, and which of them a speed test measures.  The    *)
(* nodes share out the infohashes by their first five hex digits, so that  *)
(* the requests for a torrent meet on one node.                            *)
(***************************************************************************)
EXTENDS NodesStat, SequencesExt

CONSTANTS
  Role,       \* roles of tokens; NoRole is that of a token without one
  NoRole,
  NoToken,    \* no token is sent: the service makes one of apiRole
  Bad,        \* the token cannot be verified
  Token,      \* the tokens that are sent: of a role, NoRole, NoToken or Bad
  apiRole,    \* the role of the service, or NoRole if it is ""
  domains,    \* how many domains a speed test is of: the premium one or not
  Pool,       \* pools of nodes
  pool,       \* subdomainsK8SPool, or NoPool if it is ""
  NoPool,
  MaxPrefix,  \* the largest prefix of an infohash: 1048575 in the code
  Prefix      \* the prefixes torrents have

ASSUME SubdomainsAssumptions ==
  /\ NoRole \notin Role
  /\ {NoRole, NoToken, Bad} \cap Role = {} /\ apiRole \in Role \cup {NoRole}
  /\ Token \subseteq Role \cup {NoRole, NoToken, Bad}
  /\ domains \in {1, 2}
  /\ pool \in Pool \cup {NoPool} /\ NoPool \notin Pool
  /\ \A l \in Labels : l.subdomain \in BOOLEAN /\ l.pools \subseteq Pool
  /\ MaxPrefix \in Nat \ {0}
  /\ Prefix \subseteq 0..MaxPrefix

VARIABLES
  ask,  \* what the request wants a subdomain for
  out,  \* the subdomains it got, best first
  urls  \* the speed test: the subdomain of each URL made so far

vars == <<cluster, client, stats, pc, got, ask, out, urls>>

\* An export whose token cannot be verified does not come to ask.
Ask == [kind : {"export"}, prefix : Prefix, token : Token \ {Bad}]
       \cup [kind : {"speedtest"}, prefix : {0}, token : Token]
NoAsk == [kind |-> "none"]

maxSubdomains     == 3
infohashMaxSpread == 1

-----------------------------------------------------------------------------
(* Whom it is for                                                          *)

\* getRole of url_builder.go: the role in the token that is sent, or made.
exportRole(a) == IF a.token = NoToken THEN apiRole ELSE a.token

\* getRole of speedtest.go: a token without a role, or that cannot be verified,
\* has the role of the service.
speedtestRole(a) == IF a.token \in Role THEN a.token ELSE apiRole

-----------------------------------------------------------------------------
(* Who may serve                                                           *)

\* The roles denied count only if none is allowed by name.
IsAllowed(l, role) == IF l.allowed # {} THEN role \in l.allowed
                                        ELSE role \notin l.denied

filterByRole(S, role) ==
  IF role = NoRole THEN S ELSE {s \in S : IsAllowed(s.labels, role)}

filterByPool(S, p) == IF p = NoPool THEN S ELSE {s \in S : p \in s.labels.pools}

Named(S) == {s \in S : s.labels.subdomain}

\* Mutant: the pool is given up if none of its nodes allows the role.
CandidatesInAnyPool(S, role) ==
  LET T == filterByRole(Named(S), role)
  IN  IF \E s \in T : pool \in s.labels.pools THEN filterByPool(T, pool) ELSE T

\* The pool is given up only if no node is in it, whatever roles they allow.
Candidates(S, role) ==
  LET used == IF \E s \in Named(S) : pool \in s.labels.pools THEN pool ELSE NoPool
  IN  filterByRole(filterByPool(Named(S), used), role)

\* getRandomSubdomain of speedtest.go has no such fallback.
SpeedtestCandidates(S, role) == filterByRole(filterByPool(Named(S), pool), role)

-----------------------------------------------------------------------------
(* Whose infohash it is: updateScoreByInfoHash                             *)

\* Mutant: the prefix is not scaled as the intervals are.
ownerUnscaled(n, prefix) ==
  LET interval == (MaxPrefix * 1000) \div n
      ends == {i \in 0..(n - 1) : prefix < (i + 1) * interval}
  IN  IF ends = {} THEN 0 ELSE Min(ends)

\* The index, from 0, of the interval of n that prefix is in.  The largest
\* prefix is in none and goes to the first.
owner(n, prefix) ==
  LET interval == (MaxPrefix * 1000) \div n
      ends == {i \in 0..(n - 1) : prefix * 1000 < (i + 1) * interval}
  IN  IF ends = {} THEN 0 ELSE Min(ends)

\* Mutant: the intervals do not close into a ring.
DistanceOnLine(n, t, i) ==
  LET spread == Min({n \div 2, infohashMaxSpread})
  IN  IF i = t THEN 0
      ELSE IF \E d \in 1..spread : i \in {t - d, t + d}
      THEN 1
      ELSE spread + 1

\* Mutant: the neighbours keep the score of the owner.
DistanceTied(n, t, i) ==
  IF i \in {(t - 1 + n) % n, t, (t + 1) % n} THEN 0 ELSE infohashMaxSpread + 1

\* Its neighbours on the ring come next, the others last.
Distance(n, t, i) ==
  LET spread == Min({n \div 2, infohashMaxSpread})
  IN  IF i = t THEN 0
      ELSE IF \E d \in 1..spread : i \in {(t - d + n) % n, (t + d) % n}
      THEN 1
      ELSE spread + 1

\* Nodes by descending name, no two of which have the same.
Ring(S) ==
  [n \in 1..Cardinality(S) |->
     CHOOSE s \in S : Cardinality({q \in S : q.name > s.name}) = n - 1]

\* The orders in which the scored nodes may come: sort.Slice leaves nodes of
\* equal score in any order.
Ranked(S, prefix) ==
  LET ring == Ring(S)
      n    == Len(ring)
      t    == owner(n, prefix)
  IN  {[k \in 1..n |-> ring[p[k]].name] :
         p \in {q \in Bijection(1..n, 1..n) :
                  \A j, k \in 1..n : j < k =>
                    Distance(n, t, q[j] - 1) <= Distance(n, t, q[k] - 1)}}

\* Mutant: as many subdomains as there are nodes.
SubdomainsGetAll(S, prefix, role) ==
  IF Candidates(S, role) = {} THEN {<<>>} ELSE Ranked(Candidates(S, role), prefix)

\* Subdomains.Get.
SubdomainsGet(S, prefix, role) ==
  {SubSeq(names, 1, Min({Len(names), maxSubdomains})) :
     names \in IF Candidates(S, role) = {} THEN {<<>>}
               ELSE Ranked(Candidates(S, role), prefix)}

\* Mutant: any node with a subdomain will do for a speed test.
getRandomSubdomainAny(S, role) ==
  IF Named(S) = {} THEN {<<>>} ELSE {<<s.name>> : s \in Named(S)}

getRandomSubdomain(S, role) ==
  LET candidates == SpeedtestCandidates(S, role)
  IN  IF candidates = {} THEN {<<>>} ELSE {<<s.name>> : s \in candidates}

-----------------------------------------------------------------------------

Init ==
  /\ NodesInit
  /\ ask = [r \in Req |-> NoAsk]
  /\ out = [r \in Req |-> <<>>]
  /\ urls = [r \in Req |-> <<>>]

\* A URL is to be built for a torrent, or for a speed test.
Arrive(r) ==
  /\ pc[r] = "idle"
  /\ pc' = [pc EXCEPT ![r] = "get"]
  /\ \E a \in Ask : ask' = [ask EXCEPT ![r] = a]
  /\ UNCHANGED <<cluster, client, stats, got, out, urls>>

Answers(a, S) ==
  IF a.kind = "export" THEN SubdomainsGet(S, a.prefix, exportRole(a))
                       ELSE getRandomSubdomain(S, speedtestRole(a))

\* The nodes are there: the subdomains are chosen, none if no node will do.
Choose(r) ==
  /\ pc[r] = "got"
  /\ got[r] # NoStats
  /\ pc' = [pc EXCEPT ![r] = "chosen"]
  /\ \E names \in Answers(ask[r], got[r]) : out' = [out EXCEPT ![r] = names]
  /\ UNCHANGED <<cluster, client, stats, got, ask, urls>>

\* A speed test of two domains asks for the nodes again.
MoreURLs(r) == ask[r].kind = "speedtest" /\ Len(urls[r]) + 1 < domains

NextURL(r) ==
  /\ pc[r] = "chosen" /\ MoreURLs(r)
  /\ pc'   = [pc EXCEPT ![r] = "get"]
  /\ urls' = [urls EXCEPT ![r] = Append(@, out[r])]
  /\ out'  = [out EXCEPT ![r] = <<>>]
  /\ got'  = [got EXCEPT ![r] = NoStats]
  /\ UNCHANGED <<cluster, client, stats, ask>>

\* The URLs are built, or the request fails with a read of the nodes, and then
\* no URL is answered.
Done(r) ==
  /\ (pc[r] = "chosen" /\ ~MoreURLs(r)) \/ (pc[r] = "got" /\ got[r] = NoStats)
  /\ pc'  = [pc EXCEPT ![r] = "idle"]
  /\ got' = [got EXCEPT ![r] = NoStats]
  /\ ask' = [ask EXCEPT ![r] = NoAsk]
  /\ out' = [out EXCEPT ![r] = <<>>]
  /\ urls' = [urls EXCEPT ![r] = <<>>]
  /\ UNCHANGED <<cluster, client, stats>>

Step(r) == NodesStep(r) /\ UNCHANGED <<ask, out, urls>>

Next ==
  \/ \E r \in Req : Arrive(r) \/ Step(r) \/ Choose(r) \/ NextURL(r) \/ Done(r)
  \/ Expire /\ UNCHANGED <<ask, out, urls>>
  \/ \E n \in Node : NodeChanges(n) /\ UNCHANGED <<ask, out, urls>>

\* A goroutine that can run does, the call to Kubernetes ends within its
\* deadline, and what is kept expires.
Fairness ==
  /\ \A r \in Req : WF_vars(Step(r) \/ Choose(r) \/ NextURL(r) \/ Done(r))
  /\ WF_vars(Expire /\ UNCHANGED <<ask, out, urls>>)

SafetySpec == Init /\ [][Next]_vars
Spec       == SafetySpec /\ Fairness

-----------------------------------------------------------------------------

TypeOK ==
  /\ NodesTypeOK
  /\ ask \in [Req -> Ask \cup {NoAsk}]
  /\ \A r \in Req : out[r] \in Seq(Node) /\ Len(out[r]) <= maxSubdomains
  /\ \A r \in Req : urls[r] \in Seq({<<>>} \cup {<<n>> : n \in Node}) /\ Len(urls[r]) < domains

Answered(r, kind) == pc[r] = "chosen" /\ ask[r].kind = kind

\* URLs of one torrent minted for one role from the same view of the nodes
\* point to the same node, so that its seeders meet, although sort.Slice may
\* order equal scores differently each time: the one that was answered is the
\* one any other call would have answered.
Sticky ==
  \A r \in Req : Answered(r, "export") /\ out[r] # <<>> =>
    \A other \in Answers(ask[r], got[r]) : other[1] = out[r][1]

\* The second and third choices of a torrent are the nodes next to its own on
\* the ring of all that may serve it, one on each side, and no node comes
\* twice, even on a ring of one, two or three nodes.
NeighboursNext ==
  \A r \in Req : Answered(r, "export") /\ out[r] # <<>> =>
    LET ring == Ring(Candidates(got[r], exportRole(ask[r])))
        n    == Len(ring)
        at   == CHOOSE i \in 1..n : ring[i].name = out[r][1]
    IN  /\ Len(out[r]) = Min({n, maxSubdomains})
        /\ ToSet(out[r]) = {ring[at].name, ring[(at % n) + 1].name,
                            ring[((at + n - 2) % n) + 1].name}

\* An export has no subdomain only if nothing can be done: no node with a
\* subdomain allows the role, or the pool has nodes and all of them refuse it,
\* in which case the nodes outside the pool stay unused.
EmptyOnlyIfRefused ==
  \A r \in Req : Answered(r, "export") =>
    LET willing == filterByRole(Named(got[r]), exportRole(ask[r]))
        inPool  == {s \in Named(got[r]) : pool \in s.labels.pools}
    IN  out[r] = <<>> <=> willing = {} \/ (inPool # {} /\ inPool \cap willing = {})

\* Each URL of a speed test measures a node that an export with the same token
\* may be served by, although the two obtain roles and fall back by rules of
\* their own.  It goes without a node, where exports have one, only if the pool
\* is empty, or if the token has no role: then nobody is refused an export, and
\* the speed test is refused what the service itself is.
SpeedTestMeasuresExports ==
  \A r \in Req : Answered(r, "speedtest") /\ ask[r].token # Bad =>
    LET names  == {s.name : s \in Candidates(got[r], exportRole(ask[r]))}
        inPool == {s \in Named(got[r]) : pool \in s.labels.pools}
    IN  /\ ToSet(out[r]) \subseteq names
        /\ out[r] = <<>> /\ names # {} =>
             \/ inPool = {}
             \/ ask[r].token = NoRole /\ filterByRole(inPool, apiRole) = {}

\* The infohashes are shared out evenly: whatever nodes are ready, each owns
\* some prefixes and no two differ by more than two, although the division
\* of the range is rounded and the last prefix falls out of it.
ShardsBalanced ==
  \A r \in Req : got[r] # NoStats /\ got[r] # {} =>
    LET n == Cardinality(got[r])
        load[i \in 0..(n - 1)] == Cardinality({x \in 0..MaxPrefix : owner(n, x) = i})
    IN  \A i, j \in 0..(n - 1) : load[i] > 0 /\ load[i] <= load[j] + 2

\* A client of Kubernetes that could not be made is never made again: from then
\* on the nodes are never known and every request that needs one fails, until
\* the process is restarted.
ClientFailureIsPermanent == [](client = "failed" => [](stats.memo[""] = NoStats))

\* Every call comes to an end, be it answered, failed, or blocked on another.
EveryCallEnds == \A r \in Req : pc[r] # "idle" ~> pc[r] = "idle"

\* A node that is gone for good is, in the end, in no answer any more: what is
\* kept expires and the calls that had it end.
GoneNodesLeave ==
  \A n \in Node : <>[](~cluster[n].ready)
                     => <>[](\A r \in Req : n \notin ToSet(out[r] \o FlattenSeq(urls[r])))

=============================================================================
