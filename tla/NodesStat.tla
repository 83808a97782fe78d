----------------------------- MODULE NodesStat -----------------------------
(***************************************************************************)
(* services/nodes_stat.go and services/k8s_client.go: what the process     *)
(* knows of the nodes of the cluster.  The nodes are read from Kubernetes  *)
(* through a client made once, and kept for a while in a memoizing map of  *)
(* one key, so the requests choose among nodes as they were.               *)
(*                                                                         *)
(* pc[r] is where a call of NodesStat.Get stands:                          *)
(*   idle     no call                   client  in K8SClient.Get           *)
(*   get      about to look in the map  list    in the call to Kubernetes  *)
(*   waiting  blocked on another's      got     returned, with got[r]      *)
(*   chosen   its caller has made its choice                               *)
(***************************************************************************)
EXTENDS Naturals, FiniteSets

CONSTANTS
  Req,      \* calls
  Node,     \* names of nodes: numbers, in the order of the names
  Labels,   \* what the labels of a node may say
  NoReq,
  NoStats   \* the read failed

\* What a node is labelled: whether it has a subdomain (one of its own), the
\* pools it is in, the roles it allows and denies.
ASSUME NodesStatAssumptions ==
  /\ NoReq \notin Req
  /\ Node \subseteq Nat /\ IsFiniteSet(Node)
  /\ \A l \in Labels : DOMAIN l = {"subdomain", "pools", "allowed", "denied"}

VARIABLES
  cluster,  \* the nodes as Kubernetes has them
  client,   \* K8SClient: not made yet, made, or failed to be made
  stats,    \* NodesStat.LazyMap
  pc, got

nodesVars == <<cluster, client, stats, pc, got>>

\* NodeStat
NodeStat == {[name |-> n, labels |-> l] : n \in Node, l \in Labels}

INSTANCE LazyMap WITH Caller <- Req, Key <- {""}, Value <- SUBSET NodeStat,
                      NoCaller <- NoReq, NoValue <- NoStats, Concurrency <- 1

-----------------------------------------------------------------------------

Cluster == [Node -> [ready : BOOLEAN, labels : Labels]]

NodesInit ==
  /\ cluster \in Cluster
  /\ client = "new"
  /\ stats  = New
  /\ pc     = [r \in Req |-> "idle"]
  /\ got    = [r \in Req |-> NoStats]

\* The ready nodes and their labels.
Read == {[name |-> n, labels |-> cluster[n].labels] :
           n \in {m \in Node : cluster[m].ready}}

\* Mutant: the calls blocked on this one are forgotten.
ReturnAlone(r, v) ==
  /\ stats' = Finish(stats, r, "", v)
  /\ got'   = [got EXCEPT ![r] = v]
  /\ pc'    = [pc EXCEPT ![r] = "got"]

\* The closure ends: its caller and those blocked on it return with what was
\* read, which is kept unless it is an error.
Return(r, v) ==
  LET rs == {r} \cup stats.waiting[""]
  IN  /\ stats' = Finish(stats, r, "", v)
      /\ got'   = [q \in Req |-> IF q \in rs THEN v ELSE got[q]]
      /\ pc'    = [q \in Req |-> IF q \in rs THEN "got" ELSE pc[q]]

Get(r) ==
  /\ pc[r] = "get"
  /\ \/ /\ Kept(stats, "")
        /\ got' = [got EXCEPT ![r] = stats.memo[""]]
        /\ pc'  = [pc EXCEPT ![r] = "got"]
        /\ UNCHANGED stats
     \/ /\ ~Kept(stats, "")
        /\ InFlight(stats, "")
        /\ stats' = Join(stats, r, "")
        /\ pc'    = [pc EXCEPT ![r] = "waiting"]
        /\ UNCHANGED got
     \/ /\ ~Kept(stats, "")
        /\ ~InFlight(stats, "")
        /\ stats' = Run(Claim(stats, r, ""), r)
        /\ pc'    = [pc EXCEPT ![r] = "client"]
        /\ UNCHANGED got
  /\ UNCHANGED <<cluster, client>>

\* Mutant: a client that could not be made is tried again.
ClientRetried(r) ==
  /\ pc[r] = "client"
  /\ \/ /\ client' = "made"
        /\ pc' = [pc EXCEPT ![r] = "list"]
        /\ UNCHANGED <<stats, got>>
     \/ /\ client # "made"
        /\ client' = "failed"
        /\ Return(r, NoStats)
  /\ UNCHANGED cluster

\* The client is made by the first who asks, and so is its error.
Client(r) ==
  /\ pc[r] = "client"
  /\ \/ /\ client # "failed"
        /\ client' = "made"
        /\ pc' = [pc EXCEPT ![r] = "list"]
        /\ UNCHANGED <<stats, got>>
     \/ /\ client # "made"
        /\ client' = "failed"
        /\ Return(r, NoStats)
  /\ UNCHANGED cluster

List(r) ==
  /\ pc[r] = "list"
  /\ Return(r, Read)
  /\ UNCHANGED <<cluster, client>>

\* Kubernetes refuses, or does not answer within ten seconds.
ListFails(r) ==
  /\ pc[r] = "list"
  /\ Return(r, NoStats)
  /\ UNCHANGED <<cluster, client>>

\* Mutant: the stats are kept for good.
ExpireNever == FALSE

Expire ==
  /\ Kept(stats, "")
  /\ stats' = Evict(stats, "")
  /\ UNCHANGED <<cluster, client, pc, got>>

\* A node becomes ready, or not, or is labelled otherwise.
NodeChanges(n) ==
  /\ \E s \in [ready : BOOLEAN, labels : Labels] :
       s # cluster[n] /\ cluster' = [cluster EXCEPT ![n] = s]
  /\ UNCHANGED <<client, stats, pc, got>>

NodesStep(r) == Get(r) \/ Client(r) \/ List(r) \/ ListFails(r)

NodesTypeOK ==
  /\ cluster \in Cluster
  /\ client \in {"new", "made", "failed"}
  /\ stats.owner[""] \in Req \cup {NoReq}
  /\ stats.memo[""] = NoStats \/ stats.memo[""] \subseteq NodeStat
  /\ stats.waiting[""] \subseteq Req
  /\ stats.running \subseteq Req
  /\ pc \in [Req -> {"idle", "get", "waiting", "client", "list", "got",
                    "chosen"}]
  /\ \A r \in Req : got[r] = NoStats \/ got[r] \subseteq NodeStat

=============================================================================
