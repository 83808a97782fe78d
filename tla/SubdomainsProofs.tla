-------------------------- MODULE SubdomainsProofs --------------------------
(***************************************************************************)
(* Theorems about Subdomains and NodesStat, for any cluster, labels, roles *)
(* and pools.                                                              *)
(***************************************************************************)
EXTENDS Subdomains, SequenceLemmas, FiniteSetTheorems

\* No two nodes have the same name.
Distinct(S) == \A s, t \in S : s.name = t.name => s = t

\* What is read of the nodes.
View(S) == S \subseteq NodeStat /\ Distinct(S)

\* TypeOK but for what was read of the nodes, and that what it looks into are
\* functions and records.
Place == {"idle", "get", "waiting", "client", "list", "got", "chosen"}

Shape ==
  /\ cluster \in Cluster /\ client \in {"new", "made", "failed"}
  /\ stats \in Map /\ pc \in [Req -> Place] /\ DOMAIN got = Req
  /\ ask \in [Req -> Ask \cup {NoAsk}]
  /\ DOMAIN out = Req /\ DOMAIN urls = Req
  /\ \A r \in Req :
       /\ out[r] \in Seq(Node) /\ Len(out[r]) <= maxSubdomains
       /\ urls[r] \in Seq({<<>>} \cup {<<n>> : n \in Node}) /\ Len(urls[r]) < domains

\* What NodesStat says of its callers is what they do.
CallersAgree ==
  \A r \in Req :
    /\ stats.owner[""] = r <=> pc[r] \in {"client", "list"}
    /\ r \in stats.waiting[""] <=> pc[r] = "waiting"

\* What is kept, or was returned, is the nodes as they were read.
Views ==
  /\ stats.memo[""] # NoStats => View(stats.memo[""])
  /\ \A r \in Req : got[r] # NoStats => View(got[r])

\* Nobody reads the nodes, and nothing is known of them, without a client.
NothingWithoutClient ==
  client # "made" => stats.memo[""] = NoStats /\ \A r \in Req : pc[r] # "list"

\* A choice that was made is one of those that the nodes allow.
ChosenFor(r) ==
  /\ pc[r] # "idle" => ask[r] \in Ask
  /\ pc[r] = "chosen" => got[r] # NoStats /\ out[r] \in Answers(ask[r], got[r])

Chosen == \A r \in Req : ChosenFor(r)

Inv == Shape /\ CallersAgree /\ Views /\ NothingWithoutClient /\ Chosen

-----------------------------------------------------------------------------
(* The ring                                                                *)

LEMMA ViewIsFinite ==
  ASSUME NEW S, View(S)
  PROVE  IsFiniteSet(S) /\ Cardinality(S) \in Nat
<1> DEFINE name == [s \in S |-> s.name]
<1>1. name \in Injection(S, Node)
  <2>1. \A s \in S : s.name \in Node
    BY DEF View, NodeStat
  <2> QED
    BY <2>1 DEF View, Distinct, Injection, IsInjective
<1>2. IsFiniteSet(Node)
  BY NodesStatAssumptions
<1> HIDE DEF name
<1>3. IsFiniteSet(S)
  BY <1>1, <1>2, FS_Injection
<1> QED
  BY <1>3, FS_CardinalityType

\* How many nodes come before s.
Rank(S, s) == Cardinality({q \in S : q.name > s.name})

\* Every rank is that of one node.
LEMMA RanksAreMet ==
  ASSUME NEW S, View(S)
  PROVE  /\ \A s \in S : Rank(S, s) \in 0..(Cardinality(S) - 1)
         /\ \A s, t \in S : Rank(S, s) = Rank(S, t) => s = t
         /\ \A k \in 1..Cardinality(S) : \E s \in S : Rank(S, s) = k - 1
<1> DEFINE n == Cardinality(S)
           above(s) == {q \in S : q.name > s.name}
           rank == [s \in S |-> Rank(S, s)]
<1>1. IsFiniteSet(S) /\ n \in Nat
  BY ViewIsFinite
<1>2. \A s \in S : s.name \in Nat
  BY NodesStatAssumptions DEF View, NodeStat
<1>3. ASSUME NEW s \in S PROVE IsFiniteSet(above(s)) /\ Rank(S, s) \in 0..(n - 1)
  <2>1. IsFiniteSet(S \ {s}) /\ Cardinality(S \ {s}) = n - 1
    BY <1>1, FS_RemoveElement
  <2>2. above(s) \subseteq S \ {s}
    BY <1>2
  <2>3. IsFiniteSet(above(s)) /\ Cardinality(above(s)) <= n - 1
    BY <2>1, <2>2, FS_Subset
  <2>4. Cardinality(above(s)) \in Nat
    BY <2>3, FS_CardinalityType
  <2> QED
    BY <1>1, <2>3, <2>4 DEF Rank
<1>4. ASSUME NEW s \in S, NEW t \in S, s.name < t.name PROVE Rank(S, s) # Rank(S, t)
  <2>1. above(t) \subseteq above(s) /\ t \in above(s) /\ t \notin above(t)
    BY <1>2, <1>4
  <2>2. IsFiniteSet(above(s)) /\ above(t) # above(s)
    BY <1>3, <2>1
  <2> HIDE DEF above
  <2>3. Cardinality(above(s)) # Cardinality(above(t))
    BY <2>1, <2>2, FS_Subset
  <2> QED
    BY <2>3 DEF Rank, above
<1>5. \A s, t \in S : Rank(S, s) = Rank(S, t) => s = t
  BY <1>2, <1>4 DEF View, Distinct
<1>6. rank \in Injection(S, 0..(n - 1))
  BY <1>3, <1>5 DEF Injection, IsInjective
<1>7. IsFiniteSet(0..(n - 1)) /\ Cardinality(0..(n - 1)) = n
  <2>1. 0 \in Int /\ n - 1 \in Int
    BY <1>1
  <2>2. /\ IsFiniteSet(0..(n - 1))
        /\ Cardinality(0..(n - 1)) = IF 0 > n - 1 THEN 0 ELSE (n - 1) - 0 + 1
    BY <2>1, FS_Interval
  <2> QED
    BY <1>1, <2>2
<1>8. rank \in Surjection(S, 0..(n - 1))
  <2> HIDE DEF rank
  <2> QED
    BY <1>6, <1>7, FS_Injection
<1>9. \A k \in 0..(n - 1) : \E s \in S : Rank(S, s) = k
  BY <1>8 DEF Surjection
<1>10. \A k \in 1..n : k - 1 \in 0..(n - 1)
  BY <1>1
<1> HIDE DEF n
<1>11. \A k \in 1..n : \E s \in S : Rank(S, s) = k - 1
  BY <1>9, <1>10
<1> QED
  BY <1>3, <1>5, <1>11 DEF n

\* The ring has every node once.
LEMMA RingParts ==
  ASSUME NEW S, View(S), NEW ring, ring = Ring(S)
  PROVE  /\ Cardinality(S) \in Nat /\ (Cardinality(S) = 0 <=> S = {})
         /\ ring \in Seq(S) /\ Len(ring) = Cardinality(S)
         /\ \A j, k \in 1..Cardinality(S) : ring[j].name = ring[k].name => j = k
<1> DEFINE n == Cardinality(S)
<1>1. IsFiniteSet(S) /\ n \in Nat
  BY ViewIsFinite
<1>2. n = 0 <=> S = {}
  BY <1>1, FS_EmptySet
<1>3. DOMAIN ring = 1..n /\ ring = [k \in 1..n |-> ring[k]]
  <2> DEFINE c(k) == CHOOSE s \in S : Cardinality({q \in S : q.name > s.name}) = k - 1
  <2>1. ring = [k \in 1..n |-> c(k)]
    BY DEF Ring
  <2> HIDE DEF c
  <2> QED
    BY <2>1
<1>4. \A k \in 1..n : ring[k] \in S /\ Rank(S, ring[k]) = k - 1
  <2> SUFFICES ASSUME NEW k \in 1..n PROVE ring[k] \in S /\ Rank(S, ring[k]) = k - 1
    OBVIOUS
  <2>1. ring[k] = CHOOSE s \in S : Rank(S, s) = k - 1
    BY DEF Ring, Rank
  <2>2. \E s \in S : Rank(S, s) = k - 1
    BY RanksAreMet
  <2> QED
    BY <2>1, <2>2, Zenon
<1> HIDE DEF n
<1>5. ring \in [1..n -> S]
  BY <1>3, <1>4
<1>6. ring \in Seq(S) /\ Len(ring) = n
  BY <1>1, <1>5
<1>7. ASSUME NEW j \in 1..n, NEW k \in 1..n, ring[j].name = ring[k].name PROVE j = k
  <2>1. ring[j] = ring[k]
    BY <1>4, <1>7 DEF View, Distinct
  <2>2. j - 1 = k - 1
    BY <1>4, <2>1
  <2> QED
    BY <1>1, <2>2
<1> QED
  BY <1>1, <1>2, <1>6, <1>7 DEF n

LEMMA OwnerIsNode ==
  ASSUME NEW n \in Nat \ {0}, NEW prefix
  PROVE  owner(n, prefix) \in 0..(n - 1)
<1> DEFINE interval == (MaxPrefix * 1000) \div n
           ends == {i \in 0..(n - 1) : prefix * 1000 < (i + 1) * interval}
<1>1. owner(n, prefix) = IF ends = {} THEN 0 ELSE Min(ends)
  BY DEF owner
<1>2. ends \subseteq 0..(n - 1)
  OBVIOUS
<1> HIDE DEF ends
<1>3. CASE ends = {}
  BY <1>1, <1>3
<1>4. CASE ends # {}
  <2>1. ends \subseteq Nat
    BY <1>2
  <2>2. PICK x \in ends : \A y \in ends : ~(y < x)
    BY <1>4, <2>1, LeastNatural
  <2>3. \A y \in ends : x <= y
    BY <2>1, <2>2
  <2>4. Min(ends) \in ends
    BY <2>3 DEF Min
  <2> QED
    BY <1>1, <1>2, <1>4, <2>4
<1> QED
  BY <1>3, <1>4

LEMMA Modulo ==
  ASSUME NEW n \in Nat \ {0}, NEW x \in 0..(n - 1)
  PROVE  x % n = x /\ (x + n) % n = x
<1>1. x % n = x
  OBVIOUS
<1>2. (x + n) % n = x
  OBVIOUS
<1> QED
  BY <1>1, <1>2

\* The nodes next to t on a ring of n.
LEMMA Neighbours ==
  ASSUME NEW n \in Nat \ {0}, NEW t \in 0..(n - 1)
  PROVE  /\ (t + 1) % n = IF t = n - 1 THEN 0 ELSE t + 1
         /\ (t - 1 + n) % n = IF t = 0 THEN n - 1 ELSE t - 1
<1>1. (t + 1) % n = IF t = n - 1 THEN 0 ELSE t + 1
  <2>1. CASE t = n - 1
    BY <2>1, Modulo
  <2>2. CASE t # n - 1
    BY <2>2, Modulo
  <2> QED
    BY <2>1, <2>2
<1>2. (t - 1 + n) % n = IF t = 0 THEN n - 1 ELSE t - 1
  <2>1. CASE t = 0
    BY <2>1, Modulo
  <2>2. CASE t # 0
    BY <2>2, Modulo
  <2> QED
    BY <2>1, <2>2
<1> QED
  BY <1>1, <1>2

LEMMA Distances ==
  ASSUME NEW n \in Nat \ {0}, NEW t \in 0..(n - 1), NEW i \in 0..(n - 1)
  PROVE  /\ Distance(n, t, i) \in Nat
         /\ Distance(n, t, i) = 0 <=> i = t
         /\ n > 1 => (Distance(n, t, i) = 1 <=> i # t /\ i \in {(t + 1) % n, (t - 1 + n) % n})
<1> DEFINE spread == Min({n \div 2, infohashMaxSpread})
           up     == (t + 1) % n
           down   == (t - 1 + n) % n
<1>3. spread = IF n = 1 THEN 0 ELSE 1
  <2>1. n \div 2 \in Nat /\ (n = 1 => n \div 2 = 0) /\ (n > 1 => n \div 2 >= 1)
    OBVIOUS
  <2>2. infohashMaxSpread = 1
    BY DEF infohashMaxSpread
  <2>3. \A x \in Nat : Min({x, 1}) = IF x = 0 THEN 0 ELSE 1
    BY DEF Min
  <2> QED
    BY <2>1, <2>2, <2>3
<1>4. Distance(n, t, i) =
        IF i = t THEN 0
        ELSE IF \E d \in 1..spread : i \in {(t - d + n) % n, (t + d) % n}
        THEN 1
        ELSE spread + 1
  BY DEF Distance
<1> HIDE DEF spread
<1>5. n > 1 => ((\E d \in 1..spread : i \in {(t - d + n) % n, (t + d) % n}) <=> i \in {up, down})
  <2>1. n > 1 => \A d : d \in 1..spread <=> d = 1
    BY <1>3
  <2> QED
    BY <2>1
<1> HIDE DEF up, down
<1> QED
  BY <1>3, <1>4, <1>5 DEF up, down

\* The orders that Ranked allows.
LEMMA RankedParts ==
  ASSUME NEW S, View(S), S # {}, NEW prefix, NEW names \in Ranked(S, prefix)
  PROVE  LET n    == Cardinality(S)
             ring == Ring(S)
             t    == owner(n, prefix)
             up   == (t + 1) % n
             down == (t - 1 + n) % n
         IN  /\ n \in Nat \ {0} /\ t \in 0..(n - 1) /\ up \in 0..(n - 1) /\ down \in 0..(n - 1)
             /\ \E p \in [1..n -> 1..n] :
                  /\ names = [k \in 1..n |-> ring[p[k]].name]
                  /\ p[1] = t + 1
                  /\ n = 2 => p[2] = up + 1 /\ p[2] = down + 1
                  /\ n > 2 => {p[2], p[3]} = {up + 1, down + 1}
<1> DEFINE n    == Cardinality(S)
           ring == Ring(S)
           t    == owner(n, prefix)
           up   == (t + 1) % n
           down == (t - 1 + n) % n
           D(i) == Distance(n, t, i)
<1>1. n \in Nat \ {0} /\ Len(ring) = n
  BY RingParts
<1>2. PICK p \in Bijection(1..n, 1..n) :
        /\ names = [k \in 1..n |-> ring[p[k]].name]
        /\ \A j, k \in 1..n : j < k => D(p[j] - 1) <= D(p[k] - 1)
  BY <1>1 DEF Ranked
<1> HIDE DEF n, ring
<1>3. t \in 0..(n - 1)
  BY <1>1, OwnerIsNode
<1>4. /\ up = IF t = n - 1 THEN 0 ELSE t + 1
      /\ down = IF t = 0 THEN n - 1 ELSE t - 1
  <2>1. t \in 0..(n - 1) /\ n \in Nat \ {0}
    BY <1>1, <1>3
  <2> HIDE DEF t
  <2> QED
    BY <2>1, Neighbours
<1>5. \A i \in 0..(n - 1) : /\ D(i) \in Nat
                            /\ D(i) = 0 <=> i = t
                            /\ n > 1 => (D(i) = 1 <=> i # t /\ i \in {up, down})
  <2> SUFFICES ASSUME NEW i \in 0..(n - 1)
               PROVE  /\ D(i) \in Nat
                      /\ D(i) = 0 <=> i = t
                      /\ n > 1 => (D(i) = 1 <=> i # t /\ i \in {up, down})
    OBVIOUS
  <2>1. t \in 0..(n - 1) /\ n \in Nat \ {0}
    BY <1>1, <1>3
  <2> HIDE DEF t
  <2> QED
    BY <2>1, Distances
<1> HIDE DEF t, up, down, D
<1>6. /\ p \in [1..n -> 1..n]
      /\ \A j, k \in 1..n : p[j] = p[k] => j = k
      /\ \A i \in 1..n : \E k \in 1..n : p[k] = i
  BY <1>2 DEF Bijection, Injection, Surjection, IsInjective
<1>7. \A k \in 1..n : /\ p[k] \in 1..n /\ p[k] \in Int
                    /\ p[k] - 1 \in 0..(n - 1) /\ (p[k] - 1) + 1 = p[k]
  <2>1. \A k \in 1..n : p[k] \in 1..n
    BY <1>6
  <2>2. \A x \in 1..n : x \in Int /\ x - 1 \in 0..(n - 1) /\ (x - 1) + 1 = x
    BY <1>1
  <2> QED
    BY <2>1, <2>2
<1>8. p[1] = t + 1
  <2>1. PICK k \in 1..n : p[k] = t + 1
    BY <1>1, <1>3, <1>6
  <2>2. D(p[k] - 1) = 0
    BY <1>3, <1>5, <2>1
  <2>3. D(p[1] - 1) = 0
    <3>1. CASE k = 1
      BY <2>2, <3>1
    <3>2. CASE k # 1
      <4>1. 1 \in 1..n /\ 1 < k
        BY <1>1, <3>2
      <4>2. D(p[1] - 1) <= D(p[k] - 1) /\ D(p[1] - 1) \in Nat
        BY <1>2, <1>5, <1>7, <4>1
      <4> QED
        BY <2>2, <4>2
    <3> QED
      BY <3>1, <3>2
  <2>4. 1 \in 1..n
    BY <1>1
  <2>5. p[1] - 1 = t
    BY <1>5, <1>7, <2>3, <2>4
  <2> QED
    BY <1>7, <2>4, <2>5
<1>9. up \in 0..(n - 1) /\ down \in 0..(n - 1)
  BY <1>1, <1>3, <1>4
<1>10. ASSUME n = 2 PROVE p[2] = up + 1 /\ p[2] = down + 1
  <2>1. up = down /\ up # t
    BY <1>3, <1>4, <1>10
  <2>2. 1 \in 1..n /\ 2 \in 1..n
    BY <1>10
  <2>3. p[2] # p[1]
    BY <1>6, <2>2
  <2>4. p[2] \in 1..2 /\ p[1] \in 1..2
    BY <1>6, <1>10, <2>2
  <2>5. t \in {0, 1} /\ up \in {0, 1}
    BY <1>3, <1>4, <1>10
  <2>6. p[2] = up + 1
    BY <1>8, <2>1, <2>3, <2>4, <2>5
  <2> QED
    BY <2>1, <2>6
<1>11. ASSUME n > 2 PROVE {p[2], p[3]} = {up + 1, down + 1}
  <2>1. up # down /\ up # t /\ down # t
    BY <1>1, <1>3, <1>4, <1>11
  <2>2. 1 \in 1..n /\ 2 \in 1..n /\ 3 \in 1..n
    BY <1>1, <1>11
  <2>3. PICK a \in 1..n : p[a] = up + 1
    BY <1>1, <1>6, <1>9
  <2>4. PICK b \in 1..n : p[b] = down + 1
    BY <1>1, <1>6, <1>9
  <2>5. a # b /\ a # 1 /\ b # 1
    BY <1>3, <1>8, <1>9, <2>1, <2>3, <2>4
  <2>6. D(up) = 1 /\ D(down) = 1 /\ p[a] - 1 = up /\ p[b] - 1 = down
    <3>1. n > 1
      BY <1>1, <1>11
    <3>2. D(up) = 1 /\ D(down) = 1
      BY <1>5, <1>9, <2>1, <3>1
    <3>3. up \in Int /\ down \in Int
      BY <1>9
    <3> QED
      BY <2>3, <2>4, <3>2, <3>3
  <2>7. ASSUME NEW k \in 1..n, k # 1, k < a \/ k < b PROVE p[k] \in {up + 1, down + 1}
    <3>1. D(p[k] - 1) <= 1
      BY <1>2, <2>6, <2>7
    <3>2. p[k] # t + 1
      BY <1>6, <1>8, <2>2, <2>7
    <3> DEFINE q == p[k] - 1
    <3>3. q \in 0..(n - 1) /\ q + 1 = p[k]
      BY <1>7
    <3>4. q # t
      BY <3>2, <3>3
    <3>5. D(q) \in Nat /\ D(q) # 0 /\ D(q) <= 1
      BY <1>5, <3>1, <3>3, <3>4
    <3>6. n > 1
      BY <1>1, <1>11
    <3>7. q \in {up, down}
      BY <1>5, <3>3, <3>5, <3>6
    <3> QED
      BY <3>3, <3>7
  <2>8. p[2] \in {up + 1, down + 1}
    <3>1. 2 = a \/ 2 = b \/ 2 < a \/ 2 < b
      BY <2>5
    <3> QED
      BY <2>2, <2>3, <2>4, <2>7, <3>1
  <2>9. p[3] \in {up + 1, down + 1}
    <3>1. 3 = a \/ 3 = b \/ 3 < a \/ 3 < b
      BY <2>5
    <3> QED
      BY <2>2, <2>3, <2>4, <2>7, <3>1
  <2>10. p[2] # p[3]
    BY <1>6, <2>2
  <2> QED
    BY <2>8, <2>9, <2>10
<1> QED
  BY <1>1, <1>2, <1>3, <1>6, <1>8, <1>9, <1>10, <1>11 DEF n, ring, t, up, down

\* The first three of an order, or all if there are fewer.
FirstOf(names) == SubSeq(names, 1, Min({Len(names), maxSubdomains}))

LEMMA FirstThree ==
  ASSUME NEW n \in Nat \ {0}, NEW names \in Seq(Node), Len(names) = n,
         NEW first, first = FirstOf(names)
  PROVE  /\ first \in Seq(Node)
         /\ n < 3 => Len(first) = n
         /\ n > 2 => Len(first) = 3
         /\ first[1] = names[1] /\ first # <<>>
         /\ n = 1 => ToSet(first) = {names[1]}
         /\ n = 2 => ToSet(first) = {names[1], names[2]}
         /\ n > 2 => ToSet(first) = {names[1], names[2], names[3]}
<1> DEFINE m == IF n < 3 THEN n ELSE 3
<1>1. Min({n, maxSubdomains}) = m
  BY DEF Min, maxSubdomains
<1>2. m \in Nat \ {0} /\ m <= n /\ m \in {1, 2, 3}
  OBVIOUS
<1> HIDE DEF m
<1>5. first = SubSeq(names, 1, m)
  BY <1>1 DEF FirstOf
<1>6. first \in Seq(Node) /\ Len(first) = m /\ \A k \in 1..m : first[k] = names[k]
  <2>1. m \in Nat /\ m <= Len(names)
    BY <1>2
  <2>2. /\ SubSeq(names, 1, m) \in Seq(Node) /\ Len(SubSeq(names, 1, m)) = m
        /\ \A k \in 1..m : SubSeq(names, 1, m)[k] = names[k]
    BY <2>1, FirstFew, Zenon
  <2> QED
    BY <1>5, <2>2, Zenon
<1>7. /\ n = 1 => 1..m = {1}
      /\ n = 2 => 1..m = {1, 2}
      /\ n > 2 => 1..m = {1, 2, 3}
  BY DEF m
<1>8. ToSet(first) = {names[k] : k \in 1..m}
  <2>1. DOMAIN first = 1..m
    BY <1>6
  <2> QED
    BY <1>6, <2>1 DEF ToSet
<1>9. 1 \in 1..m /\ first # <<>>
  BY <1>2, <1>6
<1>10. (n < 3 => Len(first) = n) /\ (n > 2 => Len(first) = 3)
  <2>1. (n < 3 => m = n) /\ (n > 2 => m = 3)
    BY DEF m
  <2> QED
    BY <1>6, <2>1
<1>11. n = 1 => ToSet(first) = {names[1]}
  BY <1>7, <1>8
<1>12. n = 2 => ToSet(first) = {names[1], names[2]}
  BY <1>7, <1>8
<1>13. n > 2 => ToSet(first) = {names[1], names[2], names[3]}
  BY <1>7, <1>8
<1> QED
  BY <1>6, <1>9, <1>10, <1>11, <1>12, <1>13

-----------------------------------------------------------------------------
(* The answers                                                             *)

LEMMA ViewsWithin ==
  ASSUME NEW S, NEW T \in SUBSET S, View(S)
  PROVE  View(T)
BY DEF View, Distinct

LEMMA CandidatesAreOfView ==
  ASSUME NEW S, NEW role
  PROVE  Candidates(S, role) \subseteq S /\ SpeedtestCandidates(S, role) \subseteq S
<1>1. \A T : filterByRole(T, role) \subseteq T
  BY DEF filterByRole
<1>2. \A T, p : filterByPool(T, p) \subseteq T
  BY DEF filterByPool
<1>3. Named(S) \subseteq S
  BY DEF Named
<1>4. Candidates(S, role) \subseteq S
  BY <1>1, <1>2, <1>3 DEF Candidates
<1>5. SpeedtestCandidates(S, role) \subseteq S
  BY <1>1, <1>2, <1>3 DEF SpeedtestCandidates
<1> QED
  BY <1>4, <1>5

\* What an export is answered: nothing if there is no candidate, or the owner
\* of the prefix and the nodes next to it on the ring of the candidates.
Spotted(names, C, prefix) ==
  LET n    == Cardinality(C)
      ring == Ring(C)
      t    == owner(n, prefix)
  IN  /\ n \in Nat /\ (n = 0 <=> C = {})
      /\ names \in Seq(Node)
      /\ n < 3 => Len(names) = n
      /\ n > 2 => Len(names) = 3
      /\ names = <<>> <=> C = {}
      /\ C # {} =>
           /\ t \in 0..(n - 1)
           /\ (t + 1) % n \in 0..(n - 1) /\ (t - 1 + n) % n \in 0..(n - 1)
           /\ names[1] = ring[t + 1].name
           /\ ToSet(names) = {ring[t + 1].name, ring[((t + 1) % n) + 1].name,
                              ring[((t - 1 + n) % n) + 1].name}

LEMMA ExportAnswer ==
  ASSUME NEW S, View(S), NEW prefix, NEW role, NEW names \in SubdomainsGet(S, prefix, role)
  PROVE  Spotted(names, Candidates(S, role), prefix)
<1> DEFINE C    == Candidates(S, role)
           n    == Cardinality(C)
           ring == Ring(C)
           t    == owner(n, prefix)
           up   == (t + 1) % n
           down == (t - 1 + n) % n
<1>1. View(C)
  BY CandidatesAreOfView, ViewsWithin
<1>2. PICK all \in (IF C = {} THEN {<<>>} ELSE Ranked(C, prefix)) :
        names = FirstOf(all)
  BY DEF SubdomainsGet, FirstOf
<1>3. n \in Nat /\ (n = 0 <=> C = {}) /\ ring \in Seq(C) /\ Len(ring) = n
  <2> HIDE DEF C
  <2> QED
    BY <1>1, RingParts
<1>4. CASE C = {}
  <2>1. all = <<>>
    BY <1>2, <1>4
  <2>2. Min({0, maxSubdomains}) = 0
    BY DEF Min, maxSubdomains
  <2>3. names = SubSeq(<<>>, 1, 0)
    BY <1>2, <2>1, <2>2 DEF FirstOf
  <2>4. SubSeq(<<>>, 1, 0) = <<>>
    OBVIOUS
  <2>5. names = <<>> /\ <<>> \in Seq(Node) /\ Len(<<>>) = 0
    BY <2>3, <2>4
  <2> QED
    BY <1>3, <1>4, <2>5 DEF Spotted
<1>5. CASE C # {}
  <2>1. all \in Ranked(C, prefix)
    BY <1>2, <1>5
  <2> HIDE DEF C
  <2>2. /\ n \in Nat \ {0} /\ t \in 0..(n - 1) /\ up \in 0..(n - 1) /\ down \in 0..(n - 1)
        /\ \E p \in [1..n -> 1..n] :
             /\ all = [k \in 1..n |-> ring[p[k]].name]
             /\ p[1] = t + 1
             /\ n = 2 => p[2] = up + 1 /\ p[2] = down + 1
             /\ n > 2 => {p[2], p[3]} = {up + 1, down + 1}
    BY <1>1, <1>5, <2>1, RankedParts
  <2>3. PICK p \in [1..n -> 1..n] :
          /\ all = [k \in 1..n |-> ring[p[k]].name]
          /\ p[1] = t + 1
          /\ n = 2 => p[2] = up + 1 /\ p[2] = down + 1
          /\ n > 2 => {p[2], p[3]} = {up + 1, down + 1}
    BY <2>2
  <2> HIDE DEF n, ring, t, up, down
  <2>4. \A k \in 1..n : p[k] \in 1..n /\ ring[p[k]].name \in Node
    <3>1. \A k \in 1..n : p[k] \in 1..n /\ ring[p[k]] \in C
      BY <1>3
    <3>2. \A s \in C : s.name \in Node
      BY <1>1 DEF View, NodeStat
    <3> QED
      BY <3>1, <3>2
  <2>5. all \in Seq(Node) /\ Len(all) = n
    <3>1. all \in [1..n -> Node] /\ n \in Nat
      BY <2>2, <2>3, <2>4
    <3> QED
      BY <3>1
  <2>7. /\ names \in Seq(Node)
        /\ n < 3 => Len(names) = n
        /\ n > 2 => Len(names) = 3
        /\ names[1] = all[1] /\ names # <<>>
        /\ n = 1 => ToSet(names) = {all[1]}
        /\ n = 2 => ToSet(names) = {all[1], all[2]}
        /\ n > 2 => ToSet(names) = {all[1], all[2], all[3]}
    <3>1. n \in Nat \ {0} /\ all \in Seq(Node) /\ Len(all) = n
      BY <2>2, <2>5
    <3>2. names = FirstOf(all)
      BY <1>2
    <3> HIDE DEF n
    <3>3. names \in Seq(Node) /\ (n < 3 => Len(names) = n) /\ (n > 2 => Len(names) = 3)
      BY <3>1, <3>2, FirstThree
    <3>4. names[1] = all[1] /\ names # <<>>
      BY <3>1, <3>2, FirstThree
    <3>5. n = 1 => ToSet(names) = {all[1]}
      BY <3>1, <3>2, FirstThree
    <3>6. n = 2 => ToSet(names) = {all[1], all[2]}
      BY <3>1, <3>2, FirstThree, SMTT(60)
    <3>7. n > 2 => ToSet(names) = {all[1], all[2], all[3]}
      BY <3>1, <3>2, FirstThree
    <3> QED
      BY <3>3, <3>4, <3>5, <3>6, <3>7
  <2>8. names[1] = ring[t + 1].name
    <3>1. 1 \in 1..n
      BY <2>2
    <3> QED
      BY <2>3, <2>7, <3>1
  <2>9. ToSet(names) = {ring[t + 1].name, ring[up + 1].name, ring[down + 1].name}
    <3>1. CASE n = 1
      <4>1. t = 0 /\ up = 0 /\ down = 0
        BY <2>2, <3>1
      <4>2. ToSet(names) = {all[1]}
        BY <2>7, <3>1
      <4> QED
        BY <2>7, <2>8, <4>1, <4>2
    <3>2. CASE n = 2
      <4>1. 2 \in 1..n
        BY <3>2
      <4>2. ToSet(names) = {all[1], all[2]}
        BY <2>7, <3>2
      <4>3. all[2] = ring[up + 1].name /\ all[2] = ring[down + 1].name
        BY <2>3, <3>2, <4>1
      <4> QED
        BY <2>7, <2>8, <4>2, <4>3
    <3>3. CASE n > 2
      <4>1. 2 \in 1..n /\ 3 \in 1..n
        BY <2>2, <3>3
      <4>2. ToSet(names) = {all[1], all[2], all[3]}
        BY <2>7, <3>3
      <4>3. all[2] = ring[p[2]].name /\ all[3] = ring[p[3]].name
        BY <2>3, <4>1
      <4>4. {p[2], p[3]} = {up + 1, down + 1}
        BY <2>3, <3>3
      <4>5. {all[2], all[3]} = {ring[up + 1].name, ring[down + 1].name}
        BY <4>3, <4>4
      <4> QED
        BY <2>7, <2>8, <4>2, <4>5
    <3>4. n = 1 \/ n = 2 \/ n > 2
      BY <2>2
    <3> QED
      BY <3>1, <3>2, <3>3, <3>4
  <2> QED
    BY <1>3, <1>5, <2>2, <2>7, <2>8, <2>9 DEF Spotted, C, n, ring, t, up, down
<1> QED
  BY <1>4, <1>5

LEMMA SpeedtestAnswer ==
  ASSUME NEW S, View(S), NEW role, NEW names \in getRandomSubdomain(S, role)
  PROVE  /\ names \in {<<>>} \cup {<<n>> : n \in Node}
         /\ names \in Seq(Node) /\ Len(names) <= maxSubdomains
         /\ SpeedtestCandidates(S, role) = {} => names = <<>>
         /\ SpeedtestCandidates(S, role) # {} =>
              \E s \in SpeedtestCandidates(S, role) : names = <<s.name>>
<1>1. /\ SpeedtestCandidates(S, role) = {} => names = <<>>
      /\ SpeedtestCandidates(S, role) # {} =>
           \E s \in SpeedtestCandidates(S, role) : names = <<s.name>>
  BY DEF getRandomSubdomain
<1>2. \A s \in SpeedtestCandidates(S, role) : s.name \in Node
  BY CandidatesAreOfView DEF View, NodeStat
<1>3. names \in {<<>>} \cup {<<n>> : n \in Node}
  BY <1>1, <1>2
<1>4. \A n \in Node : <<n>> \in Seq(Node) /\ Len(<<n>>) = 1
  OBVIOUS
<1>5. <<>> \in Seq(Node) /\ Len(<<>>) = 0
  OBVIOUS
<1>6. maxSubdomains = 3
  BY DEF maxSubdomains
<1>7. names \in Seq(Node) /\ (Len(names) = 0 \/ Len(names) = 1)
  BY <1>3, <1>4, <1>5
<1>8. Len(names) <= maxSubdomains
  BY <1>6, <1>7
<1> QED
  BY <1>1, <1>3, <1>7, <1>8

LEMMA AnyAnswer ==
  ASSUME NEW S, View(S), NEW a \in Ask, NEW names \in Answers(a, S)
  PROVE  /\ names \in Seq(Node) /\ Len(names) <= maxSubdomains
         /\ a.kind = "speedtest" => names \in {<<>>} \cup {<<n>> : n \in Node}
<1>1. CASE a.kind = "export"
  <2>1. names \in SubdomainsGet(S, a.prefix, exportRole(a))
    BY <1>1 DEF Answers
  <2>0. PICK n : n = Cardinality(Candidates(S, exportRole(a)))
    OBVIOUS
  <2>2. /\ n \in Nat /\ names \in Seq(Node)
        /\ n < 3 => Len(names) = n
        /\ n > 2 => Len(names) = 3
    BY <2>0, <2>1, ExportAnswer DEF Spotted
  <2>3. Len(names) <= maxSubdomains
    <3>1. n \in Nat /\ (n < 3 \/ n > 2)
      BY <2>2
    <3>2. (n < 3 /\ Len(names) = n) \/ Len(names) = 3
      BY <2>2, <3>1
    <3>3. \A x : (n < 3 /\ x = n) \/ x = 3 => x <= 3
      BY <3>1
    <3>4. maxSubdomains = 3
      BY DEF maxSubdomains
    <3> QED
      BY <3>2, <3>3, <3>4, Zenon
  <2>4. a.kind # "speedtest"
    BY <1>1
  <2> QED
    BY <2>2, <2>3, <2>4
<1>2. CASE a.kind # "export"
  BY <1>2, SpeedtestAnswer DEF Answers
<1> QED
  BY <1>1, <1>2

-----------------------------------------------------------------------------
(* The memoizing map                                                       *)

LEMMA MapNew ==
  New \in Map /\ New.owner[""] = NoReq /\ New.memo[""] = NoStats /\ New.waiting[""] = {}
BY DEF New, Map

-----------------------------------------------------------------------------
(* The invariant                                                           *)

LEMMA InvInit == Init => Inv
<1> SUFFICES ASSUME Init PROVE Inv
  OBVIOUS
<1> USE DEF Init, NodesInit
<1>1. Shape
  <2>1. New \in Map
    BY MapNew
  <2>2. \A r \in Req : out[r] = <<>> /\ urls[r] = <<>>
    OBVIOUS
  <2>3. \A T : <<>> \in Seq(T) /\ Len(<<>>) = 0
    OBVIOUS
  <2>4. 0 <= maxSubdomains /\ 0 < domains
    BY SubdomainsAssumptions DEF maxSubdomains
  <2> QED
    BY <2>1, <2>2, <2>3, <2>4 DEF Shape, Place
<1>2. CallersAgree
  BY MapNew, NodesStatAssumptions DEF CallersAgree
<1>3. Views
  BY MapNew DEF Views
<1>4. NothingWithoutClient
  BY MapNew DEF NothingWithoutClient
<1>5. Chosen
  BY DEF Chosen, ChosenFor
<1> QED
  BY <1>1, <1>2, <1>3, <1>4, <1>5 DEF Inv

LEMMA InvArrive ==
  ASSUME Inv, NEW r \in Req, Arrive(r)
  PROVE  Inv'
<1> USE DEF Inv
<1>1. PICK a \in Ask : ask' = [ask EXCEPT ![r] = a]
  BY DEF Arrive
<1>2. /\ pc[r] = "idle" /\ pc' = [pc EXCEPT ![r] = "get"]
      /\ UNCHANGED <<cluster, client, stats, got, out, urls>>
  BY DEF Arrive
<1>3. Shape'
  BY <1>1, <1>2 DEF Shape, Place
<1>4. pc \in [Req -> Place] /\ ask \in [Req -> Ask \cup {NoAsk}]
  BY DEF Shape
<1>5. \A q \in Req : q # r => pc'[q] = pc[q] /\ ask'[q] = ask[q]
  BY <1>1, <1>2, <1>4
<1>6. pc'[r] = "get" /\ ask'[r] \in Ask
  BY <1>1, <1>2, <1>4
<1>7. CallersAgree'
  BY <1>2, <1>5, <1>6 DEF CallersAgree
<1>8. Views'
  BY <1>2 DEF Views
<1>9. NothingWithoutClient'
  BY <1>2, <1>5, <1>6 DEF NothingWithoutClient
<1>10. Chosen'
  <2>1. ASSUME NEW q \in Req PROVE ChosenFor(q)'
    <3>1. CASE q = r
      BY <1>6, <3>1 DEF ChosenFor
    <3>2. CASE q # r
      BY <1>2, <1>5, <3>2 DEF Chosen, ChosenFor, Answers
    <3> QED
      BY <3>1, <3>2
  <2> QED
    BY <2>1 DEF Chosen
<1> QED
  BY <1>3, <1>7, <1>8, <1>9, <1>10

LEMMA InvGet ==
  ASSUME Inv, NEW r \in Req, Get(r), UNCHANGED <<ask, out, urls>>
  PROVE  Inv'
<1> USE DEF Inv
<1>1. /\ pc[r] = "get" /\ UNCHANGED <<cluster, client, ask, out, urls>>
      /\ pc \in [Req -> Place] /\ DOMAIN got = Req /\ stats \in Map
  BY DEF Get, Shape
<1>2. CASE Kept(stats, "") /\ got' = [got EXCEPT ![r] = stats.memo[""]]
           /\ pc' = [pc EXCEPT ![r] = "got"] /\ UNCHANGED stats
  <2>1. /\ pc'[r] = "got" /\ got'[r] = stats.memo[""]
        /\ \A q \in Req : q # r => pc'[q] = pc[q] /\ got'[q] = got[q]
    BY <1>1, <1>2
  <2>2. Shape'
    BY <1>1, <1>2 DEF Shape, Place
  <2>3. CallersAgree'
    BY <1>1, <1>2, <2>1 DEF CallersAgree
  <2>4. Views'
    BY <1>2, <2>1 DEF Views
  <2>5. NothingWithoutClient'
    BY <1>1, <1>2, <2>1 DEF NothingWithoutClient
  <2>6. Chosen'
    BY <1>1, <2>1 DEF Chosen, ChosenFor, Answers
  <2> QED
    BY <2>2, <2>3, <2>4, <2>5, <2>6
<1>3. CASE InFlight(stats, "") /\ stats' = Join(stats, r, "")
           /\ pc' = [pc EXCEPT ![r] = "waiting"] /\ UNCHANGED got
  <2>1. pc'[r] = "waiting" /\ \A q \in Req : q # r => pc'[q] = pc[q]
    BY <1>1, <1>3
  <2>2. /\ stats' \in Map /\ stats'.owner[""] = stats.owner[""]
        /\ stats'.memo[""] = stats.memo[""] /\ stats'.waiting[""] = stats.waiting[""] \cup {r}
    BY <1>1, <1>3 DEF Map, Join
  <2>3. Shape'
    BY <1>1, <1>3, <2>2 DEF Shape, Place
  <2>4. CallersAgree'
    BY <1>1, <2>1, <2>2 DEF CallersAgree
  <2>5. Views'
    BY <1>3, <2>2 DEF Views
  <2>6. NothingWithoutClient'
    BY <1>1, <2>1, <2>2 DEF NothingWithoutClient
  <2>7. Chosen'
    BY <1>1, <1>3, <2>1 DEF Chosen, ChosenFor, Answers
  <2> QED
    BY <2>3, <2>4, <2>5, <2>6, <2>7
<1>4. CASE ~InFlight(stats, "") /\ stats' = Run(Claim(stats, r, ""), r)
           /\ pc' = [pc EXCEPT ![r] = "client"] /\ UNCHANGED got
  <2>1. pc'[r] = "client" /\ \A q \in Req : q # r => pc'[q] = pc[q]
    BY <1>1, <1>4
  <2>2. /\ stats' \in Map /\ stats'.owner[""] = r /\ stats.owner[""] = NoReq
        /\ stats'.memo[""] = stats.memo[""] /\ stats'.waiting[""] = stats.waiting[""]
    BY <1>1, <1>4 DEF Map, Run, Claim, InFlight
  <2>3. Shape'
    BY <1>1, <1>4, <2>2 DEF Shape, Place
  <2>4. CallersAgree'
    BY <1>1, <2>1, <2>2, NodesStatAssumptions DEF CallersAgree
  <2>5. Views'
    BY <1>4, <2>2 DEF Views
  <2>6. NothingWithoutClient'
    BY <1>1, <2>1, <2>2 DEF NothingWithoutClient
  <2>7. Chosen'
    BY <1>1, <1>4, <2>1 DEF Chosen, ChosenFor, Answers
  <2> QED
    BY <2>3, <2>4, <2>5, <2>6, <2>7
<1> QED
  BY <1>2, <1>3, <1>4 DEF Get

LEMMA ReadIsView ==
  ASSUME Shape
  PROVE  View(Read)
<1>1. \A n \in Node : cluster[n].labels \in Labels
  BY DEF Shape, Cluster
<1> QED
  BY <1>1 DEF Read, View, Distinct, NodeStat

\* The closure of r ends with v.
LEMMA InvReturn ==
  ASSUME Inv, NEW r \in Req, NEW v, v = NoStats \/ View(v), pc[r] \in {"client", "list"},
         Return(r, v), UNCHANGED <<cluster, ask, out, urls>>,
         client' \in {"new", "made", "failed"}, client' # "made" => v = NoStats /\ client # "made"
  PROVE  Inv'
<1> USE DEF Inv
<1> DEFINE rs == {r} \cup stats.waiting[""]
<1>1. /\ pc \in [Req -> Place] /\ DOMAIN got = Req /\ stats \in Map
      /\ pc' = [q \in Req |-> IF q \in rs THEN "got" ELSE pc[q]]
      /\ got' = [q \in Req |-> IF q \in rs THEN v ELSE got[q]]
      /\ stats' = Finish(stats, r, "", v)
  BY DEF Shape, Return
<1>2. v \in (SUBSET NodeStat) \cup {NoStats}
  BY DEF View
<1>3. /\ stats' \in Map /\ stats'.owner[""] = NoReq
      /\ stats'.memo[""] = v /\ stats'.waiting[""] = {}
  BY <1>1, <1>2 DEF Map, Finish
<1>4. \A q \in Req : q \in rs => pc'[q] = "got" /\ got'[q] = v
                                 /\ pc[q] \in {"waiting", "client", "list"}
  BY <1>1 DEF CallersAgree
<1>5. \A q \in Req : q \notin rs => /\ pc'[q] = pc[q] /\ got'[q] = got[q]
                                    /\ pc[q] \notin {"waiting", "client", "list"}
  BY <1>1 DEF CallersAgree
<1> HIDE DEF rs
<1>6. Shape'
  <2>1. pc' \in [Req -> Place]
    BY <1>1 DEF Place
  <2>2. DOMAIN got' = Req
    BY <1>1
  <2> QED
    BY <1>3, <2>1, <2>2 DEF Shape
<1>7. CallersAgree'
  BY <1>3, <1>4, <1>5, NodesStatAssumptions DEF CallersAgree
<1>8. Views'
  BY <1>3, <1>4, <1>5 DEF Views
<1>9. NothingWithoutClient'
  BY <1>3, <1>4, <1>5 DEF NothingWithoutClient
<1>10. Chosen'
  <2>1. ASSUME NEW q \in Req PROVE ChosenFor(q)'
    <3>1. CASE q \in rs
      BY <1>4, <3>1 DEF Chosen, ChosenFor, Answers
    <3>2. CASE q \notin rs
      BY <1>5, <3>2 DEF Chosen, ChosenFor, Answers
    <3> QED
      BY <3>1, <3>2
  <2> QED
    BY <2>1 DEF Chosen
<1> QED
  BY <1>6, <1>7, <1>8, <1>9, <1>10

LEMMA InvClient ==
  ASSUME Inv, NEW r \in Req, Client(r), UNCHANGED <<ask, out, urls>>
  PROVE  Inv'
<1> USE DEF Inv
<1>1. /\ pc[r] = "client" /\ UNCHANGED <<cluster, ask, out, urls>>
      /\ pc \in [Req -> Place]
  BY DEF Client, Shape
<1>2. CASE client' = "made" /\ pc' = [pc EXCEPT ![r] = "list"] /\ UNCHANGED <<stats, got>>
  <2>1. pc'[r] = "list" /\ \A q \in Req : q # r => pc'[q] = pc[q]
    BY <1>1, <1>2
  <2>2. Shape'
    BY <1>1, <1>2 DEF Shape, Place
  <2>3. CallersAgree'
    BY <1>1, <1>2, <2>1 DEF CallersAgree
  <2>4. Views'
    BY <1>2 DEF Views
  <2>5. NothingWithoutClient'
    BY <1>2 DEF NothingWithoutClient
  <2>6. Chosen'
    BY <1>1, <1>2, <2>1 DEF Chosen, ChosenFor, Answers
  <2> QED
    BY <2>2, <2>3, <2>4, <2>5, <2>6
<1>3. CASE client # "made" /\ client' = "failed" /\ Return(r, NoStats)
  BY <1>1, <1>3, InvReturn
<1> QED
  BY <1>2, <1>3 DEF Client

LEMMA InvList ==
  ASSUME Inv, NEW r \in Req, List(r) \/ ListFails(r), UNCHANGED <<ask, out, urls>>
  PROVE  Inv'
<1>1. /\ pc[r] = "list" /\ UNCHANGED <<cluster, client, ask, out, urls>>
      /\ Return(r, Read) \/ Return(r, NoStats)
  BY DEF List, ListFails
<1>2. client = "made" /\ client' = "made"
  BY <1>1 DEF Inv, Shape, NothingWithoutClient
<1>3. View(Read)
  BY ReadIsView DEF Inv
<1>4. CASE Return(r, Read)
  BY <1>1, <1>2, <1>3, <1>4, InvReturn
<1>5. CASE Return(r, NoStats)
  BY <1>1, <1>2, <1>5, InvReturn
<1> QED
  BY <1>1, <1>4, <1>5

LEMMA InvChoose ==
  ASSUME Inv, NEW r \in Req, Choose(r)
  PROVE  Inv'
<1> USE DEF Inv
<1>1. /\ pc[r] = "got" /\ got[r] # NoStats /\ pc' = [pc EXCEPT ![r] = "chosen"]
      /\ UNCHANGED <<cluster, client, stats, got, ask, urls>>
      /\ pc \in [Req -> Place] /\ DOMAIN out = Req
  BY DEF Choose, Shape
<1>2. PICK names \in Answers(ask[r], got[r]) : out' = [out EXCEPT ![r] = names]
  BY DEF Choose
<1>3. ask[r] \in Ask /\ View(got[r])
  BY <1>1 DEF Chosen, ChosenFor, Views
<1>4. names \in Seq(Node) /\ Len(names) <= maxSubdomains
  BY <1>2, <1>3, AnyAnswer
<1>5. /\ pc'[r] = "chosen" /\ out'[r] = names
      /\ \A q \in Req : q # r => pc'[q] = pc[q] /\ out'[q] = out[q]
  BY <1>1, <1>2
<1>6. Shape'
  <2>1. pc' \in [Req -> Place] /\ DOMAIN out' = Req
    BY <1>1, <1>2 DEF Place
  <2>2. \A q \in Req : out'[q] \in Seq(Node) /\ Len(out'[q]) <= maxSubdomains
    BY <1>4, <1>5 DEF Shape
  <2> QED
    BY <1>1, <2>1, <2>2 DEF Shape
<1>7. CallersAgree'
  BY <1>1, <1>5 DEF CallersAgree
<1>8. Views'
  BY <1>1 DEF Views
<1>9. NothingWithoutClient'
  BY <1>1, <1>5 DEF NothingWithoutClient
<1>10. Chosen'
  <2>1. ASSUME NEW q \in Req PROVE ChosenFor(q)'
    <3>1. CASE q = r
      BY <1>1, <1>2, <1>3, <1>5, <3>1 DEF ChosenFor, Answers
    <3>2. CASE q # r
      BY <1>1, <1>5, <3>2 DEF Chosen, ChosenFor, Answers
    <3> QED
      BY <3>1, <3>2
  <2> QED
    BY <2>1 DEF Chosen
<1> QED
  BY <1>6, <1>7, <1>8, <1>9, <1>10

LEMMA InvNextURL ==
  ASSUME Inv, NEW r \in Req, NextURL(r)
  PROVE  Inv'
<1> USE DEF Inv
<1>1. /\ pc[r] = "chosen" /\ ask[r].kind = "speedtest" /\ Len(urls[r]) + 1 < domains
      /\ pc' = [pc EXCEPT ![r] = "get"]
      /\ urls' = [urls EXCEPT ![r] = Append(@, out[r])]
      /\ out' = [out EXCEPT ![r] = <<>>]
      /\ got' = [got EXCEPT ![r] = NoStats]
      /\ UNCHANGED <<cluster, client, stats, ask>>
      /\ pc \in [Req -> Place] /\ DOMAIN got = Req /\ DOMAIN out = Req /\ DOMAIN urls = Req
  BY DEF NextURL, MoreURLs, Shape
<1>2. /\ pc'[r] = "get" /\ got'[r] = NoStats /\ out'[r] = <<>>
      /\ urls'[r] = Append(urls[r], out[r])
      /\ \A q \in Req : q # r => /\ pc'[q] = pc[q] /\ got'[q] = got[q]
                                 /\ out'[q] = out[q] /\ urls'[q] = urls[q]
  BY <1>1
<1>3. out[r] \in {<<>>} \cup {<<n>> : n \in Node}
  <2>1. ask[r] \in Ask /\ View(got[r]) /\ out[r] \in Answers(ask[r], got[r])
    BY <1>1 DEF Chosen, ChosenFor, Views
  <2> QED
    BY <1>1, <2>1, AnyAnswer
<1>4. Shape'
  <2> DEFINE E == {<<>>} \cup {<<n>> : n \in Node}
  <2>1. \A q \in Req : urls[q] \in Seq(E) /\ Len(urls[q]) < domains
    BY DEF Shape
  <2>2. out[r] \in E
    BY <1>3
  <2> HIDE DEF E
  <2>3. urls'[r] \in Seq(E) /\ Len(urls'[r]) = Len(urls[r]) + 1
    BY <1>2, <2>1, <2>2
  <2>4. \A q \in Req : urls'[q] \in Seq(E) /\ Len(urls'[q]) < domains
    BY <1>1, <1>2, <2>1, <2>3
  <2>5. <<>> \in Seq(Node) /\ Len(<<>>) <= maxSubdomains
    BY DEF maxSubdomains
  <2>6. \A q \in Req : out'[q] \in Seq(Node) /\ Len(out'[q]) <= maxSubdomains
    BY <1>2, <2>5 DEF Shape
  <2>7. pc' \in [Req -> Place] /\ DOMAIN got' = Req /\ DOMAIN out' = Req /\ DOMAIN urls' = Req
    BY <1>1 DEF Place
  <2> QED
    BY <1>1, <2>4, <2>6, <2>7 DEF Shape, E
<1>5. CallersAgree'
  BY <1>1, <1>2 DEF CallersAgree
<1>6. Views'
  BY <1>1, <1>2 DEF Views
<1>7. NothingWithoutClient'
  BY <1>1, <1>2 DEF NothingWithoutClient
<1>8. Chosen'
  <2>1. ASSUME NEW q \in Req PROVE ChosenFor(q)'
    <3>1. CASE q = r
      BY <1>1, <1>2, <3>1 DEF Chosen, ChosenFor
    <3>2. CASE q # r
      BY <1>1, <1>2, <3>2 DEF Chosen, ChosenFor, Answers
    <3> QED
      BY <3>1, <3>2
  <2> QED
    BY <2>1 DEF Chosen
<1> QED
  BY <1>4, <1>5, <1>6, <1>7, <1>8

LEMMA InvDone ==
  ASSUME Inv, NEW r \in Req, Done(r)
  PROVE  Inv'
<1> USE DEF Inv
<1>1. /\ pc[r] \in {"chosen", "got"}
      /\ pc' = [pc EXCEPT ![r] = "idle"]
      /\ got' = [got EXCEPT ![r] = NoStats]
      /\ ask' = [ask EXCEPT ![r] = NoAsk]
      /\ out' = [out EXCEPT ![r] = <<>>]
      /\ urls' = [urls EXCEPT ![r] = <<>>]
      /\ UNCHANGED <<cluster, client, stats>>
      /\ pc \in [Req -> Place] /\ ask \in [Req -> Ask \cup {NoAsk}]
      /\ DOMAIN got = Req /\ DOMAIN out = Req /\ DOMAIN urls = Req
  BY DEF Done, Shape
<1>2. /\ pc'[r] = "idle" /\ got'[r] = NoStats /\ out'[r] = <<>> /\ urls'[r] = <<>>
      /\ \A q \in Req : q # r => /\ pc'[q] = pc[q] /\ got'[q] = got[q] /\ ask'[q] = ask[q]
                                 /\ out'[q] = out[q] /\ urls'[q] = urls[q]
  BY <1>1
<1>3. Shape'
  <2>1. \A T : <<>> \in Seq(T) /\ Len(<<>>) = 0
    OBVIOUS
  <2>2. 0 <= maxSubdomains /\ 0 < domains
    BY SubdomainsAssumptions DEF maxSubdomains
  <2>3. \A q \in Req :
          /\ out'[q] \in Seq(Node) /\ Len(out'[q]) <= maxSubdomains
          /\ urls'[q] \in Seq({<<>>} \cup {<<n>> : n \in Node}) /\ Len(urls'[q]) < domains
    BY <1>2, <2>1, <2>2 DEF Shape
  <2>4. /\ pc' \in [Req -> Place] /\ ask' \in [Req -> Ask \cup {NoAsk}]
        /\ DOMAIN got' = Req /\ DOMAIN out' = Req /\ DOMAIN urls' = Req
    BY <1>1 DEF Place
  <2> QED
    BY <1>1, <2>3, <2>4 DEF Shape
<1>4. CallersAgree'
  BY <1>1, <1>2 DEF CallersAgree
<1>5. Views'
  BY <1>1, <1>2 DEF Views
<1>6. NothingWithoutClient'
  BY <1>1, <1>2 DEF NothingWithoutClient
<1>7. Chosen'
  BY <1>2 DEF Chosen, ChosenFor, Answers
<1> QED
  BY <1>3, <1>4, <1>5, <1>6, <1>7

LEMMA InvExpire ==
  ASSUME Inv, Expire, UNCHANGED <<ask, out, urls>>
  PROVE  Inv'
<1> USE DEF Inv
<1>1. stats' = Evict(stats, "") /\ UNCHANGED <<cluster, client, pc, got, ask, out, urls>>
  BY DEF Expire
<1>2. /\ stats' \in Map /\ stats'.owner[""] = stats.owner[""]
      /\ stats'.memo[""] = NoStats /\ stats'.waiting[""] = stats.waiting[""]
  BY <1>1 DEF Shape, Map, Evict
<1>3. Shape'
  BY <1>1, <1>2 DEF Shape
<1>4. CallersAgree'
  BY <1>1, <1>2 DEF CallersAgree
<1>5. Views'
  BY <1>1, <1>2 DEF Views
<1>6. NothingWithoutClient'
  BY <1>1, <1>2 DEF NothingWithoutClient
<1>7. Chosen'
  BY <1>1 DEF Chosen, ChosenFor, Answers
<1> QED
  BY <1>3, <1>4, <1>5, <1>6, <1>7

LEMMA InvNodeChanges ==
  ASSUME Inv, NEW n \in Node, NodeChanges(n), UNCHANGED <<ask, out, urls>>
  PROVE  Inv'
<1> USE DEF Inv
<1>1. /\ UNCHANGED <<client, stats, pc, got, ask, out, urls>>
      /\ \E s \in [ready : BOOLEAN, labels : Labels] : cluster' = [cluster EXCEPT ![n] = s]
  BY DEF NodeChanges
<1>2. cluster' \in Cluster
  BY <1>1 DEF Shape, Cluster
<1>3. Shape'
  BY <1>1, <1>2 DEF Shape
<1>4. CallersAgree' /\ Views' /\ NothingWithoutClient'
  BY <1>1 DEF CallersAgree, Views, NothingWithoutClient
<1>5. Chosen'
  BY <1>1 DEF Chosen, ChosenFor, Answers
<1> QED
  BY <1>3, <1>4, <1>5

LEMMA InvStutter ==
  ASSUME Inv, UNCHANGED vars
  PROVE  Inv'
<1> USE DEF Inv, vars
<1>1. Shape'
  BY DEF Shape
<1>2. CallersAgree' /\ Views' /\ NothingWithoutClient'
  BY DEF CallersAgree, Views, NothingWithoutClient
<1>3. Chosen'
  BY DEF Chosen, ChosenFor, Answers
<1> QED
  BY <1>1, <1>2, <1>3

LEMMA InvNext ==
  ASSUME Inv, [Next]_vars
  PROVE  Inv'
<1>1. ASSUME NEW r \in Req, Arrive(r) \/ Step(r) \/ Choose(r) \/ NextURL(r) \/ Done(r)
      PROVE  Inv'
  <2>1. CASE Step(r)
    BY <2>1, InvGet, InvClient, InvList DEF Step, NodesStep
  <2> QED
    BY <1>1, <2>1, InvArrive, InvChoose, InvNextURL, InvDone
<1> QED
  BY <1>1, InvExpire, InvNodeChanges, InvStutter DEF Next

\* What the process knows of the nodes, and what it answers of them, is
\* always what was read of them at one time.
THEOREM SubdomainsInvariant == SafetySpec => []Inv
<1> QED
  BY InvInit, InvNext, PTL DEF SafetySpec

-----------------------------------------------------------------------------
(* What follows from it                                                    *)

\* Every variable has its type, whatever the labels of the nodes, the tokens of
\* the requests and the configuration of the process.
THEOREM TypeCorrect == SafetySpec => []TypeOK
<1>1. ASSUME Inv PROVE TypeOK
  <2>1. /\ stats.owner[""] \in Req \cup {NoReq} /\ stats.waiting[""] \subseteq Req
        /\ stats.running \subseteq Req
    BY <1>1 DEF Inv, Shape, Map
  <2>2. stats.memo[""] = NoStats \/ stats.memo[""] \subseteq NodeStat
    BY <1>1 DEF Inv, Views, View
  <2>3. \A r \in Req : got[r] = NoStats \/ got[r] \subseteq NodeStat
    BY <1>1 DEF Inv, Views, View
  <2>4. NodesTypeOK
    BY <1>1, <2>1, <2>2, <2>3 DEF NodesTypeOK, Inv, Shape, Place
  <2> QED
    BY <1>1, <2>4 DEF TypeOK, Inv, Shape
<1> QED
  BY <1>1, SubdomainsInvariant, PTL

\* An export that was answered, and what it may have been answered.
LEMMA AnsweredExport ==
  ASSUME Inv, NEW r \in Req, Answered(r, "export")
  PROVE  /\ View(got[r])
         /\ Answers(ask[r], got[r]) = SubdomainsGet(got[r], ask[r].prefix, exportRole(ask[r]))
         /\ out[r] \in SubdomainsGet(got[r], ask[r].prefix, exportRole(ask[r]))
<1>1. pc[r] = "chosen" /\ ask[r].kind = "export"
  BY DEF Answered
<1>2. got[r] # NoStats /\ out[r] \in Answers(ask[r], got[r])
  BY <1>1 DEF Inv, Chosen, ChosenFor
<1>3. View(got[r])
  BY <1>2 DEF Inv, Views
<1>4. Answers(ask[r], got[r]) = SubdomainsGet(got[r], ask[r].prefix, exportRole(ask[r]))
  BY <1>1 DEF Answers
<1> QED
  BY <1>2, <1>3, <1>4

\* URLs of one torrent minted for one role from the same view of the nodes point
\* to the same node, though sort.Slice may order the equal scores as it likes
\* (subdomains.go:65, 167).
THEOREM AlwaysSticky == SafetySpec => []Sticky
<1>1. ASSUME Inv PROVE Sticky
  <2> SUFFICES ASSUME NEW r \in Req, Answered(r, "export"), out[r] # <<>>,
                      NEW other \in Answers(ask[r], got[r])
               PROVE  other[1] = out[r][1]
    BY DEF Sticky
  <2> DEFINE S == got[r]
             x == ask[r].prefix
             role == exportRole(ask[r])
  <2>1. View(S) /\ out[r] \in SubdomainsGet(S, x, role) /\ other \in SubdomainsGet(S, x, role)
    BY <1>1, AnsweredExport
  <2> HIDE DEF S, x, role
  <2>2. PICK C, n, ring, t :
          C = Candidates(S, role) /\ n = Cardinality(C) /\ ring = Ring(C) /\ t = owner(n, x)
    OBVIOUS
  <2>3. C # {} /\ out[r][1] = ring[t + 1].name
    <3>1. Spotted(out[r], C, x)
      BY <2>1, <2>2, ExportAnswer
    <3> QED
      BY <2>2, <3>1 DEF Spotted
  <2>4. other[1] = ring[t + 1].name
    <3>1. Spotted(other, C, x)
      BY <2>1, <2>2, ExportAnswer
    <3> QED
      BY <2>2, <2>3, <3>1 DEF Spotted
  <2> QED
    BY <2>3, <2>4
<1> QED
  BY <1>1, SubdomainsInvariant, PTL

\* The other subdomains of a torrent are the nodes next to its own on the ring,
\* one on each side, each node once, on a ring of any number of nodes: no other
\* place of the ring is near enough for a score as high (subdomains.go:65-114).
THEOREM AlwaysNeighboursNext == SafetySpec => []NeighboursNext
<1>1. ASSUME Inv PROVE NeighboursNext
  <2> SUFFICES ASSUME NEW r \in Req, Answered(r, "export"), out[r] # <<>>
               PROVE  LET ring == Ring(Candidates(got[r], exportRole(ask[r])))
                          n    == Len(ring)
                          at   == CHOOSE i \in 1..n : ring[i].name = out[r][1]
                      IN  /\ Len(out[r]) = Min({n, maxSubdomains})
                          /\ ToSet(out[r]) = {ring[at].name, ring[(at % n) + 1].name,
                                              ring[((at + n - 2) % n) + 1].name}
    BY DEF NeighboursNext
  <2> DEFINE at(ring) == CHOOSE i \in 1..Len(ring) : ring[i].name = out[r][1]
  <2>1. PICK S, x, role : S = got[r] /\ x = ask[r].prefix /\ role = exportRole(ask[r])
    OBVIOUS
  <2>2. View(S) /\ out[r] \in SubdomainsGet(S, x, role)
    BY <1>1, <2>1, AnsweredExport
  <2>3. PICK C, n, ring, t :
          C = Candidates(S, role) /\ n = Cardinality(C) /\ ring = Ring(C) /\ t = owner(n, x)
    OBVIOUS
  <2>4. /\ n \in Nat /\ n # 0
        /\ n < 3 => Len(out[r]) = n
        /\ n > 2 => Len(out[r]) = 3
        /\ t \in 0..(n - 1) /\ out[r][1] = ring[t + 1].name
        /\ ToSet(out[r]) = {ring[t + 1].name, ring[((t + 1) % n) + 1].name,
                            ring[((t - 1 + n) % n) + 1].name}
    <3>1. Spotted(out[r], C, x)
      BY <2>2, <2>3, ExportAnswer
    <3> QED
      BY <2>3, <3>1 DEF Spotted
  <2>5. Len(ring) = n /\ \A j, k \in 1..n : ring[j].name = ring[k].name => j = k
    BY <2>2, <2>3, CandidatesAreOfView, ViewsWithin, RingParts
  <2>6. at(ring) = t + 1
    <3>1. t + 1 \in 1..n /\ ring[t + 1].name = out[r][1]
      BY <2>4
    <3>2. at(ring) \in 1..n /\ ring[at(ring)].name = out[r][1]
      BY <2>5, <3>1
    <3> QED
      BY <2>5, <3>1, <3>2
  <2>7. PICK a : a = at(ring)
    OBVIOUS
  <2> HIDE DEF at
  <2>8. a % n = (t + 1) % n /\ (a + n - 2) % n = (t - 1 + n) % n
    <3>1. n \in Nat /\ t \in Int
      BY <2>4
    <3>2. a = t + 1 /\ a + n - 2 = t - 1 + n
      BY <2>6, <2>7, <3>1
    <3> QED
      BY <3>2
  <2>9. Len(out[r]) = Min({n, maxSubdomains})
    <3>1. maxSubdomains = 3
      BY DEF maxSubdomains
    <3>2. n < 3 \/ n > 2
      BY <2>4
    <3>3. n < 3 => Min({n, 3}) = n
      BY <2>4 DEF Min
    <3>4. n > 2 => Min({n, 3}) = 3
      BY <2>4 DEF Min
    <3> QED
      BY <2>4, <3>1, <3>2, <3>3, <3>4
  <2>10. ToSet(out[r]) = {ring[a].name, ring[(a % n) + 1].name,
                          ring[((a + n - 2) % n) + 1].name}
    BY <2>4, <2>6, <2>7, <2>8
  <2>11. Ring(Candidates(got[r], exportRole(ask[r]))) = ring
    BY <2>1, <2>3
  <2> QED
    BY <2>5, <2>7, <2>9, <2>10, <2>11 DEF at
<1> QED
  BY <1>1, SubdomainsInvariant, PTL

\* The nodes of the pool that allow the role if the pool has any node, all
\* that allow it otherwise.
LEMMA CandidatesAre ==
  ASSUME NEW S, View(S), NEW role,
         NEW willing, willing = filterByRole(Named(S), role),
         NEW inPool, inPool = {s \in Named(S) : pool \in s.labels.pools}
  PROVE  /\ inPool # {} => Candidates(S, role) = inPool \cap willing
         /\ inPool = {} => Candidates(S, role) = willing
         /\ inPool # {} => pool # NoPool
         /\ pool # NoPool => SpeedtestCandidates(S, role) = inPool \cap willing
<1>1. Named(S) \subseteq S /\ \A s \in S : s.labels \in Labels
  BY DEF Named, View, NodeStat
<1>2. inPool # {} => pool # NoPool
  BY <1>1, SubdomainsAssumptions
<1>3. filterByRole(inPool, role) = inPool \cap willing
  BY DEF filterByRole
<1>4. pool # NoPool => filterByPool(Named(S), pool) = inPool
  BY DEF filterByPool
<1>5. filterByPool(Named(S), NoPool) = Named(S)
  BY DEF filterByPool
<1>6. CASE inPool # {}
  BY <1>2, <1>3, <1>4, <1>6 DEF Candidates, SpeedtestCandidates
<1>7. CASE inPool = {}
  BY <1>2, <1>3, <1>4, <1>5, <1>7 DEF Candidates, SpeedtestCandidates
<1> QED
  BY <1>6, <1>7

\* An export gets no subdomain only if every node that has one refuses its role,
\* or all those of the pool do while the pool has some (subdomains.go:116-165).
THEOREM AlwaysEmptyOnlyIfRefused == SafetySpec => []EmptyOnlyIfRefused
<1>1. ASSUME Inv PROVE EmptyOnlyIfRefused
  <2> SUFFICES ASSUME NEW r \in Req, Answered(r, "export")
               PROVE  LET willing == filterByRole(Named(got[r]), exportRole(ask[r]))
                          inPool  == {s \in Named(got[r]) : pool \in s.labels.pools}
                      IN  out[r] = <<>> <=> willing = {} \/ (inPool # {} /\ inPool \cap willing = {})
    BY DEF EmptyOnlyIfRefused
  <2> DEFINE S       == got[r]
             role    == exportRole(ask[r])
             willing == filterByRole(Named(S), role)
             inPool  == {s \in Named(S) : pool \in s.labels.pools}
  <2>1. View(S) /\ out[r] \in SubdomainsGet(S, ask[r].prefix, role)
    BY <1>1, AnsweredExport
  <2>2. out[r] = <<>> <=> Candidates(S, role) = {}
    BY <2>1, ExportAnswer DEF Spotted
  <2>3. /\ inPool # {} => Candidates(S, role) = inPool \cap willing
        /\ inPool = {} => Candidates(S, role) = willing
    <3> HIDE DEF S, role
    <3> QED
      BY <2>1, CandidatesAre
  <2> HIDE DEF S, role, willing, inPool
  <2>4. out[r] = <<>> <=> willing = {} \/ (inPool # {} /\ inPool \cap willing = {})
    BY <2>2, <2>3
  <2> QED
    BY <2>4 DEF S, role, willing, inPool
<1> QED
  BY <1>1, SubdomainsInvariant, PTL

\* Once the client of Kubernetes could not be made, nothing is known of the nodes
\* any more: sync.Once keeps the error, and nobody lists nodes without a client
\* (k8s_client.go, nodes_stat.go).
THEOREM ClientNeverMadeAgain == SafetySpec => ClientFailureIsPermanent
<1>1. Inv /\ client = "failed" => stats.memo[""] = NoStats
  BY DEF Inv, NothingWithoutClient
<1>2. ASSUME Inv, client = "failed", [Next]_vars PROVE (client = "failed")'
  BY <1>2 DEF Next, vars, Arrive, Step, NodesStep, Get, Client, List, ListFails, Choose,
              NextURL, Done, Expire, NodeChanges
<1> QED
  BY <1>1, <1>2, SubdomainsInvariant, PTL DEF SafetySpec, ClientFailureIsPermanent

\* The candidates of a speed test are among those of an export with the same
\* token, and there are none, where the export has some, for no other reason.
LEMMA SpeedtestAmongExports ==
  ASSUME NEW S, View(S), NEW a \in Ask, a.token # Bad,
         NEW inPool, inPool = {s \in Named(S) : pool \in s.labels.pools},
         NEW E, E = Candidates(S, exportRole(a)),
         NEW T, T = SpeedtestCandidates(S, speedtestRole(a))
  PROVE  /\ T \subseteq E
         /\ T = {} /\ E # {} =>
              \/ inPool = {}
              \/ a.token = NoRole /\ filterByRole(inPool, apiRole) = {}
<1>1. a.token \in Role \cup {NoRole, NoToken}
  BY SubdomainsAssumptions DEF Ask
<1>2. \/ exportRole(a) = speedtestRole(a)
      \/ a.token = NoRole /\ exportRole(a) = NoRole /\ speedtestRole(a) = apiRole
  BY <1>1, SubdomainsAssumptions DEF exportRole, speedtestRole
<1>3. CASE pool = NoPool
  <2>1. inPool = {}
    BY <1>3, CandidatesAre
  <2>2. E = filterByRole(Named(S), exportRole(a))
    BY <2>1, CandidatesAre
  <2>3. T = filterByRole(Named(S), speedtestRole(a))
    BY <1>3 DEF SpeedtestCandidates, filterByPool
  <2>4. filterByRole(Named(S), apiRole) \subseteq filterByRole(Named(S), NoRole)
    BY DEF filterByRole
  <2> QED
    BY <1>2, <2>1, <2>2, <2>3, <2>4
<1>4. CASE pool # NoPool
  <2> DEFINE W(role) == filterByRole(Named(S), role)
  <2>1. T = inPool \cap W(speedtestRole(a))
    BY <1>4, CandidatesAre
  <2>2. /\ inPool # {} => E = inPool \cap W(exportRole(a))
        /\ inPool = {} => E = W(exportRole(a))
    <3>1. inPool # {} => E = inPool \cap W(exportRole(a))
      BY CandidatesAre
    <3>2. inPool = {} => E = W(exportRole(a))
      BY CandidatesAre
    <3> QED
      BY <3>1, <3>2
  <2>3. W(apiRole) \subseteq W(NoRole)
    BY DEF filterByRole
  <2>4. filterByRole(inPool, apiRole) = inPool \cap W(apiRole)
    BY DEF filterByRole
  <2> HIDE DEF W
  <2> QED
    BY <1>2, <2>1, <2>2, <2>3, <2>4
<1> QED
  BY <1>3, <1>4

\* Each URL of a speed test is of a node that an export with the same token may
\* be served by, and is without a node, where exports have one, only if the pool
\* is empty or the token has no role (speedtest.go:55, 116).
THEOREM SpeedTestAlwaysMeasuresExports == SafetySpec => []SpeedTestMeasuresExports
<1>1. ASSUME Inv PROVE SpeedTestMeasuresExports
  <2> SUFFICES ASSUME NEW r \in Req, Answered(r, "speedtest"), ask[r].token # Bad
               PROVE  LET names  == {s.name : s \in Candidates(got[r], exportRole(ask[r]))}
                          inPool == {s \in Named(got[r]) : pool \in s.labels.pools}
                      IN  /\ ToSet(out[r]) \subseteq names
                          /\ out[r] = <<>> /\ names # {} =>
                               \/ inPool = {}
                               \/ ask[r].token = NoRole /\ filterByRole(inPool, apiRole) = {}
    BY DEF SpeedTestMeasuresExports
  <2> DEFINE S      == got[r]
             E      == Candidates(S, exportRole(ask[r]))
             T      == SpeedtestCandidates(S, speedtestRole(ask[r]))
             names  == {s.name : s \in E}
             inPool == {s \in Named(S) : pool \in s.labels.pools}
  <2>1. pc[r] = "chosen" /\ ask[r].kind # "export"
    BY DEF Answered
  <2>2. /\ View(S) /\ ask[r] \in Ask
        /\ out[r] \in getRandomSubdomain(S, speedtestRole(ask[r]))
    BY <1>1, <2>1 DEF Inv, Chosen, ChosenFor, Views, Answers
  <2>3. /\ T = {} => out[r] = <<>>
        /\ T # {} => \E s \in T : out[r] = <<s.name>>
    BY <2>2, SpeedtestAnswer
  <2>4. /\ T \subseteq E
        /\ T = {} /\ E # {} =>
             \/ inPool = {}
             \/ ask[r].token = NoRole /\ filterByRole(inPool, apiRole) = {}
    <3> DEFINE a == ask[r]
    <3>1. View(S) /\ a \in Ask /\ a.token # Bad
      BY <2>2
    <3> HIDE DEF S, a
    <3>2. /\ inPool = {s \in Named(S) : pool \in s.labels.pools}
          /\ E = Candidates(S, exportRole(a)) /\ T = SpeedtestCandidates(S, speedtestRole(a))
      BY DEF a
    <3> HIDE DEF inPool, E, T
    <3>3. T \subseteq E
      BY <3>1, <3>2, SpeedtestAmongExports
    <3>4. T = {} /\ E # {} =>
            \/ inPool = {}
            \/ a.token = NoRole /\ filterByRole(inPool, apiRole) = {}
      BY <3>1, <3>2, SpeedtestAmongExports
    <3> QED
      BY <3>3, <3>4 DEF a
  <2> HIDE DEF S, E, T, inPool
  <2>5. \A x : ToSet(<<x>>) = {x} /\ <<x>> # <<>>
    BY DEF ToSet
  <2>6. ToSet(<<>>) = {}
    BY DEF ToSet
  <2>7. ToSet(out[r]) \subseteq names /\ (out[r] = <<>> => T = {})
    BY <2>3, <2>4, <2>5, <2>6
  <2>8. out[r] = <<>> /\ names # {} =>
          \/ inPool = {}
          \/ ask[r].token = NoRole /\ filterByRole(inPool, apiRole) = {}
    BY <2>4, <2>7
  <2> QED
    BY <2>7, <2>8 DEF S, E, inPool
<1> QED
  BY <1>1, SubdomainsInvariant, PTL

-----------------------------------------------------------------------------
(* The shares of the nodes                                                 *)

\* Intervals are measured in thousandths of a prefix, and a prefix is in the one
\* that its first thousandth is in: this is the first prefix not before a.
Ceil(a) == (a + 999) \div 1000

LEMMA CeilIs ==
  ASSUME NEW a \in Nat
  PROVE  Ceil(a) \in Nat /\ 1000 * Ceil(a) >= a /\ 1000 * Ceil(a) < a + 1000
BY DEF Ceil

\* The length of an interval, and where the i-th begins.
Interval(n)  == (MaxPrefix * 1000) \div n
Start(n, i) == i * Interval(n)

LEMMA StartIs ==
  ASSUME NEW n \in Nat \ {0}, NEW i \in Nat
  PROVE  /\ Interval(n) \in Nat /\ Start(n, i) \in Nat
         /\ Start(n, i + 1) = Start(n, i) + Interval(n)
<1> DEFINE I == Interval(n)
           all == MaxPrefix * 1000
<1>1. I \in Nat
  <2>1. all \in Nat
    BY SubdomainsAssumptions
  <2>2. \A a \in Nat : a \div n \in Nat
    OBVIOUS
  <2>3. I = all \div n
    BY DEF Interval
  <2> HIDE DEF all
  <2> QED
    BY <2>1, <2>2, <2>3
<1> HIDE DEF I
<1>2. i * I \in Nat /\ (i + 1) * I = i * I + I
  BY <1>1
<1> QED
  BY <1>1, <1>2 DEF I, Start

LEMMA Intervals ==
  ASSUME NEW n \in Nat \ {0}, n <= 1000, n <= MaxPrefix
  PROVE  /\ Interval(n) \in Nat /\ Interval(n) >= 1000
         /\ \A i, j \in Nat : i <= j => Start(n, i) <= Start(n, j)
         /\ Start(n, 0) = 0
         /\ Start(n, n) <= 1000 * MaxPrefix
         /\ 1000 * MaxPrefix < Start(n, n) + 1000
<1> DEFINE I == Interval(n)
           all == MaxPrefix * 1000
<1>1. MaxPrefix \in Nat \ {0} /\ all \in Nat /\ all = 1000 * MaxPrefix
  BY SubdomainsAssumptions
<1>2. I \in Nat /\ n * I <= all /\ all < n * I + n
  <2>1. \A a \in Nat : a \div n \in Nat /\ n * (a \div n) <= a /\ a < n * (a \div n) + n
    OBVIOUS
  <2> HIDE DEF all
  <2>2. I = all \div n
    BY DEF Interval, all
  <2> QED
    BY <1>1, <2>1, <2>2
<1> HIDE DEF I, all
<1>3. I >= 1000
  <2> SUFFICES ASSUME I + 1 <= 1000 PROVE FALSE
    BY <1>2
  <2>1. n * (I + 1) <= n * 1000
    BY <1>2
  <2>2. n * (I + 1) = n * I + n
    BY <1>2
  <2>3. n * 1000 <= 1000 * MaxPrefix
    BY <1>1
  <2>4. n * I \in Nat
    BY <1>2
  <2> QED
    BY <1>1, <1>2, <2>1, <2>2, <2>3, <2>4
<1>5. ASSUME NEW i \in Nat, NEW j \in Nat, i <= j PROVE i * I <= j * I
  BY <1>2, <1>5
<1>6. 0 * I = 0 /\ n * I \in Nat
  BY <1>2
<1>7. n * I <= 1000 * MaxPrefix /\ 1000 * MaxPrefix < n * I + 1000
  BY <1>1, <1>2, <1>6
<1> QED
  BY <1>2, <1>3, <1>5, <1>6, <1>7 DEF I, Start

\* The prefixes that fall into the i-th interval, and how many they are: as many as
\* any other, or one more or less.
Share(n, i) == Ceil(Start(n, i + 1)) - Ceil(Start(n, i))

LEMMA Shares ==
  ASSUME NEW n \in Nat \ {0}, n <= 1000, n <= MaxPrefix
  PROVE  \E q \in Nat \ {0} : \A i \in Nat : Share(n, i) \in {q, q + 1}
<1> DEFINE I == Interval(n)
           q == I \div 1000
<1>1. I \in Nat /\ I >= 1000
  BY Intervals
<1>2. q \in Nat \ {0} /\ 1000 * q <= I /\ I < 1000 * q + 1000
  <2> HIDE DEF I
  <2> QED
    BY <1>1
<1>3. ASSUME NEW i \in Nat PROVE Share(n, i) \in {q, q + 1}
  <2> DEFINE a == Start(n, i)
             b == Start(n, i + 1)
             c == Ceil(a)
             d == Ceil(b)
  <2>1. a \in Nat /\ b \in Nat /\ b = a + I
    <3>1. i + 1 \in Nat
      OBVIOUS
    <3>2. Start(n, i + 1) \in Nat
      BY <3>1, StartIs
    <3> QED
      BY <3>2, StartIs
  <2> HIDE DEF a, b, I, q
  <2>2. /\ c \in Nat /\ 1000 * c >= a /\ 1000 * c < a + 1000
        /\ d \in Nat /\ 1000 * d >= b /\ 1000 * d < b + 1000
    BY <2>1, CeilIs
  <2> HIDE DEF c, d
  <2>3. d - c = q \/ d - c = q + 1
    BY <1>1, <1>2, <2>1, <2>2
  <2> QED
    BY <2>3 DEF Share, a, b, c, d
<1> QED
  BY <1>2, <1>3

\* Whose a prefix is: that of the interval it falls into, and the last prefix is
\* the first node's.
LEMMA OwnerByInterval ==
  ASSUME NEW n \in Nat \ {0}, n <= 1000, n <= MaxPrefix,
         NEW x \in 0..MaxPrefix, NEW i \in 0..(n - 1)
  PROVE  owner(n, x) = i <=>
           \/ Start(n, i) <= 1000 * x /\ 1000 * x < Start(n, i + 1)
           \/ i = 0 /\ x = MaxPrefix
<1> DEFINE ends == {k \in 0..(n - 1) : x * 1000 < (k + 1) * Interval(n)}
           y == x * 1000
<1>1. owner(n, x) = IF ends = {} THEN 0 ELSE Min(ends)
  BY DEF owner, Interval
<1>2. /\ \A k \in Nat : Start(n, k) \in Nat
      /\ \A j, k \in Nat : j <= k => Start(n, j) <= Start(n, k)
      /\ Start(n, 0) = 0 /\ Start(n, n) <= 1000 * MaxPrefix
      /\ 1000 * MaxPrefix < Start(n, n) + 1000
  <2>1. \A k \in Nat : Start(n, k) \in Nat
    BY StartIs
  <2>2. \A j, k \in Nat : j <= k => Start(n, j) <= Start(n, k)
    BY Intervals
  <2>3. /\ Start(n, 0) = 0 /\ Start(n, n) <= 1000 * MaxPrefix
        /\ 1000 * MaxPrefix < Start(n, n) + 1000
    BY Intervals
  <2> QED
    BY <2>1, <2>2, <2>3
<1>3. y \in Nat /\ y = 1000 * x /\ x \in Nat /\ x <= MaxPrefix /\ MaxPrefix \in Nat
  BY SubdomainsAssumptions
<1>4. \A k : k \in ends <=> k \in 0..(n - 1) /\ y < Start(n, k + 1)
  BY DEF Start
<1>5. i \in Nat /\ i + 1 \in Nat /\ i + 1 <= n
  OBVIOUS
<1> HIDE DEF ends, y
<1>6. ends = {} <=> x = MaxPrefix
  <2>1. n - 1 \in 0..(n - 1) /\ (n - 1) + 1 = n
    OBVIOUS
  <2>2. ends = {} => ~(y < Start(n, n))
    BY <1>4, <2>1
  <2>3. ~(y < Start(n, n)) => ends = {}
    <3> SUFFICES ASSUME NEW k \in ends PROVE y < Start(n, n)
      OBVIOUS
    <3>1. k \in 0..(n - 1) /\ y < Start(n, k + 1)
      BY <1>4
    <3>2. k + 1 \in Nat /\ k + 1 <= n
      BY <3>1
    <3>3. Start(n, k + 1) <= Start(n, n) /\ Start(n, k + 1) \in Nat /\ Start(n, n) \in Nat
      BY <1>2, <3>2
    <3> QED
      BY <1>3, <3>1, <3>3
  <2>4. y < Start(n, n) <=> x < MaxPrefix
    <3>1. Start(n, n) \in Nat
      BY <1>2
    <3> QED
      BY <1>2, <1>3, <3>1
  <2> QED
    BY <1>3, <2>2, <2>3, <2>4
<1>7. CASE x = MaxPrefix
  <2>1. owner(n, x) = 0
    BY <1>1, <1>6, <1>7
  <2>2. ~(1000 * x < Start(n, i + 1))
    <3>1. Start(n, i + 1) <= Start(n, n) /\ Start(n, i + 1) \in Nat /\ Start(n, n) \in Nat
      BY <1>2, <1>5
    <3> QED
      BY <1>2, <1>3, <1>7, <3>1
  <2> QED
    BY <1>7, <2>1, <2>2
<1>8. CASE x # MaxPrefix
  <2>1. PICK m \in ends : \A k \in ends : m <= k
    <3>1. ends # {} /\ ends \subseteq Nat
      BY <1>4, <1>6, <1>8
    <3>2. PICK m \in ends : \A k \in ends : ~(k < m)
      BY <3>1, LeastNatural
    <3> QED
      BY <3>1, <3>2
  <2>2. owner(n, x) \in ends /\ \A k \in ends : owner(n, x) <= k
    BY <1>1, <2>1 DEF Min
  <2> DEFINE o == owner(n, x)
  <2> HIDE DEF o
  <2>3. o \in 0..(n - 1) /\ o \in Nat /\ y < Start(n, o + 1)
    BY <1>4, <2>2 DEF o
  <2>4. Start(n, o) <= y
    <3>1. CASE o = 0
      BY <1>2, <1>3, <3>1
    <3>2. CASE o # 0
      <4>1. o - 1 \in 0..(n - 1) /\ ~(o <= o - 1) /\ (o - 1) + 1 = o
        BY <2>3, <3>2
      <4>2. o - 1 \notin ends
        BY <2>2, <4>1 DEF o
      <4>3. ~(y < Start(n, o))
        BY <1>4, <4>1, <4>2
      <4>4. Start(n, o) \in Nat
        BY <1>2, <2>3
      <4> QED
        BY <1>3, <4>3, <4>4
    <3> QED
      BY <3>1, <3>2
  <2>5. ASSUME Start(n, i) <= y, y < Start(n, i + 1) PROVE o = i
    <3>1. CASE o < i
      <4>1. o + 1 \in Nat /\ o + 1 <= i
        BY <1>5, <2>3, <3>1
      <4>2. Start(n, o + 1) <= Start(n, i) /\ Start(n, o + 1) \in Nat /\ Start(n, i) \in Nat
        BY <1>2, <1>5, <4>1
      <4> QED
        BY <1>3, <2>3, <2>5, <4>2
    <3>2. CASE i < o
      <4>1. i + 1 <= o
        BY <1>5, <2>3, <3>2
      <4>2. Start(n, i + 1) <= Start(n, o) /\ Start(n, i + 1) \in Nat /\ Start(n, o) \in Nat
        BY <1>2, <1>5, <2>3, <4>1
      <4> QED
        BY <1>3, <2>4, <2>5, <4>2
    <3> QED
      BY <1>5, <2>3, <3>1, <3>2
  <2> QED
    BY <1>3, <1>8, <2>3, <2>4, <2>5 DEF o
<1> QED
  BY <1>7, <1>8

\* How many prefixes the i-th node owns: those of its share, and the first node one
\* more.
LEMMA Loads ==
  ASSUME NEW n \in Nat \ {0}, n <= 1000, n <= MaxPrefix, NEW i \in 0..(n - 1)
  PROVE  Cardinality({x \in 0..MaxPrefix : owner(n, x) = i})
           = Share(n, i) + (IF i = 0 THEN 1 ELSE 0)
<1> DEFINE a == Start(n, i)
           b == Start(n, i + 1)
           c == Ceil(a)
           d == Ceil(b)
           in == c..(d - 1)
           own == {x \in 0..MaxPrefix : owner(n, x) = i}
<1>1. MaxPrefix \in Nat
  BY SubdomainsAssumptions
<1>2. i \in Nat /\ i + 1 \in Nat /\ i + 1 <= n
  OBVIOUS
<1>3. a \in Nat /\ b \in Nat
  BY <1>2, StartIs
<1>4. b <= 1000 * MaxPrefix
  <2>1. b <= Start(n, n)
    BY <1>2, Intervals
  <2>2. Start(n, n) <= 1000 * MaxPrefix /\ Start(n, n) \in Nat
    BY Intervals, StartIs
  <2> HIDE DEF b
  <2> QED
    BY <1>1, <1>3, <2>1, <2>2
<1>5. d - c \in Nat
  <2>1. PICK q \in Nat \ {0} : \A k \in Nat : Share(n, k) \in {q, q + 1}
    BY Shares
  <2>2. Share(n, i) \in {q, q + 1}
    BY <1>2, <2>1
  <2> QED
    BY <2>2 DEF Share
<1>6. \A x \in 0..MaxPrefix : x \in own <=>
        \/ a <= 1000 * x /\ 1000 * x < b
        \/ i = 0 /\ x = MaxPrefix
  BY OwnerByInterval
<1>7. Share(n, i) = d - c
  BY DEF Share
<1>8. own \subseteq 0..MaxPrefix
  OBVIOUS
<1> HIDE DEF a, b, own
<1>9. /\ c \in Nat /\ 1000 * c >= a /\ 1000 * c < a + 1000
      /\ d \in Nat /\ 1000 * d >= b /\ 1000 * d < b + 1000
  BY <1>3, CeilIs
<1> HIDE DEF c, d
<1>10. d <= MaxPrefix
  BY <1>1, <1>3, <1>4, <1>9
<1>11. \A x \in 0..MaxPrefix : x \in in <=> a <= 1000 * x /\ 1000 * x < b
  <2> SUFFICES ASSUME NEW x \in 0..MaxPrefix
               PROVE  x \in in <=> a <= 1000 * x /\ 1000 * x < b
    OBVIOUS
  <2>1. x \in Nat /\ x \in Int
    OBVIOUS
  <2>2. c <= x <=> a <= 1000 * x
    BY <1>3, <1>9, <2>1
  <2>3. x <= d - 1 <=> 1000 * x < b
    BY <1>3, <1>9, <2>1
  <2> QED
    BY <1>9, <2>1, <2>2, <2>3
<1>12. in \subseteq 0..MaxPrefix /\ MaxPrefix \notin in
  BY <1>1, <1>9, <1>10
<1>13. IsFiniteSet(in) /\ Cardinality(in) = d - c
  <2>1. CASE c = d
    <3>1. in = {} /\ d - c = 0
      BY <1>9, <2>1
    <3> QED
      BY <3>1, FS_EmptySet
  <2>2. CASE c # d
    <3>1. c \in Int /\ d - 1 \in Int /\ ~(c > d - 1)
      BY <1>5, <1>9, <2>2
    <3>2. IsFiniteSet(in) /\ Cardinality(in) = (d - 1) - c + 1
      BY <3>1, FS_Interval
    <3> QED
      BY <1>9, <3>2
  <2> QED
    BY <2>1, <2>2
<1> HIDE DEF in
<1>14. \A x \in 0..MaxPrefix : x \in own <=> x \in in \/ (i = 0 /\ x = MaxPrefix)
  BY <1>6, <1>11
<1>15. Cardinality(own) = (d - c) + (IF i = 0 THEN 1 ELSE 0)
  <2>1. CASE i = 0
    <3>1. own = in \cup {MaxPrefix}
      <4>1. MaxPrefix \in 0..MaxPrefix
        BY <1>1
      <4>2. \A x \in 0..MaxPrefix : x \in own <=> x \in in \cup {MaxPrefix}
        BY <1>14, <2>1
      <4>3. in \cup {MaxPrefix} \subseteq 0..MaxPrefix
        BY <1>12, <4>1
      <4> QED
        BY <1>8, <4>2, <4>3
    <3>2. Cardinality(in \cup {MaxPrefix}) = Cardinality(in) + 1
      BY <1>12, <1>13, FS_AddElement
    <3> QED
      BY <1>13, <2>1, <3>1, <3>2
  <2>2. CASE i # 0
    <3>1. own = in
      BY <1>12, <1>8, <1>14, <2>2
    <3> QED
      BY <1>5, <1>13, <2>2, <3>1
  <2> QED
    BY <2>1, <2>2
<1> QED
  BY <1>7, <1>15 DEF own

\* Of the nodes that are ready, each owns some prefixes, and no two differ by more
\* than two.  The length of an interval is rounded to a thousandth of a prefix, so
\* this is so of up to a thousand nodes, which together lose less than a prefix, if
\* they are no more than the prefixes (subdomains.go:74-91).
THEOREM ShardsAlwaysBalanced ==
  ASSUME Cardinality(Node) <= 1000, Cardinality(Node) <= MaxPrefix
  PROVE  SafetySpec => []ShardsBalanced
<1>1. ASSUME Inv PROVE ShardsBalanced
  <2> SUFFICES ASSUME NEW r \in Req, got[r] # NoStats, got[r] # {}
               PROVE  LET n == Cardinality(got[r])
                          load[i \in 0..(n - 1)] ==
                            Cardinality({x \in 0..MaxPrefix : owner(n, x) = i})
                      IN  \A i, j \in 0..(n - 1) : load[i] > 0 /\ load[i] <= load[j] + 2
    BY DEF ShardsBalanced
  <2>1. View(got[r])
    BY <1>1 DEF Inv, Views
  <2>2. PICK n : n = Cardinality(got[r])
    OBVIOUS
  <2>3. n \in Nat \ {0} /\ n <= 1000 /\ n <= MaxPrefix
    <3>1. IsFiniteSet(got[r]) /\ n \in Nat
      BY <2>1, <2>2, ViewIsFinite
    <3>2. n # 0
      BY <2>2, <3>1, FS_EmptySet
    <3>3. n <= Cardinality(Node) /\ Cardinality(Node) \in Nat
      <4> DEFINE name == [s \in got[r] |-> s.name]
      <4>1. name \in Injection(got[r], Node)
        <5>1. \A s \in got[r] : s.name \in Node
          BY <2>1 DEF View, NodeStat
        <5> QED
          BY <2>1, <5>1 DEF View, Distinct, Injection, IsInjective
      <4>2. IsFiniteSet(Node)
        BY NodesStatAssumptions
      <4> HIDE DEF name
      <4> QED
        BY <2>2, <4>1, <4>2, FS_Injection, FS_CardinalityType
    <3>4. MaxPrefix \in Nat
      BY SubdomainsAssumptions
    <3> QED
      BY <3>1, <3>2, <3>3, <3>4
  <2>4. PICK q \in Nat \ {0} : \A i \in Nat : Share(n, i) \in {q, q + 1}
    BY <2>3, Shares
  <2> DEFINE load == [i \in 0..(n - 1) |->
                        Cardinality({x \in 0..MaxPrefix : owner(n, x) = i})]
  <2>5. \A i \in 0..(n - 1) : load[i] \in {q, q + 1, q + 2}
    <3> SUFFICES ASSUME NEW i \in 0..(n - 1) PROVE load[i] \in {q, q + 1, q + 2}
      OBVIOUS
    <3>1. load[i] = Share(n, i) + (IF i = 0 THEN 1 ELSE 0)
      BY <2>3, Loads
    <3>2. Share(n, i) \in {q, q + 1}
      BY <2>3, <2>4
    <3> HIDE DEF load
    <3> QED
      BY <3>1, <3>2
  <2> HIDE DEF load
  <2>6. \A i, j \in 0..(n - 1) : load[i] > 0 /\ load[i] <= load[j] + 2
    BY <2>4, <2>5
  <2> QED
    BY <2>2, <2>6 DEF load
<1> QED
  BY <1>1, SubdomainsInvariant, PTL

=============================================================================
