--------------------------- MODULE SequenceLemmas ---------------------------
(***************************************************************************)
(* What the proofs need of sequences and is not in the library.  Induction *)
(* is over a set of numbers, not over a predicate: no prover instantiates  *)
(* a theorem that has an operator among its parameters.                    *)
(***************************************************************************)
EXTENDS SequencesExt, SequenceTheorems, WellFoundedInduction, NaturalsInduction, TLAPS

LEMMA LeastNatural ==
  ASSUME NEW T, T \subseteq Nat, T # {}
  PROVE  \E x \in T : \A y \in T : ~ (y < x)
<1>1. PICK x \in T : \A y \in T : ~ (<<y, x>> \in OpToRel(<, Nat))
  BY NatLessThanWellFounded, WFMin, Zenon
<1>2. ASSUME NEW y \in T, y < x PROVE <<y, x>> \in OpToRel(<, Nat)
  <2>1. x \in Nat /\ y \in Nat
    OBVIOUS
  <2> QED
    BY <2>1, <1>2 DEF OpToRel
<1> QED
  BY <1>1, <1>2

\* Induction on the natural numbers.
LEMMA Induct ==
  ASSUME NEW P, 0 \in P, \A n \in Nat : n \in P => n + 1 \in P
  PROVE  Nat \subseteq P
<1> SUFFICES ASSUME Nat \ P # {} PROVE FALSE
  OBVIOUS
<1>1. PICK x \in Nat \ P : \A y \in Nat \ P : ~ (y < x)
  BY LeastNatural
<1>2. x # 0 /\ x - 1 \in Nat /\ x - 1 < x /\ (x - 1) + 1 = x
  BY <1>1
<1> QED
  BY <1>2, <1>1

\* The n-th of N steps of a loop takes a value of S to another.
Steps(step, N, S) == step \in [1..N -> [S -> S]]

\* f is the values there are before the first step and after each.
Runs(f, step, base, N, S) ==
  f \in [0..N -> S] /\ f[0] = base /\ \A n \in 1..N : f[n] = step[n][f[n - 1]]

LEMMA Loop ==
  ASSUME NEW N \in Nat, NEW S, NEW base \in S, NEW step, Steps(step, N, S)
  PROVE  \E f : Runs(f, step, base, N, S)
<1> USE DEF Steps, Runs
<1> DEFINE After(f, c) == f \in [0..c -> S] /\ f[0] = base
                          /\ \A n \in 1..c : f[n] = step[n][f[n - 1]]
           P == {c \in Nat : c <= N => \E f : After(f, c)}
<1>1. 0 \in P
  <2>1. After([n \in 0..0 |-> base], 0)
    OBVIOUS
  <2> QED
    BY <2>1
<1>2. ASSUME NEW c \in Nat, c \in P PROVE c + 1 \in P
  <2> SUFFICES ASSUME c + 1 <= N PROVE \E f : After(f, c + 1)
    OBVIOUS
  <2>1. PICK f : After(f, c)
    BY <1>2
  <2>2. c \in 0..c /\ f[c] \in S /\ c + 1 \in 1..N
    BY <2>1
  <2> DEFINE g == [n \in 0..(c + 1) |-> IF n = c + 1 THEN step[c + 1][f[c]] ELSE f[n]]
  <2>3. step[c + 1][f[c]] \in S
    BY <2>2
  <2>4. g \in [0..(c + 1) -> S]
    <3> SUFFICES ASSUME NEW n \in 0..(c + 1), n # c + 1 PROVE f[n] \in S
      BY <2>3
    <3>1. n \in 0..c
      OBVIOUS
    <3> QED
      BY <3>1, <2>1
  <2>5. \A n \in 0..c : g[n] = f[n]
    OBVIOUS
  <2>6. g[0] = base
    <3>1. 0 \in 0..c
      OBVIOUS
    <3> QED
      BY <3>1, <2>1, <2>5
  <2>7. g[c + 1] = step[c + 1][f[c]]
    OBVIOUS
  <2> HIDE DEF g
  <2>8. ASSUME NEW n \in 1..(c + 1) PROVE g[n] = step[n][g[n - 1]]
    <3>1. CASE n = c + 1
      <4>1. n - 1 = c /\ g[c] = f[c]
        BY <3>1, <2>2, <2>5
      <4> QED
        BY <3>1, <4>1, <2>7
    <3>2. CASE n # c + 1
      <4>1. n \in 1..c /\ n \in 0..c /\ n - 1 \in 0..c
        BY <3>2
      <4>2. f[n] = step[n][f[n - 1]]
        BY <4>1, <2>1
      <4> QED
        BY <4>1, <4>2, <2>5
    <3> QED
      BY <3>1, <3>2
  <2>9. After(g, c + 1)
    BY <2>4, <2>6, <2>8
  <2> HIDE DEF After
  <2> QED
    BY <2>9
<1> HIDE DEF P
<1>3. N \in P
  BY <1>1, <1>2, Induct
<1> QED
  BY <1>3 DEF P

\* f is written as a loop, of which nothing is known yet.
Written(f, step, base, N, S) ==
  /\ f = [n \in 0..N |-> f[n]] /\ f[0] = base
  /\ \A n \in 1..N : f[n - 1] \in S => f[n] = step[n][f[n - 1]]

LEMMA LoopStays ==
  ASSUME NEW N \in Nat, NEW S, NEW base \in S, NEW step, Steps(step, N, S),
         NEW f, Written(f, step, base, N, S)
  PROVE  Runs(f, step, base, N, S)
<1> USE DEF Steps, Runs, Written
<1> DEFINE P == {n \in Nat : n <= N => f[n] \in S}
<1>1. 0 \in P
  OBVIOUS
<1>2. ASSUME NEW n \in Nat, n \in P PROVE n + 1 \in P
  <2>1. CASE n + 1 <= N
    <3>1. n + 1 \in 1..N /\ (n + 1) - 1 = n /\ f[n] \in S
      BY <1>2, <2>1
    <3>2. f[n + 1] = step[n + 1][f[n]]
      BY <3>1
    <3> QED
      BY <3>1, <3>2
  <2> QED
    BY <2>1
<1> HIDE DEF P
<1>3. Nat \subseteq P
  BY <1>1, <1>2, Induct
<1>4. \A n \in 0..N : f[n] \in S
  BY <1>3 DEF P
<1>5. \A n \in 1..N : n - 1 \in 0..N
  OBVIOUS
<1> QED
  BY <1>4, <1>5

-----------------------------------------------------------------------------

LEMMA Pair ==
  ASSUME NEW x, NEW y
  PROVE  <<x>> \o <<y>> = <<x, y>>
<1> DEFINE S == {x, y}
           w == <<x>> \o <<y>>
<1>1. <<x>> \in Seq(S) /\ <<y>> \in Seq(S) /\ <<x, y>> \in Seq(S)
  OBVIOUS
<1>2. w \in Seq(S) /\ Len(w) = 2 /\ w[1] = x /\ w[2] = y
  BY <1>1
<1> HIDE DEF w
<1>3. w = <<x, y>>
  BY <1>1, <1>2
<1> QED
  BY <1>3 DEF w

LEMMA FirstFew ==
  ASSUME NEW S, NEW s \in Seq(S), NEW m \in Nat, m <= Len(s)
  PROVE  /\ SubSeq(s, 1, m) \in Seq(S) /\ Len(SubSeq(s, 1, m)) = m
         /\ \A k \in 1..m : SubSeq(s, 1, m)[k] = s[k]
<1>1. SubSeq(s, 1, m) \in Seq(S)
  OBVIOUS
<1>2. Len(SubSeq(s, 1, m)) = m
  OBVIOUS
<1>3. \A k \in 1..m : SubSeq(s, 1, m)[k] = s[k]
  OBVIOUS
<1> QED
  BY <1>1, <1>2, <1>3

\* A sequence is one of its own elements.
LEMMA FrontOfFront ==
  ASSUME NEW S, NEW s \in Seq(S), NEW m \in Nat, m <= Len(s), NEW k \in Nat, k <= m
  PROVE  SubSeq(SubSeq(s, 1, m), 1, k) = SubSeq(s, 1, k)
<1> DEFINE t == SubSeq(s, 1, m)
<1>1. t \in Seq(S) /\ Len(t) = m /\ \A j \in 1..m : t[j] = s[j]
  BY FirstFew
<1> HIDE DEF t
<1>2. /\ SubSeq(t, 1, k) \in Seq(S) /\ Len(SubSeq(t, 1, k)) = k
      /\ \A j \in 1..k : SubSeq(t, 1, k)[j] = t[j]
  BY <1>1, FirstFew
<1>3. /\ SubSeq(s, 1, k) \in Seq(S) /\ Len(SubSeq(s, 1, k)) = k
      /\ \A j \in 1..k : SubSeq(s, 1, k)[j] = s[j]
  <2>1. k <= Len(s)
    OBVIOUS
  <2> QED
    BY <2>1, FirstFew
<1>4. \A j \in 1..k : SubSeq(t, 1, k)[j] = SubSeq(s, 1, k)[j]
  BY <1>1, <1>2, <1>3
<1> DEFINE a == SubSeq(t, 1, k)
           b == SubSeq(s, 1, k)
<1> HIDE DEF a, b
<1>5. a = b
  BY <1>2, <1>3, <1>4 DEF a, b
<1> QED
  BY <1>5 DEF a, b, t

LEMMA OwnElements ==
  ASSUME NEW S, NEW s \in Seq(S)
  PROVE  /\ s \in Seq(ToSet(s)) /\ ToSet(s) \subseteq S
         /\ \A b : b \in ToSet(s) <=> \E k \in 1..Len(s) : b = s[k]
<1>1. /\ Len(s) \in Nat /\ DOMAIN s = 1..Len(s) /\ s = [k \in 1..Len(s) |-> s[k]]
      /\ \A k \in 1..Len(s) : s[k] \in S
  OBVIOUS
<1>2. \A b : b \in ToSet(s) <=> \E k \in 1..Len(s) : b = s[k]
  BY <1>1 DEF ToSet
<1>3. s \in [1..Len(s) -> ToSet(s)]
  BY <1>1, <1>2
<1>4. ToSet(s) \subseteq S
  BY <1>1, <1>2
<1> QED
  BY <1>1, <1>2, <1>3, <1>4

LEMMA Joined ==
  ASSUME NEW S, NEW u \in Seq(S), NEW v \in Seq(S), NEW x \in Seq(S),
         Len(x) = Len(u) + Len(v), \A i \in 1..Len(u) : x[i] = u[i],
         \A i \in 1..Len(v) : x[Len(u) + i] = v[i]
  PROVE  u \o v = x
<1>1. /\ u \o v \in Seq(S) /\ Len(u \o v) = Len(u) + Len(v)
      /\ \A i \in 1..(Len(u) + Len(v)) :
           (u \o v)[i] = IF i <= Len(u) THEN u[i] ELSE v[i - Len(u)]
  BY ConcatProperties
<1>2. ASSUME NEW i \in 1..(Len(u) + Len(v)) PROVE (u \o v)[i] = x[i]
  <2>1. CASE i <= Len(u)
    BY <1>1, <2>1
  <2>2. CASE ~(i <= Len(u))
    <3>1. i - Len(u) \in 1..Len(v) /\ Len(u) + (i - Len(u)) = i
      BY <2>2
    <3> QED
      BY <1>1, <2>2, <3>1
  <2> QED
    BY <2>1, <2>2
<1> DEFINE y == u \o v
<1>3. y \in Seq(S) /\ Len(y) = Len(x) /\ \A i \in 1..Len(x) : y[i] = x[i]
  BY <1>1, <1>2
<1> HIDE DEF y
<1>4. y = x
  BY <1>3
<1> QED
  BY <1>4 DEF y

\* m elements after the first a.
LEMMA Part ==
  ASSUME NEW S, NEW w \in Seq(S), NEW a \in Nat, NEW m \in Nat, a + m <= Len(w)
  PROVE  /\ SubSeq(w, a + 1, a + m) \in Seq(S) /\ Len(SubSeq(w, a + 1, a + m)) = m
         /\ \A i \in 1..m : SubSeq(w, a + 1, a + m)[i] = w[a + i]
<1> DEFINE u == SubSeq(w, a + 1, a + m)
<1>1. \A i \in (a + 1)..(a + m) : w[i] \in S
  OBVIOUS
<1>2. /\ u \in Seq(S) /\ Len(u) = IF a + 1 <= a + m THEN a + m - (a + 1) + 1 ELSE 0
      /\ \A i \in 1..(a + m - (a + 1) + 1) : u[i] = w[a + 1 + i - 1]
  BY <1>1, SubSeqProperties
<1> HIDE DEF u
<1>3. a + m - (a + 1) + 1 = m /\ (a + 1 <= a + m <=> m # 0)
  OBVIOUS
<1>4. Len(u) = m
  BY <1>2, <1>3
<1>5. ASSUME NEW i \in 1..m PROVE u[i] = w[a + i]
  <2>1. u[i] = w[a + 1 + i - 1]
    BY <1>2, <1>3
  <2>2. a + 1 + i - 1 = a + i
    OBVIOUS
  <2> QED
    BY <2>1, <2>2
<1> QED
  BY <1>2, <1>4, <1>5 DEF u

\* Two parts that follow each other are one.
LEMMA PartsJoin ==
  ASSUME NEW S, NEW w \in Seq(S), NEW a \in Nat, NEW m \in Nat, NEW n \in Nat,
         a + m <= Len(w), a + m + n <= Len(w) \/ n = 0
  PROVE  SubSeq(w, a + 1, a + m) \o SubSeq(w, a + m + 1, a + m + n)
           = SubSeq(w, a + 1, a + m + n)
<1> DEFINE u == SubSeq(w, a + 1, a + m)
           v == SubSeq(w, a + m + 1, a + m + n)
           x == SubSeq(w, a + 1, a + m + n)
<1>1. a + m + n <= Len(w) /\ a + m \in Nat /\ m + n \in Nat /\ a + (m + n) = a + m + n
  OBVIOUS
<1>2. u \in Seq(S) /\ Len(u) = m /\ \A i \in 1..m : u[i] = w[a + i]
  BY Part
<1>3. v \in Seq(S) /\ Len(v) = n /\ \A i \in 1..n : v[i] = w[a + m + i]
  <2>1. PICK b \in Nat : b = a + m
    BY <1>1
  <2>2. b + n <= Len(w) /\ v = SubSeq(w, b + 1, b + n)
    BY <1>1, <2>1
  <2>3. v \in Seq(S) /\ Len(v) = n /\ \A i \in 1..n : v[i] = w[b + i]
    BY <2>2, Part
  <2> QED
    BY <2>1, <2>3
<1>4. x \in Seq(S) /\ Len(x) = m + n /\ \A i \in 1..(m + n) : x[i] = w[a + i]
  <2>1. PICK b \in Nat : b = m + n
    BY <1>1
  <2>2. a + b <= Len(w) /\ x = SubSeq(w, a + 1, a + b)
    BY <1>1, <2>1
  <2>3. x \in Seq(S) /\ Len(x) = b /\ \A i \in 1..b : x[i] = w[a + i]
    BY <2>2, Part
  <2> QED
    BY <2>1, <2>3
<1> HIDE DEF u, v, x
<1>5. ASSUME NEW i \in 1..m PROVE x[i] = u[i]
  <2>1. i \in 1..(m + n)
    OBVIOUS
  <2> QED
    BY <1>2, <1>4, <2>1
<1>6. ASSUME NEW i \in 1..n PROVE x[m + i] = v[i]
  <2>1. m + i \in 1..(m + n) /\ a + (m + i) = a + m + i
    OBVIOUS
  <2> QED
    BY <1>3, <1>4, <2>1
<1>7. Len(x) = Len(u) + Len(v)
  BY <1>2, <1>3, <1>4
<1>8. \A i \in 1..Len(u) : x[i] = u[i]
  BY <1>2, <1>5
<1>9. \A i \in 1..Len(v) : x[Len(u) + i] = v[i]
  BY <1>2, <1>3, <1>6
<1>10. u \o v = x
  BY <1>2, <1>3, <1>4, <1>7, <1>8, <1>9, Joined
<1> QED
  BY <1>10 DEF u, v, x

-----------------------------------------------------------------------------

\* w has s in it, after its first k elements.
At(s, w, k) ==
  k + Len(s) <= Len(w) /\ \A m \in 1..Len(s) : w[k + m] = s[m]

\* w is made of the first c sequences of ss, each of them whole.
MadeOf(w, ss, c, S) ==
  /\ w \in Seq(S)
  /\ \A n \in 1..c : \E k \in Nat : At(ss[n], w, k)
  /\ \A i \in 1..Len(w) :
       \E n \in 1..c : \E m \in 1..Len(ss[n]) : m <= i /\ At(ss[n], w, i - m)

LEMMA AtLeft ==
  ASSUME NEW S, NEW s \in Seq(S), NEW w \in Seq(S), NEW v \in Seq(S),
         NEW k \in Nat, At(s, w, k)
  PROVE  At(s, w \o v, k)
<1>1. Len(w \o v) = Len(w) + Len(v) /\ \A i \in 1..Len(w) : (w \o v)[i] = w[i]
  OBVIOUS
<1>2. Len(s) \in Nat /\ Len(w) \in Nat /\ Len(v) \in Nat
  OBVIOUS
<1>3. \A m \in 1..Len(s) : k + m \in 1..Len(w)
  BY <1>2 DEF At
<1> QED
  BY <1>1, <1>2, <1>3 DEF At

LEMMA AtRight ==
  ASSUME NEW S, NEW w \in Seq(S), NEW v \in Seq(S)
  PROVE  At(v, w \o v, Len(w))
BY DEF At

LEMMA MadeOfMore ==
  ASSUME NEW S, NEW ss \in Seq(Seq(S)), NEW c \in Nat, c + 1 <= Len(ss),
         NEW w, MadeOf(w, ss, c, S)
  PROVE  MadeOf(w \o ss[c + 1], ss, c + 1, S)
<1> DEFINE v == ss[c + 1]
<1>1. v \in Seq(S) /\ w \in Seq(S) /\ c + 1 \in 1..Len(ss)
  BY DEF MadeOf
<1>2. \A n \in 1..c : n \in 1..Len(ss) /\ ss[n] \in Seq(S)
  <2>1. Len(ss) \in Nat
    OBVIOUS
  <2>2. ASSUME NEW n \in 1..c PROVE n \in 1..Len(ss)
    BY <2>1
  <2> QED
    BY <2>2
<1>3. ASSUME NEW n \in 1..(c + 1)
      PROVE  \E k \in Nat : At(ss[n], w \o v, k)
  <2>1. CASE n = c + 1
    <3>1. Len(w) \in Nat
      BY <1>1
    <3> QED
      BY <2>1, <3>1, <1>1, AtRight
  <2>2. CASE n \in 1..c
    <3>1. PICK k \in Nat : At(ss[n], w, k)
      BY <2>2 DEF MadeOf
    <3>2. At(ss[n], w \o v, k)
      BY <1>1, <1>2, <2>2, <3>1, AtLeft
    <3> QED
      BY <3>2
  <2> QED
    BY <2>1, <2>2
<1>4. ASSUME NEW i \in 1..Len(w \o v)
      PROVE  \E n \in 1..(c + 1) : \E m \in 1..Len(ss[n]) :
               m <= i /\ At(ss[n], w \o v, i - m)
  <2>1. Len(w) \in Nat /\ Len(v) \in Nat /\ Len(w \o v) = Len(w) + Len(v)
    BY <1>1
  <2>2. CASE i \in 1..Len(w)
    <3>1. PICK n \in 1..c : \E m \in 1..Len(ss[n]) : m <= i /\ At(ss[n], w, i - m)
      BY <2>2 DEF MadeOf
    <3>2. PICK m \in 1..Len(ss[n]) : m <= i /\ At(ss[n], w, i - m)
      BY <3>1
    <3>3. i - m \in Nat
      BY <3>2, <2>2, <2>1
    <3>4. At(ss[n], w \o v, i - m)
      BY <1>1, <1>2, <3>2, <3>3, AtLeft
    <3>5. n \in 1..(c + 1)
      OBVIOUS
    <3> QED
      BY <3>2, <3>4, <3>5
  <2>3. CASE i > Len(w)
    <3>1. i - Len(w) \in 1..Len(v) /\ i - Len(w) <= i /\ i - (i - Len(w)) = Len(w)
      BY <2>1, <2>3
    <3>2. At(v, w \o v, i - (i - Len(w)))
      BY <1>1, <3>1, AtRight
    <3>3. c + 1 \in 1..(c + 1)
      OBVIOUS
    <3> QED
      BY <3>1, <3>2, <3>3
  <2> QED
    BY <2>1, <2>2, <2>3
<1>5. w \o v \in Seq(S)
  BY <1>1
<1> QED
  BY <1>3, <1>4, <1>5 DEF MadeOf

\* FlattenSeq is made of the sequences it is given.
LEMMA FlattenParts ==
  ASSUME NEW S, NEW ss \in Seq(Seq(S))
  PROVE  MadeOf(FlattenSeq(ss), ss, Len(ss), S)
<1> DEFINE N == Len(ss)
           Flat(f, c) == f = [i \in 1..c |-> IF i = 1 THEN ss[i] ELSE f[i-1] \o ss[i]]
           P == {c \in Nat : \E f : Flat(f, c)}
<1>1. N \in Nat
  OBVIOUS
<1>2. CASE N = 0
  <2>1. FlattenSeq(ss) = ss /\ ss = <<>>
    BY <1>2 DEF FlattenSeq
  <2>2. <<>> \in Seq(S) /\ Len(<<>>) = 0
    OBVIOUS
  <2> QED
    BY <1>2, <2>1, <2>2 DEF MadeOf
<1>3. CASE N # 0
  <2>1. \E f : Flat(f, N)
    <3>1. 0 \in P
      <4>1. Flat(<<>>, 0)
        OBVIOUS
      <4> QED
        BY <4>1
    <3>2. ASSUME NEW c \in Nat, c \in P PROVE c + 1 \in P
      <4>1. PICK f : Flat(f, c)
        BY <3>2
      <4> DEFINE g == [i \in 1..(c + 1) |->
                         IF i = 1 THEN ss[i]
                         ELSE IF i = c + 1 THEN f[c] \o ss[i] ELSE f[i]]
      <4>2. \A i \in 1..c : i # 1 => i - 1 \in 1..c /\ i - 1 # c + 1
        OBVIOUS
      <4>3. \A i \in 1..c : g[i] = f[i]
        BY <4>1
      <4>4. \A i \in 1..(c + 1) : g[i] = IF i = 1 THEN ss[i] ELSE g[i-1] \o ss[i]
        <5> SUFFICES ASSUME NEW i \in 1..(c + 1), i # 1
                     PROVE  g[i] = g[i-1] \o ss[i]
          OBVIOUS
        <5>1. i - 1 \in 1..c
          OBVIOUS
        <5>2. CASE i = c + 1
          <6>0. i - 1 = c
            BY <5>2
          <6>1. g[i] = f[c] \o ss[i]
            BY <5>2, Zenon
          <6>2. g[i - 1] = f[c]
            BY <6>0, <5>1, <4>3
          <6> QED
            BY <6>1, <6>2
        <5>3. CASE i # c + 1
          <6>1. i \in 1..c
            BY <5>3
          <6>2. f[i] = f[i-1] \o ss[i]
            BY <6>1, <4>1
          <6>3. g[i] = f[i] /\ g[i-1] = f[i-1]
            BY <6>1, <5>1, <4>3
          <6> QED
            BY <6>2, <6>3
        <5> QED
          BY <5>2, <5>3
      <4>5. Flat(g, c + 1)
        BY <4>4
      <4>6. \E h : Flat(h, c + 1)
        BY <4>5
      <4>7. c + 1 \in Nat
        OBVIOUS
      <4> HIDE DEF Flat
      <4> QED
        BY <4>6, <4>7
    <3> HIDE DEF P
    <3>3. Nat \subseteq P
      BY <3>1, <3>2, Induct
    <3> QED
      BY <3>3, <1>1 DEF P
  <2> DEFINE flatten == CHOOSE f : Flat(f, N)
  <2>2. Flat(flatten, N)
    BY <2>1
  <2>3. FlattenSeq(ss) = flatten[N]
    BY <1>3 DEF FlattenSeq
  <2> HIDE DEF flatten
  <2> DEFINE Q == {c \in Nat : c \in 1..N => MadeOf(flatten[c], ss, c, S)}
  <2>4. 0 \in Q
    OBVIOUS
  <2>5. ASSUME NEW c \in Nat, c \in Q PROVE c + 1 \in Q
    <3> SUFFICES ASSUME c + 1 \in 1..N PROVE MadeOf(flatten[c + 1], ss, c + 1, S)
      OBVIOUS
    <3>1. CASE c = 0
      <4>1. flatten[1] = ss[1] /\ ss[1] \in Seq(S)
        BY <2>2, <3>1, <1>1
      <4>2. At(ss[1], ss[1], 0)
        BY <4>1 DEF At
      <4>3. \A i \in 1..Len(ss[1]) : i <= i /\ i - i = 0
        BY <4>1
      <4>4. 1 \in 1..1 /\ \A n \in 1..1 : n = 1
        OBVIOUS
      <4> QED
        BY <3>1, <4>1, <4>2, <4>3, <4>4 DEF MadeOf
    <3>2. CASE c # 0
      <4>1. c \in 1..N /\ MadeOf(flatten[c], ss, c, S) /\ c + 1 <= N
        BY <3>2, <2>5, <1>1
      <4>2. flatten[c + 1] = flatten[c] \o ss[c + 1]
        <5>1. c + 1 # 1 /\ (c + 1) - 1 = c
          BY <3>2
        <5>2. \A i \in 1..N : flatten[i] = IF i = 1 THEN ss[i] ELSE flatten[i-1] \o ss[i]
          BY <2>2
        <5> QED
          BY <5>1, <5>2
      <4> QED
        BY <4>1, <4>2, MadeOfMore
    <3> QED
      BY <3>1, <3>2
  <2> HIDE DEF Q
  <2>6. Nat \subseteq Q
    BY <2>4, <2>5, Induct
  <2>7. N \in Q /\ N \in 1..N
    BY <2>6, <1>1, <1>3
  <2>8. MadeOf(flatten[N], ss, N, S)
    BY <2>7 DEF Q
  <2> QED
    BY <2>3, <2>8
<1> QED
  BY <1>1, <1>2, <1>3

=============================================================================
