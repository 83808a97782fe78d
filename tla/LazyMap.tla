------------------------------ MODULE LazyMap ------------------------------
(***************************************************************************)
(* The memoizing map of github.com/webtor-io/lazymap, which rest-api       *)
(* embeds in ResourceMap (twice), CacheMap and NodesStat.  The library is  *)
(* not part of the repository: what is modelled is the contract the code   *)
(* relies on through lazymap.New(&lazymap.Config{Concurrency, Expire,      *)
(* Capacity}) and LazyMap.Get(key, f):                                     *)
(*   - a value f returned is kept and served until it expires or, past     *)
(*     Capacity, is evicted; an error is handed out but not kept           *)
(*     (cache_map.go turns a probe error into a value in order to keep it);*)
(*   - at most one f per key runs at a time, the callers that find it      *)
(*     running block and share its outcome, value or error;                *)
(*   - at most Concurrency closures of one map run at a time, the others   *)
(*     wait for their turn with the key already claimed.                   *)
(*                                                                         *)
(* A map is a value, so that a component can hold several of them in       *)
(* variables of its own; the operators below are its atomic steps.         *)
(***************************************************************************)
EXTENDS Naturals, FiniteSets

CONSTANTS
  Caller,       \* goroutines that call Get
  Key,          \* keys of the map
  Value,        \* what a closure may return
  NoCaller,     \* nobody builds the key
  NoValue,      \* nothing is kept for the key
  Concurrency   \* lazymap.Config.Concurrency

-----------------------------------------------------------------------------

\* The shape of a map:
\*   owner    who claimed the key and runs, or is about to run, its closure
\*   memo     the value kept for the key
\*   waiting  the callers blocked on the closure in flight
\*   running  the callers that hold one of the Concurrency slots
Map == [owner   : [Key -> Caller \cup {NoCaller}],
        memo    : [Key -> Value \cup {NoValue}],
        waiting : [Key -> SUBSET Caller],
        running : SUBSET Caller]

\* lazymap.New
New == [owner   |-> [k \in Key |-> NoCaller],
        memo    |-> [k \in Key |-> NoValue],
        waiting |-> [k \in Key |-> {}],
        running |-> {}]

Kept(m, k)     == m.memo[k] # NoValue
InFlight(m, k) == m.owner[k] # NoCaller
HasSlot(m)     == Cardinality(m.running) < Concurrency

\* Get on a key nobody holds: c will run its closure.
Claim(m, c, k) == [m EXCEPT !.owner[k] = c]

\* Get on a key in flight: c blocks until the closure ends.
Join(m, c, k) == [m EXCEPT !.waiting[k] = @ \cup {c}]

\* c gets a slot and starts its closure.
Run(m, c) == [m EXCEPT !.running = @ \cup {c}]

\* The closure of c returned v (NoValue: it failed): the value is kept, the
\* slot is free, and the blocked callers are released with the outcome.
Finish(m, c, k, v) == [m EXCEPT !.owner[k]   = NoCaller,
                                !.memo[k]    = v,
                                !.waiting[k] = {},
                                !.running    = @ \ {c}]

\* Expiry, or eviction past Capacity, of a kept value.
Evict(m, k) == [m EXCEPT !.memo[k] = NoValue]

-----------------------------------------------------------------------------

\* What every map satisfies whatever its closures do: a key is kept, or in
\* flight, or neither; only a key in flight has blocked callers; a slot is
\* held by a caller whose closure is in flight; a caller builds one key at a
\* time and is not blocked on a key meanwhile; the slots suffice.
Sound(m) ==
  /\ \A k \in Key : InFlight(m, k) => ~Kept(m, k)
  /\ \A k \in Key : m.waiting[k] # {} => InFlight(m, k)
  /\ \A c \in m.running : \E k \in Key : m.owner[k] = c
  /\ \A k, l \in Key : InFlight(m, k) /\ m.owner[k] = m.owner[l] => k = l
  /\ \A k, l \in Key : m.owner[k] \notin m.waiting[l]
  /\ Cardinality(m.running) <= Concurrency

=============================================================================
