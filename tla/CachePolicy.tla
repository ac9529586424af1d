----------------------------- MODULE CachePolicy -----------------------------
(***************************************************************************)
(* What the cache simulator of csf_assign03 counts: each set of the cache  *)
(* is a queue of the blocks it holds, the next to evict first.  A miss     *)
(* loads a block at the end; with LRU a hit moves its block to the end.    *)
(***************************************************************************)
EXTENDS Integers, Sequences, FiniteSets

CONSTANTS
  Configs,                 \* the command lines: see CacheSim
  Addresses                \* the addresses of a trace

VARIABLES
  cfg,                     \* the command line
  queue,                   \* of each set, its tags in the order of eviction
  dirty,                   \* of each set, the tags to write back when evicted
  stats                    \* the seven counters printed at the end

vars == <<cfg, queue, dirty, stats>>

Init ==
  /\ cfg \in Configs
  /\ queue = [j \in 0 .. cfg.num_sets - 1 |-> <<>>]
  /\ dirty = [j \in 0 .. cfg.num_sets - 1 |-> {}]
  /\ stats = [total_loads |-> 0, total_stores |-> 0, load_hits |-> 0, load_misses |-> 0,
              store_hits |-> 0, store_misses |-> 0, total_cycles |-> 0]

Block(a) == a \div cfg.num_bytes
SetOf(a) == Block(a) % cfg.num_sets
TagOf(a) == Block(a) \div cfg.num_sets

\* 100 cycles for each word of a block
Transfer == (100 * cfg.num_bytes) \div 4

Counted(x, y, c) ==
  [stats EXCEPT ![x] = @ + 1, ![y] = @ + 1, !.total_cycles = @ + c]

\* The kth of a queue goes to its end.
Moved(q, k) ==
  [n \in DOMAIN q |-> IF n < k THEN q[n] ELSE IF n < Len(q) THEN q[n + 1] ELSE q[k]]

Hit(j, t) ==
  \E k \in DOMAIN queue[j] :
    /\ queue[j][k] = t
    /\ queue' = IF cfg.lru THEN [queue EXCEPT ![j] = Moved(@, k)] ELSE queue

Miss(j, t, x, y, c) ==
  /\ \A k \in DOMAIN queue[j] : queue[j][k] # t
  /\ IF Len(queue[j]) < cfg.num_blocks
     THEN /\ queue' = [queue EXCEPT ![j] = Append(@, t)]
          /\ stats' = Counted(x, y, c)
          /\ UNCHANGED dirty
     ELSE LET out == Head(queue[j])
          IN  /\ queue[j] # <<>>
              /\ queue' = [queue EXCEPT ![j] = Append(Tail(@), t)]
              /\ stats' = Counted(x, y, c + IF out \in dirty[j] THEN Transfer ELSE 0)
              /\ dirty' = [dirty EXCEPT ![j] = @ \ {out}]

Load(a) ==
  \/ /\ Hit(SetOf(a), TagOf(a))
     /\ stats' = Counted("total_loads", "load_hits", 1)
     /\ UNCHANGED dirty
  \/ Miss(SetOf(a), TagOf(a), "total_loads", "load_misses", Transfer)

\* A stored block is dirty only when it was in the cache before.
Store(a) ==
  \/ /\ Hit(SetOf(a), TagOf(a))
     /\ IF cfg.write
        THEN stats' = Counted("total_stores", "store_hits", 101) /\ UNCHANGED dirty
        ELSE /\ stats' = Counted("total_stores", "store_hits", 1)
             /\ dirty' = [dirty EXCEPT ![SetOf(a)] = @ \cup {TagOf(a)}]
  \/ /\ cfg.allocation
     /\ Miss(SetOf(a), TagOf(a), "total_stores", "store_misses", 1 + Transfer)
  \/ /\ ~cfg.allocation
     /\ \A k \in DOMAIN queue[SetOf(a)] : queue[SetOf(a)][k] # TagOf(a)
     /\ stats' = Counted("total_stores", "store_misses", 100)
     /\ UNCHANGED <<queue, dirty>>

\* A cache without sets is never used.
Next ==
  /\ cfg.num_sets > 0
  /\ \E a \in Addresses : Load(a) \/ Store(a)
  /\ UNCHANGED cfg

Spec == Init /\ [][Next]_vars

==============================================================================
