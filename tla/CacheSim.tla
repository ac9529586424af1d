------------------------------- MODULE CacheSim -------------------------------
(***************************************************************************)
(* csf_assign03: the cache simulator.  Each set keeps its blocks in a      *)
(* vector and a map from tags to positions in it (tagIndex); eviction      *)
(* looks for the smallest of the times written into the blocks.  Addresses *)
(* are taken apart bit by bit, and every number is a uint32_t.             *)
(***************************************************************************)
EXTENDS Integers, Sequences, FiniteSets

CONSTANTS
  Configs,                 \* the command lines tried
  Addresses,               \* the addresses of a trace
  Bits,                    \* of an address: 32 in the code
  Word,                    \* 2^32 in the code: times and counters wrap
  MaxAccesses              \* bound: the lines of a trace

Config == [num_sets : Nat, num_blocks : Nat, num_bytes : Nat,
           allocation : BOOLEAN, write : BOOLEAN, lru : BOOLEAN]

ASSUME ConfigAssumption == \A c \in Configs : c \in Config

\* 1 << k
Bit[k \in 0 .. 2 * Bits] == IF k = 0 THEN 1 ELSE 2 * Bit[k - 1]

ASSUME WordAssumption ==
  /\ Bits \in Nat /\ Word \in Nat \ {0} /\ MaxAccesses \in Nat
  /\ Addresses \subseteq 0 .. Bit[Bits] - 1

VARIABLES
  cfg,                     \* the six arguments
  status,                  \* see Status
  sets,                    \* Cache: the Set at each index
  stats                    \* CacheStats

vars == <<cfg, status, sets, stats>>

\* args: not checked yet; refused: main returned handle_error's code;
\* done: the statistics are printed; invalid: a line was no command;
\* undefined: a block that does not exist was written.
Status == {"args", "refused", "run", "done", "invalid", "undefined"}

NoStats == [total_loads |-> 0, total_stores |-> 0, load_hits |-> 0, load_misses |-> 0,
            store_hits |-> 0, store_misses |-> 0, total_cycles |-> 0]

Init ==
  /\ cfg \in Configs
  /\ status = "args"
  /\ sets = [j \in {} |-> {}]
  /\ stats = NoStats

------------------------------------------------------------------------------
(* main, up to the loop *)

IsPowerOfTwo(n) == \E k \in 0 .. Bits - 1 : n = Bit[k]

\* handle_error says that num_blocks must be a power of two and goes on.
Refused(c) ==
  \/ ~IsPowerOfTwo(c.num_sets)
  \/ ~IsPowerOfTwo(c.num_bytes)
  \/ c.num_bytes < 4
  \/ ~c.allocation /\ ~c.write

NoBlock == [tag |-> 0, load_time |-> 0, access_time |-> 0, valid |-> FALSE, dirty |-> FALSE]

CacheInitialize ==
  [j \in 0 .. cfg.num_sets - 1 |->
     [blocks |-> [k \in 0 .. cfg.num_blocks - 1 |-> NoBlock],
      tagIndex |-> [t \in {} |-> 0],
      timestamp |-> 0]]

HandleError ==
  /\ status = "args"
  /\ IF Refused(cfg)
     THEN status' = "refused" /\ UNCHANGED sets
     ELSE status' = "run" /\ sets' = CacheInitialize
  /\ UNCHANGED <<cfg, stats>>

------------------------------------------------------------------------------
(* Addresses *)

Log2(n) == CHOOSE k \in 0 .. Bits - 1 : n = Bit[k]

\* address & (1 << k): a shift by 32 or more is undefined in C++, and what is
\* compiled shifts by the rest modulo 32.
BitIsSet(a, k) == (a \div Bit[k % Bits]) % 2 = 1

\* The size bits of a from offset on, copied one by one.
CopyBits(a, offset, size) ==
  LET from[k \in 0..size] ==
        IF k = size THEN 0
        ELSE from[k + 1] + IF BitIsSet(a, offset + k) THEN Bit[k] ELSE 0
  IN  from[0]

ReadIndex(a) == CopyBits(a, Log2(cfg.num_bytes), Log2(cfg.num_sets))

\* A size below 0 copies nothing.
ReadTag(a) ==
  LET offset == Log2(cfg.num_bytes) + Log2(cfg.num_sets)
  IN  CopyBits(a, offset, IF offset < Bits THEN Bits - offset ELSE 0)

------------------------------------------------------------------------------
(* The blocks of one set *)

Tick(s) == (s.timestamp + 1) % Word

Time(b) == IF cfg.lru THEN b.access_time ELSE b.load_time

\* update_timestamp_LRU, called on a hit when evictions are LRU
Touched(s, t) ==
  IF cfg.lru
  THEN [s EXCEPT !.blocks[s.tagIndex[t]].access_time = s.timestamp, !.timestamp = Tick(s)]
  ELSE s

FindEmptySpot(s) == Cardinality(DOMAIN s.tagIndex)

\* Mutant: the comparison is the other way round.
NewestBlocks(s) ==
  {k \in DOMAIN s.blocks :
     /\ Time(s.blocks[k]) < s.timestamp
     /\ \A j \in DOMAIN s.blocks : Time(s.blocks[j]) <= Time(s.blocks[k])}

\* Mutant: the search starts from the time of the first block.
AfterFirst(s) ==
  {k \in DOMAIN s.blocks :
     /\ Time(s.blocks[k]) < Time(s.blocks[0])
     /\ \A j \in DOMAIN s.blocks : Time(s.blocks[j]) >= Time(s.blocks[k])}

\* choose_evicted_block: the first of the oldest.  Empty, when the iterator
\* it returns was never set.
OldestBlocks(s) ==
  {k \in DOMAIN s.blocks :
     /\ Time(s.blocks[k]) < s.timestamp
     /\ \A j \in DOMAIN s.blocks :
          /\ Time(s.blocks[j]) >= Time(s.blocks[k])
          /\ j < k => Time(s.blocks[j]) > Time(s.blocks[k])}

NewBlock(s, t) ==
  [tag |-> t, valid |-> TRUE, dirty |-> FALSE,
   access_time |-> IF cfg.lru THEN s.timestamp ELSE 0,
   load_time |-> IF cfg.lru THEN 0 ELSE s.timestamp]

\* Mutant: the evicted tag stays in the map.
LoadedOver(s, t, k, out) ==
  [blocks |-> [s.blocks EXCEPT ![k] = NewBlock(s, t)],
   tagIndex |-> [x \in DOMAIN s.tagIndex \cup {t} |->
                   IF x = t THEN k ELSE s.tagIndex[x]],
   timestamp |-> Tick(s)]

\* Tag t loaded into block k, the tags in out erased from the map.
Loaded(s, t, k, out) ==
  [blocks |-> [s.blocks EXCEPT ![k] = NewBlock(s, t)],
   tagIndex |-> [x \in (DOMAIN s.tagIndex \ out) \cup {t} |->
                   IF x = t THEN k ELSE s.tagIndex[x]],
   timestamp |-> Tick(s)]

------------------------------------------------------------------------------
(* cache_load and cache_store, with the counting cache_handler does first *)

MemoryCycles == ((100 * cfg.num_bytes) % Word) \div 4

Plus(n, m) == (n + m) % Word

Count(x, y, c) ==
  stats' = [stats EXCEPT ![x] = Plus(@, 1), ![y] = Plus(@, 1),
                         !.total_cycles = Plus(@, c)]

\* place_in_cache
Place(j, t, x, y, c) ==
  LET s == sets[j]
      spot == FindEmptySpot(s)
  IN  \/ /\ spot # cfg.num_blocks
         /\ sets' = [sets EXCEPT ![j] = Loaded(s, t, spot, {})]
         /\ Count(x, y, c)
         /\ UNCHANGED status
      \/ /\ spot = cfg.num_blocks
         /\ \E k \in OldestBlocks(s) :
              /\ sets' = [sets EXCEPT ![j] = Loaded(s, t, k, {s.blocks[k].tag})]
              /\ Count(x, y, c + IF s.blocks[k].dirty THEN MemoryCycles ELSE 0)
         /\ UNCHANGED status
      \/ /\ spot = cfg.num_blocks
         /\ OldestBlocks(s) = {}
         /\ status' = "undefined"
         /\ UNCHANGED <<sets, stats>>

Cached(j, t) == t \in DOMAIN sets[j].tagIndex

LoadHit(j, t) ==
  /\ Cached(j, t)
  /\ Count("total_loads", "load_hits", 1)
  /\ sets' = [sets EXCEPT ![j] = Touched(@, t)]
  /\ UNCHANGED status

LoadMiss(j, t) ==
  /\ ~Cached(j, t)
  /\ Place(j, t, "total_loads", "load_misses", MemoryCycles)

StoreThrough(j, t) ==
  /\ Cached(j, t)
  /\ cfg.write
  /\ Count("total_stores", "store_hits", 101)
  /\ sets' = [sets EXCEPT ![j] = Touched(@, t)]
  /\ UNCHANGED status

StoreBack(j, t) ==
  LET s == Touched(sets[j], t)
  IN  /\ Cached(j, t)
      /\ ~cfg.write
      /\ Count("total_stores", "store_hits", 1)
      /\ sets' = [sets EXCEPT ![j] = [s EXCEPT !.blocks[s.tagIndex[t]].dirty = TRUE]]
      /\ UNCHANGED status

StoreAllocate(j, t) ==
  /\ ~Cached(j, t)
  /\ cfg.allocation
  /\ Place(j, t, "total_stores", "store_misses", 1 + MemoryCycles)

StoreAround(j, t) ==
  /\ ~Cached(j, t)
  /\ ~cfg.allocation
  /\ Count("total_stores", "store_misses", 100)
  /\ UNCHANGED <<status, sets>>

Access(a) ==
  /\ status = "run"
  /\ stats.total_loads + stats.total_stores < MaxAccesses
  /\ LET j == ReadIndex(a)
         t == ReadTag(a)
     IN  \/ LoadHit(j, t) \/ LoadMiss(j, t)
         \/ StoreThrough(j, t) \/ StoreBack(j, t)
         \/ StoreAllocate(j, t) \/ StoreAround(j, t)
  /\ UNCHANGED cfg

\* The trace ends, or has a line whose command is neither l nor s.
End ==
  /\ status = "run"
  /\ status' \in {"done", "invalid"}
  /\ UNCHANGED <<cfg, sets, stats>>

Next == HandleError \/ End \/ \E a \in Addresses : Access(a)

Spec == Init /\ [][Next]_vars

------------------------------------------------------------------------------
(* Properties *)

Index == {j \in 0 .. cfg.num_sets - 1 : status \notin {"args", "refused"}}

Valid(s) == {k \in DOMAIN s.blocks : s.blocks[k].valid}

\* The map of a set and its vector say the same: a valid block's tag is mapped
\* to its position and nothing else is mapped.  The valid blocks are the first
\* ones, as find_empty_spot takes the size of the map for the next free block.
IndexMatchesBlocks ==
  \A j \in Index :
    LET s == sets[j]
        valid == Valid(s)
    IN  /\ valid = 0 .. Cardinality(DOMAIN s.tagIndex) - 1
        /\ DOMAIN s.tagIndex = {s.blocks[k].tag : k \in valid}
        /\ \A k \in valid : s.tagIndex[s.blocks[k].tag] = k

\* A full set always has a block to evict: the iterator choose_evicted_block
\* returns was set.  This needs the times of a set's blocks to lie before its
\* timestamp, and a block to begin with.
VictimIsDefined == status = "undefined" => cfg.num_blocks = 0

\* o lists the valid blocks of a set, the next one to evict first.
InOrder(o, s) ==
  /\ {o[n] : n \in DOMAIN o} = Valid(s)
  /\ \A m, n \in DOMAIN o : m < n => Time(s.blocks[o[m]]) < Time(s.blocks[o[n]])

Order(s) == CHOOSE o \in [1 .. Cardinality(Valid(s)) -> Valid(s)] : InOrder(o, s)

\* Their tags.
Evictions(s) == LET o == Order(s) IN [n \in DOMAIN o |-> s.blocks[o[n]].tag]

\* The tags of the dirty blocks of a set.
DirtyTags(s) ==
  {s.blocks[k].tag : k \in {l \in DOMAIN s.blocks : s.blocks[l].dirty}}

Queues ==
  [j \in 0 .. cfg.num_sets - 1 |-> IF j \in Index THEN Evictions(sets[j]) ELSE <<>>]

ToWriteBack ==
  [j \in 0 .. cfg.num_sets - 1 |-> IF j \in Index THEN DirtyTags(sets[j]) ELSE {}]

Policy == INSTANCE CachePolicy WITH queue <- Queues, dirty <- ToWriteBack

\* The times in the blocks make each set a queue that evicts the least recently
\* used block, or the one loaded first; hits, misses and cycles are those of
\* the queue; two addresses are in one block when they are in the same bytes.
ImplementsPolicy == Policy!Spec

==============================================================================
