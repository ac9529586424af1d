---------------------------- MODULE CacheSimProofs ----------------------------
(***************************************************************************)
(* The map and the vector of each set of the cache agree, there is always  *)
(* a block to evict, and the blocks and their times are the queues of the  *)
(* policy: for every command line and every trace too short for a wrap.    *)
(***************************************************************************)
EXTENDS CacheSim, FiniteSetTheorems, SequenceTheorems, WellFoundedInduction, TLAPS

------------------------------------------------------------------------------
(* Induction on a set of numbers *)

LEMMA LeastNat ==
  ASSUME NEW T, T \subseteq Nat, T # {}
  PROVE  \E n \in T : \A m \in T : n <= m
<1> DEFINE R == OpToRel(<, Nat)
<1>1. IsWellFoundedOn(R, Nat)
  BY NatLessThanWellFounded
<1>2. \A x, y \in Nat : <<x, y>> \in R <=> x < y
  BY DEF OpToRel
<1> HIDE DEF R
<1>3. PICK n \in T : \A m \in T : ~(<<m, n>> \in R)
  BY <1>1, WFMin
<1>4. n \in Nat /\ \A m \in T : m \in Nat
  BY <1>3
<1>5. \A m \in T : ~(m < n)
  BY <1>2, <1>3, <1>4
<1> QED
  BY <1>3, <1>4, <1>5

LEMMA SetInduction ==
  ASSUME NEW S, 0 \in S, \A n \in Nat : n \in S => n + 1 \in S
  PROVE  \A n \in Nat : n \in S
<1> SUFFICES ASSUME Nat \ S # {} PROVE FALSE
  OBVIOUS
<1>1. PICK n \in Nat \ S : \A m \in Nat \ S : n <= m
  BY LeastNat
<1>2. n # 0 /\ n - 1 \in Nat /\ (n - 1) + 1 = n /\ ~(n <= n - 1)
  BY <1>1
<1>3. n - 1 \in S
  BY <1>1, <1>2
<1> QED
  BY <1>1, <1>2, <1>3

------------------------------------------------------------------------------
(* The bits of an address *)

\* f counts by doubling up to n.
Doubles(f, n) ==
  /\ f = [k \in 0 .. n |-> f[k]]
  /\ f[0] = 1
  /\ \A k \in 1 .. n : f[k] = 2 * f[k - 1]

LEMMA DoublesExists == ASSUME NEW n \in Nat PROVE \E f : Doubles(f, n)
<1> DEFINE S == {m \in Nat : \E f : Doubles(f, m)}
<1>1. 0 \in S
  <2>1. Doubles([k \in 0 .. 0 |-> 1], 0)
    BY DEF Doubles
  <2> QED
    BY <2>1
<1>2. ASSUME NEW m \in Nat, m \in S PROVE m + 1 \in S
  <2>1. PICK f : Doubles(f, m)
    BY <1>2
  <2> DEFINE g == [k \in 0 .. m + 1 |-> IF k = m + 1 THEN 2 * f[m] ELSE f[k]]
  <2>2. g[0] = 1 /\ \A k \in 1 .. m + 1 : g[k] = 2 * g[k - 1]
    <3>1. g[0] = 1
      BY <2>1 DEF Doubles
    <3>2. ASSUME NEW k \in 1 .. m + 1 PROVE g[k] = 2 * g[k - 1]
      <4>1. k \in 0 .. m + 1 /\ k - 1 \in 0 .. m + 1 /\ k - 1 # m + 1
        OBVIOUS
      <4>2. CASE k = m + 1
        BY <4>1, <4>2
      <4>3. CASE k # m + 1
        <5>1. k \in 1 .. m
          BY <4>3
        <5>2. f[k] = 2 * f[k - 1]
          BY <2>1, <5>1 DEF Doubles
        <5>3. g[k] = f[k] /\ g[k - 1] = f[k - 1]
          BY <4>1, <4>3
        <5> QED
          BY <5>2, <5>3
      <4> QED
        BY <4>2, <4>3
    <3> QED
      BY <3>1, <3>2
  <2>3. g = [k \in 0 .. m + 1 |-> g[k]]
    OBVIOUS
  <2>4. Doubles(g, m + 1)
    BY <2>2, <2>3 DEF Doubles
  <2> QED
    BY <2>4
<1>3. n \in S
  <2> HIDE DEF S
  <2> QED
    BY <1>1, <1>2, SetInduction
<1> QED
  BY <1>3

\* Bit is the function that its definition describes.
LEMMA BitDoubles ==
  /\ Bit[0] = 1
  /\ \A k \in 1 .. 2 * Bits : Bit[k] = 2 * Bit[k - 1]
  /\ \A k \in 0 .. 2 * Bits : Bit[k] \in Nat
<1> DEFINE n == 2 * Bits
<1>0. n \in Nat
  BY WordAssumption
<1>1. PICK f : Doubles(f, n)
  BY <1>0, DoublesExists
<1>2. f = [k \in 0 .. n |-> IF k = 0 THEN 1 ELSE 2 * f[k - 1]]
  BY <1>0, <1>1 DEF Doubles
<1>3. Bit = [k \in 0 .. n |-> IF k = 0 THEN 1 ELSE 2 * Bit[k - 1]]
  BY <1>2, Zenon DEF Bit
<1>4. \A k \in 1 .. n : Bit[k] = 2 * Bit[k - 1]
  BY <1>0, <1>3
<1>5. Bit[0] = 1
  BY <1>0, <1>3
<1>6. \A k \in 0 .. n : Bit[k] \in Nat
  <2> DEFINE S == {k \in Nat : k <= n => Bit[k] \in Nat}
  <2>1. 0 \in S
    BY <1>5
  <2>2. ASSUME NEW k \in Nat, k \in S PROVE k + 1 \in S
    <3> SUFFICES ASSUME k + 1 <= n PROVE Bit[k + 1] \in Nat
      OBVIOUS
    <3>1. k + 1 \in 1 .. n /\ (k + 1) - 1 = k /\ k <= n
      BY <1>0
    <3>2. Bit[k] \in Nat
      BY <2>2, <3>1
    <3>3. Bit[k + 1] = 2 * Bit[k]
      BY <1>4, <3>1
    <3> QED
      BY <3>2, <3>3
  <2>3. \A k \in Nat : k \in S
    <3> HIDE DEF S
    <3> QED
      BY <2>1, <2>2, SetInduction
  <2> QED
    BY <2>3
<1> QED
  BY <1>4, <1>5, <1>6

\* f sums what v says from position k up to n.
Sums(f, v, k, n) ==
  /\ f = [j \in k .. n |-> f[j]]
  /\ f[n] = 0
  /\ \A j \in k .. n - 1 : f[j] = f[j + 1] + v[j]

LEMMA SumsExists ==
  ASSUME NEW v, NEW n \in Nat
  PROVE  \E f : Sums(f, v, 0, n)
<1> DEFINE S == {m \in Nat : m <= n => \E f : Sums(f, v, n - m, n)}
<1>1. 0 \in S
  <2>1. Sums([j \in n - 0 .. n |-> 0], v, n - 0, n)
    BY DEF Sums
  <2> QED
    BY <2>1
<1>2. ASSUME NEW m \in Nat, m \in S PROVE m + 1 \in S
  <2> SUFFICES ASSUME m + 1 <= n PROVE \E f : Sums(f, v, n - (m + 1), n)
    OBVIOUS
  <2>1. PICK f : Sums(f, v, n - m, n)
    BY <1>2
  <2>2. PICK k \in Nat : k = n - (m + 1) /\ k + 1 = n - m /\ k < n
    OBVIOUS
  <2>3. Sums(f, v, k + 1, n)
    BY <2>1, <2>2
  <2> DEFINE g == [j \in k .. n |-> IF j = k THEN f[k + 1] + v[k] ELSE f[j]]
  <2>4. g = [j \in k .. n |-> g[j]]
    OBVIOUS
  <2>5. g[n] = 0
    BY <2>2, <2>3 DEF Sums
  <2>6. ASSUME NEW j \in k .. n - 1 PROVE g[j] = g[j + 1] + v[j]
    <3>1. j \in k .. n /\ j + 1 \in k .. n /\ j + 1 # k
      BY <2>2
    <3>2. g[j + 1] = f[j + 1]
      BY <3>1
    <3>3. CASE j = k
      BY <3>1, <3>2, <3>3
    <3>4. CASE j # k
      <4>1. j \in k + 1 .. n - 1
        BY <2>2, <3>4
      <4>2. f[j] = f[j + 1] + v[j]
        BY <2>3, <4>1 DEF Sums
      <4>3. g[j] = f[j]
        BY <3>1, <3>4
      <4> QED
        BY <3>2, <4>2, <4>3
    <3> QED
      BY <3>3, <3>4
  <2>7. Sums(g, v, k, n)
    BY <2>4, <2>5, <2>6 DEF Sums
  <2> QED
    BY <2>2, <2>7
<1>3. n \in S
  <2> HIDE DEF S
  <2> QED
    BY <1>1, <1>2, SetInduction
<1>4. n - n = 0 /\ n <= n
  OBVIOUS
<1> QED
  BY <1>3, <1>4

\* A sum of different bits below the nth is below the nth.
LEMMA SumIsBelow ==
  ASSUME NEW n \in 0 .. Bits, NEW v, NEW f, Sums(f, v, 0, n),
         \A k \in 0 .. n - 1 : v[k] = 0 \/ v[k] = Bit[k]
  PROVE  f[0] \in 0 .. Bit[n] - 1
<1> USE WordAssumption
<1> DEFINE S == {m \in Nat : m <= n =>
                   f[n - m] \in Nat /\ f[n - m] + Bit[n - m] <= Bit[n]}
<1>0. \A k \in 0 .. n : Bit[k] \in Nat
  BY BitDoubles
<1>1. 0 \in S
  <2>1. n - 0 = n /\ f[n] = 0 /\ Bit[n] \in Nat
    BY <1>0 DEF Sums
  <2> QED
    BY <2>1
<1>2. ASSUME NEW m \in Nat, m \in S PROVE m + 1 \in S
  <2> SUFFICES ASSUME m + 1 <= n
               PROVE  f[n - (m + 1)] \in Nat
                      /\ f[n - (m + 1)] + Bit[n - (m + 1)] <= Bit[n]
    OBVIOUS
  <2>1. PICK k \in Nat : /\ k = n - (m + 1) /\ k + 1 = n - m /\ k < n
                         /\ k \in 0 .. n - 1 /\ k + 1 \in 1 .. 2 * Bits /\ (k + 1) - 1 = k
                         /\ k \in 0 .. n /\ k + 1 \in 0 .. n
    OBVIOUS
  <2>2. f[k + 1] \in Nat /\ f[k + 1] + Bit[k + 1] <= Bit[n]
    BY <1>2, <2>1
  <2>3. f[k] = f[k + 1] + v[k]
    BY <2>1 DEF Sums
  <2>4. Bit[k + 1] = 2 * Bit[k] /\ Bit[k] \in Nat /\ Bit[n] \in Nat
    BY <1>0, <2>1, BitDoubles
  <2>5. v[k] = 0 \/ v[k] = Bit[k]
    BY <2>1
  <2>6. f[k] \in Nat /\ f[k] + Bit[k] <= Bit[n]
    BY <2>2, <2>3, <2>4, <2>5
  <2> QED
    BY <2>1, <2>6
<1>3. n \in S
  <2> HIDE DEF S
  <2> QED
    BY <1>1, <1>2, SetInduction
<1>4. n - n = 0 /\ n <= n
  OBVIOUS
<1>5. f[0] \in Nat /\ f[0] + Bit[0] <= Bit[n]
  BY <1>3, <1>4
<1> QED
  BY <1>0, <1>5, BitDoubles

\* What CopyBits(a, o, n) sums.
Piece(a, o, n) == [k \in 0 .. n - 1 |-> IF BitIsSet(a, o + k) THEN Bit[k] ELSE 0]

LEMMA CopySums ==
  ASSUME NEW a, NEW o, NEW n \in Nat
  PROVE  \E f : Sums(f, Piece(a, o, n), 0, n) /\ CopyBits(a, o, n) = f[0]
<1> DEFINE v == Piece(a, o, n)
<1>1. PICK g : Sums(g, v, 0, n)
  BY SumsExists
<1>2. g = [k \in 0 .. n |-> IF k = n THEN 0
                           ELSE g[k + 1] + IF BitIsSet(a, o + k) THEN Bit[k] ELSE 0]
  <2>1. \A k \in 0 .. n - 1 :
          g[k] = g[k + 1] + IF BitIsSet(a, o + k) THEN Bit[k] ELSE 0
    BY <1>1 DEF Sums, Piece
  <2>2. g[n] = 0 /\ \A k \in 0 .. n : k # n => k \in 0 .. n - 1
    BY <1>1 DEF Sums
  <2>3. g = [k \in 0 .. n |-> g[k]]
    BY <1>1 DEF Sums
  <2> QED
    BY <2>1, <2>2, <2>3
<1>3. PICK f : /\ f = [k \in 0 .. n |-> IF k = n THEN 0
                         ELSE f[k + 1] + IF BitIsSet(a, o + k) THEN Bit[k] ELSE 0]
               /\ CopyBits(a, o, n) = f[0]
  BY <1>2, Zenon DEF CopyBits
<1>4. Sums(f, v, 0, n)
  BY <1>3 DEF Sums, Piece
<1> QED
  BY <1>3, <1>4

LEMMA CopyFits ==
  ASSUME NEW a, NEW o, NEW n \in 0 .. Bits
  PROVE  CopyBits(a, o, n) \in 0 .. Bit[n] - 1
<1> DEFINE v == Piece(a, o, n)
<1>0. n \in Nat
  BY WordAssumption
<1>1. PICK f : Sums(f, v, 0, n) /\ CopyBits(a, o, n) = f[0]
  BY <1>0, CopySums
<1>2. \A k \in 0 .. n - 1 : v[k] = 0 \/ v[k] = Bit[k]
  BY DEF Piece
<1> HIDE DEF v
<1> QED
  BY <1>1, <1>2, SumIsBelow

\* An index that readIndex computes is one of a set of the cache.
LEMMA IndexIsSet ==
  ASSUME ~Refused(cfg), NEW a
  PROVE  ReadIndex(a) \in 0 .. cfg.num_sets - 1
<1>1. /\ Log2(cfg.num_sets) \in 0 .. Bits - 1
      /\ cfg.num_sets = Bit[Log2(cfg.num_sets)]
  <2>1. \E k \in 0 .. Bits - 1 : cfg.num_sets = Bit[k]
    BY DEF Refused, IsPowerOfTwo
  <2> QED
    BY <2>1 DEF Log2
<1>2. Log2(cfg.num_sets) \in 0 .. Bits
  BY <1>1, WordAssumption
<1> QED
  BY <1>1, <1>2, CopyFits DEF ReadIndex

------------------------------------------------------------------------------
(* One set of the cache *)

Tags == {0} \cup {CopyBits(a, o, n) : a \in Addresses, o \in Nat, n \in Nat}

Block == [tag : Tags, load_time : Nat, access_time : Nat, valid : BOOLEAN, dirty : BOOLEAN]

\* A Set of n blocks.
SetOK(s, n) ==
  /\ s = [blocks |-> s.blocks, tagIndex |-> s.tagIndex, timestamp |-> s.timestamp]
  /\ s.blocks \in [0 .. n - 1 -> Block]
  /\ s.timestamp \in Nat
  /\ IsFiniteSet(DOMAIN s.tagIndex)

\* What IndexMatchesBlocks says of one set.
Agree(s) ==
  /\ Valid(s) = 0 .. Cardinality(DOMAIN s.tagIndex) - 1
  /\ DOMAIN s.tagIndex = {s.blocks[k].tag : k \in Valid(s)}
  /\ \A k \in Valid(s) : s.tagIndex[s.blocks[k].tag] = k

\* The times of the blocks lie before the set's own.
InThePast(s) == \A k \in Valid(s) : Time(s.blocks[k]) < s.timestamp

\* Set s with block k replaced, at a later time.
Updated(s, k, b, now) ==
  [blocks |-> [s.blocks EXCEPT ![k] = b], tagIndex |-> s.tagIndex, timestamp |-> now]

\* Set r has the blocks in use that s has.
InUseAs(r, s, n) == SetOK(r, n) /\ Agree(r) /\ Valid(r) = Valid(s)

LEMMA UpdatedIsOK ==
  ASSUME NEW n \in Nat, NEW s, SetOK(s, n), Agree(s), NEW k \in Valid(s),
         NEW b \in Block, b.tag = s.blocks[k].tag, b.valid = s.blocks[k].valid,
         NEW now \in Nat
  PROVE  InUseAs(Updated(s, k, b, now), s, n)
<1> DEFINE r == Updated(s, k, b, now)
<1>1. /\ r.blocks = [s.blocks EXCEPT ![k] = b]
      /\ r.tagIndex = s.tagIndex /\ r.timestamp = now
      /\ r = [blocks |-> r.blocks, tagIndex |-> r.tagIndex, timestamp |-> r.timestamp]
  BY DEF Updated
<1> HIDE DEF r
<1>2. s.blocks \in [0 .. n - 1 -> Block] /\ k \in 0 .. n - 1
  BY DEF SetOK, Valid
<1>3. /\ r.blocks \in [0 .. n - 1 -> Block]
      /\ \A i \in 0 .. n - 1 : /\ r.blocks[i].tag = s.blocks[i].tag
                               /\ r.blocks[i].valid = s.blocks[i].valid
  BY <1>1, <1>2
<1>4. SetOK(r, n)
  BY <1>1, <1>3 DEF SetOK
<1>5. Valid(r) = Valid(s)
  BY <1>2, <1>3 DEF Valid
<1>6. \A i \in Valid(s) : i \in 0 .. n - 1
  BY <1>2 DEF Valid
<1>7. {r.blocks[i].tag : i \in Valid(r)} = {s.blocks[i].tag : i \in Valid(s)}
  BY <1>3, <1>5, <1>6
<1>8. Agree(r)
  BY <1>1, <1>3, <1>5, <1>6, <1>7 DEF Agree
<1> QED
  BY <1>4, <1>5, <1>8 DEF r, InUseAs

\* A hit finds the block.
LEMMA HitIsValid ==
  ASSUME NEW n \in Nat, NEW s, SetOK(s, n), Agree(s), NEW t \in DOMAIN s.tagIndex
  PROVE  /\ s.tagIndex[t] \in Valid(s) /\ s.tagIndex[t] \in 0 .. n - 1
         /\ s.blocks[s.tagIndex[t]].tag = t /\ s.blocks[s.tagIndex[t]] \in Block
<1>0. t \in {s.blocks[k].tag : k \in Valid(s)}
  BY Zenon DEF Agree
<1>1. PICK k \in Valid(s) : t = s.blocks[k].tag
  BY <1>0
<1>2. s.tagIndex[t] = k
  BY <1>1 DEF Agree
<1>3. k \in 0 .. n - 1 /\ s.blocks[k] \in Block
  BY DEF SetOK, Valid
<1> QED
  BY <1>1, <1>2, <1>3

LEMMA TickIsNat == ASSUME NEW s, s.timestamp \in Nat PROVE Tick(s) \in Nat
BY WordAssumption DEF Tick

\* A hit changes a time, or nothing.
LEMMA TouchedIsOK ==
  ASSUME NEW n \in Nat, NEW s, SetOK(s, n), Agree(s), NEW t \in DOMAIN s.tagIndex
  PROVE  /\ SetOK(Touched(s, t), n) /\ Agree(Touched(s, t))
         /\ DOMAIN Touched(s, t).tagIndex = DOMAIN s.tagIndex
<1>1. CASE cfg.lru
  <2> DEFINE k == s.tagIndex[t]
             b == [s.blocks[k] EXCEPT !.access_time = s.timestamp]
  <2>1. k \in Valid(s) /\ s.blocks[k] \in Block /\ s.timestamp \in Nat
    BY HitIsValid DEF SetOK
  <2>2. b \in Block /\ b.tag = s.blocks[k].tag /\ b.valid = s.blocks[k].valid
    BY <2>1 DEF Block
  <2>3. Touched(s, t) = Updated(s, k, b, Tick(s))
    BY <1>1 DEF Touched, Updated, SetOK
  <2>4. Tick(s) \in Nat
    BY <2>1, TickIsNat
  <2>5. SetOK(Updated(s, k, b, Tick(s)), n) /\ Agree(Updated(s, k, b, Tick(s)))
    <3> HIDE DEF k, b
    <3> QED
      BY <2>1, <2>2, <2>4, UpdatedIsOK DEF InUseAs
  <2>6. Updated(s, k, b, Tick(s)).tagIndex = s.tagIndex
    BY DEF Updated
  <2> QED
    BY <2>3, <2>5, <2>6
<1>2. CASE ~cfg.lru
  BY <1>2 DEF Touched
<1> QED
  BY <1>1, <1>2

\* A store makes a block dirty.
LEMMA DirtyIsUpdated ==
  ASSUME NEW n \in Nat, NEW s, SetOK(s, n), Agree(s), NEW t \in DOMAIN s.tagIndex
  PROVE  LET k == s.tagIndex[t]
         IN  [s EXCEPT !.blocks[k].dirty = TRUE]
               = Updated(s, k, [s.blocks[k] EXCEPT !.dirty = TRUE], s.timestamp)
<1> DEFINE k == s.tagIndex[t]
<1>1. PICK bs, ti, now : s = [blocks |-> bs, tagIndex |-> ti, timestamp |-> now]
  BY DEF SetOK
<1>2. bs \in [0 .. n - 1 -> Block] /\ k \in 0 .. n - 1
  BY <1>1, HitIsValid DEF SetOK
<1>3. s.blocks = bs /\ s.tagIndex = ti /\ s.timestamp = now
  BY <1>1
<1> HIDE DEF k
<1> DEFINE c == [bs EXCEPT ![k] = [bs[k] EXCEPT !.dirty = TRUE]]
<1>4. [s EXCEPT !.blocks[k].dirty = TRUE] = [s EXCEPT !.blocks = c]
  BY <1>3
<1>5. [s EXCEPT !.blocks = c] = [blocks |-> c, tagIndex |-> ti, timestamp |-> now]
  <2> HIDE DEF c
  <2> QED
    BY <1>1
<1>6. [s EXCEPT !.blocks[k].dirty = TRUE]
        = Updated(s, k, [s.blocks[k] EXCEPT !.dirty = TRUE], s.timestamp)
  BY <1>3, <1>4, <1>5 DEF Updated
<1> QED
  BY <1>6 DEF k

LEMMA DirtyIsOK ==
  ASSUME NEW n \in Nat, NEW s, SetOK(s, n), Agree(s), NEW t \in DOMAIN s.tagIndex
  PROVE  /\ SetOK([s EXCEPT !.blocks[s.tagIndex[t]].dirty = TRUE], n)
         /\ Agree([s EXCEPT !.blocks[s.tagIndex[t]].dirty = TRUE])
<1> DEFINE k == s.tagIndex[t]
           b == [s.blocks[k] EXCEPT !.dirty = TRUE]
<1>1. k \in Valid(s) /\ s.blocks[k] \in Block /\ s.timestamp \in Nat
  BY HitIsValid DEF SetOK
<1>2. b \in Block /\ b.tag = s.blocks[k].tag /\ b.valid = s.blocks[k].valid
  BY <1>1 DEF Block
<1>3. [s EXCEPT !.blocks[k].dirty = TRUE] = Updated(s, k, b, s.timestamp)
  BY DirtyIsUpdated
<1>4. SetOK(Updated(s, k, b, s.timestamp), n) /\ Agree(Updated(s, k, b, s.timestamp))
  <2> HIDE DEF k, b
  <2> QED
    BY <1>1, <1>2, UpdatedIsOK DEF InUseAs
<1> QED
  BY <1>3, <1>4

LEMMA NewBlockIs ==
  ASSUME NEW s, s.timestamp \in Nat, NEW t \in Tags
  PROVE  /\ NewBlock(s, t) \in Block
         /\ NewBlock(s, t).tag = t /\ NewBlock(s, t).valid = TRUE
         /\ Time(NewBlock(s, t)) = s.timestamp
BY DEF NewBlock, Block, Time

\* What a load puts in a set.
LEMMA LoadedIs ==
  ASSUME NEW n \in Nat, NEW s, SetOK(s, n), NEW t \in Tags, NEW k \in 0 .. n - 1, NEW out
  PROVE  LET r == Loaded(s, t, k, out)
         IN  /\ SetOK(r, n)
             /\ DOMAIN r.tagIndex = (DOMAIN s.tagIndex \ out) \cup {t}
             /\ \A x \in DOMAIN r.tagIndex :
                  r.tagIndex[x] = IF x = t THEN k ELSE s.tagIndex[x]
             /\ r.timestamp = Tick(s)
             /\ r.blocks[k] = NewBlock(s, t)
             /\ \A i \in 0 .. n - 1 : i # k => r.blocks[i] = s.blocks[i]
<1> DEFINE r == Loaded(s, t, k, out)
<1>1. /\ r.blocks = [s.blocks EXCEPT ![k] = NewBlock(s, t)]
      /\ r.tagIndex = [x \in (DOMAIN s.tagIndex \ out) \cup {t} |->
                         IF x = t THEN k ELSE s.tagIndex[x]]
      /\ r.timestamp = Tick(s)
      /\ r = [blocks |-> r.blocks, tagIndex |-> r.tagIndex, timestamp |-> r.timestamp]
  BY DEF Loaded
<1> HIDE DEF r
<1>2. /\ s.blocks \in [0 .. n - 1 -> Block] /\ s.timestamp \in Nat
      /\ IsFiniteSet(DOMAIN s.tagIndex)
  BY DEF SetOK
<1>3. NewBlock(s, t) \in Block
  BY <1>2, NewBlockIs
<1>4. r.blocks \in [0 .. n - 1 -> Block]
  BY <1>1, <1>2, <1>3
<1>5. /\ r.blocks[k] = NewBlock(s, t)
      /\ \A i \in 0 .. n - 1 : i # k => r.blocks[i] = s.blocks[i]
  BY <1>1, <1>2
<1>6. /\ DOMAIN r.tagIndex = (DOMAIN s.tagIndex \ out) \cup {t}
      /\ \A x \in DOMAIN r.tagIndex :
           r.tagIndex[x] = IF x = t THEN k ELSE s.tagIndex[x]
  BY <1>1
<1>7. IsFiniteSet(DOMAIN r.tagIndex)
  <2>1. IsFiniteSet(DOMAIN s.tagIndex \ out)
    BY <1>2, FS_Subset
  <2>2. IsFiniteSet((DOMAIN s.tagIndex \ out) \cup {t})
    BY <2>1, FS_AddElement
  <2> QED
    BY <1>6, <2>2
<1>8. r.timestamp \in Nat
  BY <1>1, <1>2, TickIsNat
<1>9. SetOK(r, n)
  BY <1>1, <1>4, <1>7, <1>8 DEF SetOK
<1> QED
  BY <1>1, <1>5, <1>6, <1>9 DEF r

\* The map is no larger than the vector.
LEMMA SpotIsInside ==
  ASSUME NEW n \in Nat, NEW s, SetOK(s, n), Agree(s)
  PROVE  /\ FindEmptySpot(s) \in 0 .. n
         /\ Valid(s) = 0 .. FindEmptySpot(s) - 1
<1> DEFINE v == FindEmptySpot(s)
<1>1. v \in Nat
  BY FS_CardinalityType DEF FindEmptySpot, SetOK
<1>2. Valid(s) = 0 .. v - 1
  BY DEF Agree, FindEmptySpot
<1>3. Valid(s) \subseteq 0 .. n - 1
  BY DEF Valid, SetOK
<1> HIDE DEF v
<1>4. v <= n
  <2> SUFFICES ASSUME v > n PROVE FALSE
    BY <1>1
  <2>1. n \in 0 .. v - 1 /\ n \notin 0 .. n - 1
    BY <1>1
  <2> QED
    BY <1>2, <1>3, <2>1
<1> QED
  BY <1>1, <1>2, <1>4 DEF v

\* A block loaded into the first empty spot.
LEMMA FilledIsOK ==
  ASSUME NEW n \in Nat, NEW s, SetOK(s, n), Agree(s),
         NEW t \in Tags, t \notin DOMAIN s.tagIndex, FindEmptySpot(s) # n
  PROVE  LET r == Loaded(s, t, FindEmptySpot(s), {})
         IN  SetOK(r, n) /\ Agree(r) /\ Valid(r) = Valid(s) \cup {FindEmptySpot(s)}
<1>1. PICK v \in 0 .. n - 1 : v = FindEmptySpot(s) /\ Valid(s) = 0 .. v - 1
  BY SpotIsInside
<1>2. PICK r : r = Loaded(s, t, v, {})
  OBVIOUS
<1>3. /\ SetOK(r, n)
      /\ DOMAIN r.tagIndex = DOMAIN s.tagIndex \cup {t}
      /\ \A x \in DOMAIN r.tagIndex :
           r.tagIndex[x] = IF x = t THEN v ELSE s.tagIndex[x]
      /\ r.blocks[v] = NewBlock(s, t)
      /\ \A i \in 0 .. n - 1 : i # v => r.blocks[i] = s.blocks[i]
  BY <1>2, LoadedIs
<1>4. r.blocks[v].tag = t /\ r.blocks[v].valid = TRUE
  <2>1. s.timestamp \in Nat
    BY DEF SetOK
  <2>2. NewBlock(s, t).tag = t /\ NewBlock(s, t).valid = TRUE
    BY <2>1, NewBlockIs
  <2> QED
    BY <1>3, <2>2
<1>5. s.blocks \in [0 .. n - 1 -> Block] /\ r.blocks \in [0 .. n - 1 -> Block]
  BY <1>3 DEF SetOK
<1>6. Valid(r) = 0 .. v
  <2>1. \A i \in 0 .. n - 1 : i \in Valid(r) <=> i = v \/ i \in Valid(s)
    BY <1>3, <1>4, <1>5 DEF Valid
  <2>2. Valid(r) \subseteq 0 .. n - 1
    BY <1>5 DEF Valid
  <2>3. \A i \in 0 .. n - 1 : i \in 0 .. v <=> i = v \/ i \in Valid(s)
    BY <1>1
  <2>4. 0 .. v \subseteq 0 .. n - 1
    OBVIOUS
  <2> QED
    BY <2>1, <2>2, <2>3, <2>4
<1>7. Cardinality(DOMAIN r.tagIndex) = v + 1
  BY <1>1, <1>3, FS_AddElement DEF SetOK, FindEmptySpot
<1>8. \A i \in Valid(s) : /\ i \in 0 .. n - 1 /\ i # v
                          /\ s.blocks[i].tag \in DOMAIN s.tagIndex /\ s.blocks[i].tag # t
                          /\ s.tagIndex[s.blocks[i].tag] = i
                          /\ r.blocks[i].tag = s.blocks[i].tag
  <2> TAKE i \in Valid(s)
  <2>1. i \in 0 .. n - 1 /\ i # v
    BY <1>1
  <2>2. s.blocks[i].tag \in DOMAIN s.tagIndex
    BY DEF Agree
  <2> QED
    BY <1>3, <2>1, <2>2 DEF Agree
<1>9. DOMAIN r.tagIndex = {r.blocks[i].tag : i \in Valid(r)}
  <2>1. DOMAIN s.tagIndex = {s.blocks[i].tag : i \in Valid(s)}
    BY Zenon DEF Agree
  <2>2. \A i : i \in Valid(r) <=> i = v \/ i \in Valid(s)
    BY <1>1, <1>6
  <2> QED
    BY <1>3, <1>4, <1>8, <2>1, <2>2
<1>10. \A i \in Valid(r) : r.tagIndex[r.blocks[i].tag] = i
  <2> TAKE i \in Valid(r)
  <2>1. CASE i = v
    BY <1>3, <1>4, <2>1
  <2>2. CASE i # v
    <3>1. i \in Valid(s)
      BY <1>1, <1>6, <2>2
    <3> QED
      BY <1>3, <1>8, <3>1
  <2> QED
    BY <2>1, <2>2
<1>11. Agree(r)
  <2>1. Valid(r) = 0 .. Cardinality(DOMAIN r.tagIndex) - 1
    BY <1>6, <1>7
  <2> QED
    BY <1>9, <1>10, <2>1 DEF Agree
<1> QED
  BY <1>1, <1>2, <1>3, <1>6, <1>11

\* A block loaded over another in a full set.
LEMMA EvictedIsOK ==
  ASSUME NEW n \in Nat, NEW s, SetOK(s, n), Agree(s),
         NEW t \in Tags, t \notin DOMAIN s.tagIndex, FindEmptySpot(s) = n,
         NEW k \in 0 .. n - 1
  PROVE  LET r == Loaded(s, t, k, {s.blocks[k].tag})
         IN  SetOK(r, n) /\ Agree(r) /\ Valid(r) = Valid(s)
<1> DEFINE e == s.blocks[k].tag
<1>1. Valid(s) = 0 .. n - 1
  BY SpotIsInside
<1>2. PICK r : r = Loaded(s, t, k, {e})
  OBVIOUS
<1>3. /\ SetOK(r, n)
      /\ DOMAIN r.tagIndex = (DOMAIN s.tagIndex \ {e}) \cup {t}
      /\ \A x \in DOMAIN r.tagIndex :
           r.tagIndex[x] = IF x = t THEN k ELSE s.tagIndex[x]
      /\ r.blocks[k] = NewBlock(s, t)
      /\ \A i \in 0 .. n - 1 : i # k => r.blocks[i] = s.blocks[i]
  BY <1>2, LoadedIs
<1>4. r.blocks[k].tag = t /\ r.blocks[k].valid = TRUE
  <2>1. s.timestamp \in Nat
    BY DEF SetOK
  <2>2. NewBlock(s, t).tag = t /\ NewBlock(s, t).valid = TRUE
    BY <2>1, NewBlockIs
  <2> QED
    BY <1>3, <2>2
<1>5. s.blocks \in [0 .. n - 1 -> Block] /\ r.blocks \in [0 .. n - 1 -> Block]
  BY <1>3 DEF SetOK
<1>6. Valid(r) = 0 .. n - 1
  <2>1. \A i \in 0 .. n - 1 : i \in Valid(r)
    <3> TAKE i \in 0 .. n - 1
    <3>1. s.blocks[i].valid
      BY <1>1 DEF Valid
    <3> QED
      BY <1>3, <1>4, <1>5, <3>1 DEF Valid
  <2>2. Valid(r) \subseteq 0 .. n - 1
    BY <1>5 DEF Valid
  <2> QED
    BY <2>1, <2>2
<1>7. \A i \in 0 .. n - 1 : /\ s.blocks[i].tag \in DOMAIN s.tagIndex
                            /\ s.tagIndex[s.blocks[i].tag] = i
                            /\ s.blocks[i].tag # t
  <2> TAKE i \in 0 .. n - 1
  <2>1. s.blocks[i].tag \in DOMAIN s.tagIndex
    BY <1>1 DEF Agree
  <2> QED
    BY <1>1, <2>1 DEF Agree
<1>8. Cardinality(DOMAIN r.tagIndex) = n
  <2>1. IsFiniteSet(DOMAIN s.tagIndex) /\ Cardinality(DOMAIN s.tagIndex) = n /\ e \in DOMAIN s.tagIndex
    BY <1>7 DEF SetOK, FindEmptySpot
  <2>2. /\ IsFiniteSet(DOMAIN s.tagIndex \ {e})
        /\ Cardinality(DOMAIN s.tagIndex \ {e}) = n - 1
    BY <2>1, FS_RemoveElement
  <2>3. Cardinality((DOMAIN s.tagIndex \ {e}) \cup {t}) = (n - 1) + 1
    BY <2>2, FS_AddElement
  <2> QED
    BY <1>3, <2>3
<1>9. \A i \in 0 .. n - 1 : i # k => /\ r.blocks[i].tag = s.blocks[i].tag
                                     /\ s.blocks[i].tag \in DOMAIN s.tagIndex \ {e}
  BY <1>3, <1>7
<1>10. DOMAIN r.tagIndex = {r.blocks[i].tag : i \in Valid(r)}
  <2>1. \A x \in DOMAIN s.tagIndex \ {e} : \E i \in 0 .. n - 1 : i # k /\ x = r.blocks[i].tag
    <3> TAKE x \in DOMAIN s.tagIndex \ {e}
    <3>1. DOMAIN s.tagIndex = {s.blocks[i].tag : i \in Valid(s)}
      BY Zenon DEF Agree
    <3>2. PICK i \in 0 .. n - 1 : x = s.blocks[i].tag
      BY <1>1, <3>1
    <3> QED
      BY <1>9, <3>2
  <2> QED
    BY <1>3, <1>4, <1>6, <1>9, <2>1
<1>11. \A i \in Valid(r) : r.tagIndex[r.blocks[i].tag] = i
  <2> TAKE i \in Valid(r)
  <2>1. CASE i = k
    BY <1>3, <1>4, <2>1
  <2>2. CASE i # k
    BY <1>3, <1>6, <1>7, <1>9, <2>2
  <2> QED
    BY <2>1, <2>2
<1>12. Agree(r)
  BY <1>6, <1>8, <1>10, <1>11 DEF Agree
<1> QED
  BY <1>1, <1>2, <1>3, <1>6, <1>12

------------------------------------------------------------------------------
(* The map and the vector agree *)

CInv ==
  /\ cfg \in Configs /\ status \in Status
  /\ Index # {} => ~Refused(cfg)
  /\ status = "run" => ~Refused(cfg)
  /\ status \notin {"args", "refused"} => sets = [j \in 0 .. cfg.num_sets - 1 |-> sets[j]]
  /\ \A j \in Index : SetOK(sets[j], cfg.num_blocks) /\ Agree(sets[j])

\* An access changes one set.
OneSet(j, r) ==
  /\ status = "run" /\ status' \in {"run", "undefined"} /\ UNCHANGED cfg
  /\ sets' = [sets EXCEPT ![j] = r]
  /\ j \in Index => SetOK(r, cfg.num_blocks) /\ Agree(r)

LEMMA OneSetIsOK == ASSUME CInv, NEW j, NEW r, OneSet(j, r) PROVE CInv'
<1> USE DEF CInv, OneSet
<1>1. Index' = Index
  BY DEF Index
<1>2. sets = [i \in 0 .. cfg.num_sets - 1 |-> sets[i]] /\ Index = 0 .. cfg.num_sets - 1
  BY DEF Index
<1>3. sets' = [i \in 0 .. cfg.num_sets - 1 |-> sets'[i]]
  BY <1>2
<1>4. \A i \in Index : sets'[i] = IF i = j THEN r ELSE sets[i]
  BY <1>2
<1>5. \A i \in Index : SetOK(sets'[i], cfg.num_blocks) /\ Agree(sets'[i])
  BY <1>4
<1>6. \A i \in Index' : SetOK(sets[i], cfg.num_blocks)' /\ Agree(sets[i])'
  <2> TAKE i \in Index'
  <2>1. SetOK(sets'[i], cfg.num_blocks) /\ Agree(sets'[i]) /\ UNCHANGED cfg
    BY <1>1, <1>5
  <2>2. SetOK(sets[i], cfg.num_blocks)'
    BY <2>1 DEF SetOK
  <2>3. Agree(sets[i])'
    BY <2>1 DEF Agree, Valid
  <2> QED
    BY <2>2, <2>3
<1> QED
  BY <1>1, <1>3, <1>6 DEF Status, Refused, IsPowerOfTwo

LEMMA SameSetsAreOK ==
  ASSUME CInv, UNCHANGED <<cfg, sets>>,
         \/ status' = status
         \/ status = "run" /\ status' \in {"run", "done", "invalid", "undefined"}
  PROVE  CInv'
<1> USE DEF CInv
<1>1. Index' = Index
  BY DEF Index
<1>2. \A j \in Index' : SetOK(sets[j], cfg.num_blocks)' /\ Agree(sets[j])'
  BY <1>1 DEF SetOK, Agree, Valid
<1> QED
  BY <1>1, <1>2 DEF Status, Refused, IsPowerOfTwo

LEMMA EmptySetIsOK ==
  ASSUME NEW n \in Nat, NEW s,
         s = [blocks |-> [k \in 0 .. n - 1 |-> NoBlock], tagIndex |-> [t \in {} |-> 0],
              timestamp |-> 0]
  PROVE  SetOK(s, n) /\ Agree(s)
<1>1. NoBlock \in Block /\ NoBlock.valid = FALSE
  BY DEF NoBlock, Block, Tags
<1>2. /\ s.blocks = [k \in 0 .. n - 1 |-> NoBlock] /\ s.tagIndex = [t \in {} |-> 0]
      /\ s.timestamp = 0
      /\ s = [blocks |-> s.blocks, tagIndex |-> s.tagIndex, timestamp |-> s.timestamp]
  OBVIOUS
<1>3. DOMAIN s.tagIndex = {}
  BY <1>2
<1>4. SetOK(s, n)
  BY <1>1, <1>2, <1>3, FS_EmptySet DEF SetOK
<1>5. Valid(s) = {}
  BY <1>1, <1>2 DEF Valid
<1>6. Cardinality(DOMAIN s.tagIndex) = 0
  BY <1>3, FS_EmptySet
<1>7. Agree(s)
  <2>1. {s.blocks[k].tag : k \in Valid(s)} = {}
    BY <1>5
  <2>2. Valid(s) = 0 .. Cardinality(DOMAIN s.tagIndex) - 1
    <3>1. 0 .. 0 - 1 = {}
      OBVIOUS
    <3> QED
      BY <1>5, <1>6, <3>1, Zenon
  <2>3. DOMAIN s.tagIndex = {s.blocks[k].tag : k \in Valid(s)}
    BY <1>3, <2>1
  <2>4. \A k \in Valid(s) : s.tagIndex[s.blocks[k].tag] = k
    BY <1>5
  <2> QED
    BY <2>2, <2>3, <2>4, Zenon DEF Agree
<1> QED
  BY <1>4, <1>7

LEMMA BlocksAreNat == ASSUME CInv PROVE cfg.num_blocks \in Nat /\ cfg.num_sets \in Nat
BY ConfigAssumption DEF CInv, Config

LEMMA CStart == Init => CInv
<1> SUFFICES ASSUME Init PROVE CInv
  OBVIOUS
<1>1. status = "args" /\ Index = {}
  BY DEF Init, Index
<1> QED
  BY <1>1 DEF Init, CInv, Status

LEMMA CHandleError == ASSUME CInv, HandleError PROVE CInv'
<1>1. CASE Refused(cfg)
  <2>1. status' = "refused" /\ UNCHANGED <<cfg, sets>>
    BY <1>1 DEF HandleError
  <2>2. Index' = {}
    BY <2>1 DEF Index
  <2> QED
    BY <2>1, <2>2 DEF CInv, Status
<1>2. CASE ~Refused(cfg)
  <2>1. status' = "run" /\ sets' = CacheInitialize /\ UNCHANGED cfg
    BY <1>2 DEF HandleError
  <2>2. Index' = 0 .. cfg.num_sets - 1
    BY <2>1 DEF Index
  <2>3. sets' = [j \in 0 .. cfg.num_sets - 1 |-> sets'[j]]
    BY <2>1 DEF CacheInitialize
  <2>4. ASSUME NEW j \in Index'
        PROVE  SetOK(sets'[j], cfg.num_blocks) /\ Agree(sets'[j])
    <3>1. sets'[j] = [blocks |-> [k \in 0 .. cfg.num_blocks - 1 |-> NoBlock],
                      tagIndex |-> [t \in {} |-> 0], timestamp |-> 0]
      BY <2>1, <2>2 DEF CacheInitialize
    <3> QED
      BY <3>1, BlocksAreNat, EmptySetIsOK
  <2>5. \A j \in Index' : SetOK(sets[j], cfg.num_blocks)' /\ Agree(sets[j])'
    BY <2>1, <2>4 DEF SetOK, Agree, Valid
  <2>6. ~Refused(cfg)'
    BY <1>2, <2>1 DEF Refused, IsPowerOfTwo
  <2> QED
    BY <2>1, <2>3, <2>5, <2>6 DEF CInv, Status
<1> QED
  BY <1>1, <1>2

LEMMA TagIsTag == ASSUME CInv, status = "run", NEW a \in Addresses PROVE ReadTag(a) \in Tags
<1>1. /\ \E k \in 0 .. Bits - 1 : cfg.num_sets = Bit[k]
      /\ \E k \in 0 .. Bits - 1 : cfg.num_bytes = Bit[k]
  BY DEF CInv, Refused, IsPowerOfTwo
<1>2. Log2(cfg.num_sets) \in 0 .. Bits - 1 /\ Log2(cfg.num_bytes) \in 0 .. Bits - 1
  BY <1>1 DEF Log2
<1>3. PICK o \in Nat : o = Log2(cfg.num_bytes) + Log2(cfg.num_sets)
  BY <1>2
<1>4. (IF o < Bits THEN Bits - o ELSE 0) \in Nat
  BY <1>3, WordAssumption
<1> QED
  BY <1>3, <1>4 DEF ReadTag, Tags

\* place_in_cache, for a load or a store
LEMMA PlaceKeeps ==
  ASSUME CInv, status = "run", UNCHANGED cfg, NEW j, NEW t \in Tags, ~Cached(j, t),
         NEW x, NEW y, NEW c, Place(j, t, x, y, c)
  PROVE  CInv'
<1> DEFINE s == sets[j]
           n == cfg.num_blocks
<1>1. n \in Nat
  BY BlocksAreNat
<1>2. j \in Index => SetOK(s, n) /\ Agree(s) /\ t \notin DOMAIN s.tagIndex
  BY DEF CInv, Cached
<1>3. CASE UNCHANGED sets /\ status' = "undefined"
  BY <1>3, SameSetsAreOK
<1>4. CASE /\ FindEmptySpot(s) # n
           /\ sets' = [sets EXCEPT ![j] = Loaded(s, t, FindEmptySpot(s), {})]
           /\ UNCHANGED status
  <2>1. j \in Index => SetOK(Loaded(s, t, FindEmptySpot(s), {}), n)
                       /\ Agree(Loaded(s, t, FindEmptySpot(s), {}))
    BY <1>1, <1>2, <1>4, FilledIsOK
  <2>2. OneSet(j, Loaded(s, t, FindEmptySpot(s), {}))
    BY <1>4, <2>1 DEF OneSet
  <2> QED
    BY <2>2, OneSetIsOK
<1>5. ASSUME NEW k \in OldestBlocks(s), FindEmptySpot(s) = n,
             sets' = [sets EXCEPT ![j] = Loaded(s, t, k, {s.blocks[k].tag})],
             UNCHANGED status
      PROVE  CInv'
  <2>1. j \in Index => k \in 0 .. n - 1
    BY <1>2 DEF OldestBlocks, SetOK
  <2>2. j \in Index => SetOK(Loaded(s, t, k, {s.blocks[k].tag}), n)
                       /\ Agree(Loaded(s, t, k, {s.blocks[k].tag}))
    BY <1>1, <1>2, <1>5, <2>1, EvictedIsOK
  <2>3. OneSet(j, Loaded(s, t, k, {s.blocks[k].tag}))
    BY <1>5, <2>2 DEF OneSet
  <2> QED
    BY <2>3, OneSetIsOK
<1> QED
  BY <1>3, <1>4, <1>5 DEF Place

LEMMA AccessKeeps == ASSUME CInv, NEW a \in Addresses, Access(a) PROVE CInv'
<1> DEFINE j == ReadIndex(a)
           t == ReadTag(a)
           s == sets[j]
           n == cfg.num_blocks
<1>1. status = "run" /\ UNCHANGED cfg /\ t \in Tags /\ n \in Nat
  BY TagIsTag, BlocksAreNat DEF Access
<1>2. j \in Index => SetOK(s, n) /\ Agree(s)
  BY DEF CInv
<1>3. Access(a) => \/ LoadHit(j, t) \/ LoadMiss(j, t)
                   \/ StoreThrough(j, t) \/ StoreBack(j, t)
                   \/ StoreAllocate(j, t) \/ StoreAround(j, t)
  BY DEF Access
<1> HIDE DEF j, t
<1>4. CASE LoadHit(j, t) \/ StoreThrough(j, t)
  <2>1. /\ t \in DOMAIN s.tagIndex /\ UNCHANGED status
        /\ sets' = [sets EXCEPT ![j] = Touched(s, t)]
    BY <1>4 DEF LoadHit, StoreThrough, Cached
  <2>2. j \in Index => SetOK(Touched(s, t), n) /\ Agree(Touched(s, t))
    BY <1>1, <1>2, <2>1, TouchedIsOK
  <2>3. OneSet(j, Touched(s, t))
    BY <1>1, <2>1, <2>2 DEF OneSet
  <2> QED
    BY <2>3, OneSetIsOK
<1>5. CASE StoreBack(j, t)
  <2> DEFINE u == Touched(s, t)
             r == [u EXCEPT !.blocks[u.tagIndex[t]].dirty = TRUE]
  <2>1. /\ t \in DOMAIN s.tagIndex /\ UNCHANGED status
        /\ sets' = [sets EXCEPT ![j] = r]
    BY <1>5 DEF StoreBack, Cached
  <2>2. j \in Index => SetOK(u, n) /\ Agree(u) /\ t \in DOMAIN u.tagIndex
    BY <1>1, <1>2, <2>1, TouchedIsOK
  <2>3. j \in Index => SetOK(r, n) /\ Agree(r)
    <3> HIDE DEF u
    <3> QED
      BY <1>1, <2>2, DirtyIsOK
  <2>4. OneSet(j, r)
    <3> HIDE DEF r
    <3> QED
      BY <1>1, <2>1, <2>3 DEF OneSet
  <2> QED
    BY <2>4, OneSetIsOK
<1>6. CASE LoadMiss(j, t) \/ StoreAllocate(j, t)
  BY <1>1, <1>6, PlaceKeeps DEF LoadMiss, StoreAllocate
<1>7. CASE StoreAround(j, t)
  BY <1>1, <1>7, SameSetsAreOK DEF StoreAround
<1> QED
  BY <1>3, <1>4, <1>5, <1>6, <1>7

LEMMA CNext == CInv /\ [Next]_vars => CInv'
<1> SUFFICES ASSUME CInv, [Next]_vars PROVE CInv'
  OBVIOUS
<1>1. CASE HandleError
  BY <1>1, CHandleError
<1>2. CASE End
  BY <1>2, SameSetsAreOK DEF End
<1>3. CASE \E a \in Addresses : Access(a)
  BY <1>3, AccessKeeps
<1>4. CASE UNCHANGED vars
  BY <1>4, SameSetsAreOK DEF vars
<1> QED
  BY <1>1, <1>2, <1>3, <1>4 DEF Next

\* find_empty_spot takes the size of the map for the first free block, and hit
\* believes the map: the map of a set and its vector always say the same.
THEOREM MapAgrees == Spec => []IndexMatchesBlocks
<1>1. CInv => IndexMatchesBlocks
  BY DEF CInv, IndexMatchesBlocks, Agree, Valid
<1> QED
  BY CStart, CNext, <1>1, PTL DEF Spec

------------------------------------------------------------------------------
(* There is a block to evict *)

\* A time does not wrap when it counts fewer accesses than a word can.
LEMMA TickGoesOn ==
  ASSUME NEW s, s.timestamp \in Nat, s.timestamp + 1 < Word
  PROVE  Tick(s) = s.timestamp + 1
<1>1. /\ s.timestamp + 1 \in Nat /\ Word \in Nat /\ Word > 0
  BY WordAssumption
<1>2. \A a, b \in Nat : a < b => a % b = a
  OBVIOUS
<1> QED
  BY <1>1, <1>2 DEF Tick

LEMMA TimeIsNat == ASSUME NEW b \in Block PROVE Time(b) \in Nat
BY DEF Block, Time

LEMMA TouchedInTime ==
  ASSUME NEW n \in Nat, NEW s, SetOK(s, n), Agree(s), NEW t \in DOMAIN s.tagIndex,
         InThePast(s), s.timestamp + 1 < Word
  PROVE  /\ Touched(s, t).timestamp \in {s.timestamp, s.timestamp + 1}
         /\ InThePast(Touched(s, t))
<1>1. CASE cfg.lru
  <2> DEFINE k == s.tagIndex[t]
             b == [s.blocks[k] EXCEPT !.access_time = s.timestamp]
             r == Updated(s, k, b, Tick(s))
  <2>1. k \in Valid(s) /\ s.blocks[k] \in Block /\ s.timestamp \in Nat
    BY HitIsValid DEF SetOK
  <2>2. /\ b \in Block /\ b.tag = s.blocks[k].tag /\ b.valid = s.blocks[k].valid
        /\ Time(b) = s.timestamp
    BY <1>1, <2>1 DEF Block, Time
  <2>3. Touched(s, t) = r
    BY <1>1 DEF Touched, Updated, SetOK
  <2>4. Tick(s) = s.timestamp + 1
    BY <2>1, TickGoesOn
  <2>5. Valid(r) = Valid(s)
    <3>1. Tick(s) \in Nat
      BY <2>1, TickIsNat
    <3> HIDE DEF k, b
    <3> QED
      BY <2>1, <2>2, <3>1, UpdatedIsOK DEF InUseAs
  <2>6. /\ r.timestamp = s.timestamp + 1 /\ r.blocks = [s.blocks EXCEPT ![k] = b]
    BY <2>4 DEF Updated
  <2> HIDE DEF k, b, r
  <2>7. ASSUME NEW i \in Valid(r) PROVE Time(r.blocks[i]) < r.timestamp
    <3>1. s.blocks \in [0 .. n - 1 -> Block] /\ i \in 0 .. n - 1 /\ i \in Valid(s)
      BY <2>5 DEF SetOK, Valid
    <3>2. Time(s.blocks[i]) < s.timestamp /\ Time(s.blocks[i]) \in Nat
      BY <3>1, TimeIsNat DEF InThePast
    <3>3. r.blocks[i] = IF i = k THEN b ELSE s.blocks[i]
      BY <2>6, <3>1
    <3> QED
      BY <2>1, <2>2, <2>6, <3>2, <3>3
  <2> QED
    BY <2>3, <2>6, <2>7 DEF InThePast
<1>2. CASE ~cfg.lru
  BY <1>2 DEF Touched
<1> QED
  BY <1>1, <1>2

LEMMA DirtyInTime ==
  ASSUME NEW n \in Nat, NEW s, SetOK(s, n), Agree(s), NEW t \in DOMAIN s.tagIndex,
         InThePast(s)
  PROVE  LET r == [s EXCEPT !.blocks[s.tagIndex[t]].dirty = TRUE]
         IN  r.timestamp = s.timestamp /\ InThePast(r)
<1> DEFINE k == s.tagIndex[t]
           b == [s.blocks[k] EXCEPT !.dirty = TRUE]
           r == Updated(s, k, b, s.timestamp)
<1>1. k \in Valid(s) /\ s.blocks[k] \in Block /\ s.timestamp \in Nat
  BY HitIsValid DEF SetOK
<1>2. /\ b \in Block /\ b.tag = s.blocks[k].tag /\ b.valid = s.blocks[k].valid
      /\ Time(b) = Time(s.blocks[k])
  BY <1>1 DEF Block, Time
<1>3. [s EXCEPT !.blocks[k].dirty = TRUE] = r
  BY DirtyIsUpdated
<1>4. Valid(r) = Valid(s)
  <2> HIDE DEF k, b
  <2> QED
    BY <1>1, <1>2, UpdatedIsOK DEF InUseAs
<1>5. r.timestamp = s.timestamp /\ r.blocks = [s.blocks EXCEPT ![k] = b]
  BY DEF Updated
<1> HIDE DEF k, b, r
<1>6. ASSUME NEW i \in Valid(r) PROVE Time(r.blocks[i]) < r.timestamp
  <2>1. s.blocks \in [0 .. n - 1 -> Block] /\ i \in 0 .. n - 1 /\ i \in Valid(s)
    BY <1>4 DEF SetOK, Valid
  <2>2. Time(s.blocks[i]) < s.timestamp
    BY <2>1 DEF InThePast
  <2>3. r.blocks[i] = IF i = k THEN b ELSE s.blocks[i]
    BY <1>5, <2>1
  <2> QED
    BY <1>2, <1>5, <2>2, <2>3
<1> QED
  BY <1>3, <1>5, <1>6 DEF InThePast, k

LEMMA LoadedInTime ==
  ASSUME NEW n \in Nat, NEW s, SetOK(s, n), NEW t \in Tags, NEW k \in 0 .. n - 1, NEW out,
         InThePast(s), s.timestamp + 1 < Word
  PROVE  LET r == Loaded(s, t, k, out)
         IN  r.timestamp = s.timestamp + 1 /\ InThePast(r)
<1>1. PICK r : r = Loaded(s, t, k, out)
  OBVIOUS
<1>2. /\ SetOK(r, n) /\ r.timestamp = Tick(s)
      /\ r.blocks[k] = NewBlock(s, t)
      /\ \A i \in 0 .. n - 1 : i # k => r.blocks[i] = s.blocks[i]
  BY <1>1, LoadedIs
<1>3. s.timestamp \in Nat /\ s.blocks \in [0 .. n - 1 -> Block] /\ r.blocks \in [0 .. n - 1 -> Block]
  BY <1>2 DEF SetOK
<1>4. r.timestamp = s.timestamp + 1
  BY <1>2, <1>3, TickGoesOn
<1>5. ASSUME NEW i \in Valid(r) PROVE Time(r.blocks[i]) < r.timestamp
  <2>1. i \in 0 .. n - 1 /\ r.blocks[i].valid
    BY <1>3 DEF Valid
  <2>2. CASE i = k
    <3>1. Time(NewBlock(s, t)) = s.timestamp
      BY <1>3, NewBlockIs
    <3>2. Time(r.blocks[i]) = s.timestamp
      BY <1>2, <2>2, <3>1
    <3> QED
      BY <1>3, <1>4, <3>2
  <2>3. CASE i # k
    <3>1. r.blocks[i] = s.blocks[i] /\ i \in Valid(s)
      BY <1>2, <1>3, <2>1, <2>3 DEF Valid
    <3>2. Time(s.blocks[i]) < s.timestamp /\ Time(s.blocks[i]) \in Nat
      BY <1>3, <2>1, <3>1, TimeIsNat DEF InThePast
    <3> QED
      BY <1>3, <1>4, <3>1, <3>2
  <2> QED
    BY <2>2, <2>3
<1> QED
  BY <1>1, <1>4, <1>5 DEF InThePast

\* A full set has a first block among the oldest.
LEMMA OldestExists ==
  ASSUME NEW n \in Nat, n # 0, NEW s, SetOK(s, n), Agree(s), FindEmptySpot(s) = n,
         InThePast(s)
  PROVE  OldestBlocks(s) # {}
<1> DEFINE T(k) == Time(s.blocks[k])
<1>1. Valid(s) = 0 .. n - 1 /\ DOMAIN s.blocks = 0 .. n - 1 /\ 0 \in 0 .. n - 1
  BY SpotIsInside DEF SetOK
<1>2. \A k \in 0 .. n - 1 : T(k) \in Nat /\ T(k) < s.timestamp
  BY <1>1, TimeIsNat DEF SetOK, InThePast
<1> HIDE DEF T
<1>3. PICK k0 \in 0 .. n - 1 : \A k \in 0 .. n - 1 : T(k0) <= T(k)
  <2> DEFINE S == {T(k) : k \in 0 .. n - 1}
  <2>1. S \subseteq Nat /\ S # {}
    BY <1>1, <1>2
  <2>2. PICK m \in S : \A l \in S : m <= l
    <3> HIDE DEF S
    <3> QED
      BY <2>1, LeastNat
  <2> QED
    BY <2>2
<1>4. PICK k \in 0 .. n - 1 :
        T(k) = T(k0) /\ \A j \in 0 .. n - 1 : T(j) = T(k0) => k <= j
  <2> DEFINE S == {k \in 0 .. n - 1 : T(k) = T(k0)}
  <2>1. S \subseteq Nat /\ S # {}
    OBVIOUS
  <2>2. PICK k \in S : \A j \in S : k <= j
    <3> HIDE DEF S
    <3> QED
      BY <2>1, LeastNat
  <2> QED
    BY <2>2
<1>5. \A j \in 0 .. n - 1 : T(j) >= T(k) /\ (j < k => T(j) > T(k))
  <2> TAKE j \in 0 .. n - 1
  <2>1. T(k0) <= T(j) /\ T(k) = T(k0) /\ T(j) \in Nat /\ T(k) \in Nat
    BY <1>2, <1>3, <1>4
  <2>2. T(j) = T(k0) => k <= j
    BY <1>4
  <2> QED
    BY <2>1, <2>2
<1>6. k \in OldestBlocks(s)
  BY <1>1, <1>2, <1>5 DEF OldestBlocks, T
<1> QED
  BY <1>6

Counters == {"total_loads", "total_stores", "load_hits", "load_misses",
             "store_hits", "store_misses", "total_cycles"}

Accesses == stats.total_loads + stats.total_stores

\* A set's time does not run ahead of the accesses there were.
InTime(s, a) == s.timestamp <= a /\ InThePast(s)

TInv ==
  /\ CInv
  /\ stats = [f \in Counters |-> stats[f]]
  /\ stats.total_loads \in Nat /\ stats.total_stores \in Nat
  /\ Accesses <= MaxAccesses
  /\ \A j \in Index : InTime(sets[j], Accesses)
  /\ VictimIsDefined

LEMMA CountCounts ==
  ASSUME MaxAccesses < Word, TInv, Accesses < MaxAccesses,
         NEW x \in {"total_loads", "total_stores"},
         NEW y \in {"load_hits", "load_misses", "store_hits", "store_misses"},
         NEW c, Count(x, y, c)
  PROVE  /\ stats' = [f \in Counters |-> stats'[f]]
         /\ stats.total_loads' \in Nat /\ stats.total_stores' \in Nat
         /\ Accesses' = Accesses + 1
<1>1. stats = [f \in Counters |-> stats[f]]
  BY DEF TInv
<1>2. stats' = [stats EXCEPT ![x] = Plus(@, 1), ![y] = Plus(@, 1),
                             !.total_cycles = Plus(@, c)]
  BY DEF Count
<1>3. stats' = [f \in Counters |-> stats'[f]]
  BY <1>1, <1>2
<1>4. stats'[x] = Plus(stats[x], 1)
      /\ \A f \in {"total_loads", "total_stores"} : f # x => stats'[f] = stats[f]
  BY <1>1, <1>2 DEF Counters
<1>5. /\ stats.total_loads \in Nat /\ stats.total_stores \in Nat
      /\ stats.total_loads + 1 < Word /\ stats.total_stores + 1 < Word
      /\ Word \in Nat
  BY WordAssumption DEF TInv, Accesses
<1>6. \A a \in Nat : a + 1 < Word => Plus(a, 1) = a + 1
  <2>1. \A a \in Nat : a + 1 < Word => (a + 1) % Word = a + 1
    BY <1>5
  <2> QED
    BY <2>1 DEF Plus
<1>7. CASE x = "total_loads"
  <2>1. stats.total_loads' = stats.total_loads + 1 /\ stats.total_stores' = stats.total_stores
    BY <1>4, <1>5, <1>6, <1>7
  <2> QED
    BY <1>3, <1>5, <2>1 DEF Accesses
<1>8. CASE x = "total_stores"
  <2>1. stats.total_stores' = stats.total_stores + 1 /\ stats.total_loads' = stats.total_loads
    BY <1>4, <1>5, <1>6, <1>8
  <2> QED
    BY <1>3, <1>5, <2>1 DEF Accesses
<1> QED
  BY <1>7, <1>8

\* An access that is counted and changes one set, by one tick at most.
LEMMA OneSetInTime ==
  ASSUME MaxAccesses < Word, TInv, CInv', status = "run", UNCHANGED <<cfg, status>>,
         Accesses < MaxAccesses,
         NEW x \in {"total_loads", "total_stores"},
         NEW y \in {"load_hits", "load_misses", "store_hits", "store_misses"},
         NEW c, Count(x, y, c),
         NEW j, NEW r, sets' = [sets EXCEPT ![j] = r],
         j \in Index => r.timestamp \in {sets[j].timestamp, sets[j].timestamp + 1}
                        /\ InThePast(r)
  PROVE  TInv'
<1>1. /\ stats' = [f \in Counters |-> stats'[f]]
      /\ stats.total_loads' \in Nat /\ stats.total_stores' \in Nat
      /\ Accesses' = Accesses + 1
  BY CountCounts
<1>2. Accesses \in Nat
  BY DEF TInv, Accesses
<1>3. Index' = Index /\ Index = 0 .. cfg.num_sets - 1
  BY DEF Index
<1>4. sets = [i \in 0 .. cfg.num_sets - 1 |-> sets[i]]
  BY DEF TInv, CInv
<1>5. ASSUME NEW i \in Index PROVE InTime(sets'[i], Accesses + 1)
  <2>1. sets'[i] = IF i = j THEN r ELSE sets[i]
    BY <1>3, <1>4
  <2>2. InTime(sets[i], Accesses) /\ sets[i].timestamp \in Nat
    BY DEF TInv, CInv, SetOK
  <2>3. CASE i = j
    BY <1>2, <2>1, <2>2, <2>3 DEF InTime
  <2>4. CASE i # j
    BY <1>2, <2>1, <2>2, <2>4 DEF InTime
  <2> QED
    BY <2>3, <2>4
<1>6. \A i \in Index' : InTime(sets[i], Accesses)'
  BY <1>1, <1>3, <1>5 DEF InTime, InThePast, Valid, Time
<1>7. (Accesses <= MaxAccesses)'
  BY <1>1, <1>2, WordAssumption
<1>8. VictimIsDefined'
  BY DEF VictimIsDefined
<1> QED
  BY <1>1, <1>6, <1>7, <1>8 DEF TInv

\* An access that changes no set.
LEMMA SameSetsInTime ==
  ASSUME MaxAccesses < Word, TInv, CInv', UNCHANGED <<cfg, sets>>,
         status' # "undefined" \/ status' = status \/ cfg.num_blocks = 0,
         status' = status \/ status = "run",
         \/ UNCHANGED stats
         \/ /\ Accesses < MaxAccesses
            /\ \E x \in {"total_loads", "total_stores"},
                  y \in {"load_hits", "load_misses", "store_hits", "store_misses"} :
                 \E c : Count(x, y, c)
  PROVE  TInv'
<1>1. /\ stats' = [f \in Counters |-> stats'[f]]
      /\ stats.total_loads' \in Nat /\ stats.total_stores' \in Nat
      /\ Accesses' \in {Accesses, Accesses + 1}
      /\ Accesses' <= MaxAccesses
  <2>1. CASE UNCHANGED stats
    BY <2>1 DEF TInv, Accesses
  <2>2. CASE /\ Accesses < MaxAccesses
             /\ \E x \in {"total_loads", "total_stores"},
                   y \in {"load_hits", "load_misses", "store_hits", "store_misses"} :
                  \E c : Count(x, y, c)
    <3>1. /\ stats' = [f \in Counters |-> stats'[f]]
          /\ stats.total_loads' \in Nat /\ stats.total_stores' \in Nat
          /\ Accesses' = Accesses + 1
      BY <2>2, CountCounts
    <3>2. Accesses \in Nat
      BY DEF TInv, Accesses
    <3> QED
      BY <2>2, <3>1, <3>2, WordAssumption
  <2> QED
    BY <2>1, <2>2
<1>2. Index' \subseteq Index
  BY DEF Index
<1>3. \A i \in Index' : InTime(sets[i], Accesses)'
  <2> TAKE i \in Index'
  <2>1. i \in Index
    BY <1>2
  <2>2. InTime(sets[i], Accesses) /\ SetOK(sets[i], cfg.num_blocks)
    BY <2>1 DEF TInv, CInv
  <2>3. sets[i].timestamp \in Nat /\ Accesses \in Nat
    BY <2>2 DEF TInv, SetOK, Accesses
  <2> QED
    BY <1>1, <2>2, <2>3 DEF InTime, InThePast, Valid, Time
<1>4. VictimIsDefined'
  BY DEF VictimIsDefined, TInv
<1> QED
  BY <1>1, <1>3, <1>4 DEF TInv

LEMMA PlaceInTime ==
  ASSUME MaxAccesses < Word, TInv, CInv', status = "run", UNCHANGED cfg,
         Accesses < MaxAccesses, NEW j \in Index, NEW t \in Tags, ~Cached(j, t),
         NEW x \in {"total_loads", "total_stores"},
         NEW y \in {"load_hits", "load_misses", "store_hits", "store_misses"},
         NEW c, Place(j, t, x, y, c)
  PROVE  TInv'
<1> DEFINE s == sets[j]
           n == cfg.num_blocks
<1>1. CInv /\ n \in Nat /\ SetOK(s, n) /\ Agree(s) /\ InTime(s, Accesses)
  BY BlocksAreNat DEF TInv, CInv
<1>2. InThePast(s) /\ s.timestamp \in Nat /\ s.timestamp + 1 < Word
  BY <1>1, WordAssumption DEF InTime, SetOK, TInv, Accesses
<1>3. CASE FindEmptySpot(s) = n /\ OldestBlocks(s) = {} /\ UNCHANGED <<sets, stats>>
  <2>1. n = 0
    BY <1>1, <1>2, <1>3, OldestExists
  <2> QED
    BY <1>3, <2>1, SameSetsInTime
<1>4. ASSUME NEW k \in 0 .. n - 1, NEW out, NEW d, Count(x, y, d), UNCHANGED status,
             sets' = [sets EXCEPT ![j] = Loaded(s, t, k, out)]
      PROVE  TInv'
  <2>1. /\ Loaded(s, t, k, out).timestamp = s.timestamp + 1
        /\ InThePast(Loaded(s, t, k, out))
    BY <1>1, <1>2, LoadedInTime
  <2> QED
    BY <1>4, <2>1, OneSetInTime
<1>5. CASE /\ FindEmptySpot(s) # n
           /\ sets' = [sets EXCEPT ![j] = Loaded(s, t, FindEmptySpot(s), {})]
           /\ Count(x, y, c) /\ UNCHANGED status
  <2>1. FindEmptySpot(s) \in 0 .. n - 1
    BY <1>1, <1>5, SpotIsInside
  <2> QED
    BY <1>4, <1>5, <2>1
<1>6. ASSUME NEW k \in OldestBlocks(s), NEW d, Count(x, y, d), UNCHANGED status,
             sets' = [sets EXCEPT ![j] = Loaded(s, t, k, {s.blocks[k].tag})]
      PROVE  TInv'
  <2>1. k \in 0 .. n - 1
    BY <1>1 DEF OldestBlocks, SetOK
  <2> QED
    BY <1>4, <1>6, <2>1
<1> QED
  BY <1>3, <1>5, <1>6 DEF Place

LEMMA AccessInTime ==
  ASSUME MaxAccesses < Word, TInv, CInv', NEW a \in Addresses, Access(a)
  PROVE  TInv'
<1> DEFINE j == ReadIndex(a)
           t == ReadTag(a)
           s == sets[j]
           n == cfg.num_blocks
<1>0. CInv
  BY DEF TInv
<1>1. status = "run" /\ UNCHANGED cfg /\ Accesses < MaxAccesses
  BY DEF Access, Accesses
<1>2. t \in Tags /\ n \in Nat
  BY <1>0, <1>1, TagIsTag, BlocksAreNat
<1>3. j \in Index
  BY <1>0, <1>1, IndexIsSet DEF CInv, Index
<1>4. Access(a) => \/ LoadHit(j, t) \/ LoadMiss(j, t)
                   \/ StoreThrough(j, t) \/ StoreBack(j, t)
                   \/ StoreAllocate(j, t) \/ StoreAround(j, t)
  BY DEF Access
<1> HIDE DEF j, t
<1>5. SetOK(s, n) /\ Agree(s) /\ InTime(s, Accesses)
  BY <1>0, <1>3 DEF TInv, CInv
<1>6. InThePast(s) /\ s.timestamp \in Nat /\ s.timestamp + 1 < Word
  BY <1>1, <1>5, WordAssumption DEF InTime, SetOK, TInv, Accesses
<1>7. CASE LoadHit(j, t) \/ StoreThrough(j, t)
  <2>1. /\ t \in DOMAIN s.tagIndex /\ UNCHANGED status
        /\ sets' = [sets EXCEPT ![j] = Touched(s, t)]
    BY <1>7 DEF LoadHit, StoreThrough, Cached
  <2>2. /\ Touched(s, t).timestamp \in {s.timestamp, s.timestamp + 1}
        /\ InThePast(Touched(s, t))
    BY <1>2, <1>5, <1>6, <2>1, TouchedInTime
  <2>3. \/ Count("total_loads", "load_hits", 1)
        \/ Count("total_stores", "store_hits", 101)
    BY <1>7 DEF LoadHit, StoreThrough
  <2> QED
    BY <1>1, <2>1, <2>2, <2>3, OneSetInTime
<1>8. CASE StoreBack(j, t)
  <2> DEFINE u == Touched(s, t)
             r == [u EXCEPT !.blocks[u.tagIndex[t]].dirty = TRUE]
  <2>1. /\ t \in DOMAIN s.tagIndex /\ UNCHANGED status
        /\ sets' = [sets EXCEPT ![j] = r]
        /\ Count("total_stores", "store_hits", 1)
    BY <1>8 DEF StoreBack, Cached
  <2>2. SetOK(u, n) /\ Agree(u) /\ t \in DOMAIN u.tagIndex
    BY <1>2, <1>5, <2>1, TouchedIsOK
  <2>3. u.timestamp \in {s.timestamp, s.timestamp + 1} /\ InThePast(u)
    BY <1>2, <1>5, <1>6, <2>1, TouchedInTime
  <2>4. r.timestamp = u.timestamp /\ InThePast(r)
    <3> HIDE DEF u
    <3> QED
      BY <1>2, <2>2, <2>3, DirtyInTime
  <2> HIDE DEF r, u
  <2> QED
    BY <1>1, <2>1, <2>3, <2>4, OneSetInTime
<1>9. CASE LoadMiss(j, t) \/ StoreAllocate(j, t)
  <2>1. /\ ~Cached(j, t)
        /\ \/ Place(j, t, "total_loads", "load_misses", MemoryCycles)
           \/ Place(j, t, "total_stores", "store_misses", 1 + MemoryCycles)
    BY <1>9 DEF LoadMiss, StoreAllocate
  <2> QED
    BY <1>1, <1>2, <1>3, <2>1, PlaceInTime
<1>10. CASE StoreAround(j, t)
  <2>1. Count("total_stores", "store_misses", 100) /\ UNCHANGED <<status, sets>>
    BY <1>10 DEF StoreAround
  <2> QED
    BY <1>1, <2>1, SameSetsInTime
<1> QED
  BY <1>4, <1>7, <1>8, <1>9, <1>10

LEMMA TStart == Init => TInv
<1> SUFFICES ASSUME Init PROVE TInv
  OBVIOUS
<1>1. stats = NoStats /\ status = "args" /\ Index = {}
  BY DEF Init, Index
<1>2. /\ stats = [f \in Counters |-> stats[f]]
      /\ stats.total_loads = 0 /\ stats.total_stores = 0
  BY <1>1 DEF NoStats, Counters
<1> QED
  BY <1>1, <1>2, CStart, WordAssumption DEF TInv, Accesses, VictimIsDefined

LEMMA TNext == ASSUME MaxAccesses < Word PROVE TInv /\ [Next]_vars => TInv'
<1> SUFFICES ASSUME TInv, [Next]_vars PROVE TInv'
  OBVIOUS
<1>1. CInv'
  BY CNext DEF TInv
<1>2. CASE HandleError
  <2>1. CASE Refused(cfg)
    <3>1. status' = "refused" /\ UNCHANGED <<cfg, sets, stats>>
      BY <1>2, <2>1 DEF HandleError
    <3>2. Index' = {}
      BY <3>1 DEF Index
    <3> QED
      BY <1>1, <3>1, <3>2 DEF TInv, Accesses, VictimIsDefined
  <2>2. CASE ~Refused(cfg)
    <3>1. status' = "run" /\ sets' = CacheInitialize /\ UNCHANGED <<cfg, stats>>
      BY <1>2, <2>2 DEF HandleError
    <3>2. Index' = 0 .. cfg.num_sets - 1
      BY <3>1 DEF Index
    <3>3. ASSUME NEW j \in Index' PROVE sets'[j].timestamp = 0 /\ Valid(sets'[j]) = {}
      BY <3>1, <3>2 DEF CacheInitialize, Valid, NoBlock
    <3>4. Accesses' = Accesses /\ Accesses \in Nat
      BY <3>1 DEF TInv, Accesses
    <3>5. \A j \in Index' : InTime(sets[j], Accesses)'
      BY <3>3, <3>4 DEF InTime, InThePast, Valid
    <3> QED
      BY <1>1, <3>1, <3>4, <3>5 DEF TInv, VictimIsDefined
  <2> QED
    BY <2>1, <2>2
<1>3. CASE End
  BY <1>1, <1>3, SameSetsInTime DEF End
<1>4. CASE \E a \in Addresses : Access(a)
  BY <1>1, <1>4, AccessInTime
<1>5. CASE UNCHANGED vars
  BY <1>1, <1>5, SameSetsInTime DEF vars
<1> QED
  BY <1>2, <1>3, <1>4, <1>5 DEF Next

\* A full set always has a block to evict: in a trace of fewer lines than a time
\* can count, the iterator that choose_evicted_block returns was set, unless the
\* cache has no block at all.
THEOREM VictimExists ==
  ASSUME MaxAccesses < Word
  PROVE  Spec => []VictimIsDefined
<1>1. TInv /\ [Next]_vars => TInv'
  BY TNext
<1>2. TInv => VictimIsDefined
  BY DEF TInv
<1> QED
  BY TStart, <1>1, <1>2, PTL DEF Spec

------------------------------------------------------------------------------
(* Where an address lies *)

LEMMA ProductsGrow ==
  ASSUME NEW a \in Nat, NEW b \in Nat, NEW c \in Nat, a <= b
  PROVE  a * c <= b * c /\ a * c \in Nat /\ b * c \in Nat
<1>1. PICK d \in Nat : b = a + d
  <2>1. b - a \in Nat /\ b = a + (b - a)
    OBVIOUS
  <2> QED
    BY <2>1
<1>2. b * c = a * c + d * c
  BY <1>1
<1>3. a * c \in Nat /\ d * c \in Nat
  OBVIOUS
<1> QED
  BY <1>2, <1>3

LEMMA Divide ==
  ASSUME NEW a \in Nat, NEW m \in Nat \ {0}
  PROVE  /\ a % m \in 0 .. m - 1
         /\ a \div m \in Nat
         /\ a = ((a \div m) * m) + (a % m)
<1>1. a % m \in 0 .. m - 1
  OBVIOUS
<1>2. a \div m \in Nat
  OBVIOUS
<1>3. a = ((a \div m) * m) + (a % m)
  OBVIOUS
<1> QED
  BY <1>1, <1>2, <1>3

\* Quotient and remainder are the only ones there are.
LEMMA RemainderIs ==
  ASSUME NEW m \in Nat \ {0}, NEW q \in Nat, NEW r \in 0 .. m - 1
  PROVE  (q * m + r) % m = r /\ (q * m + r) \div m = q
<1> DEFINE a == q * m + r p == a \div m t == a % m
<1>1. a \in Nat
  <2>1. q * m \in Nat
    OBVIOUS
  <2> QED
    BY <2>1
<1>2. t \in 0 .. m - 1 /\ p \in Nat /\ a = p * m + t
  <2> HIDE DEF a
  <2> QED
    BY <1>1, Divide
<1>3. q * m + r = p * m + t
  BY <1>2
<1> HIDE DEF p, t, a
<1>4. ~(p < q)
  <2> SUFFICES ASSUME p < q PROVE FALSE
    OBVIOUS
  <2>1. p + 1 <= q /\ p + 1 \in Nat
    BY <1>2
  <2>2. (p + 1) * m <= q * m
    BY <2>1, ProductsGrow
  <2>3. (p + 1) * m = p * m + m
    BY <1>2
  <2>4. p * m \in Nat /\ q * m \in Nat
    BY <1>2
  <2> QED
    BY <1>2, <1>3, <2>2, <2>3, <2>4
<1>5. ~(q < p)
  <2> SUFFICES ASSUME q < p PROVE FALSE
    OBVIOUS
  <2>1. q + 1 <= p /\ q + 1 \in Nat
    BY <1>2
  <2>2. (q + 1) * m <= p * m
    BY <1>2, <2>1, ProductsGrow
  <2>3. (q + 1) * m = q * m + m
    OBVIOUS
  <2>4. p * m \in Nat /\ q * m \in Nat
    BY <1>2
  <2> QED
    BY <1>2, <1>3, <2>2, <2>3, <2>4
<1>6. p = q
  BY <1>2, <1>4, <1>5
<1>7. p * m \in Nat /\ q * m = p * m
  BY <1>2, <1>6
<1>8. t = r
  BY <1>2, <1>3, <1>7
<1> QED
  BY <1>6, <1>8 DEF p, t, a

LEMMA SmallQuotient ==
  ASSUME NEW m \in Nat \ {0}, NEW a \in Nat, a < m
  PROVE  a \div m = 0
<1>1. a \in 0 .. m - 1 /\ 0 * m + a = a
  OBVIOUS
<1>2. (0 * m + a) \div m = 0
  BY <1>1, RemainderIs
<1> QED
  BY <1>1, <1>2

\* The bits of a from the kth on, as a number.
From(a, k) == a \div Bit[k]

LEMMA BitsArePositive ==
  /\ \A k \in 0 .. 2 * Bits : Bit[k] \in Nat \ {0}
  /\ \A k \in 0 .. 2 * Bits - 1 : Bit[k + 1] = 2 * Bit[k]
<1>0. Bits \in Nat /\ 2 * Bits \in Nat
  BY WordAssumption
<1>1. ASSUME NEW k \in 0 .. 2 * Bits - 1 PROVE Bit[k + 1] = 2 * Bit[k]
  <2>1. k + 1 \in 1 .. 2 * Bits /\ (k + 1) - 1 = k
    BY <1>0
  <2> QED
    BY <2>1, BitDoubles
<1> DEFINE S == {k \in Nat : k <= 2 * Bits => Bit[k] > 0}
<1>2. 0 \in S
  BY BitDoubles
<1>3. ASSUME NEW k \in Nat, k \in S PROVE k + 1 \in S
  <2> SUFFICES ASSUME k + 1 <= 2 * Bits PROVE Bit[k + 1] > 0
    OBVIOUS
  <2>1. k \in 0 .. 2 * Bits - 1 /\ k \in 0 .. 2 * Bits /\ k <= 2 * Bits
    BY <1>0
  <2>2. Bit[k] \in Nat /\ Bit[k] > 0
    BY <1>3, <2>1, BitDoubles
  <2>3. Bit[k + 1] = 2 * Bit[k]
    BY <1>1, <2>1
  <2> QED
    BY <2>2, <2>3
<1>4. \A k \in Nat : k \in S
  <2> HIDE DEF S
  <2> QED
    BY <1>2, <1>3, SetInduction
<1>5. ASSUME NEW k \in 0 .. 2 * Bits PROVE Bit[k] \in Nat \ {0}
  <2>1. Bit[k] > 0 /\ Bit[k] \in Nat
    BY <1>0, <1>4, BitDoubles
  <2> QED
    BY <2>1
<1> QED
  BY <1>1, <1>5

LEMMA BitsGrow ==
  ASSUME NEW i \in 0 .. 2 * Bits, NEW j \in 0 .. 2 * Bits, i <= j
  PROVE  Bit[i] <= Bit[j]
<1>0. Bits \in Nat /\ 2 * Bits \in Nat
  BY WordAssumption
<1> DEFINE S == {d \in Nat : i + d <= 2 * Bits => Bit[i] <= Bit[i + d]}
<1>1. 0 \in S
  <2>1. Bit[i] \in Nat
    BY BitDoubles
  <2> QED
    BY <2>1
<1>2. ASSUME NEW d \in Nat, d \in S PROVE d + 1 \in S
  <2> SUFFICES ASSUME i + (d + 1) <= 2 * Bits PROVE Bit[i] <= Bit[i + (d + 1)]
    OBVIOUS
  <2>1. PICK k \in 0 .. 2 * Bits - 1 : k = i + d /\ k + 1 = i + (d + 1)
    BY <1>0
  <2>2. k \in 0 .. 2 * Bits /\ k <= 2 * Bits
    BY <1>0
  <2>3. Bit[i] <= Bit[k]
    BY <1>2, <2>1, <2>2
  <2>4. Bit[i] \in Nat /\ Bit[k] \in Nat /\ Bit[k + 1] = 2 * Bit[k]
    BY <2>2, BitsArePositive
  <2>5. Bit[i] <= Bit[k + 1]
    BY <2>3, <2>4
  <2> QED
    BY <2>1, <2>5
<1>3. \A d \in Nat : d \in S
  <2> HIDE DEF S
  <2> QED
    BY <1>1, <1>2, SetInduction
<1>4. PICK d \in Nat : j = i + d
  <2>1. j - i \in Nat /\ j = i + (j - i)
    BY <1>0
  <2> QED
    BY <2>1
<1>5. i + d <= 2 * Bits
  BY <1>0, <1>4
<1> QED
  BY <1>3, <1>4, <1>5

\* The next bits are half as many.
LEMMA FromHalves ==
  ASSUME NEW a \in Nat, NEW k \in 0 .. Bits - 1
  PROVE  /\ From(a, k) \in Nat /\ From(a, k + 1) \in Nat
         /\ \/ BitIsSet(a, k) /\ From(a, k) = 2 * From(a, k + 1) + 1
            \/ ~BitIsSet(a, k) /\ From(a, k) = 2 * From(a, k + 1)
<1>0. Bits \in Nat /\ k \in 0 .. 2 * Bits /\ k + 1 \in 0 .. 2 * Bits
  BY WordAssumption
<1>1. PICK m \in Nat \ {0} : m = Bit[k]
  BY <1>0, BitsArePositive
<1>2. PICK w \in Nat \ {0} : w = Bit[k + 1] /\ w = 2 * m
  BY <1>0, <1>1, BitsArePositive
<1>3. PICK q \in Nat : q = a \div m /\ \E r \in 0 .. m - 1 : a = q * m + r
  BY Divide
<1>4. PICK r \in 0 .. m - 1 : a = q * m + r
  BY <1>3
<1>5. PICK p \in Nat, b \in 0 .. 1 : q = 2 * p + b /\ b = (q % 2)
  <2>1. q \div 2 \in Nat /\ (q % 2) \in 0 .. 1 /\ q = 2 * (q \div 2) + (q % 2)
    OBVIOUS
  <2> QED
    BY <2>1
<1>6. b * m + r \in 0 .. w - 1
  BY <1>2, <1>5
<1>7. a = p * w + (b * m + r)
  <2>1. q * m = 2 * (p * m) + b * m
    BY <1>5
  <2>2. p * w = 2 * (p * m)
    BY <1>2
  <2>3. p * m \in Nat /\ b * m \in Nat
    OBVIOUS
  <2> QED
    BY <1>4, <2>1, <2>2, <2>3
<1>8. a \div w = p
  <2> DEFINE z == b * m + r
  <2>1. z \in 0 .. w - 1 /\ a = p * w + z
    BY <1>6, <1>7
  <2> HIDE DEF z
  <2>2. (p * w + z) \div w = p
    BY <2>1, RemainderIs
  <2> QED
    BY <2>1, <2>2
<1>9. From(a, k) = q /\ From(a, k + 1) = p
  BY <1>1, <1>2, <1>3, <1>8 DEF From
<1>10. BitIsSet(a, k) <=> b = 1
  <2>1. (k % Bits) = k
    <3>1. PICK d \in Nat \ {0} : d = Bits /\ k \in 0 .. d - 1
      BY <1>0
    <3>2. (0 * d + k) % d = k
      BY <3>1, RemainderIs
    <3>3. 0 * d + k = k
      BY <3>1
    <3> QED
      BY <3>1, <3>2, <3>3
  <2> QED
    BY <1>1, <1>3, <1>5, <2>1 DEF BitIsSet
<1>11. CASE b = 1
  BY <1>5, <1>9, <1>10, <1>11
<1>12. CASE b = 0
  BY <1>5, <1>9, <1>10, <1>12
<1> QED
  BY <1>11, <1>12
\* The bits copied are those of a from the oth on, less those from the (o + n)th on.
LEMMA CopyLeaves ==
  ASSUME NEW a \in Nat, NEW o \in Nat, NEW n \in 0 .. Bits, o + n <= Bits
  PROVE  /\ CopyBits(a, o, n) \in 0 .. Bit[n] - 1
         /\ From(a, o) = From(a, o + n) * Bit[n] + CopyBits(a, o, n)
<1>0. n \in Nat /\ Bits \in Nat
  BY WordAssumption
<1> DEFINE v == Piece(a, o, n)
<1>1. PICK f : Sums(f, v, 0, n) /\ CopyBits(a, o, n) = f[0]
  BY <1>0, CopySums
<1>2. \A k \in 0 .. n - 1 : v[k] = IF BitIsSet(a, o + k) THEN Bit[k] ELSE 0
  BY DEF Piece
<1> HIDE DEF v
<1>3. f[0] \in 0 .. Bit[n] - 1
  BY <1>1, <1>2, SumIsBelow
<1> DEFINE S == {m \in Nat : m <= n =>
                   /\ f[n - m] \in Nat
                   /\ From(a, o + (n - m)) * Bit[n - m] = From(a, o + n) * Bit[n] + f[n - m]}
<1>4. PICK z \in Nat : z = From(a, o + n) * Bit[n]
  <2>1. o + n \in 0 .. 2 * Bits /\ n \in 0 .. 2 * Bits
    BY <1>0
  <2>2. PICK x \in Nat : x = From(a, o + n)
    BY <2>1, BitsArePositive, Divide DEF From
  <2>3. PICK y \in Nat : y = Bit[n]
    BY <2>1, BitsArePositive
  <2>4. x * y \in Nat
    OBVIOUS
  <2> QED
    BY <2>2, <2>3, <2>4
<1>5. 0 \in S
  <2>1. n - 0 = n /\ f[n] = 0
    BY <1>0, <1>1 DEF Sums
  <2>2. From(a, o + (n - 0)) * Bit[n - 0] = z + f[n - 0]
    BY <1>4, <2>1
  <2> QED
    BY <1>4, <2>1, <2>2
<1>6. ASSUME NEW m \in Nat, m \in S PROVE m + 1 \in S
  <2> SUFFICES ASSUME m + 1 <= n
               PROVE  /\ f[n - (m + 1)] \in Nat
                      /\ From(a, o + (n - (m + 1))) * Bit[n - (m + 1)]
                           = From(a, o + n) * Bit[n] + f[n - (m + 1)]
    OBVIOUS
  <2>1. PICK k \in Nat : /\ k = n - (m + 1) /\ k + 1 = n - m /\ k \in 0 .. n - 1
                         /\ k \in 0 .. 2 * Bits - 1 /\ o + k \in 0 .. Bits - 1
                         /\ o + (k + 1) = (o + k) + 1 /\ k \in 0 .. 2 * Bits
    BY <1>0
  <2>2. f[k + 1] \in Nat /\ From(a, o + (k + 1)) * Bit[k + 1] = z + f[k + 1]
    BY <1>4, <1>6, <2>1
  <2>3. f[k] = f[k + 1] + v[k]
    BY <1>1, <2>1 DEF Sums
  <2>4. PICK x \in Nat : x = Bit[k] /\ Bit[k + 1] = 2 * x
    BY <2>1, BitsArePositive
  <2>5. PICK p \in Nat : p = From(a, o + (k + 1))
    BY <2>1, FromHalves
  <2>6. CASE BitIsSet(a, o + k)
    <3>1. From(a, o + k) = 2 * p + 1
      BY <2>1, <2>5, <2>6, FromHalves
    <3>2. v[k] = x
      BY <1>2, <2>1, <2>4, <2>6
    <3>3. (2 * p + 1) * x = p * (2 * x) + x
      OBVIOUS
    <3>4. p * (2 * x) = z + f[k + 1]
      BY <2>2, <2>4, <2>5
    <3>5. f[k] = f[k + 1] + x
      BY <2>3, <3>2
    <3>6. (2 * p + 1) * x = z + f[k] /\ f[k] \in Nat
      BY <2>2, <3>3, <3>4, <3>5
    <3> QED
      BY <1>4, <2>1, <2>4, <3>1, <3>6
  <2>7. CASE ~BitIsSet(a, o + k)
    <3>1. From(a, o + k) = 2 * p
      BY <2>1, <2>5, <2>7, FromHalves
    <3>2. v[k] = 0
      BY <1>2, <2>1, <2>7
    <3>3. (2 * p) * x = p * (2 * x)
      OBVIOUS
    <3>4. p * (2 * x) = z + f[k + 1]
      BY <2>2, <2>4, <2>5
    <3>5. f[k] = f[k + 1]
      BY <2>2, <2>3, <3>2
    <3>6. (2 * p) * x = z + f[k] /\ f[k] \in Nat
      BY <2>2, <3>3, <3>4, <3>5
    <3> QED
      BY <1>4, <2>1, <2>4, <3>1, <3>6
  <2> QED
    BY <2>6, <2>7
<1>7. n \in S
  <2> HIDE DEF S
  <2> QED
    BY <1>0, <1>5, <1>6, SetInduction
<1>8. n - n = 0 /\ n <= n /\ o + 0 = o /\ Bit[0] = 1
  BY <1>0, BitDoubles
<1>9. From(a, o) * 1 = From(a, o + n) * Bit[n] + f[0]
  BY <1>7, <1>8
<1>10. From(a, o) \in Nat
  <2>1. o \in 0 .. 2 * Bits
    BY <1>0
  <2> QED
    BY <2>1, BitsArePositive, Divide DEF From
<1>11. From(a, o) * 1 = From(a, o)
  BY <1>10
<1> QED
  BY <1>1, <1>3, <1>9, <1>11

\* Above all its bits an address has nothing.
LEMMA NothingAbove ==
  ASSUME NEW a \in Addresses, NEW k \in Bits .. 2 * Bits
  PROVE  From(a, k) = 0
<1>1. a \in Nat /\ a < Bit[Bits] /\ Bits \in 0 .. 2 * Bits /\ k \in 0 .. 2 * Bits /\ Bits <= k
  BY WordAssumption, BitDoubles
<1>2. Bit[Bits] <= Bit[k] /\ Bit[k] \in Nat \ {0} /\ Bit[Bits] \in Nat
  BY <1>1, BitsGrow, BitsArePositive
<1>3. a < Bit[k]
  BY <1>1, <1>2
<1> QED
  BY <1>1, <1>2, <1>3, SmallQuotient DEF From

\* The offset and the index of a command line's cache fit in an address.
FieldsFit(c) == Log2(c.num_bytes) + Log2(c.num_sets) <= Bits

\* readIndex and readTag find where the block of the address belongs.
LEMMA AddressParts ==
  ASSUME ~Refused(cfg), FieldsFit(cfg), NEW a \in Addresses
  PROVE  /\ ReadIndex(a) = (a \div cfg.num_bytes) % cfg.num_sets
         /\ ReadTag(a) = (a \div cfg.num_bytes) \div cfg.num_sets
<1>0. Bits \in Nat /\ a \in Nat
  BY WordAssumption
<1>1. PICK x \in 0 .. Bits - 1, y \in 0 .. Bits - 1 :
        /\ x = Log2(cfg.num_bytes) /\ y = Log2(cfg.num_sets)
        /\ cfg.num_bytes = Bit[x] /\ cfg.num_sets = Bit[y]
  <2>1. (\E k \in 0 .. Bits - 1 : cfg.num_bytes = Bit[k])
        /\ (\E k \in 0 .. Bits - 1 : cfg.num_sets = Bit[k])
    BY DEF Refused, IsPowerOfTwo
  <2> QED
    BY <2>1 DEF Log2
<1>2. x \in Nat /\ y \in 0 .. Bits /\ x + y <= Bits /\ x + y \in 0 .. 2 * Bits
      /\ y \in 0 .. 2 * Bits /\ x \in 0 .. 2 * Bits
  BY <1>0, <1>1 DEF FieldsFit
<1>3. PICK q \in Nat : q = From(a, x + y)
  BY <1>0, <1>2, BitsArePositive, Divide DEF From
<1>4. PICK m \in Nat \ {0} : m = Bit[y]
  BY <1>2, BitsArePositive
<1>5. PICK r \in 0 .. m - 1 : r = CopyBits(a, x, y) /\ From(a, x) = q * m + r
  <2>1. CopyBits(a, x, y) \in 0 .. Bit[y] - 1
        /\ From(a, x) = From(a, x + y) * Bit[y] + CopyBits(a, x, y)
    BY <1>0, <1>2, CopyLeaves
  <2> QED
    BY <1>3, <1>4, <2>1
<1>6. (q * m + r) % m = r /\ (q * m + r) \div m = q
  BY RemainderIs
<1>7. ReadIndex(a) = (a \div cfg.num_bytes) % cfg.num_sets
  BY <1>1, <1>4, <1>5, <1>6 DEF ReadIndex, From
<1>8. (a \div cfg.num_bytes) \div cfg.num_sets = q
  BY <1>1, <1>4, <1>5, <1>6 DEF From
<1>9. PICK o \in Nat : o = x + y
  BY <1>2
<1>10. CASE o < Bits
  <2>1. PICK n \in 0 .. Bits : n = Bits - o /\ o + n = Bits /\ o + n <= Bits
    BY <1>0, <1>10
  <2>2. From(a, o) = From(a, o + n) * Bit[n] + CopyBits(a, o, n)
        /\ CopyBits(a, o, n) \in 0 .. Bit[n] - 1
    BY <1>0, <2>1, CopyLeaves
  <2>3. PICK z \in Nat : z = Bit[n]
    <3>1. n \in 0 .. 2 * Bits
      BY <1>0
    <3> QED
      BY <3>1, BitsArePositive
  <2>4. From(a, o + n) = 0
    <3>1. Bits \in Bits .. 2 * Bits
      BY <1>0
    <3> QED
      BY <2>1, <3>1, NothingAbove
  <2>5. 0 * z = 0
    OBVIOUS
  <2>6. q = CopyBits(a, o, n)
    BY <1>3, <1>9, <2>2, <2>3, <2>4, <2>5
  <2>7. ReadTag(a) = CopyBits(a, o, n)
    BY <1>1, <1>9, <1>10, <2>1 DEF ReadTag
  <2> QED
    BY <1>7, <1>8, <2>6, <2>7
<1>11. CASE ~(o < Bits)
  <2>1. o \in Bits .. 2 * Bits
    BY <1>0, <1>2, <1>9, <1>11
  <2>2. q = 0
    BY <1>3, <1>9, <2>1, NothingAbove
  <2>3. ReadTag(a) = CopyBits(a, o, 0)
    BY <1>1, <1>9, <1>11 DEF ReadTag
  <2>4. CopyBits(a, o, 0) = 0
    <3>1. 0 \in Nat /\ 0 - 1 = -1 /\ 0 .. -1 = {}
      OBVIOUS
    <3>2. PICK f : Sums(f, Piece(a, o, 0), 0, 0) /\ CopyBits(a, o, 0) = f[0]
      BY <3>1, CopySums
    <3> QED
      BY <3>2 DEF Sums
  <2> QED
    BY <1>7, <1>8, <2>2, <2>3, <2>4
<1> QED
  BY <1>10, <1>11
------------------------------------------------------------------------------
(* Blocks in the order of their times *)

\* o lists the m members of V, and T grows along it.
Ranked(o, V, T, m) ==
  /\ o \in [1 .. m -> V]
  /\ \A k \in V : \E i \in 1 .. m : o[i] = k
  /\ \A i, j \in 1 .. m : i < j => T[o[i]] < T[o[j]]

\* There is one such list at most.
LEMMA RankedOnce ==
  ASSUME NEW m \in Nat, NEW V, NEW T \in [V -> Nat],
         NEW o, Ranked(o, V, T, m), NEW p, Ranked(p, V, T, m)
  PROVE  o = p
<1> DEFINE S == {i \in Nat : \A j \in 1 .. i : j <= m => o[j] = p[j]}
<1>1. 0 \in S
  OBVIOUS
<1>2. ASSUME NEW i \in Nat, i \in S PROVE i + 1 \in S
  <2> SUFFICES ASSUME NEW j \in Nat, j = i + 1, j <= m PROVE o[j] = p[j]
    <3>1. \A j \in 1 .. i + 1 : j \in 1 .. i \/ j = i + 1
      OBVIOUS
    <3> QED
      BY <1>2, <3>1
  <2>1. j \in 1 .. m /\ \A x \in 1 .. m : x < j => o[x] = p[x]
    BY <1>2
  <2>2. o[j] \in V /\ p[j] \in V
    BY <2>1 DEF Ranked
  <2>3. PICK x \in 1 .. m : p[x] = o[j]
    BY <2>2 DEF Ranked
  <2>4. PICK y \in 1 .. m : o[y] = p[j]
    BY <2>2 DEF Ranked
  <2>5. \A k \in V : T[k] \in Nat
    OBVIOUS
  <2>6. ~(x < j)
    <3> SUFFICES ASSUME x < j PROVE FALSE
      OBVIOUS
    <3>1. o[x] = o[j]
      BY <2>1, <2>3
    <3>2. T[o[x]] < T[o[j]]
      BY <2>1 DEF Ranked
    <3> QED
      BY <2>2, <2>5, <3>1, <3>2
  <2>7. ~(y < j)
    <3> SUFFICES ASSUME y < j PROVE FALSE
      OBVIOUS
    <3>1. p[y] = p[j]
      BY <2>1, <2>4
    <3>2. T[p[y]] < T[p[j]]
      BY <2>1 DEF Ranked
    <3> QED
      BY <2>2, <2>5, <3>1, <3>2
  <2>8. CASE x = j
    BY <2>3, <2>8
  <2>9. CASE x # j
    <3>1. j < x
      BY <2>6, <2>9
    <3>2. T[p[j]] < T[o[j]]
      BY <2>1, <2>3, <3>1 DEF Ranked
    <3>3. T[o[j]] <= T[p[j]]
      <4>1. CASE y = j
        BY <2>2, <2>4, <2>5, <4>1
      <4>2. CASE y # j
        <5>1. j < y
          BY <2>7, <4>2
        <5>2. T[o[j]] < T[o[y]]
          BY <2>1, <5>1 DEF Ranked
        <5> QED
          BY <2>2, <2>4, <2>5, <5>2
      <4> QED
        BY <4>1, <4>2
    <3> QED
      BY <2>2, <2>5, <3>2, <3>3
  <2> QED
    BY <2>8, <2>9
<1>3. m \in S
  <2> HIDE DEF S
  <2> QED
    BY <1>1, <1>2, SetInduction
<1>4. \A j \in 1 .. m : o[j] = p[j]
  BY <1>3
<1> QED
  BY <1>4 DEF Ranked

\* The kth of m goes to the end.
ToEnd(q, k, m) == [n \in 1 .. m |-> IF n < k THEN q[n] ELSE IF n < m THEN q[n + 1] ELSE q[k]]

\* A block that gets the latest time goes to the end.
LEMMA RankedMoved ==
  ASSUME NEW m \in Nat, NEW V, NEW T \in [V -> Nat], NEW U \in [V -> Nat],
         NEW o, Ranked(o, V, T, m), NEW k \in 1 .. m,
         \A x \in V : x # o[k] => U[x] = T[x] /\ U[x] < U[o[k]]
  PROVE  Ranked(ToEnd(o, k, m), V, U, m)
<1> DEFINE p == ToEnd(o, k, m)
<1>1. \A n \in 1 .. m : /\ n < k => p[n] = o[n]
                        /\ ~(n < k) /\ n < m => p[n] = o[n + 1] /\ n + 1 \in 1 .. m
                        /\ ~(n < k) /\ ~(n < m) => p[n] = o[k] /\ n = m
  BY DEF ToEnd
<1>2. \A n \in 1 .. m : o[n] \in V
  BY DEF Ranked
<1>3. p \in [1 .. m -> V]
  <2>1. p = [n \in 1 .. m |-> p[n]]
    BY DEF ToEnd
  <2>2. \A n \in 1 .. m : p[n] \in V
    BY <1>1, <1>2
  <2> QED
    BY <2>1, <2>2
<1> HIDE DEF p
<1>4. ASSUME NEW x \in V PROVE \E i \in 1 .. m : p[i] = x
  <2>1. PICK i \in 1 .. m : o[i] = x
    BY DEF Ranked
  <2>2. CASE i < k
    BY <1>1, <2>1, <2>2
  <2>3. CASE i = k
    <3>1. m \in 1 .. m /\ ~(m < k) /\ ~(m < m)
      OBVIOUS
    <3> QED
      BY <1>1, <2>1, <2>3, <3>1
  <2>4. CASE i > k
    <3>1. PICK n \in 1 .. m : n + 1 = i /\ ~(n < k) /\ n < m
      <4>1. i - 1 \in 1 .. m /\ (i - 1) + 1 = i /\ ~(i - 1 < k) /\ i - 1 < m
        BY <2>4
      <4> QED
        BY <4>1
    <3> QED
      BY <1>1, <2>1, <3>1
  <2> QED
    BY <2>2, <2>3, <2>4
<1>5. \A i, j \in 1 .. m : i < j => T[o[i]] < T[o[j]] /\ o[i] # o[j]
  <2> SUFFICES ASSUME NEW i \in 1 .. m, NEW j \in 1 .. m, i < j
               PROVE  T[o[i]] < T[o[j]] /\ o[i] # o[j]
    OBVIOUS
  <2>1. T[o[i]] < T[o[j]] /\ T[o[i]] \in Nat
    BY <1>2 DEF Ranked
  <2> QED
    BY <2>1
<1>6. \A i \in 1 .. m : i # k => o[i] # o[k] /\ U[o[i]] = T[o[i]] /\ U[o[i]] < U[o[k]]
  <2> SUFFICES ASSUME NEW i \in 1 .. m, i # k
               PROVE  o[i] # o[k]
    BY <1>2
  <2>1. i < k \/ k < i
    OBVIOUS
  <2> QED
    BY <1>5, <2>1
<1>7. ASSUME NEW i \in 1 .. m, NEW j \in 1 .. m, i < j PROVE U[p[i]] < U[p[j]]
  <2>1. PICK x \in 1 .. m : p[i] = o[x] /\ x # k /\ x \in {i, i + 1} /\ (x = i <=> i < k)
    <3>1. CASE i < k
      BY <1>1, <3>1
    <3>2. CASE ~(i < k)
      <4>1. i < m
        BY <1>7
      <4>2. p[i] = o[i + 1] /\ i + 1 \in 1 .. m
        BY <1>1, <3>2, <4>1
      <4>3. i + 1 # k /\ i + 1 # i
        BY <3>2
      <4> QED
        BY <3>2, <4>2, <4>3
    <3> QED
      BY <3>1, <3>2
  <2>2. CASE ~(j < k) /\ ~(j < m)
    BY <1>1, <1>6, <2>1, <2>2
  <2>3. CASE j < k \/ j < m
    <3>1. PICK y \in 1 .. m : p[j] = o[y] /\ y # k /\ y \in {j, j + 1} /\ (y = j <=> j < k)
      BY <1>1, <2>3
    <3>2. x < y
      <4>1. CASE j < k
        BY <1>7, <2>1, <3>1, <4>1
      <4>2. CASE ~(j < k)
        <5>1. y = j + 1 /\ x <= i + 1
          BY <2>1, <3>1, <4>2
        <5> QED
          BY <1>7, <5>1
      <4> QED
        BY <4>1, <4>2
    <3>3. T[o[x]] < T[o[y]]
      BY <1>5, <3>2
    <3> QED
      BY <1>6, <2>1, <3>1, <3>3
  <2> QED
    BY <2>2, <2>3
<1> QED
  BY <1>3, <1>4, <1>7 DEF Ranked, p

\* A block more, with the latest time, comes at the end.
LEMMA RankedMore ==
  ASSUME NEW m \in Nat, NEW V, NEW T \in [V -> Nat], NEW o, Ranked(o, V, T, m),
         NEW v, v \notin V, NEW U \in [V \cup {v} -> Nat],
         \A x \in V : U[x] = T[x] /\ U[x] < U[v]
  PROVE  Ranked([n \in 1 .. m + 1 |-> IF n = m + 1 THEN v ELSE o[n]], V \cup {v}, U, m + 1)
<1> DEFINE p == [n \in 1 .. m + 1 |-> IF n = m + 1 THEN v ELSE o[n]]
<1>1. p[m + 1] = v /\ \A n \in 1 .. m : p[n] = o[n] /\ o[n] \in V
  <2>1. m + 1 \in 1 .. m + 1 /\ \A n \in 1 .. m : n \in 1 .. m + 1 /\ n # m + 1
    OBVIOUS
  <2> QED
    BY <2>1 DEF Ranked
<1>2. \A n \in 1 .. m + 1 : n \in 1 .. m \/ n = m + 1
  OBVIOUS
<1>3. p \in [1 .. m + 1 -> V \cup {v}]
  <2>1. \A n \in 1 .. m + 1 : p[n] \in V \cup {v}
    BY <1>1, <1>2
  <2>2. p = [n \in 1 .. m + 1 |-> p[n]]
    OBVIOUS
  <2> HIDE DEF p
  <2> QED
    BY <2>1, <2>2
<1> HIDE DEF p
<1>4. ASSUME NEW x \in V \cup {v} PROVE \E i \in 1 .. m + 1 : p[i] = x
  <2>1. CASE x = v
    BY <1>1, <2>1
  <2>2. CASE x \in V
    <3>1. PICK i \in 1 .. m : o[i] = x
      BY <2>2 DEF Ranked
    <3>2. i \in 1 .. m + 1 /\ p[i] = x
      BY <1>1, <3>1
    <3> QED
      BY <3>2
  <2> QED
    BY <2>1, <2>2
<1>5. ASSUME NEW i \in 1 .. m + 1, NEW j \in 1 .. m + 1, i < j PROVE U[p[i]] < U[p[j]]
  <2>1. i \in 1 .. m
    BY <1>5
  <2>2. CASE j = m + 1
    BY <1>1, <2>1, <2>2
  <2>3. CASE j \in 1 .. m
    <3>1. T[o[i]] < T[o[j]]
      BY <1>5, <2>1, <2>3 DEF Ranked
    <3> QED
      BY <1>1, <2>1, <2>3, <3>1
  <2> QED
    BY <1>2, <2>2, <2>3
<1> QED
  BY <1>3, <1>4, <1>5 DEF Ranked, p

------------------------------------------------------------------------------
(* The queue a set is *)

TimeIn(lru, b) == IF lru THEN b.access_time ELSE b.load_time

Times(lru, s) == [k \in Valid(s) |-> TimeIn(lru, s.blocks[k])]

InOrderIn(lru, o, s) ==
  /\ {o[n] : n \in DOMAIN o} = Valid(s)
  /\ \A m, n \in DOMAIN o :
       m < n => TimeIn(lru, s.blocks[o[m]]) < TimeIn(lru, s.blocks[o[n]])

OrderIn(lru, s) ==
  CHOOSE o \in [1 .. Cardinality(Valid(s)) -> Valid(s)] : InOrderIn(lru, o, s)

EvictionsIn(lru, s) ==
  LET o == OrderIn(lru, s) IN [n \in DOMAIN o |-> s.blocks[o[n]].tag]

\* These are those of the model, the command line aside.
LEMMA SameEvictions == \A s : Evictions(s) = EvictionsIn(cfg.lru, s)
BY DEF Evictions, Order, InOrder, Time, EvictionsIn, OrderIn, InOrderIn, TimeIn

\* o lists the blocks of s, the next one to evict first.
Listed(lru, o, s) == Ranked(o, Valid(s), Times(lru, s), FindEmptySpot(s))

TagsOf(o, s) == [i \in 1 .. FindEmptySpot(s) |-> s.blocks[o[i]].tag]

LEMMA TimesAreNat ==
  ASSUME NEW n \in Nat, NEW s, SetOK(s, n), NEW lru \in BOOLEAN
  PROVE  Times(lru, s) \in [Valid(s) -> Nat]
<1>1. \A k \in Valid(s) : s.blocks[k] \in Block
  BY DEF SetOK, Valid
<1>2. \A k \in Valid(s) : TimeIn(lru, s.blocks[k]) \in Nat
  BY <1>1 DEF TimeIn, Block
<1> QED
  BY <1>2 DEF Times

LEMMA QueueIs ==
  ASSUME NEW n \in Nat, NEW s, SetOK(s, n), Agree(s), NEW lru \in BOOLEAN,
         NEW o, Listed(lru, o, s)
  PROVE  EvictionsIn(lru, s) = TagsOf(o, s)
<1> DEFINE V == Valid(s)
           T == Times(lru, s)
<1>1. PICK m \in Nat : m = FindEmptySpot(s) /\ V = 0 .. m - 1
  BY SpotIsInside
<1>2. Cardinality(V) = m
  <2>1. 0 \in Int /\ m - 1 \in Int
    OBVIOUS
  <2>2. Cardinality(0 .. m - 1) = IF 0 > m - 1 THEN 0 ELSE (m - 1) - 0 + 1
    BY <2>1, FS_Interval
  <2> QED
    BY <1>1, <2>2
<1>3. T \in [V -> Nat] /\ \A k \in V : T[k] = TimeIn(lru, s.blocks[k])
  <2>1. \A k \in V : T[k] = TimeIn(lru, s.blocks[k])
    BY DEF Times
  <2> QED
    BY <2>1, TimesAreNat
<1>4. Ranked(o, V, T, m)
  BY <1>1 DEF Listed
<1> HIDE DEF V, T
<1>5. ASSUME NEW p \in [1 .. m -> V] PROVE InOrderIn(lru, p, s) <=> Ranked(p, V, T, m)
  <2>1. DOMAIN p = 1 .. m /\ \A i \in 1 .. m : p[i] \in V
    OBVIOUS
  <2>2. {p[i] : i \in DOMAIN p} = V <=> \A k \in V : \E i \in 1 .. m : p[i] = k
    BY <2>1
  <2>3. \A i \in 1 .. m : T[p[i]] = TimeIn(lru, s.blocks[p[i]])
    BY <1>3, <2>1
  <2> DEFINE Grows == \A i, j \in 1 .. m : i < j => T[p[i]] < T[p[j]]
  <2>4. (\A i, j \in DOMAIN p :
           i < j => TimeIn(lru, s.blocks[p[i]]) < TimeIn(lru, s.blocks[p[j]])) <=> Grows
    BY <2>1, <2>3
  <2>5. InOrderIn(lru, p, s) <=> {p[i] : i \in DOMAIN p} = V /\ Grows
    <3> HIDE DEF Grows
    <3> QED
      BY <2>4 DEF InOrderIn, V
  <2>6. Ranked(p, V, T, m) <=> (\A k \in V : \E i \in 1 .. m : p[i] = k) /\ Grows
    BY DEF Ranked
  <2> HIDE DEF Grows
  <2> QED
    BY <2>2, <2>5, <2>6
<1>6. o \in [1 .. m -> V]
  BY <1>4 DEF Ranked
<1>7. OrderIn(lru, s) = CHOOSE p \in [1 .. m -> V] : InOrderIn(lru, p, s)
  BY <1>2 DEF OrderIn, V
<1>8. \A p \in [1 .. m -> V] : InOrderIn(lru, p, s) <=> p = o
  <2> TAKE p \in [1 .. m -> V]
  <2>1. InOrderIn(lru, p, s) => p = o
    BY <1>3, <1>4, <1>5, RankedOnce
  <2>2. InOrderIn(lru, o, s)
    BY <1>4, <1>5, <1>6
  <2> QED
    BY <2>1, <2>2
<1>9. OrderIn(lru, s) = o
  BY <1>6, <1>7, <1>8
<1>10. DOMAIN o = 1 .. m
  BY <1>6
<1> QED
  BY <1>1, <1>9, <1>10 DEF EvictionsIn, TagsOf
------------------------------------------------------------------------------
(* What an access does to the queue of a set *)

LEMMA ListIsSeq ==
  ASSUME NEW m \in Nat, NEW S, NEW f \in [1 .. m -> S]
  PROVE  f \in Seq(S) /\ Len(f) = m /\ DOMAIN f = 1 .. m
<1>1. f \in Seq(S)
  BY SeqDef
<1>2. DOMAIN f = 1 .. m
  OBVIOUS
<1>3. Len(f) = m
  BY <1>1, <1>2, LenProperties
<1> QED
  BY <1>1, <1>2, <1>3

LEMMA AppendList ==
  ASSUME NEW m \in Nat, NEW S, NEW f \in [1 .. m -> S], NEW t \in S
  PROVE  Append(f, t) = [i \in 1 .. m + 1 |-> IF i = m + 1 THEN t ELSE f[i]]
<1> DEFINE g == [i \in 1 .. m + 1 |-> IF i = m + 1 THEN t ELSE f[i]]
<1>1. f \in Seq(S) /\ Len(f) = m
  BY ListIsSeq
<1>2. /\ Append(f, t) \in Seq(S) /\ Len(Append(f, t)) = m + 1
      /\ \A i \in 1 .. m : Append(f, t)[i] = f[i]
      /\ Append(f, t)[m + 1] = t
  BY <1>1, AppendProperties
<1>3. \A i \in 1 .. m + 1 : g[i] \in S
  OBVIOUS
<1>4. g \in [1 .. m + 1 -> S]
  BY <1>3
<1>5. g \in Seq(S) /\ Len(g) = m + 1
  <2> HIDE DEF g
  <2> QED
    BY <1>4, ListIsSeq
<1>6. \A i \in 1 .. m + 1 : Append(f, t)[i] = g[i]
  <2> TAKE i \in 1 .. m + 1
  <2>1. i \in 1 .. m \/ i = m + 1
    OBVIOUS
  <2>2. \A k \in 1 .. m : k # m + 1
    OBVIOUS
  <2> QED
    BY <1>2, <2>1, <2>2
<1> HIDE DEF g
<1>7. Append(f, t) = g
  BY <1>2, <1>5, <1>6, SeqEqual
<1> QED
  BY <1>7 DEF g

LEMMA TailAppendList ==
  ASSUME NEW m \in Nat \ {0}, NEW S, NEW f \in [1 .. m -> S], NEW t \in S
  PROVE  /\ Append(Tail(f), t) = [i \in 1 .. m |-> IF i < m THEN f[i + 1] ELSE t]
         /\ Head(f) = f[1] /\ f # <<>>
<1>1. f \in Seq(S) /\ Len(f) = m /\ f # <<>>
  BY ListIsSeq
<1>2. /\ Head(f) = f[1] /\ Tail(f) \in Seq(S) /\ Len(Tail(f)) = m - 1
      /\ \A i \in 1 .. m - 1 : Tail(f)[i] = f[i + 1]
  BY <1>1, HeadTailProperties
<1>3. PICK n \in Nat : n = m - 1 /\ m = n + 1
  <2>1. m - 1 \in Nat /\ m = (m - 1) + 1
    OBVIOUS
  <2> QED
    BY <2>1
<1>4. Tail(f) \in [1 .. n -> S]
  BY <1>2, <1>3, LenProperties
<1>5. Append(Tail(f), t) = [i \in 1 .. n + 1 |-> IF i = n + 1 THEN t ELSE Tail(f)[i]]
  <2>1. \A e \in [1 .. n -> S] :
          Append(e, t) = [i \in 1 .. n + 1 |-> IF i = n + 1 THEN t ELSE e[i]]
    BY AppendList
  <2> QED
    BY <1>4, <2>1, Zenon
<1>6. \A i \in 1 .. m : (IF i = n + 1 THEN t ELSE Tail(f)[i]) = IF i < m THEN f[i + 1] ELSE t
  <2> TAKE i \in 1 .. m
  <2>1. CASE i = m
    BY <1>3, <2>1
  <2>2. CASE i # m
    <3>1. i \in 1 .. m - 1 /\ i < m /\ i # n + 1
      BY <1>3, <2>2
    <3> QED
      BY <1>2, <3>1
  <2> QED
    BY <2>1, <2>2
<1> QED
  BY <1>1, <1>2, <1>3, <1>5, <1>6

\* Only blocks with a tag are dirty.
DirtyAreValid(s) == \A k \in DOMAIN s.blocks : s.blocks[k].dirty => k \in Valid(s)

\* What is known of a set of n blocks.
Sound(s, n) == SetOK(s, n) /\ Agree(s) /\ InThePast(s) /\ DirtyAreValid(s)

Good(s, n) == Sound(s, n) /\ \E o : Listed(cfg.lru, o, s)

\* The blocks of a set, their tags and its map.
LEMMA SoundIs ==
  ASSUME NEW n \in Nat, NEW s, Sound(s, n)
  PROVE  /\ s.blocks \in [0 .. n - 1 -> Block] /\ DOMAIN s.blocks = 0 .. n - 1
         /\ s.timestamp \in Nat
         /\ FindEmptySpot(s) \in 0 .. n /\ Valid(s) = 0 .. FindEmptySpot(s) - 1
         /\ \A k \in Valid(s) : /\ k \in 0 .. n - 1 /\ s.blocks[k] \in Block
                                /\ s.blocks[k].tag \in DOMAIN s.tagIndex
                                /\ s.tagIndex[s.blocks[k].tag] = k
         /\ \A t \in DOMAIN s.tagIndex : s.tagIndex[t] \in Valid(s)
                                         /\ s.blocks[s.tagIndex[t]].tag = t
<1>1. SetOK(s, n) /\ Agree(s)
  BY DEF Sound
<1>2. FindEmptySpot(s) \in 0 .. n /\ Valid(s) = 0 .. FindEmptySpot(s) - 1
  BY <1>1, SpotIsInside
<1>3. /\ s.blocks \in [0 .. n - 1 -> Block] /\ DOMAIN s.blocks = 0 .. n - 1
      /\ s.timestamp \in Nat
  BY <1>1 DEF SetOK
<1>4. ASSUME NEW k \in Valid(s)
      PROVE  /\ k \in 0 .. n - 1 /\ s.blocks[k] \in Block
             /\ s.blocks[k].tag \in DOMAIN s.tagIndex
             /\ s.tagIndex[s.blocks[k].tag] = k
  <2>1. k \in 0 .. n - 1 /\ s.blocks[k] \in Block
    BY <1>3 DEF Valid
  <2>2. s.blocks[k].tag \in DOMAIN s.tagIndex
    BY <1>1 DEF Agree
  <2> QED
    BY <1>1, <2>1, <2>2 DEF Agree
<1>5. \A t \in DOMAIN s.tagIndex : s.tagIndex[t] \in Valid(s)
                                   /\ s.blocks[s.tagIndex[t]].tag = t
  BY <1>1, HitIsValid
<1> QED
  BY <1>2, <1>3, <1>4, <1>5

\* The queue q of set s holds the tags of its map, as o lists the blocks.
Holds(q, o, s, m) ==
  /\ m \in Nat /\ o \in [1 .. m -> Valid(s)]
  /\ q \in [1 .. m -> Tags] /\ q \in Seq(Tags) /\ Len(q) = m /\ DOMAIN q = 1 .. m
  /\ \A i \in 1 .. m : q[i] = s.blocks[o[i]].tag
  /\ \A t \in DOMAIN s.tagIndex : \E i \in 1 .. m : q[i] = t /\ o[i] = s.tagIndex[t]
  /\ \A i \in 1 .. m : q[i] \in DOMAIN s.tagIndex

LEMMA QueueHolds ==
  ASSUME NEW n \in Nat, NEW s, Sound(s, n), NEW lru \in BOOLEAN,
         NEW o, Listed(lru, o, s), NEW m, m = FindEmptySpot(s),
         NEW q, q = EvictionsIn(lru, s)
  PROVE  Holds(q, o, s, m)
<1>1. m \in Nat
  BY SoundIs
<1>2. o \in [1 .. m -> Valid(s)] /\ \A k \in Valid(s) : \E i \in 1 .. m : o[i] = k
  BY DEF Listed, Ranked
<1>3. q = TagsOf(o, s)
  BY QueueIs DEF Sound
<1>4. q = [i \in 1 .. m |-> s.blocks[o[i]].tag]
  BY <1>3 DEF TagsOf
<1>5. \A i \in 1 .. m : q[i] = s.blocks[o[i]].tag
  BY <1>4
<1>6. \A k \in Valid(s) : s.blocks[k].tag \in Tags /\ s.blocks[k].tag \in DOMAIN s.tagIndex
  BY SoundIs DEF Block
<1>7. q \in [1 .. m -> Tags]
  <2>1. \A i \in 1 .. m : s.blocks[o[i]].tag \in Tags
    BY <1>2, <1>6
  <2> QED
    BY <1>4, <2>1
<1>8. q \in Seq(Tags) /\ Len(q) = m /\ DOMAIN q = 1 .. m
  BY <1>1, <1>7, ListIsSeq
<1>9. \A t \in DOMAIN s.tagIndex : \E i \in 1 .. m : q[i] = t /\ o[i] = s.tagIndex[t]
  <2> TAKE t \in DOMAIN s.tagIndex
  <2>1. s.tagIndex[t] \in Valid(s) /\ s.blocks[s.tagIndex[t]].tag = t
    BY SoundIs
  <2>2. PICK i \in 1 .. m : o[i] = s.tagIndex[t]
    BY <1>2, <2>1
  <2> QED
    BY <1>5, <2>1, <2>2
<1>10. \A i \in 1 .. m : q[i] \in DOMAIN s.tagIndex
  BY <1>2, <1>5, <1>6
<1> QED
  BY <1>1, <1>2, <1>5, <1>7, <1>8, <1>9, <1>10 DEF Holds
\* Listing the blocks of another set.
LEMMA ListedIn ==
  ASSUME NEW lru, NEW o, NEW s, NEW V, NEW T, NEW m,
         V = Valid(s), T = Times(lru, s), m = FindEmptySpot(s), Ranked(o, V, T, m)
  PROVE  Listed(lru, o, s)
BY DEF Listed

\* Set r is set s with a block of tag b.tag written over.
Rewritten(r, s, n, b) ==
  /\ SetOK(r, n) /\ Agree(r) /\ DirtyAreValid(r)
  /\ DirtyTags(r) = IF b.dirty THEN DirtyTags(s) \cup {b.tag} ELSE DirtyTags(s) \ {b.tag}

StaysInPlace(lru, r, s, o) ==
  Listed(lru, o, r) /\ EvictionsIn(lru, r) = EvictionsIn(lru, s)

MovesToEnd(lru, r, s, t) ==
  \E i \in DOMAIN EvictionsIn(lru, s) :
    /\ EvictionsIn(lru, s)[i] = t
    /\ \E p : Listed(lru, p, r)
    /\ EvictionsIn(lru, r) = Policy!Moved(EvictionsIn(lru, s), i)

\* Its place in the queue is its last one, or the end.
LEMMA UpdatedMoves ==
  ASSUME NEW n \in Nat, NEW s, Sound(s, n), NEW lru \in BOOLEAN,
         NEW k \in Valid(s), NEW b \in Block, b.tag = s.blocks[k].tag, b.valid = TRUE,
         NEW now \in Nat, NEW r, r = Updated(s, k, b, now), InThePast(r),
         NEW o, Listed(lru, o, s)
  PROVE  /\ Rewritten(r, s, n, b)
         /\ TimeIn(lru, b) = TimeIn(lru, s.blocks[k]) => StaysInPlace(lru, r, s, o)
         /\ (/\ \A x \in Valid(s) : TimeIn(lru, s.blocks[x]) < s.timestamp
             /\ TimeIn(lru, b) = s.timestamp) => MovesToEnd(lru, r, s, b.tag)
<1> DEFINE V == Valid(s)
<1>0. SetOK(s, n) /\ Agree(s) /\ DirtyAreValid(s)
  BY DEF Sound
<1>1. PICK m \in Nat : m = FindEmptySpot(s)
  BY SoundIs
<1>2. s.blocks[k].valid = TRUE
  BY <1>0 DEF Valid, SetOK, Block
<1>3. SetOK(r, n) /\ Agree(r) /\ Valid(r) = V
  <2>1. InUseAs(Updated(s, k, b, now), s, n)
    BY <1>0, <1>2, UpdatedIsOK
  <2> QED
    BY <2>1 DEF InUseAs
<1>4. m = FindEmptySpot(r)
  BY <1>1 DEF FindEmptySpot, Updated
<1>5. /\ s.blocks \in [0 .. n - 1 -> Block] /\ r.blocks \in [0 .. n - 1 -> Block]
      /\ k \in 0 .. n - 1
      /\ r.blocks[k] = b /\ \A x \in 0 .. n - 1 : x # k => r.blocks[x] = s.blocks[x]
      /\ \A x \in V : x \in 0 .. n - 1
  <2>1. s.blocks \in [0 .. n - 1 -> Block] /\ \A x \in V : x \in 0 .. n - 1
    BY SoundIs
  <2>2. r.blocks = [s.blocks EXCEPT ![k] = b]
    BY DEF Updated
  <2>3. r.blocks \in [0 .. n - 1 -> Block]
    BY <1>3 DEF SetOK
  <2> QED
    BY <2>1, <2>2, <2>3
<1>6. \A x \in V : /\ r.blocks[x].tag = s.blocks[x].tag
                   /\ x # k => TimeIn(lru, r.blocks[x]) = TimeIn(lru, s.blocks[x])
  BY <1>5 DEF TimeIn
<1>7. DirtyAreValid(r)
  <2> SUFFICES ASSUME NEW x \in 0 .. n - 1, r.blocks[x].dirty PROVE x \in V
    BY <1>3, <1>5 DEF DirtyAreValid
  <2> QED
    BY <1>0, <1>5 DEF DirtyAreValid
<1>8. DirtyTags(r) = IF b.dirty THEN DirtyTags(s) \cup {b.tag} ELSE DirtyTags(s) \ {b.tag}
  <2> DEFINE E(t, z) == \E x \in 0 .. n - 1 : z.blocks[x].dirty /\ t = z.blocks[x].tag
  <2>1. \A t : (t \in DirtyTags(s) <=> E(t, s)) /\ (t \in DirtyTags(r) <=> E(t, r))
    BY <1>5 DEF DirtyTags
  <2>2. ASSUME NEW t, t # b.tag PROVE E(t, s) <=> E(t, r)
    BY <1>5, <2>2
  <2>3. E(b.tag, r) <=> b.dirty
    <3>1. b.dirty => E(b.tag, r)
      BY <1>5
    <3>2. ASSUME NEW x \in 0 .. n - 1, x # k, r.blocks[x].dirty, b.tag = r.blocks[x].tag
          PROVE  FALSE
      <4>1. x \in V /\ s.blocks[x].tag = s.blocks[k].tag
        BY <1>0, <1>5, <3>2 DEF DirtyAreValid
      <4>2. \A y \in V : s.tagIndex[s.blocks[y].tag] = y
        BY SoundIs
      <4> QED
        BY <3>2, <4>1, <4>2
    <3> QED
      BY <1>5, <3>1, <3>2
  <2> HIDE DEF E
  <2>4. \A t : t \in DirtyTags(r) <=> IF t = b.tag THEN b.dirty ELSE t \in DirtyTags(s)
    BY <2>1, <2>2, <2>3
  <2> QED
    BY <2>4
<1>9. ASSUME TimeIn(lru, b) = TimeIn(lru, s.blocks[k])
      PROVE  Listed(lru, o, r) /\ EvictionsIn(lru, r) = EvictionsIn(lru, s)
  <2>1. Times(lru, r) = Times(lru, s)
    BY <1>3, <1>5, <1>6, <1>9 DEF Times
  <2>2. Listed(lru, o, r)
    BY <1>1, <1>3, <1>4, <2>1 DEF Listed
  <2>3. o \in [1 .. m -> V]
    BY <1>1 DEF Listed, Ranked
  <2>4. TagsOf(o, r) = TagsOf(o, s)
    <3>1. \A i \in 1 .. m : r.blocks[o[i]].tag = s.blocks[o[i]].tag
      BY <1>6, <2>3
    <3> QED
      BY <1>1, <1>4, <3>1 DEF TagsOf
  <2> QED
    BY <1>0, <1>3, <2>2, <2>4, QueueIs
<1>10. ASSUME \A x \in V : TimeIn(lru, s.blocks[x]) < s.timestamp,
              TimeIn(lru, b) = s.timestamp
       PROVE  \E i \in DOMAIN EvictionsIn(lru, s) :
                /\ EvictionsIn(lru, s)[i] = b.tag
                /\ \E p : Listed(lru, p, r)
                /\ EvictionsIn(lru, r) = Policy!Moved(EvictionsIn(lru, s), i)
  <2>1. PICK q : q = EvictionsIn(lru, s)
    OBVIOUS
  <2>2. /\ o \in [1 .. m -> V] /\ q \in [1 .. m -> Tags] /\ Len(q) = m /\ DOMAIN q = 1 .. m
        /\ \A i \in 1 .. m : q[i] = s.blocks[o[i]].tag
    <3>1. Holds(q, o, s, m)
      BY <1>1, <2>1, QueueHolds
    <3> QED
      BY <3>1 DEF Holds
  <2>3. PICK i \in 1 .. m : o[i] = k
    BY <1>1 DEF Listed, Ranked
  <2>4. q[i] = b.tag
    BY <2>2, <2>3
  <2>5. PICK T, U : T = Times(lru, s) /\ U = Times(lru, r)
    OBVIOUS
  <2>6. T \in [V -> Nat] /\ U \in [V -> Nat]
    BY <1>0, <1>3, <2>5, TimesAreNat
  <2>7. Ranked(o, V, T, m)
    BY <1>1, <2>5 DEF Listed
  <2>8. \A x \in V : x # o[i] => U[x] = T[x] /\ U[x] < U[o[i]]
    <3>1. \A x \in V : T[x] = TimeIn(lru, s.blocks[x]) /\ U[x] = TimeIn(lru, r.blocks[x])
      BY <1>3, <2>5 DEF Times
    <3>2. U[o[i]] = s.timestamp
      BY <1>5, <1>10, <2>3, <3>1
    <3> QED
      BY <1>6, <1>10, <2>3, <3>1, <3>2
  <2>9. PICK p : p = ToEnd(o, i, m)
    OBVIOUS
  <2>10. Ranked(p, V, U, m)
    BY <2>6, <2>7, <2>8, <2>9, RankedMoved
  <2>11. Listed(lru, p, r)
    BY <1>3, <1>4, <2>5, <2>10, ListedIn
  <2>12. EvictionsIn(lru, r) = TagsOf(p, r)
    BY <1>3, <2>11, QueueIs
  <2>13. p \in [1 .. m -> V]
    BY <2>10 DEF Ranked
  <2>14. TagsOf(p, r) = [x \in 1 .. m |-> r.blocks[p[x]].tag]
    BY <1>4 DEF TagsOf
  <2>15. Policy!Moved(q, i)
           = [x \in 1 .. m |-> IF x < i THEN q[x] ELSE IF x < m THEN q[x + 1] ELSE q[i]]
    BY <2>2 DEF Policy!Moved
  <2>16. ASSUME NEW x \in 1 .. m
         PROVE  r.blocks[p[x]].tag = IF x < i THEN q[x] ELSE IF x < m THEN q[x + 1] ELSE q[i]
    <3>1. p[x] = IF x < i THEN o[x] ELSE IF x < m THEN o[x + 1] ELSE o[i]
      BY <2>9 DEF ToEnd
    <3>2. r.blocks[p[x]].tag = s.blocks[p[x]].tag
      BY <1>6, <2>13
    <3>3. CASE x < i
      BY <2>2, <3>1, <3>2, <3>3
    <3>4. CASE ~(x < i) /\ x < m
      <4>1. x + 1 \in 1 .. m
        BY <3>4
      <4> QED
        BY <2>2, <3>1, <3>2, <3>4, <4>1
    <3>5. CASE ~(x < i) /\ ~(x < m)
      BY <2>2, <3>1, <3>2, <3>5
    <3> QED
      BY <3>3, <3>4, <3>5
  <2>17. TagsOf(p, r) = Policy!Moved(q, i)
    BY <2>14, <2>15, <2>16
  <2> QED
    BY <2>1, <2>2, <2>4, <2>11, <2>12, <2>17
<1>11. Rewritten(r, s, n, b)
  BY <1>3, <1>7, <1>8, Zenon DEF Rewritten
<1>12. TimeIn(lru, b) = TimeIn(lru, s.blocks[k]) => StaysInPlace(lru, r, s, o)
  BY <1>9, Zenon DEF StaysInPlace
<1>13. (/\ \A x \in Valid(s) : TimeIn(lru, s.blocks[x]) < s.timestamp
        /\ TimeIn(lru, b) = s.timestamp) => MovesToEnd(lru, r, s, b.tag)
  BY <1>10, Zenon DEF MovesToEnd
<1> QED
  BY <1>11, <1>12, <1>13, Zenon

\* A hit: with LRU the tag goes to the end of its queue.
LEMMA TouchedMoves ==
  ASSUME NEW n \in Nat, NEW s, Good(s, n), cfg.lru \in BOOLEAN,
         s.timestamp + 1 < Word, NEW t \in DOMAIN s.tagIndex,
         NEW r, r = Touched(s, t)
  PROVE  /\ Good(r, n) /\ DirtyTags(r) = DirtyTags(s) /\ t \in DOMAIN r.tagIndex
         /\ \E i \in DOMAIN EvictionsIn(cfg.lru, s) :
              /\ EvictionsIn(cfg.lru, s)[i] = t
              /\ EvictionsIn(cfg.lru, r) = IF cfg.lru
                                           THEN Policy!Moved(EvictionsIn(cfg.lru, s), i)
                                           ELSE EvictionsIn(cfg.lru, s)
<1>1. Sound(s, n) /\ SetOK(s, n) /\ Agree(s) /\ InThePast(s)
  BY DEF Good, Sound
<1>2. PICK o : Listed(cfg.lru, o, s)
  BY DEF Good
<1>3. t \in DOMAIN r.tagIndex /\ InThePast(r)
  BY <1>1, TouchedIsOK, TouchedInTime
<1>4. CASE cfg.lru
  <2> DEFINE k == s.tagIndex[t]
             b == [s.blocks[k] EXCEPT !.access_time = s.timestamp]
  <2>1. /\ k \in Valid(s) /\ s.blocks[k] \in Block /\ s.blocks[k].tag = t
        /\ s.timestamp \in Nat
    BY <1>1, HitIsValid DEF SetOK
  <2>2. /\ b \in Block /\ b.tag = s.blocks[k].tag /\ b.valid = s.blocks[k].valid
        /\ b.dirty = s.blocks[k].dirty /\ TimeIn(cfg.lru, b) = s.timestamp
    BY <1>4, <2>1 DEF Block, TimeIn
  <2>3. r = Updated(s, k, b, Tick(s)) /\ Tick(s) \in Nat
    BY <1>1, <1>4, <2>1, TickIsNat DEF Touched, Updated, SetOK
  <2>4. \A x \in Valid(s) : TimeIn(cfg.lru, s.blocks[x]) < s.timestamp
    BY <1>1 DEF InThePast, Time, TimeIn
  <2>5. b.valid = TRUE
    BY <2>1, <2>2 DEF Valid, Block
  <2>6. s.blocks[k].dirty \in BOOLEAN /\ (s.blocks[k].dirty <=> t \in DirtyTags(s))
    <3>1. s.blocks[k].dirty \in BOOLEAN /\ k \in DOMAIN s.blocks
      BY <2>1 DEF Block, Valid
    <3>2. ASSUME t \in DirtyTags(s) PROVE s.blocks[k].dirty
      <4>1. PICK x \in DOMAIN s.blocks : s.blocks[x].dirty /\ s.blocks[x].tag = t
        BY <3>2 DEF DirtyTags
      <4>2. x \in Valid(s)
        BY <1>1, <4>1 DEF Sound, DirtyAreValid
      <4>3. s.tagIndex[s.blocks[x].tag] = x
        BY <1>1, <4>2, SoundIs
      <4> QED
        BY <4>1, <4>3
    <3> QED
      BY <2>1, <3>1, <3>2 DEF DirtyTags
  <2> HIDE DEF k, b
  <2>7. Rewritten(r, s, n, b)
    BY <1>1, <1>2, <1>3, <2>1, <2>2, <2>3, <2>5, UpdatedMoves
  <2>8. MovesToEnd(cfg.lru, r, s, b.tag)
    BY <1>1, <1>2, <1>3, <2>1, <2>2, <2>3, <2>4, <2>5, UpdatedMoves
  <2>9. DirtyTags(r) = DirtyTags(s)
    BY <2>1, <2>2, <2>6, <2>7 DEF Rewritten
  <2>10. Sound(r, n)
    BY <1>3, <2>7 DEF Rewritten, Sound
  <2> QED
    BY <1>3, <1>4, <2>1, <2>2, <2>8, <2>9, <2>10 DEF Good, MovesToEnd
<1>5. CASE ~cfg.lru
  <2>1. r = s
    BY <1>5 DEF Touched
  <2>2. PICK q : q = EvictionsIn(cfg.lru, s)
    OBVIOUS
  <2>3. \E i \in DOMAIN q : q[i] = t
    <3>1. Holds(q, o, s, FindEmptySpot(s))
      BY <1>1, <1>2, <2>2, QueueHolds
    <3> QED
      BY <3>1 DEF Holds
  <2> QED
    BY <1>5, <2>1, <2>2, <2>3
<1> QED
  BY <1>4, <1>5

\* A store to a block in the cache, to be written back.
Stored(s, t) == [s EXCEPT !.blocks[s.tagIndex[t]].dirty = TRUE]

LEMMA DirtyStays ==
  ASSUME NEW n \in Nat, NEW s, Good(s, n), cfg.lru \in BOOLEAN,
         NEW t \in DOMAIN s.tagIndex,
         NEW r, r = Stored(s, t)
  PROVE  /\ Good(r, n) /\ DirtyTags(r) = DirtyTags(s) \cup {t}
         /\ EvictionsIn(cfg.lru, r) = EvictionsIn(cfg.lru, s)
<1>1. Sound(s, n) /\ SetOK(s, n) /\ Agree(s) /\ InThePast(s)
  BY DEF Good, Sound
<1>2. PICK o : Listed(cfg.lru, o, s)
  BY DEF Good
<1> DEFINE k == s.tagIndex[t]
           b == [s.blocks[k] EXCEPT !.dirty = TRUE]
<1>3. /\ k \in Valid(s) /\ s.blocks[k] \in Block /\ s.blocks[k].tag = t
      /\ s.timestamp \in Nat
  BY <1>1, HitIsValid DEF SetOK
<1>4. /\ b \in Block /\ b.tag = s.blocks[k].tag /\ b.valid = s.blocks[k].valid
      /\ b.dirty = TRUE /\ TimeIn(cfg.lru, b) = TimeIn(cfg.lru, s.blocks[k])
  BY <1>3 DEF Block, TimeIn
<1>5. PICK now \in Nat : r = Updated(s, k, b, now)
  <2>1. r = Updated(s, k, b, s.timestamp)
    BY <1>1, DirtyIsUpdated DEF Stored
  <2> QED
    BY <1>3, <2>1
<1>6. InThePast(r)
  BY <1>1, DirtyInTime DEF Stored
<1>7. b.valid = TRUE
  BY <1>3, <1>4 DEF Valid, Block
<1> HIDE DEF k, b
<1>8. Rewritten(r, s, n, b)
  BY <1>1, <1>2, <1>3, <1>4, <1>5, <1>6, <1>7, UpdatedMoves
<1>9. StaysInPlace(cfg.lru, r, s, o)
  BY <1>1, <1>2, <1>3, <1>4, <1>5, <1>6, <1>7, UpdatedMoves
<1> QED
  BY <1>3, <1>4, <1>6, <1>8, <1>9 DEF Good, Sound, Rewritten, StaysInPlace
\* The tags of the dirty blocks except block k.
DirtyBut(s, k) == {s.blocks[x].tag : x \in {y \in Valid(s) : s.blocks[y].dirty /\ y # k}}

\* In r they are the tags of the dirty blocks, which are all valid.
OthersStayDirty(r, s, k) == DirtyAreValid(r) /\ DirtyTags(r) = DirtyBut(s, k)

\* Tag t is loaded into block k, which held nothing or the tag in out.
LEMMA LoadedDirt ==
  ASSUME NEW n \in Nat, NEW s, Sound(s, n), NEW t \in Tags, t \notin DOMAIN s.tagIndex,
         NEW k \in 0 .. n - 1, NEW out, NEW r, r = Loaded(s, t, k, out),
         Valid(r) = Valid(s) \cup {k}
  PROVE  OthersStayDirty(r, s, k)
<1>1. /\ s.blocks \in [0 .. n - 1 -> Block] /\ DOMAIN s.blocks = 0 .. n - 1
      /\ s.timestamp \in Nat
  BY SoundIs
<1>2. /\ SetOK(r, n)
      /\ r.blocks[k] = NewBlock(s, t)
      /\ \A i \in 0 .. n - 1 : i # k => r.blocks[i] = s.blocks[i]
  BY LoadedIs DEF Sound
<1>3. DOMAIN r.blocks = 0 .. n - 1
  BY <1>2 DEF SetOK
<1>4. r.blocks[k].dirty = FALSE
  BY <1>2 DEF NewBlock
<1>5. \A i \in 0 .. n - 1 : s.blocks[i].dirty => i \in Valid(s)
  BY <1>1 DEF Sound, DirtyAreValid
<1>6. \A i \in 0 .. n - 1 : r.blocks[i].dirty <=> i # k /\ s.blocks[i].dirty
  BY <1>2, <1>4
<1>7. DirtyAreValid(r)
  BY <1>3, <1>5, <1>6 DEF DirtyAreValid
<1>8. \A i \in Valid(s) : i \in 0 .. n - 1
  BY SoundIs
<1>9. {l \in DOMAIN r.blocks : r.blocks[l].dirty} = {y \in Valid(s) : s.blocks[y].dirty /\ y # k}
  BY <1>3, <1>5, <1>6, <1>8
<1> DEFINE Y == {y \in Valid(s) : s.blocks[y].dirty /\ y # k}
<1>10. \A y \in Y : r.blocks[y].tag = s.blocks[y].tag
  BY <1>2, <1>8
<1>11. DirtyTags(r) = {r.blocks[y].tag : y \in Y}
  BY <1>9 DEF DirtyTags
<1> HIDE DEF Y
<1>12. DirtyTags(r) = {s.blocks[y].tag : y \in Y}
  BY <1>10, <1>11
<1> QED
  BY <1>7, <1>12 DEF Y, DirtyBut, OthersStayDirty

LEMMA DirtyTagsAre ==
  ASSUME NEW n \in Nat, NEW s, Sound(s, n)
  PROVE  DirtyTags(s) = {s.blocks[x].tag : x \in {y \in Valid(s) : s.blocks[y].dirty}}
<1>1. {l \in DOMAIN s.blocks : s.blocks[l].dirty} = {y \in Valid(s) : s.blocks[y].dirty}
  BY DEF Sound, DirtyAreValid, Valid
<1> QED
  BY <1>1, Zenon DEF DirtyTags

\* Of the times T of the members of V, k's becomes now and the others stay.
Renewed(T, U, V, k, now) ==
  /\ U \in [V \cup {k} -> Nat] /\ U[k] = now
  /\ \A x \in V : x # k => U[x] = T[x]
  /\ \A x \in V : T[x] < now

LEMMA LoadedTimes ==
  ASSUME NEW n \in Nat, NEW s, Sound(s, n), NEW t \in Tags, NEW k \in 0 .. n - 1, NEW out,
         NEW r, r = Loaded(s, t, k, out), cfg.lru \in BOOLEAN,
         Valid(r) = Valid(s) \cup {k}, SetOK(r, n)
  PROVE  Renewed(Times(cfg.lru, s), Times(cfg.lru, r), Valid(s), k, s.timestamp)
<1>1. s.timestamp \in Nat /\ \A i \in Valid(s) : i \in 0 .. n - 1
  BY SoundIs
<1>2. /\ r.blocks[k] = NewBlock(s, t)
      /\ \A i \in 0 .. n - 1 : i # k => r.blocks[i] = s.blocks[i]
  BY LoadedIs DEF Sound
<1>3. TimeIn(cfg.lru, NewBlock(s, t)) = s.timestamp
  BY <1>1, NewBlockIs DEF Time, TimeIn
<1>4. \A x \in Valid(r) : Times(cfg.lru, r)[x] = TimeIn(cfg.lru, r.blocks[x])
  BY DEF Times
<1>5. \A x \in Valid(s) : Times(cfg.lru, s)[x] = TimeIn(cfg.lru, s.blocks[x])
  BY DEF Times
<1>6. \A x \in Valid(s) : TimeIn(cfg.lru, s.blocks[x]) < s.timestamp
  BY DEF Sound, InThePast, Time, TimeIn
<1>7. Times(cfg.lru, r) \in [Valid(r) -> Nat]
  BY TimesAreNat
<1>8. \A x \in Valid(s) : x # k => r.blocks[x] = s.blocks[x]
  BY <1>1, <1>2
<1> QED
  BY <1>2, <1>3, <1>4, <1>5, <1>6, <1>7, <1>8 DEF Renewed

\* The first free block is the one after the blocks in use.
LEMMA OneMoreValid ==
  ASSUME NEW m \in Nat, NEW v \in Nat, NEW V, V = 0 .. v - 1, V = (0 .. m - 1) \cup {m}
  PROVE  v = m + 1
<1>1. m \in 0 .. v - 1
  OBVIOUS
<1>2. v - 1 \in V
  BY <1>1
<1>3. v - 1 <= m
  BY <1>2
<1> QED
  BY <1>1, <1>3

\* A miss with a block free: the tag comes at the end.
LEMMA FilledAppends ==
  ASSUME NEW n \in Nat, NEW s, Good(s, n), cfg.lru \in BOOLEAN,
         s.timestamp + 1 < Word, NEW t \in Tags, t \notin DOMAIN s.tagIndex,
         FindEmptySpot(s) # n, NEW r, r = Loaded(s, t, FindEmptySpot(s), {})
  PROVE  /\ Good(r, n) /\ DirtyTags(r) = DirtyTags(s)
         /\ EvictionsIn(cfg.lru, r) = Append(EvictionsIn(cfg.lru, s), t)
<1>1. Sound(s, n) /\ SetOK(s, n) /\ Agree(s) /\ InThePast(s)
  BY DEF Good, Sound
<1>2. PICK o : Listed(cfg.lru, o, s)
  BY DEF Good
<1>3. PICK m \in 0 .. n - 1 : m = FindEmptySpot(s) /\ Valid(s) = 0 .. m - 1
  BY <1>1, SoundIs
<1>4. SetOK(r, n) /\ Agree(r) /\ Valid(r) = Valid(s) \cup {m}
  BY <1>1, <1>3, FilledIsOK
<1>5. InThePast(r)
  BY <1>1, <1>3, LoadedInTime
<1>6. r = Loaded(s, t, m, {})
  BY <1>3
<1>7. DirtyAreValid(r) /\ DirtyTags(r) = DirtyBut(s, m)
  <2>1. OthersStayDirty(r, s, m)
    BY <1>1, <1>4, <1>6, LoadedDirt
  <2> QED
    BY <2>1 DEF OthersStayDirty
<1>8. m \notin Valid(s)
  BY <1>3
<1>9. DirtyTags(r) = DirtyTags(s)
  <2>1. {y \in Valid(s) : s.blocks[y].dirty /\ y # m} = {y \in Valid(s) : s.blocks[y].dirty}
    BY <1>8
  <2> QED
    BY <1>1, <1>7, <2>1, DirtyTagsAre, Zenon DEF DirtyBut
<1>10. FindEmptySpot(r) = m + 1
  <2>1. PICK v \in Nat : v = FindEmptySpot(r) /\ Valid(r) = 0 .. v - 1
    BY <1>4, SpotIsInside
  <2>2. Valid(r) = (0 .. m - 1) \cup {m}
    BY <1>3, <1>4
  <2> QED
    BY <2>1, <2>2, OneMoreValid
<1>11. PICK T, U : T = Times(cfg.lru, s) /\ U = Times(cfg.lru, r)
  OBVIOUS
<1>12. /\ T \in [Valid(s) -> Nat] /\ U \in [Valid(s) \cup {m} -> Nat]
       /\ \A x \in Valid(s) : U[x] = T[x] /\ U[x] < U[m]
  <2>1. T \in [Valid(s) -> Nat]
    BY <1>1, <1>11, TimesAreNat
  <2>2. Renewed(T, U, Valid(s), m, s.timestamp)
    BY <1>1, <1>4, <1>6, <1>11, LoadedTimes
  <2> QED
    BY <1>8, <2>1, <2>2 DEF Renewed
<1>13. PICK p : p = [i \in 1 .. m + 1 |-> IF i = m + 1 THEN m ELSE o[i]]
  OBVIOUS
<1>14. Ranked(o, Valid(s), T, m)
  BY <1>2, <1>3, <1>11 DEF Listed
<1>15. Ranked(p, Valid(s) \cup {m}, U, m + 1)
  BY <1>8, <1>12, <1>13, <1>14, RankedMore
<1>16. Listed(cfg.lru, p, r)
  BY <1>4, <1>10, <1>11, <1>15 DEF Listed
<1>17. EvictionsIn(cfg.lru, r) = [i \in 1 .. m + 1 |-> r.blocks[p[i]].tag]
  <2>1. EvictionsIn(cfg.lru, r) = TagsOf(p, r)
    BY <1>4, <1>16, QueueIs
  <2> QED
    BY <1>10, <2>1 DEF TagsOf
<1>18. PICK q : q = EvictionsIn(cfg.lru, s)
  OBVIOUS
<1>19. /\ o \in [1 .. m -> Valid(s)] /\ q \in [1 .. m -> Tags]
       /\ \A i \in 1 .. m : q[i] = s.blocks[o[i]].tag
  <2>1. Holds(q, o, s, m)
    BY <1>1, <1>2, <1>3, <1>18, QueueHolds
  <2> QED
    BY <2>1 DEF Holds
<1>20. \A i \in 1 .. m + 1 : r.blocks[p[i]].tag = IF i = m + 1 THEN t ELSE q[i]
  <2>1. /\ r.blocks[m] = NewBlock(s, t)
        /\ \A i \in 0 .. n - 1 : i # m => r.blocks[i] = s.blocks[i]
    BY <1>1, <1>6, LoadedIs
  <2>2. r.blocks[m].tag = t
    BY <2>1 DEF NewBlock
  <2>3. \A i \in 1 .. m : o[i] \in 0 .. n - 1 /\ o[i] # m
    BY <1>3, <1>8, <1>19
  <2> TAKE i \in 1 .. m + 1
  <2>4. CASE i = m + 1
    BY <1>13, <2>2, <2>4
  <2>5. CASE i # m + 1
    <3>1. i \in 1 .. m /\ p[i] = o[i]
      BY <1>13, <2>5
    <3>2. r.blocks[o[i]] = s.blocks[o[i]]
      BY <2>1, <2>3, <3>1
    <3> QED
      BY <1>19, <2>5, <3>1, <3>2
  <2> QED
    BY <2>4, <2>5
<1>21. Append(q, t) = [i \in 1 .. m + 1 |-> IF i = m + 1 THEN t ELSE q[i]]
  BY <1>19, AppendList
<1>22. EvictionsIn(cfg.lru, r) = Append(q, t)
  BY <1>17, <1>20, <1>21
<1> QED
  BY <1>4, <1>5, <1>7, <1>9, <1>16, <1>18, <1>22 DEF Good, Sound
\* Set r is set s with the first tag of its queue q, of block k, replaced by t.
FirstLeaves(r, s, n, q, t, k) ==
  /\ Good(r, n) /\ q # <<>> /\ EvictionsIn(cfg.lru, r) = Append(Tail(q), t)
  /\ DirtyTags(r) = DirtyTags(s) \ {Head(q)}
  /\ Head(q) \in DirtyTags(s) <=> s.blocks[k].dirty

\* A miss in a full set: the first tag leaves and the new one comes at the end.
LEMMA EvictedLeaves ==
  ASSUME NEW n \in Nat, NEW s, Good(s, n), cfg.lru \in BOOLEAN,
         s.timestamp + 1 < Word, NEW t \in Tags, t \notin DOMAIN s.tagIndex,
         FindEmptySpot(s) = n, NEW k \in OldestBlocks(s),
         NEW r, r = Loaded(s, t, k, {s.blocks[k].tag}),
         NEW q, q = EvictionsIn(cfg.lru, s)
  PROVE  FirstLeaves(r, s, n, q, t, k)
<1>1. Sound(s, n) /\ SetOK(s, n) /\ Agree(s) /\ InThePast(s)
  BY DEF Good, Sound
<1>2. PICK o : Listed(cfg.lru, o, s)
  BY DEF Good
<1>3. /\ Valid(s) = 0 .. n - 1 /\ DOMAIN s.blocks = 0 .. n - 1 /\ s.timestamp \in Nat
      /\ k \in 0 .. n - 1 /\ n \in Nat \ {0}
  <2>1. Valid(s) = 0 .. n - 1 /\ DOMAIN s.blocks = 0 .. n - 1 /\ s.timestamp \in Nat
    BY <1>1, SoundIs
  <2>2. k \in 0 .. n - 1
    BY <2>1 DEF OldestBlocks
  <2> QED
    BY <2>1, <2>2
<1>4. SetOK(r, n) /\ Agree(r) /\ Valid(r) = Valid(s)
  BY <1>1, <1>3, EvictedIsOK
<1>5. InThePast(r)
  BY <1>1, <1>3, LoadedInTime
<1>6. Valid(r) = Valid(s) \cup {k}
  BY <1>3, <1>4
<1>7. DirtyAreValid(r) /\ DirtyTags(r) = DirtyBut(s, k)
  <2>1. PICK out : r = Loaded(s, t, k, out)
    OBVIOUS
  <2>2. n \in Nat /\ Sound(s, n) /\ t \in Tags /\ k \in 0 .. n - 1
    BY <1>1, <1>3
  <2>3. OthersStayDirty(r, s, k)
    BY <1>6, <2>1, <2>2, LoadedDirt
  <2> QED
    BY <2>3 DEF OthersStayDirty
<1>8. /\ o \in [1 .. n -> Valid(s)] /\ q \in [1 .. n -> Tags]
      /\ \A i \in 1 .. n : q[i] = s.blocks[o[i]].tag
  <2>1. Holds(q, o, s, n)
    BY <1>1, <1>2, QueueHolds
  <2> QED
    BY <2>1 DEF Holds
<1>9. PICK T, U : T = Times(cfg.lru, s) /\ U = Times(cfg.lru, r)
  OBVIOUS
<1>10. T \in [Valid(s) -> Nat] /\ \A x \in Valid(s) : T[x] = Time(s.blocks[x])
  <2>1. T \in [Valid(s) -> Nat]
    BY <1>1, <1>9, TimesAreNat
  <2>2. \A x \in Valid(s) : T[x] = Time(s.blocks[x])
    BY <1>9 DEF Times, Time, TimeIn
  <2> QED
    BY <2>1, <2>2
<1>11. Ranked(o, Valid(s), T, n)
  BY <1>2, <1>9 DEF Listed
<1>12. o[1] = k /\ 1 \in 1 .. n
  <2>1. PICK i \in 1 .. n : o[i] = k
    BY <1>3, <1>11 DEF Ranked
  <2>2. 1 \in 1 .. n /\ o[1] \in Valid(s)
    BY <1>3, <1>8
  <2>3. ~(1 < i)
    <3> SUFFICES ASSUME 1 < i PROVE FALSE
      OBVIOUS
    <3>1. T[o[1]] < T[k]
      BY <1>11, <2>1, <2>2 DEF Ranked
    <3>2. Time(s.blocks[o[1]]) >= Time(s.blocks[k])
      BY <1>3, <2>2 DEF OldestBlocks
    <3>3. T[o[1]] \in Nat /\ T[k] \in Nat /\ T[o[1]] >= T[k]
      BY <1>3, <1>10, <2>2, <3>2
    <3> QED
      BY <3>1, <3>3
  <2>4. i = 1
    BY <2>3
  <2> QED
    BY <2>1, <2>2, <2>4
<1>13. U \in [Valid(s) -> Nat]
       /\ \A x \in Valid(s) : x # o[1] => U[x] = T[x] /\ U[x] < U[o[1]]
  <2>1. Renewed(T, U, Valid(s), k, s.timestamp)
    BY <1>1, <1>3, <1>4, <1>6, <1>9, LoadedTimes
  <2>2. Valid(s) \cup {k} = Valid(s)
    BY <1>3
  <2> QED
    BY <1>12, <2>1, <2>2 DEF Renewed
<1>14. PICK p : p = ToEnd(o, 1, n)
  OBVIOUS
<1>15. Ranked(p, Valid(s), U, n)
  BY <1>10, <1>11, <1>12, <1>13, <1>14, RankedMoved
<1>16. FindEmptySpot(r) = n
  <2>1. PICK v \in 0 .. n : v = FindEmptySpot(r) /\ Valid(r) = 0 .. v - 1
    BY <1>4, SpotIsInside
  <2>2. n - 1 \in 0 .. v - 1
    BY <1>3, <1>4, <2>1
  <2> QED
    BY <2>1, <2>2
<1>17. Listed(cfg.lru, p, r)
  BY <1>4, <1>9, <1>15, <1>16 DEF Listed
<1>18. EvictionsIn(cfg.lru, r) = [i \in 1 .. n |-> r.blocks[p[i]].tag]
  <2>1. EvictionsIn(cfg.lru, r) = TagsOf(p, r)
    BY <1>4, <1>17, QueueIs
  <2> QED
    BY <1>16, <2>1 DEF TagsOf
<1>19. \A i \in 1 .. n : r.blocks[p[i]].tag = IF i < n THEN q[i + 1] ELSE t
  <2>1. /\ r.blocks[k] = NewBlock(s, t)
        /\ \A i \in 0 .. n - 1 : i # k => r.blocks[i] = s.blocks[i]
    BY <1>1, <1>3, LoadedIs
  <2>2. r.blocks[k].tag = t
    BY <2>1 DEF NewBlock
  <2> TAKE i \in 1 .. n
  <2>3. p[i] = IF i < n THEN o[i + 1] ELSE o[1]
    BY <1>14 DEF ToEnd
  <2>4. CASE i < n
    <3>1. i + 1 \in 1 .. n /\ 1 < i + 1
      BY <2>4
    <3>2. o[i + 1] \in Valid(s) /\ o[i + 1] # o[1]
      <4>1. T[o[1]] < T[o[i + 1]]
        BY <1>11, <1>12, <3>1 DEF Ranked
      <4>2. o[1] \in Valid(s) /\ o[i + 1] \in Valid(s)
        BY <1>8, <1>12, <3>1
      <4>3. T[o[1]] \in Nat
        BY <1>10, <4>2
      <4> QED
        BY <4>1, <4>2, <4>3
    <3>3. r.blocks[o[i + 1]] = s.blocks[o[i + 1]]
      BY <1>3, <1>12, <2>1, <3>2
    <3> QED
      BY <1>8, <2>3, <2>4, <3>1, <3>3
  <2>5. CASE ~(i < n)
    BY <1>12, <2>2, <2>3, <2>5
  <2> QED
    BY <2>4, <2>5
<1>20. /\ Append(Tail(q), t) = [i \in 1 .. n |-> IF i < n THEN q[i + 1] ELSE t]
       /\ Head(q) = q[1] /\ q # <<>>
  BY <1>3, <1>8, TailAppendList
<1>21. EvictionsIn(cfg.lru, r) = Append(Tail(q), t)
  <2>1. [i \in 1 .. n |-> r.blocks[p[i]].tag] = [i \in 1 .. n |-> IF i < n THEN q[i + 1] ELSE t]
    BY <1>19
  <2> QED
    BY <1>18, <1>20, <2>1, Zenon
<1>22. Head(q) = s.blocks[k].tag
  BY <1>8, <1>12, <1>20
<1>23. \A y, x \in Valid(s) : s.blocks[y].tag = s.blocks[x].tag => y = x
  <2>1. \A y \in Valid(s) : s.tagIndex[s.blocks[y].tag] = y
    BY <1>1, SoundIs
  <2> QED
    BY <2>1
<1>24. DirtyTags(s) = {s.blocks[x].tag : x \in {y \in Valid(s) : s.blocks[y].dirty}}
  BY <1>1, DirtyTagsAre
<1>25. DirtyTags(r) = DirtyTags(s) \ {Head(q)}
  <2>1. \A x \in Valid(s) : x # k <=> s.blocks[x].tag # s.blocks[k].tag
    BY <1>3, <1>23
  <2> QED
    BY <1>7, <1>22, <1>24, <2>1 DEF DirtyBut
<1>26. Head(q) \in DirtyTags(s) <=> s.blocks[k].dirty
  BY <1>3, <1>22, <1>23, <1>24
<1>27. Good(r, n)
  BY <1>4, <1>5, <1>7, <1>17 DEF Good, Sound
<1> QED
  BY <1>20, <1>21, <1>25, <1>26, <1>27 DEF FirstLeaves
\* A set of n blocks that is the empty queue.
EmptyQueue(s, n) ==
  Good(s, n) /\ EvictionsIn(cfg.lru, s) = <<>> /\ DirtyTags(s) = {}

\* A set is one with no block in use.
LEMMA EmptyIsGood ==
  ASSUME NEW n \in Nat, NEW s, cfg.lru \in BOOLEAN,
         s = [blocks |-> [k \in 0 .. n - 1 |-> NoBlock], tagIndex |-> [t \in {} |-> 0],
              timestamp |-> 0]
  PROVE  EmptyQueue(s, n)
<1>1. SetOK(s, n) /\ Agree(s)
  BY EmptySetIsOK
<1>2. s.blocks = [k \in 0 .. n - 1 |-> NoBlock] /\ s.tagIndex = [t \in {} |-> 0]
  OBVIOUS
<1>3. \A k \in DOMAIN s.blocks : s.blocks[k].valid = FALSE /\ s.blocks[k].dirty = FALSE
  BY <1>2 DEF NoBlock
<1>4. Valid(s) = {} /\ DirtyTags(s) = {}
  BY <1>3 DEF Valid, DirtyTags
<1>5. Sound(s, n)
  BY <1>1, <1>3, <1>4 DEF Sound, InThePast, DirtyAreValid
<1>6. FindEmptySpot(s) = 0
  BY <1>2, FS_EmptySet DEF FindEmptySpot
<1>7. PICK o : o = [i \in {} |-> 0]
  OBVIOUS
<1>8. Listed(cfg.lru, o, s)
  <2>1. 1 .. 0 = {}
    OBVIOUS
  <2>2. o \in [1 .. 0 -> {}]
    BY <1>7, <2>1
  <2>3. Ranked(o, {}, Times(cfg.lru, s), 0)
    BY <2>1, <2>2 DEF Ranked
  <2> QED
    BY <1>4, <1>6, <2>3 DEF Listed
<1>9. EvictionsIn(cfg.lru, s) = <<>>
  <2>1. PICK q : q = EvictionsIn(cfg.lru, s)
    OBVIOUS
  <2>2. q \in Seq(Tags) /\ Len(q) = 0
    <3>1. Holds(q, o, s, 0)
      BY <1>5, <1>6, <1>8, <2>1, QueueHolds
    <3> QED
      BY <3>1 DEF Holds
  <2> QED
    BY <2>1, <2>2, EmptySeq
<1> QED
  BY <1>4, <1>5, <1>8, <1>9 DEF Good, EmptyQueue

------------------------------------------------------------------------------
(* The counters do not wrap *)

\* A bound on the cycles of an access: a block written back and one loaded.
PerAccess == 1 + 50 * cfg.num_bytes

\* The fields of an address fit in it; a trace is shorter than a time, and its
\* cycles fewer than a counter can count.
NoOverflow ==
  /\ MaxAccesses < Word
  /\ \A c \in Configs :
       ~Refused(c) => /\ FieldsFit(c)
                      /\ 100 * c.num_bytes < Word
                      /\ MaxAccesses * (1 + 50 * c.num_bytes) < Word

CountersOK ==
  /\ \A f \in Counters : stats[f] \in Nat
  /\ \A f \in Counters \ {"total_cycles"} : stats[f] <= Accesses
  /\ stats.total_cycles <= Accesses * PerAccess

LEMMA ConfigIs ==
  ASSUME CInv
  PROVE  /\ cfg \in Config /\ cfg.num_blocks \in Nat /\ cfg.num_sets \in Nat
         /\ cfg.num_bytes \in Nat /\ cfg.lru \in BOOLEAN /\ cfg.write \in BOOLEAN
         /\ cfg.allocation \in BOOLEAN /\ PerAccess \in Nat
<1>1. cfg \in Config
  BY ConfigAssumption DEF CInv
<1> QED
  BY <1>1 DEF Config, PerAccess

\* One more access, of c cycles, is counted without a counter wrapping.
LEMMA CountsAsSaid ==
  ASSUME NoOverflow, TInv, CountersOK, status = "run", Accesses < MaxAccesses, UNCHANGED cfg,
         NEW x \in {"total_loads", "total_stores"},
         NEW y \in {"load_hits", "load_misses", "store_hits", "store_misses"},
         NEW c \in Nat, c <= PerAccess, Count(x, y, c)
  PROVE  stats' = Policy!Counted(x, y, c) /\ CountersOK'
<1>1. /\ Accesses \in Nat /\ MaxAccesses \in Nat /\ Word \in Nat /\ MaxAccesses < Word
      /\ CInv /\ ~Refused(cfg) /\ cfg \in Configs
  BY WordAssumption DEF TInv, CInv, Accesses, NoOverflow
<1>2. PICK p \in Nat : p = PerAccess
  BY <1>1, ConfigIs
<1>3. MaxAccesses * p < Word
  BY <1>1, <1>2 DEF NoOverflow, PerAccess
<1>4. PICK a \in Nat : a = Accesses /\ a < MaxAccesses /\ Accesses' = a + 1
  BY <1>1, CountCounts DEF NoOverflow
<1>5. PICK w \in Nat : w = a * p
  OBVIOUS
<1>6. (a + 1) * p = w + p
  BY <1>5
<1>7. w + p <= MaxAccesses * p
  <2>1. a + 1 \in Nat /\ a + 1 <= MaxAccesses
    BY <1>1, <1>4
  <2> QED
    BY <1>1, <1>6, <2>1, ProductsGrow
<1>8. PICK z \in Nat : z = MaxAccesses * p
  BY <1>1
<1>9. /\ \A f \in Counters : stats[f] \in Nat
      /\ \A f \in Counters \ {"total_cycles"} : stats[f] <= a
      /\ stats.total_cycles <= w
  BY <1>2, <1>4, <1>5 DEF CountersOK
<1>10. \A u, v \in Nat : u + v < Word => Plus(u, v) = u + v
  <2>1. \A u \in Nat : u < Word => u % Word = u
    BY <1>1
  <2> QED
    BY <2>1 DEF Plus
<1>11. \A f \in Counters \ {"total_cycles"} : Plus(stats[f], 1) = stats[f] + 1
  <2> TAKE f \in Counters \ {"total_cycles"}
  <2>1. stats[f] \in Nat /\ stats[f] + 1 < Word
    BY <1>1, <1>4, <1>9
  <2> QED
    BY <1>10, <2>1
<1>12. Plus(stats.total_cycles, c) = stats.total_cycles + c /\ stats.total_cycles \in Nat
  <2>1. stats.total_cycles \in Nat
    BY <1>9 DEF Counters
  <2>2. stats.total_cycles + c < Word
    BY <1>1, <1>2, <1>3, <1>7, <1>8, <1>9, <2>1
  <2> QED
    BY <1>10, <2>1, <2>2
<1>13. stats = [f \in Counters |-> stats[f]] /\ x # y /\ x \in Counters /\ y \in Counters
       /\ "total_cycles" \in Counters /\ x # "total_cycles" /\ y # "total_cycles"
  BY DEF TInv, Counters
<1>14. stats' = [f \in Counters |-> IF f \in {x, y} THEN Plus(stats[f], 1)
                                    ELSE IF f = "total_cycles" THEN Plus(stats[f], c)
                                    ELSE stats[f]]
  BY <1>13 DEF Count
<1>15. Policy!Counted(x, y, c)
         = [f \in Counters |-> IF f \in {x, y} THEN stats[f] + 1
                               ELSE IF f = "total_cycles" THEN stats[f] + c
                               ELSE stats[f]]
  BY <1>13 DEF Policy!Counted
<1>16. stats' = Policy!Counted(x, y, c)
  BY <1>11, <1>12, <1>13, <1>14, <1>15
<1>17. CountersOK'
  <2>1. \A f \in Counters : stats'[f] = IF f \in {x, y} THEN stats[f] + 1
                                        ELSE IF f = "total_cycles" THEN stats[f] + c
                                        ELSE stats[f]
    BY <1>15, <1>16
  <2>2. \A f \in Counters : stats'[f] \in Nat
    BY <1>9, <2>1
  <2>3. \A f \in Counters \ {"total_cycles"} : stats'[f] <= a + 1
    BY <1>9, <2>1
  <2>4. stats'.total_cycles <= w + p
    BY <1>2, <1>9, <1>12, <1>13, <2>1
  <2>5. Accesses' = a + 1 /\ Accesses' * PerAccess' = w + p
    BY <1>2, <1>4, <1>6 DEF PerAccess
  <2> QED
    BY <2>2, <2>3, <2>4, <2>5 DEF CountersOK
<1> QED
  BY <1>16, <1>17

\* memory cycles are those of the words of a block.
LEMMA TransferIs ==
  ASSUME NoOverflow, CInv, status = "run"
  PROVE  /\ MemoryCycles = Policy!Transfer /\ MemoryCycles \in Nat
         /\ 1 + MemoryCycles + MemoryCycles <= PerAccess /\ 101 <= PerAccess
<1>1. ~Refused(cfg) /\ cfg \in Configs
  BY DEF CInv
<1>2. PICK b \in Nat : b = cfg.num_bytes
  BY ConfigIs
<1>3. b >= 4 /\ 100 * b < Word
  BY <1>1, <1>2 DEF Refused, NoOverflow
<1>4. Word \in Nat \ {0}
  BY WordAssumption
<1>5. (100 * b) % Word = 100 * b
  BY <1>3, <1>4
<1>6. MemoryCycles = (100 * b) \div 4
  BY <1>2, <1>5 DEF MemoryCycles
<1>7. (100 * b) \div 4 = 25 * b
  OBVIOUS
<1>8. PerAccess = 1 + 50 * b
  BY <1>2 DEF PerAccess
<1> QED
  BY <1>2, <1>3, <1>6, <1>7, <1>8 DEF Policy!Transfer
------------------------------------------------------------------------------
(* The sets together *)

GInv ==
  /\ TInv
  /\ CountersOK
  /\ \A j \in Index : Good(sets[j], cfg.num_blocks)

LEMMA GoodNext ==
  ASSUME UNCHANGED cfg, NEW j, Good(sets'[j], cfg.num_blocks)
  PROVE  Good(sets[j], cfg.num_blocks)'
BY DEF Good, Sound, SetOK, Agree, Valid, InThePast, Time, DirtyAreValid

LEMMA QueuesAre ==
  ASSUME NEW j \in 0 .. cfg.num_sets - 1, j \in Index
  PROVE  Queues[j] = EvictionsIn(cfg.lru, sets[j]) /\ ToWriteBack[j] = DirtyTags(sets[j])
BY SameEvictions DEF Queues, ToWriteBack

LEMMA QueuesNext ==
  ASSUME UNCHANGED cfg
  PROVE  /\ Queues' = [j \in 0 .. cfg.num_sets - 1 |->
                         IF j \in Index' THEN EvictionsIn(cfg.lru, sets'[j]) ELSE <<>>]
         /\ ToWriteBack' = [j \in 0 .. cfg.num_sets - 1 |->
                              IF j \in Index' THEN DirtyTags(sets'[j]) ELSE {}]
<1>1. ASSUME NEW j PROVE Evictions(sets[j])' = EvictionsIn(cfg.lru, sets'[j])
  BY DEF Evictions, Order, InOrder, Time, Valid, EvictionsIn, OrderIn, InOrderIn, TimeIn
<1>2. ASSUME NEW j PROVE DirtyTags(sets[j])' = DirtyTags(sets'[j])
  BY DEF DirtyTags
<1> QED
  BY <1>1, <1>2 DEF Queues, ToWriteBack

\* An access changes one set, and its queue.
LEMMA OneQueue ==
  ASSUME CInv, status = "run", status' = "run", UNCHANGED cfg,
         NEW j \in Index, NEW r, sets' = [sets EXCEPT ![j] = r]
  PROVE  /\ Queues' = [Queues EXCEPT ![j] = EvictionsIn(cfg.lru, r)]
         /\ ToWriteBack' = [ToWriteBack EXCEPT ![j] = DirtyTags(r)]
         /\ \A i \in Index' : i \in Index /\ sets'[i] = IF i = j THEN r ELSE sets[i]
<1>1. Index = 0 .. cfg.num_sets - 1 /\ Index' = 0 .. cfg.num_sets - 1
  BY DEF Index
<1>2. sets = [i \in 0 .. cfg.num_sets - 1 |-> sets[i]]
  BY DEF CInv
<1>3. \A i \in 0 .. cfg.num_sets - 1 : sets'[i] = IF i = j THEN r ELSE sets[i]
  BY <1>1, <1>2
<1>4. /\ Queues' = [i \in 0 .. cfg.num_sets - 1 |-> EvictionsIn(cfg.lru, sets'[i])]
      /\ ToWriteBack' = [i \in 0 .. cfg.num_sets - 1 |-> DirtyTags(sets'[i])]
  BY <1>1, QueuesNext
<1>5. /\ Queues = [i \in 0 .. cfg.num_sets - 1 |-> EvictionsIn(cfg.lru, sets[i])]
      /\ ToWriteBack = [i \in 0 .. cfg.num_sets - 1 |-> DirtyTags(sets[i])]
  BY <1>1, SameEvictions DEF Queues, ToWriteBack
<1>6. Queues' = [Queues EXCEPT ![j] = EvictionsIn(cfg.lru, r)]
  <2>1. \A i \in 0 .. cfg.num_sets - 1 :
          EvictionsIn(cfg.lru, sets'[i])
            = IF i = j THEN EvictionsIn(cfg.lru, r) ELSE EvictionsIn(cfg.lru, sets[i])
    BY <1>3
  <2>2. Queues' = [i \in 0 .. cfg.num_sets - 1 |->
                     IF i = j THEN EvictionsIn(cfg.lru, r) ELSE EvictionsIn(cfg.lru, sets[i])]
    BY <1>4, <2>1
  <2>3. [Queues EXCEPT ![j] = EvictionsIn(cfg.lru, r)]
          = [i \in 0 .. cfg.num_sets - 1 |->
               IF i = j THEN EvictionsIn(cfg.lru, r) ELSE EvictionsIn(cfg.lru, sets[i])]
    BY <1>1, <1>5
  <2> QED
    BY <2>2, <2>3
<1>7. ToWriteBack' = [ToWriteBack EXCEPT ![j] = DirtyTags(r)]
  <2>1. \A i \in 0 .. cfg.num_sets - 1 :
          DirtyTags(sets'[i]) = IF i = j THEN DirtyTags(r) ELSE DirtyTags(sets[i])
    BY <1>3
  <2>2. ToWriteBack' = [i \in 0 .. cfg.num_sets - 1 |->
                          IF i = j THEN DirtyTags(r) ELSE DirtyTags(sets[i])]
    BY <1>4, <2>1
  <2>3. [ToWriteBack EXCEPT ![j] = DirtyTags(r)]
          = [i \in 0 .. cfg.num_sets - 1 |->
               IF i = j THEN DirtyTags(r) ELSE DirtyTags(sets[i])]
    BY <1>1, <1>5
  <2> QED
    BY <2>2, <2>3
<1> QED
  BY <1>1, <1>3, <1>6, <1>7

LEMMA SameQueues ==
  ASSUME UNCHANGED <<cfg, sets>>, Index' = Index
  PROVE  Queues' = Queues /\ ToWriteBack' = ToWriteBack
<1>1. \A j : Evictions(sets[j]) = EvictionsIn(cfg.lru, sets[j])
  BY SameEvictions
<1> QED
  BY <1>1, QueuesNext DEF Queues, ToWriteBack

\* A tag is in a set's map when it is in its queue.
LEMMA CachedIsQueued ==
  ASSUME GInv, NEW j \in Index
  PROVE  /\ Len(Queues[j]) = FindEmptySpot(sets[j])
         /\ \A t : Cached(j, t) <=> \E k \in DOMAIN Queues[j] : Queues[j][k] = t
<1>1. PICK n \in Nat : n = cfg.num_blocks
  BY BlocksAreNat DEF GInv, TInv
<1>2. PICK s : s = sets[j]
  OBVIOUS
<1>3. Sound(s, n)
  BY <1>1, <1>2 DEF GInv, Good
<1>4. PICK o : Listed(cfg.lru, o, s)
  BY <1>1, <1>2 DEF GInv, Good
<1>5. PICK m : m = FindEmptySpot(s)
  OBVIOUS
<1>6. PICK q : q = EvictionsIn(cfg.lru, s)
  OBVIOUS
<1>7. PICK lru \in BOOLEAN : lru = cfg.lru
  BY ConfigIs DEF GInv, TInv
<1>8. /\ Len(q) = m /\ DOMAIN q = 1 .. m
      /\ \A t \in DOMAIN s.tagIndex : \E i \in 1 .. m : q[i] = t
      /\ \A i \in 1 .. m : q[i] \in DOMAIN s.tagIndex
  <2>1. Holds(q, o, s, m)
    BY <1>3, <1>4, <1>5, <1>6, <1>7, QueueHolds
  <2> QED
    BY <2>1 DEF Holds
<1>9. Queues[j] = q
  BY <1>2, <1>6, QueuesAre DEF Index
<1> QED
  BY <1>2, <1>5, <1>8, <1>9 DEF Cached
------------------------------------------------------------------------------
(* An access is one of the policy's *)

\* An access that leaves a good set and counted as it should.
OneGood(j, r) ==
  /\ status' = "run" /\ UNCHANGED cfg
  /\ sets' = [sets EXCEPT ![j] = r] /\ Good(r, cfg.num_blocks)
  /\ CountersOK'

LEMMA OneGoodKeeps ==
  ASSUME GInv, TInv', status = "run", NEW j \in Index, NEW r, OneGood(j, r)
  PROVE  GInv'
<1>1. CInv /\ status' = "run" /\ UNCHANGED cfg /\ sets' = [sets EXCEPT ![j] = r]
  BY DEF GInv, TInv, OneGood
<1>2. \A i \in Index' : i \in Index /\ sets'[i] = IF i = j THEN r ELSE sets[i]
  BY <1>1, OneQueue
<1>3. ASSUME NEW i \in Index' PROVE Good(sets[i], cfg.num_blocks)'
  <2>1. i \in Index /\ Good(sets'[i], cfg.num_blocks)
    BY <1>2 DEF GInv, OneGood
  <2> QED
    BY <1>1, <2>1, GoodNext
<1> QED
  BY <1>3 DEF GInv, OneGood

\* place_in_cache, for a tag that is not in its set
LEMMA PlaceIsMiss ==
  ASSUME NoOverflow, GInv, status = "run", UNCHANGED cfg, Accesses < MaxAccesses,
         NEW j \in Index, NEW t \in Tags, ~Cached(j, t),
         NEW x \in {"total_loads", "total_stores"},
         NEW y \in {"load_hits", "load_misses", "store_hits", "store_misses"},
         NEW c \in Nat, c + MemoryCycles <= PerAccess, Place(j, t, x, y, c)
  PROVE  \/ UNCHANGED <<sets, stats>> /\ status' = "undefined"
         \/ Policy!Miss(j, t, x, y, c) /\ \E r : OneGood(j, r)
<1> DEFINE s == sets[j]
           n == cfg.num_blocks
<1>1. /\ CInv /\ TInv /\ CountersOK /\ Good(s, n) /\ n \in Nat /\ cfg.lru \in BOOLEAN
      /\ j \in 0 .. cfg.num_sets - 1
  BY ConfigIs DEF GInv, TInv, Index
<1>2. s.timestamp + 1 < Word /\ SetOK(s, n) /\ Agree(s) /\ s.timestamp \in Nat
  <2>1. s.timestamp <= Accesses /\ s.timestamp \in Nat /\ SetOK(s, n) /\ Agree(s)
    BY <1>1 DEF TInv, InTime, Good, Sound, SetOK
  <2>2. Accesses \in Nat /\ MaxAccesses \in Nat /\ Word \in Nat /\ MaxAccesses < Word
    BY <1>1, WordAssumption DEF TInv, Accesses, NoOverflow
  <2> QED
    BY <2>1, <2>2
<1>3. /\ Queues[j] = EvictionsIn(cfg.lru, s) /\ ToWriteBack[j] = DirtyTags(s)
      /\ Len(Queues[j]) = FindEmptySpot(s)
      /\ \A k \in DOMAIN Queues[j] : Queues[j][k] # t
      /\ t \notin DOMAIN s.tagIndex
  BY <1>1, QueuesAre, CachedIsQueued DEF Cached
<1>4. FindEmptySpot(s) \in 0 .. n /\ n \in Nat
  BY <1>1, <1>2, SpotIsInside
<1>5. MemoryCycles = Policy!Transfer /\ MemoryCycles \in Nat
  BY <1>1, TransferIs
<1> HIDE DEF s, n
<1>6. CASE /\ FindEmptySpot(s) # n
           /\ sets' = [sets EXCEPT ![j] = Loaded(s, t, FindEmptySpot(s), {})]
           /\ Count(x, y, c) /\ UNCHANGED status
  <2>1. PICK r : r = Loaded(s, t, FindEmptySpot(s), {})
    OBVIOUS
  <2>2. /\ Good(r, n) /\ DirtyTags(r) = DirtyTags(s)
        /\ EvictionsIn(cfg.lru, r) = Append(EvictionsIn(cfg.lru, s), t)
    BY <1>1, <1>2, <1>3, <1>6, <2>1, FilledAppends
  <2>3. /\ Queues' = [Queues EXCEPT ![j] = EvictionsIn(cfg.lru, r)]
        /\ ToWriteBack' = [ToWriteBack EXCEPT ![j] = DirtyTags(r)]
    BY <1>1, <1>6, <2>1, OneQueue
  <2>4. ToWriteBack' = ToWriteBack
    BY <1>3, <2>2, <2>3 DEF ToWriteBack
  <2>5. Queues' = [Queues EXCEPT ![j] = Append(Queues[j], t)]
    BY <1>3, <2>2, <2>3
  <2>6. c <= PerAccess
    BY <1>1, <1>5, ConfigIs
  <2>7. stats' = Policy!Counted(x, y, c) /\ CountersOK'
    BY <1>1, <1>6, <2>6, CountsAsSaid
  <2>8. Len(Queues[j]) < n
    BY <1>3, <1>4, <1>6
  <2>9. Policy!Miss(j, t, x, y, c)
    BY <1>3, <2>4, <2>5, <2>7, <2>8 DEF Policy!Miss, n
  <2>10. OneGood(j, r)
    BY <1>6, <2>1, <2>2, <2>7 DEF OneGood, n
  <2> QED
    BY <2>9, <2>10
<1>7. ASSUME FindEmptySpot(s) = n, NEW k \in OldestBlocks(s), UNCHANGED status,
             sets' = [sets EXCEPT ![j] = Loaded(s, t, k, {s.blocks[k].tag})],
             Count(x, y, c + IF s.blocks[k].dirty THEN MemoryCycles ELSE 0)
      PROVE  Policy!Miss(j, t, x, y, c) /\ \E r : OneGood(j, r)
  <2>1. PICK r : r = Loaded(s, t, k, {s.blocks[k].tag})
    OBVIOUS
  <2>2. PICK q : q = EvictionsIn(cfg.lru, s)
    OBVIOUS
  <2>3. /\ Good(r, n) /\ q # <<>> /\ EvictionsIn(cfg.lru, r) = Append(Tail(q), t)
        /\ DirtyTags(r) = DirtyTags(s) \ {Head(q)}
        /\ Head(q) \in DirtyTags(s) <=> s.blocks[k].dirty
    <3>1. FirstLeaves(r, s, n, q, t, k)
      BY <1>1, <1>2, <1>3, <1>7, <2>1, <2>2, EvictedLeaves
    <3> QED
      BY <3>1 DEF FirstLeaves
  <2>4. /\ Queues' = [Queues EXCEPT ![j] = EvictionsIn(cfg.lru, r)]
        /\ ToWriteBack' = [ToWriteBack EXCEPT ![j] = DirtyTags(r)]
    BY <1>1, <1>7, <2>1, OneQueue
  <2>5. PICK d \in Nat : /\ d = c + IF s.blocks[k].dirty THEN MemoryCycles ELSE 0
                         /\ d <= PerAccess
    BY <1>1, <1>5, ConfigIs
  <2>6. d = c + IF Head(q) \in ToWriteBack[j] THEN Policy!Transfer ELSE 0
    BY <1>3, <1>5, <2>3, <2>5
  <2>7. Count(x, y, d)
    BY <1>7, <2>5
  <2>8. stats' = Policy!Counted(x, y, d) /\ CountersOK'
    BY <1>1, <1>7, <2>5, <2>7, CountsAsSaid
  <2>9. Queues[j] = q /\ ~(Len(Queues[j]) < n)
    BY <1>1, <1>3, <1>7, <2>2
  <2>10. Queues' = [Queues EXCEPT ![j] = Append(Tail(Queues[j]), t)]
    BY <2>3, <2>4, <2>9
  <2>11. ToWriteBack' = [ToWriteBack EXCEPT ![j] = ToWriteBack[j] \ {Head(Queues[j])}]
    BY <1>3, <2>3, <2>4, <2>9
  <2>12. stats' = Policy!Counted(x, y, c + IF Head(Queues[j]) \in ToWriteBack[j]
                                           THEN Policy!Transfer ELSE 0)
    BY <2>6, <2>8, <2>9
  <2>13. Policy!Miss(j, t, x, y, c)
    BY <1>3, <2>3, <2>9, <2>10, <2>11, <2>12 DEF Policy!Miss, n
  <2>14. OneGood(j, r)
    BY <1>7, <2>1, <2>3, <2>8 DEF OneGood, n
  <2> QED
    BY <2>13, <2>14
<1>8. CASE UNCHANGED <<sets, stats>> /\ status' = "undefined"
  BY <1>8
<1> QED
  BY <1>6, <1>7, <1>8 DEF Place, s, n
\* A step of the policy that changes nothing.
LEMMA NothingHappens ==
  ASSUME GInv, TInv', UNCHANGED <<cfg, sets, stats>>, Index' = Index
  PROVE  GInv' /\ UNCHANGED Policy!vars
<1>1. Queues' = Queues /\ ToWriteBack' = ToWriteBack
  BY SameQueues
<1>2. \A i \in Index' : Good(sets[i], cfg.num_blocks)'
  BY GoodNext DEF GInv
<1>3. CountersOK'
  BY DEF GInv, CountersOK, Accesses, PerAccess
<1> QED
  BY <1>1, <1>2, <1>3 DEF GInv, Policy!vars

LEMMA UndefinedStutters ==
  ASSUME GInv, TInv', UNCHANGED <<cfg, sets, stats>>, status = "run", status' = "undefined"
  PROVE  GInv' /\ UNCHANGED Policy!vars
<1>1. Index' = Index
  BY DEF Index
<1> QED
  BY <1>1, NothingHappens
\* A hit, whether the block is made dirty or not.
LEMMA TouchIsHit ==
  ASSUME NoOverflow, GInv, status = "run", status' = "run", UNCHANGED cfg,
         Accesses < MaxAccesses, NEW j \in Index, NEW t, Cached(j, t),
         NEW u, u = Touched(sets[j], t),
         NEW r, EvictionsIn(cfg.lru, r) = EvictionsIn(cfg.lru, u),
         sets' = [sets EXCEPT ![j] = r]
  PROVE  Policy!Hit(j, t) /\ Good(u, cfg.num_blocks) /\ t \in DOMAIN u.tagIndex
         /\ ToWriteBack' = [ToWriteBack EXCEPT ![j] = DirtyTags(r)]
         /\ DirtyTags(u) = ToWriteBack[j]
<1> DEFINE s == sets[j]
           n == cfg.num_blocks
<1>1. /\ CInv /\ TInv /\ Good(s, n) /\ n \in Nat /\ cfg.lru \in BOOLEAN
      /\ j \in 0 .. cfg.num_sets - 1
  BY ConfigIs DEF GInv, TInv, Index
<1>2. s.timestamp + 1 < Word
  <2>1. s.timestamp <= Accesses /\ s.timestamp \in Nat
    BY <1>1 DEF TInv, InTime, Good, Sound, SetOK
  <2>2. Accesses \in Nat /\ MaxAccesses \in Nat /\ Word \in Nat /\ MaxAccesses < Word
    BY <1>1, WordAssumption DEF TInv, Accesses, NoOverflow
  <2> QED
    BY <2>1, <2>2
<1>3. Queues[j] = EvictionsIn(cfg.lru, s) /\ ToWriteBack[j] = DirtyTags(s)
  BY <1>1, QueuesAre
<1>4. t \in DOMAIN s.tagIndex
  BY DEF Cached
<1>5. /\ Queues' = [Queues EXCEPT ![j] = EvictionsIn(cfg.lru, r)]
      /\ ToWriteBack' = [ToWriteBack EXCEPT ![j] = DirtyTags(r)]
  BY <1>1, OneQueue
<1> HIDE DEF s, n
<1>6. u = Touched(s, t)
  BY DEF s
<1>7. Good(u, n) /\ DirtyTags(u) = DirtyTags(s) /\ t \in DOMAIN u.tagIndex
  <2>1. Good(u, n)
    BY <1>1, <1>2, <1>4, <1>6, TouchedMoves
  <2>2. DirtyTags(u) = DirtyTags(s)
    BY <1>1, <1>2, <1>4, <1>6, TouchedMoves
  <2>3. t \in DOMAIN u.tagIndex
    BY <1>1, <1>2, <1>4, <1>6, TouchedMoves
  <2> QED
    BY <2>1, <2>2, <2>3
<1>8. \E i \in DOMAIN EvictionsIn(cfg.lru, s) :
        /\ EvictionsIn(cfg.lru, s)[i] = t
        /\ EvictionsIn(cfg.lru, u) = IF cfg.lru
                                     THEN Policy!Moved(EvictionsIn(cfg.lru, s), i)
                                     ELSE EvictionsIn(cfg.lru, s)
  BY <1>1, <1>2, <1>4, <1>6, TouchedMoves
<1>9. PICK i \in DOMAIN Queues[j] :
        /\ Queues[j][i] = t
        /\ EvictionsIn(cfg.lru, r) = IF cfg.lru THEN Policy!Moved(Queues[j], i) ELSE Queues[j]
  BY <1>3, <1>8
<1>10. Queues' = IF cfg.lru THEN [Queues EXCEPT ![j] = Policy!Moved(Queues[j], i)] ELSE Queues
  BY <1>5, <1>9 DEF Queues
<1>11. Policy!Hit(j, t)
  BY <1>9, <1>10 DEF Policy!Hit
<1> QED
  BY <1>3, <1>5, <1>7, <1>11 DEF n

LEMMA AccessIsPolicy ==
  ASSUME NoOverflow, GInv, TInv', NEW a \in Addresses, Access(a)
  PROVE  GInv' /\ (Policy!Next \/ UNCHANGED Policy!vars)
<1> DEFINE j == ReadIndex(a)
           t == ReadTag(a)
<1>1. CInv /\ TInv /\ CountersOK /\ status = "run" /\ UNCHANGED cfg
      /\ Accesses < MaxAccesses /\ ~Refused(cfg) /\ FieldsFit(cfg)
  BY DEF GInv, TInv, CInv, Access, Accesses, NoOverflow
<1>2. t \in Tags
  BY <1>1, TagIsTag
<1>3. j \in Index /\ cfg.num_sets > 0
  <2>1. j \in 0 .. cfg.num_sets - 1
    BY <1>1, IndexIsSet
  <2> QED
    BY <1>1, <2>1, ConfigIs DEF Index
<1>4. j = Policy!SetOf(a) /\ t = Policy!TagOf(a)
  BY <1>1, AddressParts DEF Policy!SetOf, Policy!TagOf, Policy!Block
<1>5. \/ LoadHit(j, t) \/ LoadMiss(j, t)
      \/ StoreThrough(j, t) \/ StoreBack(j, t)
      \/ StoreAllocate(j, t) \/ StoreAround(j, t)
  BY DEF Access
<1>6. /\ MemoryCycles = Policy!Transfer /\ MemoryCycles \in Nat
      /\ 1 + MemoryCycles + MemoryCycles <= PerAccess /\ 101 <= PerAccess
      /\ PerAccess \in Nat
  BY <1>1, TransferIs, ConfigIs
<1>7. ASSUME Policy!Load(a) \/ Policy!Store(a) PROVE Policy!Next
  BY <1>1, <1>3, <1>7 DEF Policy!Next
<1> HIDE DEF j, t
<1>8. CASE LoadHit(j, t)
  <2>1. /\ Cached(j, t) /\ Count("total_loads", "load_hits", 1) /\ status' = "run"
        /\ sets' = [sets EXCEPT ![j] = Touched(sets[j], t)]
    BY <1>1, <1>8 DEF LoadHit
  <2>2. PICK u : u = Touched(sets[j], t)
    OBVIOUS
  <2>3. /\ Policy!Hit(j, t) /\ Good(u, cfg.num_blocks)
        /\ ToWriteBack' = [ToWriteBack EXCEPT ![j] = DirtyTags(u)]
        /\ DirtyTags(u) = ToWriteBack[j]
    BY <1>1, <1>3, <2>1, <2>2, TouchIsHit
  <2>4. ToWriteBack' = ToWriteBack
    BY <2>3 DEF ToWriteBack
  <2>5. stats' = Policy!Counted("total_loads", "load_hits", 1) /\ CountersOK'
    BY <1>1, <1>6, <2>1, CountsAsSaid
  <2>6. Policy!Load(a)
    BY <1>4, <2>3, <2>4, <2>5 DEF Policy!Load
  <2>7. OneGood(j, u)
    BY <1>1, <2>1, <2>2, <2>3, <2>5 DEF OneGood
  <2> QED
    BY <1>1, <1>3, <1>7, <2>6, <2>7, OneGoodKeeps
<1>9. CASE StoreThrough(j, t)
  <2>1. /\ Cached(j, t) /\ Count("total_stores", "store_hits", 101) /\ status' = "run"
        /\ sets' = [sets EXCEPT ![j] = Touched(sets[j], t)] /\ cfg.write
    BY <1>1, <1>9 DEF StoreThrough
  <2>2. PICK u : u = Touched(sets[j], t)
    OBVIOUS
  <2>3. /\ Policy!Hit(j, t) /\ Good(u, cfg.num_blocks)
        /\ ToWriteBack' = [ToWriteBack EXCEPT ![j] = DirtyTags(u)]
        /\ DirtyTags(u) = ToWriteBack[j]
    BY <1>1, <1>3, <2>1, <2>2, TouchIsHit
  <2>4. ToWriteBack' = ToWriteBack
    BY <2>3 DEF ToWriteBack
  <2>5. stats' = Policy!Counted("total_stores", "store_hits", 101) /\ CountersOK'
    BY <1>1, <1>6, <2>1, CountsAsSaid
  <2>6. Policy!Store(a)
    BY <1>4, <2>1, <2>3, <2>4, <2>5 DEF Policy!Store
  <2>7. OneGood(j, u)
    BY <1>1, <2>1, <2>2, <2>3, <2>5 DEF OneGood
  <2> QED
    BY <1>1, <1>3, <1>7, <2>6, <2>7, OneGoodKeeps
<1>10. CASE StoreBack(j, t)
  <2>1. PICK u : u = Touched(sets[j], t)
    OBVIOUS
  <2>2. PICK r : r = Stored(u, t)
    OBVIOUS
  <2>3. /\ Cached(j, t) /\ Count("total_stores", "store_hits", 1) /\ status' = "run"
        /\ sets' = [sets EXCEPT ![j] = r] /\ ~cfg.write
    BY <1>1, <1>10, <2>1, <2>2 DEF StoreBack, Stored
  <2>4. /\ Good(r, cfg.num_blocks) /\ DirtyTags(r) = DirtyTags(u) \cup {t}
        /\ EvictionsIn(cfg.lru, r) = EvictionsIn(cfg.lru, u)
    <3>1. /\ Good(sets[j], cfg.num_blocks) /\ cfg.lru \in BOOLEAN /\ cfg.num_blocks \in Nat
          /\ sets[j].timestamp + 1 < Word /\ t \in DOMAIN sets[j].tagIndex
      <4>1. sets[j].timestamp <= Accesses /\ sets[j].timestamp \in Nat
        BY <1>3 DEF GInv, TInv, InTime, Good, Sound, SetOK
      <4>2. Accesses \in Nat /\ MaxAccesses \in Nat /\ Word \in Nat /\ MaxAccesses < Word
        BY WordAssumption DEF GInv, TInv, Accesses, NoOverflow
      <4> QED
        BY <1>1, <1>3, <2>3, <4>1, <4>2, ConfigIs DEF GInv, Cached
    <3>2. Good(u, cfg.num_blocks) /\ t \in DOMAIN u.tagIndex
      BY <2>1, <3>1, TouchedMoves
    <3> QED
      BY <2>2, <3>1, <3>2, DirtyStays
  <2>5. /\ Policy!Hit(j, t)
        /\ ToWriteBack' = [ToWriteBack EXCEPT ![j] = DirtyTags(r)]
        /\ DirtyTags(u) = ToWriteBack[j]
    <3>1. Policy!Hit(j, t)
      BY <1>1, <1>3, <2>1, <2>3, <2>4, TouchIsHit
    <3>2. ToWriteBack' = [ToWriteBack EXCEPT ![j] = DirtyTags(r)]
      BY <1>1, <1>3, <2>3, OneQueue
    <3>3. DirtyTags(u) = ToWriteBack[j]
      BY <1>1, <1>3, <2>1, <2>3, <2>4, TouchIsHit
    <3> QED
      BY <3>1, <3>2, <3>3
  <2>6. ToWriteBack' = [ToWriteBack EXCEPT ![j] = ToWriteBack[j] \cup {t}]
    BY <2>4, <2>5
  <2>7. stats' = Policy!Counted("total_stores", "store_hits", 1) /\ CountersOK'
    BY <1>1, <1>6, <2>3, CountsAsSaid
  <2>8. Policy!Store(a)
    BY <1>4, <2>3, <2>5, <2>6, <2>7 DEF Policy!Store
  <2>9. OneGood(j, r)
    BY <1>1, <2>3, <2>4, <2>7 DEF OneGood
  <2> QED
    BY <1>1, <1>3, <1>7, <2>8, <2>9, OneGoodKeeps
<1>11. CASE LoadMiss(j, t)
  <2>1. ~Cached(j, t) /\ Place(j, t, "total_loads", "load_misses", MemoryCycles)
    BY <1>11 DEF LoadMiss
  <2>2. CASE UNCHANGED <<sets, stats>> /\ status' = "undefined"
    <3> QED
      BY <1>1, <2>2, UndefinedStutters
  <2>3. CASE /\ Policy!Miss(j, t, "total_loads", "load_misses", MemoryCycles)
             /\ \E r : OneGood(j, r)
    <3>1. Policy!Load(a)
      BY <1>4, <1>6, <2>3 DEF Policy!Load
    <3> QED
      BY <1>1, <1>3, <1>7, <2>3, <3>1, OneGoodKeeps
  <2>4. MemoryCycles + MemoryCycles <= PerAccess
    BY <1>6
  <2> QED
    BY <1>1, <1>2, <1>3, <1>6, <2>1, <2>2, <2>3, <2>4, PlaceIsMiss
<1>12. CASE StoreAllocate(j, t)
  <2>1. /\ ~Cached(j, t) /\ Place(j, t, "total_stores", "store_misses", 1 + MemoryCycles)
        /\ cfg.allocation
    BY <1>12 DEF StoreAllocate
  <2>2. CASE UNCHANGED <<sets, stats>> /\ status' = "undefined"
    BY <1>1, <2>2, UndefinedStutters
  <2>3. CASE /\ Policy!Miss(j, t, "total_stores", "store_misses", 1 + MemoryCycles)
             /\ \E r : OneGood(j, r)
    <3>1. Policy!Store(a)
      BY <1>4, <1>6, <2>1, <2>3 DEF Policy!Store
    <3> QED
      BY <1>1, <1>3, <1>7, <2>3, <3>1, OneGoodKeeps
  <2>4. 1 + MemoryCycles \in Nat /\ (1 + MemoryCycles) + MemoryCycles <= PerAccess
    BY <1>6
  <2> QED
    BY <1>1, <1>2, <1>3, <2>1, <2>2, <2>3, <2>4, PlaceIsMiss
<1>13. CASE StoreAround(j, t)
  <2>1. /\ ~Cached(j, t) /\ Count("total_stores", "store_misses", 100) /\ status' = "run"
        /\ UNCHANGED sets /\ ~cfg.allocation
    BY <1>1, <1>13 DEF StoreAround
  <2>2. Index' = Index
    BY <1>1, <2>1 DEF Index
  <2>3. Queues' = Queues /\ ToWriteBack' = ToWriteBack
    BY <1>1, <2>1, <2>2, SameQueues
  <2>4. stats' = Policy!Counted("total_stores", "store_misses", 100) /\ CountersOK'
    BY <1>1, <1>6, <2>1, CountsAsSaid
  <2>5. \A k \in DOMAIN Queues[j] : Queues[j][k] # t
    BY <1>3, <2>1, CachedIsQueued
  <2>6. Policy!Store(a)
    BY <1>4, <2>1, <2>3, <2>4, <2>5 DEF Policy!Store
  <2>7. \A i \in Index' : Good(sets[i], cfg.num_blocks)'
    BY <1>1, <2>1, <2>2, GoodNext DEF GInv
  <2> QED
    BY <1>7, <2>4, <2>6, <2>7 DEF GInv
<1> QED
  BY <1>5, <1>8, <1>9, <1>10, <1>11, <1>12, <1>13
\* The command line is refused, or the cache begins with empty sets.
LEMMA HandleErrorIsPolicy ==
  ASSUME GInv, TInv', HandleError
  PROVE  GInv' /\ UNCHANGED Policy!vars
<1>1. status = "args" /\ Index = {} /\ UNCHANGED <<cfg, stats>> /\ CInv
  BY DEF HandleError, Index, GInv, TInv
<1>2. CASE Refused(cfg)
  <2>1. status' = "refused" /\ UNCHANGED sets
    BY <1>2 DEF HandleError
  <2>2. Index' = Index
    BY <1>1, <2>1 DEF Index
  <2> QED
    BY <1>1, <2>1, <2>2, NothingHappens
<1>3. CASE ~Refused(cfg)
  <2>1. status' = "run" /\ sets' = CacheInitialize
    BY <1>3 DEF HandleError
  <2>2. Index' = 0 .. cfg.num_sets - 1
    BY <1>1, <2>1 DEF Index
  <2>3. ASSUME NEW j \in 0 .. cfg.num_sets - 1
        PROVE  /\ Good(sets'[j], cfg.num_blocks)
               /\ EvictionsIn(cfg.lru, sets'[j]) = <<>> /\ DirtyTags(sets'[j]) = {}
    <3>1. sets'[j] = [blocks |-> [k \in 0 .. cfg.num_blocks - 1 |-> NoBlock],
                      tagIndex |-> [t \in {} |-> 0], timestamp |-> 0]
      BY <2>1 DEF CacheInitialize
    <3>2. cfg.num_blocks \in Nat /\ cfg.lru \in BOOLEAN
      BY <1>1, ConfigIs
    <3>3. EmptyQueue(sets'[j], cfg.num_blocks)
      BY <3>1, <3>2, EmptyIsGood
    <3> QED
      BY <3>3 DEF EmptyQueue
  <2>4. /\ Queues' = [j \in 0 .. cfg.num_sets - 1 |-> <<>>]
        /\ ToWriteBack' = [j \in 0 .. cfg.num_sets - 1 |-> {}]
    BY <1>1, <2>2, <2>3, QueuesNext
  <2>5. /\ Queues = [j \in 0 .. cfg.num_sets - 1 |-> <<>>]
        /\ ToWriteBack = [j \in 0 .. cfg.num_sets - 1 |-> {}]
    BY <1>1 DEF Queues, ToWriteBack
  <2>6. \A j \in Index' : Good(sets[j], cfg.num_blocks)'
    BY <1>1, <2>2, <2>3, GoodNext
  <2>7. CountersOK'
    BY <1>1 DEF GInv, CountersOK, Accesses, PerAccess
  <2> QED
    BY <1>1, <2>4, <2>5, <2>6, <2>7 DEF GInv, Policy!vars
<1> QED
  BY <1>2, <1>3

LEMMA EndIsPolicy ==
  ASSUME GInv, TInv', End
  PROVE  GInv' /\ UNCHANGED Policy!vars
<1>1. Index' = Index /\ UNCHANGED <<cfg, sets, stats>>
  BY DEF End, Index
<1> QED
  BY <1>1, NothingHappens

\* The times in the blocks make each set a queue: for every command line and
\* every trace short enough for the times and the counters not to wrap, the
\* blocks cache_load and cache_store evict, the hits, the misses and the cycles
\* are those of a queue of blocks, least recently used or first loaded first.
THEOREM BlocksAreQueues ==
  ASSUME NoOverflow
  PROVE  Spec => ImplementsPolicy
<1>1. Init => GInv /\ Policy!Init
  <2> SUFFICES ASSUME Init PROVE GInv /\ Policy!Init
    OBVIOUS
  <2>1. TInv /\ Index = {} /\ stats = NoStats /\ cfg \in Configs
    BY TStart DEF Init, Index
  <2>2. CInv /\ PerAccess \in Nat
    BY <2>1, ConfigIs DEF TInv
  <2>3. CountersOK
    <3>1. \A f \in Counters : stats[f] = 0
      BY <2>1 DEF NoStats, Counters
    <3>2. Accesses = 0 /\ stats.total_cycles = 0
      BY <2>1 DEF NoStats, Accesses
    <3>3. 0 * PerAccess = 0
      BY <2>2
    <3> QED
      BY <3>1, <3>2, <3>3 DEF CountersOK
  <2>4. GInv
    BY <2>1, <2>3 DEF GInv
  <2>5. Policy!Init
    BY <2>1 DEF Policy!Init, Queues, ToWriteBack, NoStats
  <2> QED
    BY <2>4, <2>5
<1>2. GInv /\ [Next]_vars => GInv' /\ [Policy!Next]_Policy!vars
  <2> SUFFICES ASSUME GInv, [Next]_vars PROVE GInv' /\ (Policy!Next \/ UNCHANGED Policy!vars)
    OBVIOUS
  <2>1. TInv'
    BY TNext DEF GInv, NoOverflow
  <2>2. CASE HandleError
    BY <2>1, <2>2, HandleErrorIsPolicy
  <2>3. CASE End
    BY <2>1, <2>3, EndIsPolicy
  <2>4. CASE \E a \in Addresses : Access(a)
    BY <2>1, <2>4, AccessIsPolicy
  <2>5. CASE UNCHANGED vars
    <3>1. UNCHANGED <<cfg, sets, stats>> /\ Index' = Index
      BY <2>5 DEF vars, Index
    <3> QED
      BY <2>1, <3>1, NothingHappens
  <2> QED
    BY <2>2, <2>3, <2>4, <2>5 DEF Next
<1> QED
  BY <1>1, <1>2, PTL DEF Spec, ImplementsPolicy, Policy!Spec

==============================================================================
