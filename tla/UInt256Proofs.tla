---------------------------- MODULE UInt256Proofs ----------------------------
(***************************************************************************)
(* The arithmetic of uint256.c for every number of limbs and every width   *)
(* of a limb: when each operation is exact, and when it is not; and when a *)
(* string of digits and a number stand for each other.  The last part is   *)
(* about the hex dump of HexDump: it rests on the same lemmas.             *)
(***************************************************************************)
EXTENDS UInt256, HexDump, SequenceTheorems, WellFoundedInduction, TLAPS

------------------------------------------------------------------------------
(* Induction and recursion on numbers *)

\* A set of numbers has a least one.
LEMMA LeastNat ==
  ASSUME NEW T, T \subseteq Nat, T # {}
  PROVE  \E n \in T : \A m \in T : n <= m
<1> DEFINE R == OpToRel(<, Nat)
<1>1. IsWellFoundedOn(R, Nat)
  BY NatLessThanWellFounded
<1>2. \A x, y \in Nat : <<x, y>> \in R <=> x < y
  BY DEF OpToRel
<1> HIDE DEF R
<1>3. PICK n \in T : \A m \in T : ~(<<m, n>> \in R)
  BY <1>1, WFMin
<1>4. n \in Nat /\ \A m \in T : m \in Nat
  BY <1>3
<1>5. \A m \in T : ~(m < n)
  BY <1>2, <1>3, <1>4
<1> QED
  BY <1>3, <1>4, <1>5

LEMMA SetInduction ==
  ASSUME NEW S, 0 \in S, \A n \in Nat : n \in S => n + 1 \in S
  PROVE  \A n \in Nat : n \in S
<1> SUFFICES ASSUME Nat \ S # {} PROVE FALSE
  OBVIOUS
<1>1. PICK n \in Nat \ S : \A m \in Nat \ S : n <= m
  BY LeastNat
<1>2. n # 0 /\ n - 1 \in Nat /\ (n - 1) + 1 = n /\ ~(n <= n - 1)
  BY <1>1
<1>3. n - 1 \in S
  BY <1>1, <1>2
<1> QED
  BY <1>1, <1>2, <1>3

\* f begins with z and goes on with the steps g up to n.
Recursion(f, V, z, g, n) ==
  /\ f \in [0 .. n -> V]
  /\ f[0] = z
  /\ \A k \in 1 .. n : f[k] = g[k - 1][f[k - 1]]

\* A recursive function exists, whatever it computes.
LEMMA RecursionExists ==
  ASSUME NEW V, NEW z \in V, NEW N \in Nat, NEW g \in [0 .. N - 1 -> [V -> V]]
  PROVE  \E f : Recursion(f, V, z, g, N)
<1> DEFINE S == {m \in Nat : m <= N => \E f : Recursion(f, V, z, g, m)}
<1>1. 0 \in S
  <2>1. Recursion([k \in 0 .. 0 |-> z], V, z, g, 0)
    BY DEF Recursion
  <2> QED
    BY <2>1
<1>2. ASSUME NEW m \in Nat, m \in S PROVE m + 1 \in S
  <2> SUFFICES ASSUME m + 1 <= N PROVE \E f : Recursion(f, V, z, g, m + 1)
    OBVIOUS
  <2>1. PICK f : Recursion(f, V, z, g, m)
    BY <1>2
  <2> DEFINE h == [k \in 0 .. m + 1 |-> IF k = m + 1 THEN g[m][f[m]] ELSE f[k]]
  <2>2. m \in 0 .. N - 1 /\ f[m] \in V
    BY <2>1 DEF Recursion
  <2>3. g[m][f[m]] \in V
    BY <2>2
  <2>4. \A k \in 0 .. m : f[k] \in V
    BY <2>1 DEF Recursion
  <2>5. h \in [0 .. m + 1 -> V]
    BY <2>3, <2>4
  <2>6. h[0] = z
    BY <2>1 DEF Recursion
  <2>7. ASSUME NEW k \in 1 .. m + 1 PROVE h[k] = g[k - 1][h[k - 1]]
    <3>1. k \in 0 .. m + 1 /\ k - 1 \in 0 .. m + 1 /\ k - 1 # m + 1
      OBVIOUS
    <3>2. h[k - 1] = f[k - 1]
      BY <3>1
    <3>3. CASE k = m + 1
      BY <3>1, <3>2, <3>3
    <3>4. CASE k # m + 1
      <4>1. k \in 1 .. m
        BY <3>4
      <4>2. f[k] = g[k - 1][f[k - 1]]
        BY <2>1, <4>1 DEF Recursion
      <4>3. h[k] = f[k]
        BY <3>1, <3>4
      <4> QED
        BY <3>2, <4>2, <4>3
    <3> QED
      BY <3>3, <3>4
  <2>8. Recursion(h, V, z, g, m + 1)
    BY <2>5, <2>6, <2>7 DEF Recursion
  <2> QED
    BY <2>8
<1>3. N \in S
  <2> HIDE DEF S
  <2> QED
    BY <1>1, <1>2, SetInduction
<1> QED
  BY <1>3

------------------------------------------------------------------------------
(* One limb *)

\* A limb's sum fits a limb, and nothing is lost but multiples of the base.
LEMMA LimbSumFits ==
  ASSUME NEW a \in Limb, NEW b \in Limb, NEW c \in {0, 1}
  PROVE  /\ LimbSum(a, b, c) \in Limb
         /\ \/ a + b + c = LimbSum(a, b, c) /\ a + b + c < Base
            \/ a + b + c = LimbSum(a, b, c) + Base
<1>1. Base \in Nat /\ Base > 1
  BY WidthAssumption
<1>2. CASE a + b + c < Base
  BY <1>1, <1>2 DEF LimbSum, Limb
<1>3. CASE ~(a + b + c < Base)
  <2>1. a + b + c - Base \in 0 .. Base - 1
    BY <1>1, <1>3 DEF Limb
  <2>. QED BY <1>1, <1>3, <2>1 DEF LimbSum, Limb
<1>. QED BY <1>2, <1>3

\* uint256.c:122-128: the test of the sum against the operands finds the carry
\* in every case but one, two limbs of all ones with a carry coming in.  The
\* one case is a carry it does not find.
THEOREM CarryFoundExactly ==
  ASSUME NEW a \in Limb, NEW b \in Limb, NEW c \in {0, 1}
  PROVE  a + b + c = LimbSum(a, b, c) + Base * CarryOut(a, b, c)
           <=> ~(a = Base - 1 /\ b = Base - 1 /\ c = 1)
<1>1. Base \in Nat /\ Base > 1
  BY WidthAssumption
<1>. DEFINE s == LimbSum(a, b, c)
            lost == a = Base - 1 /\ b = Base - 1 /\ c = 1
<1>2. /\ s \in 0 .. Base - 1
      /\ (a + b + c = s /\ a + b + c < Base) \/ a + b + c = s + Base
  BY LimbSumFits DEF Limb
<1>3. a \in 0 .. Base - 1 /\ b \in 0 .. Base - 1 /\ c \in 0 .. 1
  BY DEF Limb
<1>. HIDE DEF s
<1>4. CASE s < a \/ s < b
  <2>1. CarryOut(a, b, c) = 1
    BY <1>4 DEF CarryOut, s
  <2>2. a + b + c = s + Base
    BY <1>1, <1>2, <1>3, <1>4
  <2>3. ~lost
    BY <1>1, <1>2, <1>3, <1>4, <2>2
  <2>. QED BY <1>1, <1>2, <1>3, <2>1, <2>2, <2>3 DEF s
<1>5. CASE ~(s < a \/ s < b)
  <2>1. CarryOut(a, b, c) = 0
    BY <1>5 DEF CarryOut, s
  <2>2. a + b + c = s <=> ~lost
    BY <1>1, <1>2, <1>3, <1>5
  <2>. QED BY <1>1, <1>2, <1>3, <2>1, <2>2 DEF s
<1>. QED BY <1>4, <1>5

------------------------------------------------------------------------------
(* What the recursive functions of UInt256 are *)

\* A product of positive numbers is positive.
LEMMA ProductIsPositive ==
  ASSUME NEW a \in Nat \ {0}, NEW b \in Nat \ {0} PROVE a * b \in Nat \ {0}
  OBVIOUS

LEMMA BitIs ==
  /\ Bit \in [0 .. Width -> Nat \ {0}]
  /\ Bit[0] = 1
  /\ \A k \in 1 .. Width : Bit[k] = 2 * Bit[k - 1]
<1>0. Width \in Nat
  BY WidthAssumption DEF Width
<1> DEFINE V == Nat \ {0}
           g == [k \in 0 .. Width - 1 |-> [v \in V |-> 2 * v]]
<1>1. 1 \in V /\ g \in [0 .. Width - 1 -> [V -> V]]
  OBVIOUS
<1>2. PICK f : Recursion(f, V, 1, g, Width)
  <2> HIDE DEF V, g
  <2> QED
    BY <1>0, <1>1, RecursionExists
<1>3. ASSUME NEW k \in 1 .. Width PROVE f[k] = 2 * f[k - 1]
  <2>1. k - 1 \in 0 .. Width - 1 /\ k - 1 \in 0 .. Width
    BY <1>0
  <2>2. f[k - 1] \in V
    BY <1>2, <2>1 DEF Recursion
  <2>3. f[k] = g[k - 1][f[k - 1]]
    BY <1>2 DEF Recursion
  <2> QED
    BY <2>1, <2>2, <2>3
<1>4. f \in [0 .. Width -> V] /\ f[0] = 1
  BY <1>2 DEF Recursion
<1>5. f = [n \in 0 .. Width |-> IF n = 0 THEN 1 ELSE 2 * f[n - 1]]
  BY <1>0, <1>3, <1>4
<1>6. Bit = [n \in 0 .. Width |-> IF n = 0 THEN 1 ELSE 2 * Bit[n - 1]]
  BY <1>5, Zenon DEF Bit
<1>7. Bit[0] = 1
  BY <1>0, <1>6
<1>8. \A k \in 1 .. Width : Bit[k] = 2 * Bit[k - 1]
  BY <1>0, <1>6
<1>9. \A k \in 0 .. Width : Bit[k] \in V
  <2> DEFINE S == {k \in Nat : k <= Width => Bit[k] \in V}
  <2>1. 0 \in S
    BY <1>7
  <2>2. ASSUME NEW k \in Nat, k \in S PROVE k + 1 \in S
    <3> SUFFICES ASSUME k + 1 <= Width PROVE Bit[k + 1] \in V
      OBVIOUS
    <3>1. k + 1 \in 1 .. Width /\ (k + 1) - 1 = k /\ k <= Width
      BY <1>0
    <3>2. Bit[k] \in V /\ Bit[k + 1] = 2 * Bit[k]
      BY <1>8, <2>2, <3>1
    <3> QED
      BY <3>2
  <2>3. \A k \in Nat : k \in S
    <3> HIDE DEF S
    <3> QED
      BY <2>1, <2>2, SetInduction
  <2> QED
    BY <2>3
<1>10. Bit \in [0 .. Width -> V]
  BY <1>6, <1>9
<1> QED
  BY <1>7, <1>8, <1>10

LEMMA WeightIs ==
  /\ Weight \in [0 .. Limbs -> Nat \ {0}]
  /\ Weight[0] = 1
  /\ \A k \in 1 .. Limbs : Weight[k] = Base * Weight[k - 1]
<1>0. Limbs \in Nat /\ Base \in Nat \ {0}
  BY WidthAssumption
<1> DEFINE V == Nat \ {0}
           g == [k \in 0 .. Limbs - 1 |-> [v \in V |-> Base * v]]
<1>1. 1 \in V /\ g \in [0 .. Limbs - 1 -> [V -> V]]
  BY <1>0, ProductIsPositive
<1>2. PICK f : Recursion(f, V, 1, g, Limbs)
  <2> HIDE DEF V, g
  <2> QED
    BY <1>0, <1>1, RecursionExists
<1>3. ASSUME NEW k \in 1 .. Limbs PROVE f[k] = Base * f[k - 1]
  <2>1. k - 1 \in 0 .. Limbs - 1 /\ k - 1 \in 0 .. Limbs
    BY <1>0
  <2>2. f[k - 1] \in V
    BY <1>2, <2>1 DEF Recursion
  <2>3. f[k] = g[k - 1][f[k - 1]]
    BY <1>2 DEF Recursion
  <2> QED
    BY <2>1, <2>2, <2>3
<1>4. f \in [0 .. Limbs -> V] /\ f[0] = 1
  BY <1>2 DEF Recursion
<1>5. f = [k \in 0 .. Limbs |-> IF k = 0 THEN 1 ELSE Base * f[k - 1]]
  BY <1>0, <1>3, <1>4
<1>6. Weight = [k \in 0 .. Limbs |-> IF k = 0 THEN 1 ELSE Base * Weight[k - 1]]
  BY <1>5, Zenon DEF Weight
<1>7. Weight[0] = 1
  BY <1>0, <1>6
<1>8. \A k \in 1 .. Limbs : Weight[k] = Base * Weight[k - 1]
  BY <1>0, <1>6
<1>9. \A k \in 0 .. Limbs : Weight[k] \in V
  <2> DEFINE S == {k \in Nat : k <= Limbs => Weight[k] \in V}
  <2>1. 0 \in S
    BY <1>7
  <2>2. ASSUME NEW k \in Nat, k \in S PROVE k + 1 \in S
    <3> SUFFICES ASSUME k + 1 <= Limbs PROVE Weight[k + 1] \in V
      OBVIOUS
    <3>1. k + 1 \in 1 .. Limbs /\ (k + 1) - 1 = k /\ k <= Limbs
      BY <1>0
    <3>2. Weight[k] \in V /\ Weight[k + 1] = Base * Weight[k]
      BY <1>8, <2>2, <3>1
    <3> QED
      BY <1>0, <3>2, ProductIsPositive
  <2>3. \A k \in Nat : k \in S
    <3> HIDE DEF S
    <3> QED
      BY <2>1, <2>2, SetInduction
  <2> QED
    BY <2>3
<1>10. Weight \in [0 .. Limbs -> V]
  BY <1>6, <1>9
<1> QED
  BY <1>7, <1>8, <1>10

\* f has the values of the first k limbs of x.
Prefixes(f, x) ==
  /\ f \in [0 .. Limbs -> Nat]
  /\ f[0] = 0
  /\ \A k \in 1 .. Limbs : f[k] = f[k - 1] + x[k - 1] * Weight[k - 1]

LEMMA ValueIs ==
  ASSUME NEW x \in UInt
  PROVE  \E f : Prefixes(f, x) /\ Value(x) = f[Limbs]
<1>0. Limbs \in Nat
  BY WidthAssumption
<1> DEFINE g == [k \in 0 .. Limbs - 1 |-> [v \in Nat |-> v + x[k] * Weight[k]]]
<1>1. g \in [0 .. Limbs - 1 -> [Nat -> Nat]]
  <2> SUFFICES ASSUME NEW k \in 0 .. Limbs - 1, NEW v \in Nat
               PROVE  v + x[k] * Weight[k] \in Nat
    OBVIOUS
  <2>1. x[k] \in Nat /\ Weight[k] \in Nat
    <3>1. k \in 0 .. Limbs
      BY <1>0
    <3>2. x[k] \in 0 .. Base - 1
      BY DEF UInt, Limb
    <3> QED
      BY <3>1, <3>2, WeightIs
  <2> QED
    BY <2>1
<1>2. PICK f : Recursion(f, Nat, 0, g, Limbs)
  <2> HIDE DEF g
  <2> QED
    BY <1>0, <1>1, RecursionExists
<1>3. ASSUME NEW k \in 1 .. Limbs
      PROVE  f[k] = f[k - 1] + x[k - 1] * Weight[k - 1]
  <2>1. k - 1 \in 0 .. Limbs - 1 /\ k - 1 \in 0 .. Limbs
    BY <1>0
  <2>2. f[k - 1] \in Nat
    BY <1>2, <2>1 DEF Recursion
  <2>3. f[k] = g[k - 1][f[k - 1]]
    BY <1>2 DEF Recursion
  <2> QED
    BY <2>1, <2>2, <2>3
<1>4. f \in [0 .. Limbs -> Nat] /\ f[0] = 0
  BY <1>2 DEF Recursion
<1>5. f = [k \in 0 .. Limbs |-> IF k = 0 THEN 0 ELSE f[k - 1] + x[k - 1] * Weight[k - 1]]
  BY <1>0, <1>3, <1>4
<1>6. PICK h : /\ h = [k \in 0 .. Limbs |->
                         IF k = 0 THEN 0 ELSE h[k - 1] + x[k - 1] * Weight[k - 1]]
               /\ Value(x) = h[Limbs]
  BY <1>5, Zenon DEF Value
<1>7. h[0] = 0 /\ \A k \in 1 .. Limbs : h[k] = h[k - 1] + x[k - 1] * Weight[k - 1]
  <2>1. h[0] = 0
    BY <1>0, <1>6
  <2>2. ASSUME NEW k \in 1 .. Limbs
        PROVE  h[k] = h[k - 1] + x[k - 1] * Weight[k - 1]
    <3>1. k \in 0 .. Limbs /\ k # 0
      BY <1>0
    <3> HIDE DEF g
    <3> QED
      BY <1>6, <3>1
  <2> QED
    BY <2>1, <2>2
<1>8. \A k \in 0 .. Limbs : h[k] = f[k]
  <2> DEFINE S == {k \in Nat : k <= Limbs => h[k] = f[k]}
  <2>1. 0 \in S
    BY <1>4, <1>7
  <2>2. ASSUME NEW k \in Nat, k \in S PROVE k + 1 \in S
    <3> SUFFICES ASSUME k + 1 <= Limbs PROVE h[k + 1] = f[k + 1]
      OBVIOUS
    <3>1. k + 1 \in 1 .. Limbs /\ (k + 1) - 1 = k /\ k <= Limbs
      BY <1>0
    <3>2. h[k] = f[k]
      BY <2>2, <3>1
    <3>3. f[k + 1] = f[k] + x[k] * Weight[k] /\ h[k + 1] = h[k] + x[k] * Weight[k]
      BY <1>3, <1>7, <3>1
    <3> QED
      BY <3>2, <3>3
  <2>3. \A k \in Nat : k \in S
    <3> HIDE DEF S
    <3> QED
      BY <2>1, <2>2, SetInduction
  <2> QED
    BY <2>3
<1>9. Prefixes(f, x)
  BY <1>3, <1>4 DEF Prefixes
<1>10. Value(x) = f[Limbs]
  <2>1. Limbs \in 0 .. Limbs
    BY <1>0
  <2> QED
    BY <1>6, <1>8, <2>1
<1> QED
  BY <1>9, <1>10

------------------------------------------------------------------------------
(* Addition *)

LEMMA ProductsGrow ==
  ASSUME NEW a \in Nat, NEW b \in Nat, NEW c \in Nat, a <= b
  PROVE  a * c <= b * c /\ a * c \in Nat /\ b * c \in Nat
<1>1. PICK d \in Nat : b = a + d
  <2>1. b - a \in Nat /\ b = a + (b - a)
    OBVIOUS
  <2> QED
    BY <2>1
<1>2. b * c = a * c + d * c
  BY <1>1
<1>3. a * c \in Nat /\ d * c \in Nat
  BY <1>1
<1> QED
  BY <1>2, <1>3

LEMMA CarriesIs ==
  ASSUME NEW l \in UInt, NEW r \in UInt
  PROVE  /\ Carries(l, r) \in [0 .. Limbs -> {0, 1}]
         /\ Carries(l, r)[0] = 0
         /\ \A k \in 1 .. Limbs :
              Carries(l, r)[k] = CarryOut(l[k - 1], r[k - 1], Carries(l, r)[k - 1])
<1>0. Limbs \in Nat
  BY WidthAssumption
<1> DEFINE V == {0, 1}
           c == Carries(l, r)
           g == [k \in 0 .. Limbs - 1 |-> [v \in V |-> CarryOut(l[k], r[k], v)]]
<1>1. 0 \in V /\ g \in [0 .. Limbs - 1 -> [V -> V]]
  <2>1. \A k \in 0 .. Limbs - 1, v \in V : CarryOut(l[k], r[k], v) \in V
    BY DEF CarryOut
  <2> QED
    BY <2>1
<1>2. PICK f : Recursion(f, V, 0, g, Limbs)
  <2> HIDE DEF g, V
  <2> QED
    BY <1>0, <1>1, RecursionExists
<1>3. ASSUME NEW k \in 1 .. Limbs
      PROVE  f[k] = CarryOut(l[k - 1], r[k - 1], f[k - 1])
  <2>1. k - 1 \in 0 .. Limbs - 1 /\ k - 1 \in 0 .. Limbs
    BY <1>0
  <2>2. f[k - 1] \in V
    BY <1>2, <2>1 DEF Recursion
  <2>3. f[k] = g[k - 1][f[k - 1]]
    BY <1>2 DEF Recursion
  <2> QED
    BY <2>1, <2>2, <2>3
<1>4. f \in [0 .. Limbs -> V] /\ f[0] = 0
  BY <1>2 DEF Recursion
<1>5. f = [k \in 0 .. Limbs |->
             IF k = 0 THEN 0 ELSE CarryOut(l[k - 1], r[k - 1], f[k - 1])]
  BY <1>0, <1>3, <1>4
<1>6. c = [k \in 0 .. Limbs |->
             IF k = 0 THEN 0 ELSE CarryOut(l[k - 1], r[k - 1], c[k - 1])]
  BY <1>5, Zenon DEF Carries
<1> HIDE DEF c, g
<1>7. c[0] = 0
  BY <1>0, <1>6
<1>8. \A k \in 1 .. Limbs : c[k] = CarryOut(l[k - 1], r[k - 1], c[k - 1])
  BY <1>0, <1>6
<1>9. \A k \in 0 .. Limbs : c[k] \in V
  <2>1. ASSUME NEW k \in 0 .. Limbs PROVE c[k] \in V
    <3>1. CASE k = 0
      BY <1>7, <3>1
    <3>2. CASE k # 0
      <4>1. k \in 1 .. Limbs
        BY <1>0, <3>2
      <4>2. c[k] = CarryOut(l[k - 1], r[k - 1], c[k - 1])
        BY <1>8, <4>1
      <4> QED
        BY <4>2 DEF CarryOut
    <3> QED
      BY <3>1, <3>2
  <2> QED
    BY <2>1
<1>10. c \in [0 .. Limbs -> V]
  BY <1>6, <1>9
<1> QED
  BY <1>7, <1>8, <1>10 DEF c

LEMMA AddIs ==
  ASSUME NEW l \in UInt, NEW r \in UInt
  PROVE  /\ Add(l, r) \in UInt
         /\ \A k \in 0 .. Limbs - 1 :
              Add(l, r)[k] = LimbSum(l[k], r[k], Carries(l, r)[k])
<1>0. Limbs \in Nat
  BY WidthAssumption
<1> DEFINE c == Carries(l, r)
<1>1. Add(l, r) = [k \in 0 .. Limbs - 1 |-> LimbSum(l[k], r[k], c[k])]
  BY DEF Add
<1>2. c \in [0 .. Limbs -> {0, 1}]
  BY CarriesIs
<1> HIDE DEF c
<1>3. ASSUME NEW k \in 0 .. Limbs - 1 PROVE LimbSum(l[k], r[k], c[k]) \in Limb
  <2>1. k \in 0 .. Limbs
    BY <1>0
  <2>2. c[k] \in {0, 1}
    BY <1>2, <2>1
  <2>3. l[k] \in Limb /\ r[k] \in Limb
    BY DEF UInt
  <2> QED
    BY <2>2, <2>3, LimbSumFits
<1>4. Add(l, r) \in UInt
  BY <1>1, <1>3 DEF UInt
<1>5. \A k \in 0 .. Limbs - 1 : Add(l, r)[k] = LimbSum(l[k], r[k], c[k])
  BY <1>1
<1> QED
  BY <1>4, <1>5 DEF c

\* k limbs hold a number below the weight of the next one.
LEMMA PrefixIsBelow ==
  ASSUME NEW x \in UInt, NEW f, Prefixes(f, x), NEW n \in 0 .. Limbs
  PROVE  f[n] < Weight[n]
<1>0. Limbs \in Nat /\ Base \in Nat \ {0}
  BY WidthAssumption
<1> DEFINE S == {k \in Nat : k <= Limbs => f[k] < Weight[k]}
<1>1. 0 \in S
  BY WeightIs DEF Prefixes
<1>2. ASSUME NEW k \in Nat, k \in S PROVE k + 1 \in S
  <2> SUFFICES ASSUME k + 1 <= Limbs PROVE f[k + 1] < Weight[k + 1]
    OBVIOUS
  <2>1. k + 1 \in 1 .. Limbs /\ (k + 1) - 1 = k /\ k <= Limbs /\ k \in 0 .. Limbs - 1
        /\ k \in 0 .. Limbs /\ k + 1 \in 0 .. Limbs
    BY <1>0
  <2>2. f[k] < Weight[k]
    BY <1>2, <2>1
  <2>3. f[k + 1] = f[k] + x[k] * Weight[k] /\ Weight[k + 1] = Base * Weight[k]
    <3>1. f[k + 1] = f[(k + 1) - 1] + x[(k + 1) - 1] * Weight[(k + 1) - 1]
      BY <2>1 DEF Prefixes
    <3>2. Weight[k + 1] = Base * Weight[(k + 1) - 1]
      BY <2>1, WeightIs
    <3> QED
      BY <2>1, <3>1, <3>2
  <2>4. x[k] \in 0 .. Base - 1
    BY <2>1 DEF UInt, Limb
  <2>5. f[k] \in Nat /\ Weight[k] \in Nat /\ Base - 1 \in Nat
    BY <1>0, <2>1, WeightIs DEF Prefixes
  <2>6. x[k] \in Nat /\ x[k] <= Base - 1
    BY <1>0, <2>4
  <2> DEFINE w == Weight[k] v == x[k]
  <2> HIDE DEF w, v
  <2>7. v * w <= (Base - 1) * w /\ v * w \in Nat
    BY <2>5, <2>6, ProductsGrow DEF v, w
  <2>8. (Base - 1) * w = Base * w - w
    BY <1>0, <2>5 DEF w
  <2>9. Base * w \in Nat
    BY <1>0, <2>5 DEF w
  <2>10. f[k] < w /\ f[k] \in Nat /\ w \in Nat
    BY <2>2, <2>5 DEF w
  <2>11. f[k] + v * w < Base * w
    BY <2>7, <2>8, <2>9, <2>10
  <2> QED
    BY <2>3, <2>11 DEF v, w
<1>3. \A k \in Nat : k \in S
  <2> HIDE DEF S
  <2> QED
    BY <1>1, <1>2, SetInduction
<1> QED
  BY <1>0, <1>3

LEMMA ValueFits ==
  ASSUME NEW x \in UInt
  PROVE  Value(x) \in Nat /\ Modulus \in Nat \ {0} /\ Value(x) < Modulus
<1>1. PICK f : Prefixes(f, x) /\ Value(x) = f[Limbs]
  BY ValueIs
<1>2. Limbs \in 0 .. Limbs
  BY WidthAssumption
<1>3. f[Limbs] < Weight[Limbs]
  BY <1>1, <1>2, PrefixIsBelow
<1>4. f[Limbs] \in Nat /\ Weight[Limbs] \in Nat \ {0}
  BY <1>1, <1>2, WeightIs DEF Prefixes
<1> QED
  BY <1>1, <1>3, <1>4 DEF Modulus

\* A carry is lost below limb k.
LostBelow(l, r, k) ==
  \E j \in 0 .. k - 1 : l[j] = Base - 1 /\ r[j] = Base - 1 /\ Carries(l, r)[j] = 1

\* What is lost (e, d before) when one more limb, of weight w, is added.
LimbAdded(a, b, c, w, f, g, h, d) ==
  \E e \in Nat :
    /\ (f + a * w) + (g + b * w)
         = (h + LimbSum(a, b, c) * w) + CarryOut(a, b, c) * (Base * w) + e
    /\ e < 2 * (Base * w)
    /\ e = 0 <=> d = 0 /\ ~(a = Base - 1 /\ b = Base - 1 /\ c = 1)

LEMMA OneLimb ==
  ASSUME NEW a \in Limb, NEW b \in Limb, NEW c \in {0, 1}, NEW w \in Nat \ {0},
         NEW f \in Nat, NEW g \in Nat, NEW h \in Nat, NEW d \in Nat,
         f + g = h + c * w + d, d < 2 * w
  PROVE  LimbAdded(a, b, c, w, f, g, h, d)
<1> DEFINE s == LimbSum(a, b, c) t == CarryOut(a, b, c)
           lost == a = Base - 1 /\ b = Base - 1 /\ c = 1
<1>0. Base \in Nat /\ Base >= 2
  BY WidthAssumption
<1>1. a \in 0 .. Base - 1 /\ b \in 0 .. Base - 1 /\ s \in 0 .. Base - 1
  BY LimbSumFits DEF Limb
<1>2. t \in {0, 1}
  BY DEF CarryOut
<1>3. a + b + c = s + Base * t <=> ~lost
  BY CarryFoundExactly
<1>4. a + b + c = s \/ a + b + c = s + Base
  BY LimbSumFits
<1> HIDE DEF s, t
<1>5. PICK u \in Nat : u = Base * w
  BY <1>0
<1>6. u >= 2 * w
  <2>1. 2 * w <= Base * w
    BY <1>0, ProductsGrow
  <2> QED
    BY <1>5, <2>1
<1>7. f + a * w + (g + b * w) = h + (a + b + c) * w + d
  <2>1. (a + b + c) * w = a * w + b * w + c * w
    BY <1>0, <1>1
  <2>2. a * w \in Nat /\ b * w \in Nat /\ c * w \in Nat
    BY <1>0, <1>1
  <2> DEFINE x == a * w y == b * w z == c * w v == (a + b + c) * w
  <2>3. x \in Nat /\ y \in Nat /\ z \in Nat /\ v = x + y + z /\ f + g = h + z + d
    BY <2>1, <2>2
  <2> HIDE DEF x, y, z, v
  <2>4. f + x + (g + y) = h + v + d
    BY <2>3
  <2> QED
    BY <2>4 DEF x, y, v
<1>8. CASE ~lost
  <2>1. a + b + c = s + Base * t
    BY <1>3, <1>8
  <2>2. (s + Base * t) * w = s * w + t * u
    BY <1>0, <1>1, <1>2, <1>5
  <2>3. s * w \in Nat /\ t * u \in Nat
    BY <1>0, <1>1, <1>2, <1>5
  <2>4. f + a * w + (g + b * w) = (h + s * w) + t * u + d
    BY <1>7, <2>1, <2>2, <2>3
  <2>5. d < 2 * u
    BY <1>6
  <2>6. d = 0 <=> d = 0 /\ ~lost
    BY <1>8
  <2> HIDE DEF lost
  <2>7. \E e \in Nat : /\ f + a * w + (g + b * w) = (h + s * w) + t * u + e
                       /\ e < 2 * u
                       /\ e = 0 <=> d = 0 /\ ~lost
    BY <2>4, <2>5, <2>6
  <2> QED
    BY <1>5, <2>7 DEF s, t, lost, LimbAdded
<1>9. CASE lost
  <2>1. t = 0
    BY <1>0, <1>1, <1>2, <1>3, <1>4, <1>9
  <2>2. a + b + c = s + Base
    BY <1>0, <1>1, <1>2, <1>3, <1>4, <1>9, <2>1
  <2>3. (s + Base) * w = s * w + u
    BY <1>0, <1>1, <1>5
  <2>4. s * w \in Nat
    BY <1>0, <1>1
  <2>5. f + a * w + (g + b * w) = (h + s * w) + t * u + (d + u)
    BY <1>7, <2>1, <2>2, <2>3, <2>4
  <2>6. d + u < 2 * u /\ d + u \in Nat /\ d + u # 0
    BY <1>6, <1>5
  <2> HIDE DEF lost
  <2>7. \E e \in Nat : /\ f + a * w + (g + b * w) = (h + s * w) + t * u + e
                       /\ e < 2 * u
                       /\ e = 0 <=> d = 0 /\ ~lost
    BY <2>5, <2>6, <1>9
  <2> QED
    BY <1>5, <2>7 DEF s, t, lost, LimbAdded
<1> QED
  BY <1>8, <1>9

LEMMA Remainder ==
  ASSUME NEW a \in Nat, NEW m \in Nat \ {0}
  PROVE  /\ a % m \in 0 .. m - 1
         /\ a \div m \in Nat
         /\ a = ((a \div m) * m) + (a % m)
<1>1. a % m \in 0 .. m - 1
  OBVIOUS
<1>2. a \div m \in Nat
  OBVIOUS
<1>3. a = ((a \div m) * m) + (a % m)
  OBVIOUS
<1> QED
  BY <1>1, <1>2, <1>3

LEMMA Divide ==
  ASSUME NEW a \in Nat, NEW m \in Nat \ {0}
  PROVE  \E q \in Nat, r \in Nat : a = q * m + r /\ r = a % m /\ r \in 0 .. m - 1
<1> DEFINE q == a \div m r == a % m
<1>1. q \in Nat /\ r \in 0 .. m - 1 /\ a = q * m + r
  BY Remainder
<1>2. r = a % m
  OBVIOUS
<1> HIDE DEF q, r
<1> QED
  BY <1>1, <1>2

\* Quotient and remainder are the only ones there are.
LEMMA RemainderIs ==
  ASSUME NEW m \in Nat \ {0}, NEW q \in Nat, NEW r \in 0 .. m - 1
  PROVE  (q * m + r) % m = r /\ (q * m + r) \div m = q
<1> DEFINE a == q * m + r p == a \div m t == a % m
<1>1. a \in Nat
  <2>1. q * m \in Nat
    OBVIOUS
  <2> QED
    BY <2>1
<1>2. t \in 0 .. m - 1 /\ p \in Nat /\ a = p * m + t
  <2> HIDE DEF a
  <2> QED
    BY <1>1, Remainder
<1>3. q * m + r = p * m + t
  BY <1>2
<1> HIDE DEF p, t, a
<1>4. ~(p < q)
  <2> SUFFICES ASSUME p < q PROVE FALSE
    OBVIOUS
  <2>1. p + 1 <= q /\ p + 1 \in Nat
    BY <1>2
  <2>2. (p + 1) * m <= q * m
    BY <2>1, ProductsGrow
  <2>3. (p + 1) * m = p * m + m
    BY <1>2
  <2>4. p * m \in Nat /\ q * m \in Nat
    BY <1>2
  <2> QED
    BY <1>2, <1>3, <2>2, <2>3, <2>4
<1>5. ~(q < p)
  <2> SUFFICES ASSUME q < p PROVE FALSE
    OBVIOUS
  <2>1. q + 1 <= p /\ q + 1 \in Nat
    BY <1>2
  <2>2. (q + 1) * m <= p * m
    BY <1>2, <2>1, ProductsGrow
  <2>3. (q + 1) * m = q * m + m
    OBVIOUS
  <2>4. p * m \in Nat /\ q * m \in Nat
    BY <1>2
  <2> QED
    BY <1>2, <1>3, <2>2, <2>3, <2>4
<1>6. p = q
  BY <1>2, <1>4, <1>5
<1>7. p * m \in Nat /\ q * m = p * m
  BY <1>2, <1>6
<1>8. t = r
  BY <1>2, <1>3, <1>7
<1> QED
  BY <1>6, <1>8 DEF p, t, a

\* Multiples of the modulus do not count.
LEMMA ModMultiple ==
  ASSUME NEW m \in Nat \ {0}, NEW q \in Nat, NEW a \in Nat
  PROVE  (a + q * m) % m = a % m
<1>1. PICK p \in Nat, r \in 0 .. m - 1 : a = p * m + r /\ r = a % m
  BY Divide
<1>2. a + q * m = (p + q) * m + r
  <2>1. (p + q) * m = p * m + q * m
    OBVIOUS
  <2>2. p * m \in Nat /\ q * m \in Nat
    OBVIOUS
  <2> QED
    BY <1>1, <2>1, <2>2
<1>3. p + q \in Nat
  OBVIOUS
<1>4. ((p + q) * m + r) % m = r
  BY <1>3, RemainderIs
<1> QED
  BY <1>1, <1>2, <1>4

LEMMA ModSmall ==
  ASSUME NEW m \in Nat \ {0}, NEW a \in Nat, a < m
  PROVE  a % m = a
<1>1. a \in 0 .. m - 1 /\ 0 * m + a = a
  OBVIOUS
<1>2. (0 * m + a) % m = a
  BY <1>1, RemainderIs
<1> QED
  BY <1>1, <1>2

LEMMA ModOfSum ==
  ASSUME NEW m \in Nat \ {0}, NEW a \in Nat, NEW b \in Nat
  PROVE  ((a % m) + (b % m)) % m = (a + b) % m /\ (a + (b % m)) % m = (a + b) % m
<1>1. PICK p \in Nat, r \in Nat : a = p * m + r /\ r = a % m
  BY Divide
<1>2. PICK q \in Nat, s \in Nat : b = q * m + s /\ s = b % m
  BY Divide
<1>3. p * m \in Nat /\ q * m \in Nat /\ (p + q) * m = p * m + q * m
  OBVIOUS
<1>4. a + b = (r + s) + (p + q) * m /\ a + b = (a + s) + q * m
  BY <1>1, <1>2, <1>3
<1>5. ((r + s) + (p + q) * m) % m = (r + s) % m
  <2>1. r + s \in Nat /\ p + q \in Nat
    OBVIOUS
  <2> QED
    BY <2>1, ModMultiple
<1>6. ((a + s) + q * m) % m = (a + s) % m
  <2>1. a + s \in Nat
    OBVIOUS
  <2> QED
    BY <2>1, ModMultiple
<1> QED
  BY <1>1, <1>2, <1>4, <1>5, <1>6

LEMMA ModOfProduct ==
  ASSUME NEW m \in Nat \ {0}, NEW a \in Nat, NEW b \in Nat
  PROVE  ((a % m) * b) % m = (a * b) % m
<1>1. PICK p \in Nat, r \in Nat : a = p * m + r /\ r = a % m
  BY Divide
<1>2. a * b = r * b + (p * b) * m
  <2>1. (p * m + r) * b = r * b + (p * b) * m
    OBVIOUS
  <2> QED
    BY <1>1, <2>1
<1>3. r * b \in Nat /\ p * b \in Nat
  OBVIOUS
<1>4. (r * b + (p * b) * m) % m = (r * b) % m
  BY <1>3, ModMultiple
<1> QED
  BY <1>1, <1>2, <1>4

\* The sum of the first n limbs, what leaves them, and what is lost.
SumsTo(l, r, f, g, h, n) ==
  \E d \in Nat :
    /\ f[n] + g[n] = h[n] + Carries(l, r)[n] * Weight[n] + d
    /\ d < 2 * Weight[n]
    /\ d = 0 <=> ~LostBelow(l, r, n)

LEMMA SumOfPrefixes ==
  ASSUME NEW l \in UInt, NEW r \in UInt, NEW f, NEW g, NEW h,
         Prefixes(f, l), Prefixes(g, r), Prefixes(h, Add(l, r)),
         NEW n \in 0 .. Limbs
  PROVE  SumsTo(l, r, f, g, h, n)
<1>0. Limbs \in Nat /\ Base \in Nat \ {0}
  BY WidthAssumption
<1> DEFINE c == Carries(l, r) s == Add(l, r)
           S == {k \in Nat : k <= Limbs => SumsTo(l, r, f, g, h, k)}
<1>1. 0 \in S
  <2>1. f[0] = 0 /\ g[0] = 0 /\ h[0] = 0 /\ c[0] = 0 /\ Weight[0] = 1
    BY CarriesIs, WeightIs DEF Prefixes
  <2>2. ~LostBelow(l, r, 0)
    <3>1. 0 .. 0 - 1 = {}
      OBVIOUS
    <3> QED
      BY <3>1 DEF LostBelow
  <2> HIDE DEF c
  <2>3. f[0] + g[0] = h[0] + c[0] * Weight[0] + 0 /\ 0 < 2 * Weight[0]
    BY <2>1
  <2> QED
    BY <2>2, <2>3 DEF SumsTo, c
<1>2. ASSUME NEW k \in Nat, k \in S PROVE k + 1 \in S
  <2> SUFFICES ASSUME k + 1 <= Limbs PROVE SumsTo(l, r, f, g, h, k + 1)
    OBVIOUS
  <2>1. /\ k + 1 \in 1 .. Limbs /\ (k + 1) - 1 = k /\ k <= Limbs
        /\ k \in 0 .. Limbs - 1 /\ k \in 0 .. Limbs
    BY <1>0
  <2>2. PICK d \in Nat : /\ f[k] + g[k] = h[k] + c[k] * Weight[k] + d
                         /\ d < 2 * Weight[k]
                         /\ d = 0 <=> ~LostBelow(l, r, k)
    BY <1>2, <2>1 DEF SumsTo
  <2> DEFINE a == l[k] b == r[k] w == Weight[k]
             lost == a = Base - 1 /\ b = Base - 1 /\ c[k] = 1
  <2>3. a \in Limb /\ b \in Limb
    BY <2>1 DEF UInt
  <2>4. c[k] \in {0, 1} /\ w \in Nat \ {0} /\ f[k] \in Nat /\ g[k] \in Nat /\ h[k] \in Nat
    BY <2>1, CarriesIs, WeightIs DEF Prefixes
  <2>5. f[k + 1] = f[k] + a * w /\ g[k + 1] = g[k] + b * w /\ h[k + 1] = h[k] + s[k] * w
    <3>1. f[k + 1] = f[(k + 1) - 1] + l[(k + 1) - 1] * Weight[(k + 1) - 1]
      BY <2>1 DEF Prefixes
    <3>2. g[k + 1] = g[(k + 1) - 1] + r[(k + 1) - 1] * Weight[(k + 1) - 1]
      BY <2>1 DEF Prefixes
    <3>3. h[k + 1] = h[(k + 1) - 1] + s[(k + 1) - 1] * Weight[(k + 1) - 1]
      BY <2>1 DEF Prefixes
    <3> QED
      BY <2>1, <3>1, <3>2, <3>3
  <2>6. s[k] = LimbSum(a, b, c[k])
    BY <2>1, AddIs
  <2>7. c[k + 1] = CarryOut(a, b, c[k])
    <3>1. c[k + 1] = CarryOut(l[(k + 1) - 1], r[(k + 1) - 1], c[(k + 1) - 1])
      BY <2>1, CarriesIs
    <3> QED
      BY <2>1, <3>1
  <2>8. Weight[k + 1] = Base * w
    <3>1. Weight[k + 1] = Base * Weight[(k + 1) - 1]
      BY <2>1, WeightIs
    <3> QED
      BY <2>1, <3>1
  <2>9. LostBelow(l, r, k + 1) <=> LostBelow(l, r, k) \/ lost
    <3>1. 0 .. (k + 1) - 1 = (0 .. k - 1) \cup {k}
      OBVIOUS
    <3> QED
      BY <3>1 DEF LostBelow
  <2>10. PICK e \in Nat :
           /\ (f[k] + a * w) + (g[k] + b * w)
                = (h[k] + LimbSum(a, b, c[k]) * w) + CarryOut(a, b, c[k]) * (Base * w) + e
           /\ e < 2 * (Base * w)
           /\ e = 0 <=> d = 0 /\ ~lost
    <3>1. f[k] + g[k] = h[k] + c[k] * w + d /\ d < 2 * w
      BY <2>2
    <3> DEFINE x == f[k] y == g[k] z == h[k] v == c[k]
    <3>2. x \in Nat /\ y \in Nat /\ z \in Nat /\ v \in {0, 1}
      BY <2>4
    <3>3. d < 2 * w
      BY <3>1
    <3>4. x + y = z + v * w + d
      BY <3>1
    <3>6. a \in Limb /\ b \in Limb /\ w \in Nat \ {0}
      BY <2>3, <2>4
    <3> HIDE DEF x, y, z, v, a, b, w
    <3>5. LimbAdded(a, b, v, w, x, y, z, d)
      BY <3>2, <3>3, <3>4, <3>6, OneLimb
    <3> QED
      BY <3>5 DEF x, y, z, v, LimbAdded
  <2>11. f[k + 1] + g[k + 1] = h[k + 1] + c[k + 1] * Weight[k + 1] + e
    <3> HIDE DEF a, b, w, s, c
    <3> QED
      BY <2>5, <2>6, <2>7, <2>8, <2>10
  <2>12. e < 2 * Weight[k + 1]
    BY <2>8, <2>10
  <2>13. e = 0 <=> ~LostBelow(l, r, k + 1)
    <3> HIDE DEF lost
    <3> QED
      BY <2>2, <2>9, <2>10
  <2> QED
    BY <2>11, <2>12, <2>13 DEF SumsTo
<1>3. \A k \in Nat : k \in S
  <2> HIDE DEF S
  <2> QED
    BY <1>1, <1>2, SetInduction
<1> QED
  BY <1>0, <1>3

\* A remainder differs from the number when something is added to it that is no
\* multiple of the modulus.
LEMMA ExcessShows ==
  ASSUME NEW m \in Nat \ {0}, NEW v \in Nat, v < m, NEW d \in Nat, d < m, NEW e \in {0, 1}
  PROVE  v = (v + d + e * m) % m <=> d = 0
<1>1. (v + d + e * m) % m = (v + d) % m
  <2>1. v + d \in Nat /\ e \in Nat
    OBVIOUS
  <2> QED
    BY <2>1, ModMultiple
<1>2. CASE v + d < m
  <2>1. (v + d) % m = v + d
    <3>1. v + d \in Nat
      OBVIOUS
    <3> QED
      BY <1>2, <3>1, ModSmall
  <2> QED
    BY <1>1, <2>1
<1>3. CASE ~(v + d < m)
  <2>1. PICK x \in Nat : x = v + d - m /\ x < m /\ v + d = x + 1 * m /\ x < v
    BY <1>3
  <2>2. (x + 1 * m) % m = x % m
    BY ModMultiple
  <2>3. x % m = x
    BY <2>1, ModSmall
  <2> QED
    BY <1>1, <1>3, <2>1, <2>2, <2>3
<1> QED
  BY <1>2, <1>3

\* uint256_add is exact, modulo the width, just when it loses no carry.
LEMMA AddExact ==
  ASSUME NEW l \in UInt, NEW r \in UInt
  PROVE  Value(Add(l, r)) = (Value(l) + Value(r)) % Modulus <=> ~LosesCarry(l, r)
<1>0. Limbs \in Nat \ {0} /\ Base \in Nat /\ Base >= 2
  BY WidthAssumption
<1> DEFINE s == Add(l, r)
<1>1. s \in UInt
  BY AddIs
<1>2. PICK f : Prefixes(f, l) /\ Value(l) = f[Limbs]
  BY ValueIs
<1>3. PICK g : Prefixes(g, r) /\ Value(r) = g[Limbs]
  BY ValueIs
<1>4. PICK h : Prefixes(h, s) /\ Value(s) = h[Limbs]
  BY <1>1, ValueIs
<1>5. PICK n \in Nat : /\ n = Limbs - 1 /\ n + 1 = Limbs
                       /\ n \in 0 .. Limbs /\ n \in 0 .. Limbs - 1 /\ n + 1 \in 0 .. Limbs
                       /\ n + 1 \in 1 .. Limbs
  BY <1>0
<1> DEFINE c == Carries(l, r)
           w == Weight[n]
           m == Weight[n + 1]
           lost == l[n] = Base - 1 /\ r[n] = Base - 1 /\ c[n] = 1
<1>6. SumsTo(l, r, f, g, h, n)
  BY <1>2, <1>3, <1>4, <1>5, SumOfPrefixes
<1>7. PICK d \in Nat : /\ f[n] + g[n] = h[n] + c[n] * w + d
                       /\ d < 2 * w
                       /\ d = 0 <=> ~LostBelow(l, r, n)
  BY <1>6 DEF SumsTo
<1>8. LostBelow(l, r, n) <=> LosesCarry(l, r)
  <2>1. 0 .. n - 1 = 0 .. Limbs - 2
    BY <1>5
  <2> QED
    BY <2>1 DEF LostBelow, LosesCarry
<1>9. m = Base * w /\ w \in Nat \ {0} /\ m \in Nat \ {0}
  <2>1. Weight[n + 1] = Base * Weight[(n + 1) - 1]
    BY <1>5, WeightIs
  <2>2. (n + 1) - 1 = n
    OBVIOUS
  <2> QED
    BY <1>5, <2>1, <2>2, WeightIs
<1>10. 2 * w <= m
  BY <1>0, <1>9, ProductsGrow
<1>11. /\ f[n + 1] = f[n] + l[n] * w
       /\ g[n + 1] = g[n] + r[n] * w
       /\ h[n + 1] = h[n] + s[n] * w
  <2>1. (n + 1) - 1 = n
    OBVIOUS
  <2>2. f[n + 1] = f[(n + 1) - 1] + l[(n + 1) - 1] * Weight[(n + 1) - 1]
    BY <1>2, <1>5 DEF Prefixes
  <2>3. g[n + 1] = g[(n + 1) - 1] + r[(n + 1) - 1] * Weight[(n + 1) - 1]
    BY <1>3, <1>5 DEF Prefixes
  <2>4. h[n + 1] = h[(n + 1) - 1] + s[(n + 1) - 1] * Weight[(n + 1) - 1]
    BY <1>4, <1>5 DEF Prefixes
  <2> QED
    BY <2>1, <2>2, <2>3, <2>4
<1>12. /\ l[n] \in Limb /\ r[n] \in Limb /\ s[n] \in Limb /\ c[n] \in {0, 1}
       /\ s[n] = LimbSum(l[n], r[n], c[n])
  BY <1>1, <1>5, AddIs, CarriesIs DEF UInt
<1>13. PICK e \in {0, 1} : l[n] + r[n] + c[n] = s[n] + Base * e
  <2>1. \/ l[n] + r[n] + c[n] = LimbSum(l[n], r[n], c[n])
        \/ l[n] + r[n] + c[n] = LimbSum(l[n], r[n], c[n]) + Base
    BY <1>12, LimbSumFits
  <2> DEFINE x == l[n] + r[n] + c[n]
  <2> HIDE DEF x
  <2>2. x = s[n] \/ x = s[n] + Base
    BY <1>12, <2>1 DEF x
  <2>3. s[n] \in Nat
    BY <1>0, <1>12 DEF Limb
  <2>4. x = s[n] + Base * 0 \/ x = s[n] + Base * 1
    BY <1>0, <2>2, <2>3
  <2> QED
    BY <2>4 DEF x
<1>14. f[n] \in Nat /\ g[n] \in Nat /\ h[n] \in Nat
  BY <1>2, <1>3, <1>4, <1>5 DEF Prefixes
<1>15. f[n + 1] + g[n + 1] = h[n + 1] + d + e * m
  <2> DEFINE a == l[n] b == r[n] v == c[n] t == s[n] x == f[n] y == g[n] z == h[n]
  <2>1. a \in Nat /\ b \in Nat /\ v \in Nat /\ t \in Nat /\ e \in Nat
    BY <1>0, <1>12 DEF Limb
  <2>2. x \in Nat /\ y \in Nat /\ z \in Nat /\ x + y = z + v * w + d
    BY <1>7, <1>14
  <2>3. a + b + v = t + Base * e
    BY <1>13
  <2>4. f[n + 1] + g[n + 1] = (x + a * w) + (y + b * w) /\ h[n + 1] = z + t * w
    BY <1>11
  <2> HIDE DEF a, b, v, t, x, y, z, w, m, s, c
  <2>5. (a + b + v) * w = a * w + b * w + v * w
    BY <1>9, <2>1
  <2>6. (t + Base * e) * w = t * w + e * m
    BY <1>0, <1>9, <2>1
  <2> DEFINE aw == a * w bw == b * w vw == v * w tw == t * w em == e * m
  <2>7. aw \in Nat /\ bw \in Nat /\ vw \in Nat /\ tw \in Nat /\ em \in Nat
    BY <1>9, <2>1
  <2>8. aw + bw + vw = tw + em
    BY <2>3, <2>5, <2>6
  <2>9. x + y = z + vw + d
    BY <2>2
  <2> HIDE DEF aw, bw, vw, tw, em
  <2>10. (x + aw) + (y + bw) = z + tw + d + em
    BY <2>2, <2>7, <2>8, <2>9
  <2> QED
    BY <2>4, <2>10 DEF aw, bw, tw, em
<1>16. h[n + 1] \in Nat /\ h[n + 1] < m
  <2>1. h[n + 1] < Weight[n + 1]
    BY <1>1, <1>4, <1>5, PrefixIsBelow
  <2> QED
    BY <1>4, <1>5, <2>1 DEF Prefixes
<1>17. d < m
  <2> HIDE DEF w, m
  <2> QED
    BY <1>7, <1>9, <1>10
<1> DEFINE v == h[n + 1]
<1>18. v = (v + d + e * m) % m <=> d = 0
  <2>1. v \in Nat /\ v < m /\ m \in Nat \ {0}
    BY <1>9, <1>16
  <2> HIDE DEF v, m
  <2> QED
    BY <1>17, <2>1, ExcessShows
<1>19. m = Modulus /\ v = Value(s) /\ v + d + e * m = Value(l) + Value(r)
  BY <1>2, <1>3, <1>4, <1>5, <1>15 DEF Modulus
<1> HIDE DEF m, v, s
<1>20. Value(s) = (Value(l) + Value(r)) % Modulus <=> d = 0
  BY <1>18, <1>19
<1> QED
  BY <1>7, <1>8, <1>20 DEF s

------------------------------------------------------------------------------
(* Negation and subtraction *)

\* The number whose limbs are the complements of another's.
LEMMA ComplementIs ==
  ASSUME NEW x \in UInt
  PROVE  /\ Complement(x) \in UInt
         /\ Value(Complement(x)) = Modulus - 1 - Value(x)
<1>0. Limbs \in Nat /\ Base \in Nat \ {0}
  BY WidthAssumption
<1> DEFINE y == Complement(x)
<1>1. y = [k \in 0 .. Limbs - 1 |-> Base - 1 - x[k]]
  BY DEF Complement
<1>2. ASSUME NEW k \in 0 .. Limbs - 1
      PROVE  x[k] \in Nat /\ y[k] = Base - 1 - x[k] /\ y[k] \in Limb
  <2>1. x[k] \in 0 .. Base - 1
    BY DEF UInt, Limb
  <2>2. y[k] = Base - 1 - x[k]
    BY <1>1
  <2> HIDE DEF y
  <2> QED
    BY <1>0, <2>1, <2>2 DEF Limb
<1>3. y \in UInt
  <2>1. DOMAIN y = 0 .. Limbs - 1 /\ y = [k \in 0 .. Limbs - 1 |-> y[k]]
    BY <1>1
  <2> HIDE DEF y
  <2> QED
    BY <1>2, <2>1 DEF UInt
<1> HIDE DEF y
<1>4. PICK f : Prefixes(f, x) /\ Value(x) = f[Limbs]
  BY ValueIs
<1>5. PICK h : Prefixes(h, y) /\ Value(y) = h[Limbs]
  BY <1>3, ValueIs
<1> DEFINE S == {k \in Nat : k <= Limbs => h[k] = Weight[k] - 1 - f[k]}
<1>6. 0 \in S
  BY <1>4, <1>5, WeightIs DEF Prefixes
<1>7. ASSUME NEW k \in Nat, k \in S PROVE k + 1 \in S
  <2> SUFFICES ASSUME k + 1 <= Limbs PROVE h[k + 1] = Weight[k + 1] - 1 - f[k + 1]
    OBVIOUS
  <2>1. /\ k + 1 \in 1 .. Limbs /\ (k + 1) - 1 = k /\ k <= Limbs
        /\ k \in 0 .. Limbs - 1 /\ k \in 0 .. Limbs
    BY <1>0
  <2>2. h[k] = Weight[k] - 1 - f[k]
    BY <1>7, <2>1
  <2>3. f[k + 1] = f[k] + x[k] * Weight[k] /\ h[k + 1] = h[k] + y[k] * Weight[k]
        /\ Weight[k + 1] = Base * Weight[k]
    <3>1. f[k + 1] = f[(k + 1) - 1] + x[(k + 1) - 1] * Weight[(k + 1) - 1]
      BY <1>4, <2>1 DEF Prefixes
    <3>2. h[k + 1] = h[(k + 1) - 1] + y[(k + 1) - 1] * Weight[(k + 1) - 1]
      BY <1>5, <2>1 DEF Prefixes
    <3>3. Weight[k + 1] = Base * Weight[(k + 1) - 1]
      BY <2>1, WeightIs
    <3> QED
      BY <2>1, <3>1, <3>2, <3>3
  <2>4. x[k] \in Nat /\ y[k] = Base - 1 - x[k]
    BY <1>2, <2>1
  <2>5. f[k] \in Nat /\ h[k] \in Nat /\ Weight[k] \in Nat
    BY <1>4, <1>5, <2>1, WeightIs DEF Prefixes
  <2> DEFINE w == Weight[k] a == x[k] b == f[k]
  <2>6. (Base - 1 - a) * w = Base * w - w - a * w
    BY <1>0, <2>4, <2>5
  <2>7. Base * w \in Nat /\ a * w \in Nat /\ w \in Nat /\ b \in Nat
    BY <1>0, <2>4, <2>5
  <2> DEFINE bw == Base * w aw == a * w
  <2>8. h[k + 1] = w - 1 - b + (bw - w - aw) /\ f[k + 1] = b + aw /\ Weight[k + 1] = bw
    BY <2>2, <2>3, <2>4, <2>6
  <2>9. aw \in Nat /\ bw \in Nat
    BY <2>7
  <2> HIDE DEF w, a, b, aw, bw
  <2> QED
    BY <2>7, <2>8, <2>9
<1>8. \A k \in Nat : k \in S
  <2> HIDE DEF S
  <2> QED
    BY <1>6, <1>7, SetInduction
<1>9. h[Limbs] = Weight[Limbs] - 1 - f[Limbs]
  BY <1>0, <1>8
<1> QED
  BY <1>3, <1>4, <1>5, <1>9 DEF Modulus, y

LEMMA OneIs ==
  FromLimb(1) \in UInt /\ Value(FromLimb(1)) = 1
<1>0. Limbs \in Nat \ {0} /\ Base \in Nat /\ Base >= 2
  BY WidthAssumption
<1> DEFINE x == FromLimb(1)
<1>1. x = [k \in 0 .. Limbs - 1 |-> IF k = 0 THEN 1 ELSE 0]
  BY DEF FromLimb
<1>2. x \in UInt
  <2>1. 0 \in Limb /\ 1 \in Limb
    BY <1>0 DEF Limb
  <2> QED
    BY <1>1, <2>1 DEF UInt
<1>3. x[0] = 1 /\ \A k \in 1 .. Limbs - 1 : x[k] = 0
  BY <1>0, <1>1
<1> HIDE DEF x
<1>4. PICK f : Prefixes(f, x) /\ Value(x) = f[Limbs]
  BY <1>2, ValueIs
<1> DEFINE S == {k \in Nat : k + 1 <= Limbs => f[k + 1] = 1}
<1>5. 0 \in S
  <2>1. 1 \in 1 .. Limbs /\ 1 - 1 = 0
    BY <1>0
  <2>2. f[1] = f[1 - 1] + x[1 - 1] * Weight[1 - 1]
    BY <1>4, <2>1 DEF Prefixes
  <2>3. f[0] = 0 /\ Weight[0] = 1
    BY <1>4, WeightIs DEF Prefixes
  <2> QED
    BY <1>3, <2>1, <2>2, <2>3
<1>6. ASSUME NEW k \in Nat, k \in S PROVE k + 1 \in S
  <2> SUFFICES ASSUME (k + 1) + 1 <= Limbs PROVE f[(k + 1) + 1] = 1
    OBVIOUS
  <2>1. PICK n \in Nat : n = k + 1
    OBVIOUS
  <2>2. n + 1 \in 1 .. Limbs /\ (n + 1) - 1 = n /\ n \in 1 .. Limbs - 1 /\ n \in 0 .. Limbs
    BY <1>0, <2>1
  <2>3. f[n + 1] = f[(n + 1) - 1] + x[(n + 1) - 1] * Weight[(n + 1) - 1]
    BY <1>4, <2>2 DEF Prefixes
  <2>4. x[n] = 0 /\ Weight[n] \in Nat
    BY <1>3, <2>2, WeightIs
  <2>5. f[n] = 1
    <3>1. k + 1 <= Limbs
      BY <1>0
    <3> QED
      BY <1>6, <2>1, <3>1
  <2> QED
    BY <2>1, <2>2, <2>3, <2>4, <2>5
<1>7. \A k \in Nat : k \in S
  <2> HIDE DEF S
  <2> QED
    BY <1>5, <1>6, SetInduction
<1>8. PICK n \in Nat : n + 1 = Limbs
  BY <1>0
<1>9. f[n + 1] = 1
  BY <1>7, <1>8
<1> QED
  BY <1>2, <1>4, <1>8, <1>9 DEF x

\* Adding one to anything loses no carry.
LEMMA OneLosesNoCarry ==
  ASSUME NEW x \in UInt PROVE ~LosesCarry(x, FromLimb(1))
<1> SUFFICES ASSUME NEW k \in 0 .. Limbs - 2,
                    FromLimb(1)[k] = Base - 1, Carries(x, FromLimb(1))[k] = 1
             PROVE  FALSE
  BY DEF LosesCarry
<1>0. Limbs \in Nat \ {0} /\ Base \in Nat /\ Base >= 2
  BY WidthAssumption
<1>1. CASE k = 0
  BY <1>1, CarriesIs, OneIs
<1>2. CASE k # 0
  <2>1. k \in 0 .. Limbs - 1
    BY <1>0
  <2>2. FromLimb(1)[k] = 0
    BY <1>2, <2>1 DEF FromLimb
  <2> QED
    BY <1>0, <2>2
<1> QED
  BY <1>1, <1>2

\* uint256_negate is exact, modulo the width.
LEMMA NegateExact ==
  ASSUME NEW x \in UInt
  PROVE  /\ Negate(x) \in UInt
         /\ Value(Negate(x)) = (Modulus - Value(x)) % Modulus
<1>1. Negate(x) = Add(Complement(x), FromLimb(1))
  BY DEF Negate, Complement
<1>2. Complement(x) \in UInt /\ FromLimb(1) \in UInt
  BY ComplementIs, OneIs
<1>3. ~LosesCarry(Complement(x), FromLimb(1))
  BY <1>2, OneLosesNoCarry
<1>4. Value(Negate(x)) = (Value(Complement(x)) + Value(FromLimb(1))) % Modulus
  BY <1>1, <1>2, <1>3, AddExact
<1>5. Value(Complement(x)) + Value(FromLimb(1)) = Modulus - Value(x)
  <2>1. Value(x) \in Nat /\ Modulus \in Nat
    BY ValueFits
  <2> QED
    BY <2>1, ComplementIs, OneIs
<1> QED
  BY <1>1, <1>2, <1>4, <1>5, AddIs

\* uint256_sub is exact just when its addition loses no carry.
LEMMA SubExact ==
  ASSUME NEW l \in UInt, NEW r \in UInt
  PROVE  Value(Sub(l, r)) = (Modulus + Value(l) - Value(r)) % Modulus
           <=> ~LosesCarry(l, Negate(r))
<1> DEFINE m == Modulus a == Value(l) b == Value(r)
<1>1. a \in Nat /\ b \in Nat /\ m \in Nat \ {0} /\ b < m
  BY ValueFits
<1>2. Negate(r) \in UInt /\ Value(Negate(r)) = (m - b) % m
  BY NegateExact
<1>3. Value(Sub(l, r)) = (a + Value(Negate(r))) % m <=> ~LosesCarry(l, Negate(r))
  BY <1>2, AddExact DEF Sub
<1>4. (a + ((m - b) % m)) % m = (m + a - b) % m
  <2> HIDE DEF m, a, b
  <2>1. PICK c \in Nat : c = m - b
    BY <1>1
  <2>2. (a + (c % m)) % m = (a + c) % m
    BY <1>1, ModOfSum
  <2>3. a + c = m + a - b
    BY <1>1, <2>1
  <2> QED
    BY <2>1, <2>2, <2>3
<1> QED
  BY <1>2, <1>3, <1>4

------------------------------------------------------------------------------
(* Shifts *)

LEMMA BaseIsEven == \E half \in Nat : Base = 2 * half
<1>1. Bits \in 1 .. Width
  <2>1. Bits \in Nat \ {0} /\ Limbs \in Nat \ {0} /\ 1 \in Nat /\ 1 <= Limbs
    BY WidthAssumption
  <2>2. 1 * Bits <= Limbs * Bits /\ Limbs * Bits \in Nat
    BY <2>1, ProductsGrow
  <2> QED
    BY <2>1, <2>2 DEF Width
<1>2. Width \in Nat
  BY WidthAssumption DEF Width
<1>3. Base = 2 * Bit[Bits - 1] /\ Bits - 1 \in 0 .. Width
  <2>1. Bit[Bits] = 2 * Bit[Bits - 1]
    BY <1>1, BitIs
  <2>2. Base = Bit[Bits]
    BY WidthAssumption
  <2> QED
    BY <1>1, <1>2, <2>1, <2>2
<1> QED
  BY <1>3, BitIs

\* Twice a limb: the bit that leaves it, and what stays is even.
LEMMA Doubled ==
  ASSUME NEW a \in Limb
  PROVE  /\ (2 * a) \div Base \in {0, 1}
         /\ 2 * a = (((2 * a) \div Base) * Base) + ((2 * a) % Base)
         /\ (2 * a) % Base \in 0 .. Base - 2
<1>0. Base \in Nat \ {0} /\ Base >= 2
  BY WidthAssumption
<1>1. PICK half \in Nat : Base = 2 * half
  BY BaseIsEven
<1> DEFINE x == 2 * a q == x \div Base r == x % Base
<1>2. a \in 0 .. Base - 1 /\ a \in Nat /\ x \in Nat
  BY <1>0 DEF Limb
<1>3. q \in Nat /\ r \in 0 .. Base - 1 /\ x = (q * Base) + r
  <2> HIDE DEF x
  <2> QED
    BY <1>0, <1>2, Remainder
<1> HIDE DEF q, r
<1>4. q < 2
  <2> SUFFICES ASSUME 2 <= q PROVE FALSE
    BY <1>3
  <2>1. 2 * Base <= q * Base /\ q * Base \in Nat
    BY <1>0, <1>3, ProductsGrow
  <2> QED
    BY <1>0, <1>2, <1>3, <2>1
<1>5. q \in {0, 1}
  BY <1>3, <1>4
<1>6. r # Base - 1
  <2>1. CASE q = 0
    BY <1>0, <1>1, <1>2, <1>3, <2>1
  <2>2. CASE q = 1
    BY <1>0, <1>1, <1>2, <1>3, <2>2
  <2> QED
    BY <1>5, <2>1, <2>2
<1>7. r \in 0 .. Base - 2
  BY <1>0, <1>3, <1>6
<1> QED
  BY <1>3, <1>5, <1>7 DEF q, r

\* What limb k gets from the one below it.
BitInto(x, k) == IF k = 0 THEN 0 ELSE (2 * x[k - 1]) \div Base

LEMMA BitIntoIs ==
  ASSUME NEW x \in UInt, NEW k \in 0 .. Limbs PROVE BitInto(x, k) \in {0, 1}
<1>0. Limbs \in Nat
  BY WidthAssumption
<1>1. CASE k = 0
  BY <1>1 DEF BitInto
<1>2. CASE k # 0
  <2>1. k - 1 \in 0 .. Limbs - 1
    BY <1>0, <1>2
  <2>2. x[k - 1] \in Limb
    BY <2>1 DEF UInt
  <2>3. (2 * x[k - 1]) \div Base \in {0, 1}
    BY <2>2, Doubled
  <2> QED
    BY <1>2, <2>3 DEF BitInto
<1> QED
  BY <1>1, <1>2

\* One turn of uint256_leftShift doubles the number, modulo the width.
LEMMA ShiftedOnceExact ==
  ASSUME NEW x \in UInt
  PROVE  /\ ShiftedOnce(x) \in UInt
         /\ Value(ShiftedOnce(x)) = (2 * Value(x)) % Modulus
<1>0. Limbs \in Nat /\ Base \in Nat \ {0} /\ Base >= 2
  BY WidthAssumption
<1> DEFINE y == ShiftedOnce(x)
<1>1. y = [k \in 0 .. Limbs - 1 |-> ((2 * x[k]) % Base) + BitInto(x, k)]
  BY DEF ShiftedOnce, BitInto
<1>2. ASSUME NEW k \in 0 .. Limbs - 1
      PROVE  /\ x[k] \in Nat
             /\ y[k] \in Limb
             /\ 2 * x[k] + BitInto(x, k) = BitInto(x, k + 1) * Base + y[k]
  <2> DEFINE a == x[k] r == (2 * a) % Base o == BitInto(x, k)
  <2>1. a \in Limb
    BY DEF UInt
  <2>2. r \in 0 .. Base - 2 /\ 2 * a = (((2 * a) \div Base) * Base) + r
    BY <2>1, Doubled
  <2>3. o \in {0, 1}
    <3>1. k \in 0 .. Limbs
      BY <1>0
    <3> QED
      BY <3>1, BitIntoIs
  <2>4. y[k] = r + o
    BY <1>1
  <2>5. BitInto(x, k + 1) = (2 * a) \div Base
    BY DEF BitInto
  <2> DEFINE p == (2 * a) \div Base
  <2>6. p \in {0, 1}
    BY <2>1, Doubled
  <2>7. a \in Nat
    BY <1>0, <2>1 DEF Limb
  <2>8. 2 * a = (p * Base) + r
    BY <2>2
  <2> HIDE DEF r, o, p, y
  <2>9. y[k] \in Limb
    BY <1>0, <2>2, <2>3, <2>4 DEF Limb
  <2>10. 2 * a + o = p * Base + y[k]
    <3>1. PICK z \in Nat : z = p * Base
      BY <1>0, <2>6
    <3>2. 2 * a = z + r /\ r \in Nat /\ o \in Nat
      BY <1>0, <2>2, <2>3, <2>8, <3>1
    <3>3. 2 * a + o = z + (r + o)
      BY <2>7, <3>2
    <3> QED
      BY <2>4, <3>1, <3>3
  <2>11. BitInto(x, k + 1) = p
    BY <2>5 DEF p
  <2> QED
    BY <2>7, <2>9, <2>10, <2>11 DEF o
<1>3. y \in UInt
  <2>1. y = [k \in 0 .. Limbs - 1 |-> y[k]]
    BY <1>1
  <2> HIDE DEF y
  <2> QED
    BY <1>2, <2>1 DEF UInt
<1> HIDE DEF y
<1>4. PICK f : Prefixes(f, x) /\ Value(x) = f[Limbs]
  BY ValueIs
<1>5. PICK h : Prefixes(h, y) /\ Value(y) = h[Limbs]
  BY <1>3, ValueIs
<1> DEFINE S == {k \in Nat : k <= Limbs => h[k] + BitInto(x, k) * Weight[k] = 2 * f[k]}
<1>6. 0 \in S
  <2>1. h[0] = 0 /\ f[0] = 0 /\ Weight[0] = 1 /\ BitInto(x, 0) = 0
    BY <1>4, <1>5, WeightIs DEF Prefixes, BitInto
  <2> QED
    BY <2>1
<1>7. ASSUME NEW k \in Nat, k \in S PROVE k + 1 \in S
  <2> SUFFICES ASSUME k + 1 <= Limbs
               PROVE  h[k + 1] + BitInto(x, k + 1) * Weight[k + 1] = 2 * f[k + 1]
    OBVIOUS
  <2>1. /\ k + 1 \in 1 .. Limbs /\ (k + 1) - 1 = k /\ k <= Limbs
        /\ k \in 0 .. Limbs - 1 /\ k \in 0 .. Limbs /\ k + 1 \in 0 .. Limbs
    BY <1>0
  <2>2. h[k] + BitInto(x, k) * Weight[k] = 2 * f[k]
    BY <1>7, <2>1
  <2>3. f[k + 1] = f[k] + x[k] * Weight[k] /\ h[k + 1] = h[k] + y[k] * Weight[k]
        /\ Weight[k + 1] = Base * Weight[k]
    <3>1. f[k + 1] = f[(k + 1) - 1] + x[(k + 1) - 1] * Weight[(k + 1) - 1]
      BY <1>4, <2>1 DEF Prefixes
    <3>2. h[k + 1] = h[(k + 1) - 1] + y[(k + 1) - 1] * Weight[(k + 1) - 1]
      BY <1>5, <2>1 DEF Prefixes
    <3>3. Weight[k + 1] = Base * Weight[(k + 1) - 1]
      BY <2>1, WeightIs
    <3> QED
      BY <2>1, <3>1, <3>2, <3>3
  <2> DEFINE w == Weight[k] a == x[k] b == y[k] o == BitInto(x, k) p == BitInto(x, k + 1)
  <2>4. a \in Nat /\ b \in Nat /\ 2 * a + o = p * Base + b
    BY <1>0, <1>2, <2>1 DEF Limb
  <2>5. f[k] \in Nat /\ h[k] \in Nat /\ w \in Nat
    BY <1>4, <1>5, <2>1, WeightIs DEF Prefixes
  <2>6. o \in Nat /\ p \in Nat
    <3>1. o \in {0, 1} /\ p \in {0, 1}
      BY <2>1, BitIntoIs
    <3> HIDE DEF o, p
    <3> QED
      BY <3>1
  <2> HIDE DEF w, a, b, o, p
  <2>7. 2 * (a * w) + o * w = p * (Base * w) + b * w
    <3>1. (2 * a + o) * w = 2 * (a * w) + o * w
      BY <2>4, <2>5, <2>6
    <3>2. (p * Base + b) * w = p * (Base * w) + b * w
      BY <1>0, <2>4, <2>5, <2>6
    <3> QED
      BY <2>4, <3>1, <3>2
  <2> DEFINE aw == a * w ow == o * w pw == p * (Base * w) bw == b * w
  <2>8. aw \in Nat /\ ow \in Nat /\ pw \in Nat /\ bw \in Nat
    BY <1>0, <2>4, <2>5, <2>6
  <2>9. 2 * aw + ow = pw + bw
    BY <2>7
  <2> DEFINE u == f[k] v == h[k]
  <2>10. v + ow = 2 * u /\ f[k + 1] = u + aw /\ h[k + 1] = v + bw
    BY <2>2, <2>3 DEF w, o, a, b
  <2>11. p * Weight[k + 1] = pw
    BY <2>3 DEF w
  <2>13. u \in Nat /\ v \in Nat
    BY <2>5
  <2> HIDE DEF aw, ow, pw, bw, u, v
  <2>14. (v + bw) + pw = 2 * (u + aw)
    BY <2>8, <2>9, <2>10, <2>13
  <2>12. h[k + 1] + pw = 2 * f[k + 1]
    BY <2>10, <2>14
  <2> QED
    BY <2>11, <2>12 DEF p
<1>8. \A k \in Nat : k \in S
  <2> HIDE DEF S
  <2> QED
    BY <1>6, <1>7, SetInduction
<1> DEFINE o == BitInto(x, Limbs)
<1>9. Value(y) + o * Modulus = 2 * Value(x)
  BY <1>0, <1>4, <1>5, <1>8 DEF Modulus
<1>10. o \in {0, 1}
  BY <1>0, BitIntoIs
<1>11. Value(y) \in 0 .. Modulus - 1 /\ Modulus \in Nat \ {0}
  BY <1>3, ValueFits
<1> HIDE DEF o
<1>12. 2 * Value(x) = o * Modulus + Value(y)
  BY <1>9, <1>10, <1>11
<1>13. (o * Modulus + Value(y)) % Modulus = Value(y)
  <2>1. o \in Nat
    BY <1>10
  <2> QED
    BY <1>11, <2>1, RemainderIs
<1> QED
  BY <1>3, <1>12, <1>13 DEF y

\* uint256_leftShift drops what leaves the width and nothing else.
LEMMA LeftShiftExact ==
  ASSUME NEW x \in UInt, NEW n \in 0 .. Width
  PROVE  /\ LeftShift(x, n) \in UInt
         /\ Value(LeftShift(x, n)) = (Value(x) * Bit[n]) % Modulus
<1>0. Width \in Nat /\ n \in Nat
  BY WidthAssumption DEF Width
<1> DEFINE g == [k \in 0 .. n - 1 |-> [v \in UInt |-> ShiftedOnce(v)]]
<1>1. g \in [0 .. n - 1 -> [UInt -> UInt]]
  BY ShiftedOnceExact
<1>2. PICK f : Recursion(f, UInt, x, g, n)
  <2> HIDE DEF g
  <2> QED
    BY <1>0, <1>1, RecursionExists
<1>3. ASSUME NEW k \in 1 .. n PROVE f[k] = ShiftedOnce(f[k - 1])
  <2>1. k - 1 \in 0 .. n - 1 /\ k - 1 \in 0 .. n
    BY <1>0
  <2>2. f[k - 1] \in UInt
    BY <1>2, <2>1 DEF Recursion
  <2>3. f[k] = g[k - 1][f[k - 1]]
    BY <1>2 DEF Recursion
  <2> QED
    BY <2>1, <2>2, <2>3
<1>4. f \in [0 .. n -> UInt] /\ f[0] = x
  BY <1>2 DEF Recursion
<1>5. f = [m \in 0 .. n |-> IF m = 0 THEN x ELSE ShiftedOnce(f[m - 1])]
  BY <1>0, <1>3, <1>4
<1>6. PICK h : /\ h = [m \in 0 .. n |-> IF m = 0 THEN x ELSE ShiftedOnce(h[m - 1])]
               /\ LeftShift(x, n) = h[n]
  BY <1>5, Zenon DEF LeftShift
<1>7. h[0] = x /\ \A k \in 1 .. n : h[k] = ShiftedOnce(h[k - 1])
  <2>1. h[0] = x
    BY <1>0, <1>6
  <2>2. ASSUME NEW k \in 1 .. n PROVE h[k] = ShiftedOnce(h[k - 1])
    <3>1. k \in 0 .. n /\ k # 0
      BY <1>0
    <3> HIDE DEF g
    <3> QED
      BY <1>6, <3>1
  <2> QED
    BY <2>1, <2>2
<1> DEFINE m == Modulus v == Value(x)
           S == {k \in Nat : k <= n => h[k] \in UInt /\ Value(h[k]) = (v * Bit[k]) % m}
<1>8. m \in Nat \ {0} /\ v \in Nat /\ v < m
  BY ValueFits
<1> HIDE DEF m, v, g
<1>9. 0 \in S
  <2>1. v * Bit[0] = v
    BY <1>8, BitIs
  <2>2. v % m = v
    BY <1>8, ModSmall
  <2> QED
    BY <1>7, <2>1, <2>2 DEF v
<1>10. ASSUME NEW k \in Nat, k \in S PROVE k + 1 \in S
  <2> SUFFICES ASSUME k + 1 <= n
               PROVE  h[k + 1] \in UInt /\ Value(h[k + 1]) = (v * Bit[k + 1]) % m
    OBVIOUS
  <2>1. k + 1 \in 1 .. n /\ (k + 1) - 1 = k /\ k <= n /\ k + 1 \in 1 .. Width
        /\ k \in 0 .. Width
    BY <1>0
  <2>2. h[k] \in UInt /\ Value(h[k]) = (v * Bit[k]) % m
    BY <1>10, <2>1
  <2>3. h[k + 1] = ShiftedOnce(h[k]) /\ Bit[k + 1] = 2 * Bit[k] /\ Bit[k] \in Nat
    BY <1>7, <2>1, BitIs
  <2>4. h[k + 1] \in UInt /\ Value(h[k + 1]) = (2 * Value(h[k])) % m
    BY <2>2, <2>3, ShiftedOnceExact DEF m
  <2> DEFINE b == Bit[k] a == v * b
  <2>5. a \in Nat /\ v * Bit[k + 1] = a * 2
    BY <1>8, <2>3
  <2>6. Value(h[k]) = a % m
    BY <2>2
  <2> HIDE DEF a, b
  <2>7. ((a % m) * 2) % m = (a * 2) % m
    BY <1>8, <2>5, ModOfProduct
  <2>8. 2 * Value(h[k]) = (a % m) * 2
    <3>1. a % m \in Nat
      BY <1>8, <2>5
    <3> QED
      BY <2>6, <3>1
  <2> QED
    BY <2>4, <2>5, <2>7, <2>8
<1>11. \A k \in Nat : k \in S
  <2> HIDE DEF S
  <2> QED
    BY <1>9, <1>10, SetInduction
<1> QED
  BY <1>0, <1>6, <1>11 DEF m, v

------------------------------------------------------------------------------
(* The bits of a number *)

LEMMA BitsOfSum ==
  ASSUME NEW s \in Nat, NEW n \in Nat, s + n <= Width
  PROVE  Bit[s + n] = Bit[s] * Bit[n]
<1>0. Width \in Nat
  BY WidthAssumption DEF Width
<1> DEFINE S == {k \in Nat : k <= n => Bit[s + k] = Bit[s] * Bit[k]}
<1>1. 0 \in S
  <2>1. s + 0 = s /\ s \in 0 .. Width
    BY <1>0
  <2>2. Bit[s] \in Nat /\ Bit[0] = 1
    BY <2>1, BitIs
  <2> QED
    BY <2>1, <2>2
<1>2. ASSUME NEW k \in Nat, k \in S PROVE k + 1 \in S
  <2> SUFFICES ASSUME k + 1 <= n PROVE Bit[s + (k + 1)] = Bit[s] * Bit[k + 1]
    OBVIOUS
  <2>1. /\ k <= n /\ k + 1 \in 1 .. Width /\ (k + 1) - 1 = k
        /\ s + (k + 1) \in 1 .. Width /\ (s + (k + 1)) - 1 = s + k
        /\ s \in 0 .. Width /\ k \in 0 .. Width /\ s + k \in 0 .. Width
    BY <1>0
  <2>2. Bit[s + k] = Bit[s] * Bit[k]
    BY <1>2, <2>1
  <2>3. Bit[s + (k + 1)] = 2 * Bit[s + k]
    <3>1. Bit[s + (k + 1)] = 2 * Bit[(s + (k + 1)) - 1]
      BY <2>1, BitIs
    <3> QED
      BY <2>1, <3>1
  <2>4. Bit[k + 1] = 2 * Bit[k]
    <3>1. Bit[k + 1] = 2 * Bit[(k + 1) - 1]
      BY <2>1, BitIs
    <3> QED
      BY <2>1, <3>1
  <2> DEFINE a == Bit[s] b == Bit[k]
  <2>5. a \in Nat /\ b \in Nat
    BY <2>1, BitIs
  <2>6. 2 * (a * b) = a * (2 * b)
    BY <2>5
  <2> QED
    BY <2>2, <2>3, <2>4, <2>6
<1>3. \A k \in Nat : k \in S
  <2> HIDE DEF S
  <2> QED
    BY <1>1, <1>2, SetInduction
<1> QED
  BY <1>3

\* Where the bits of limb q begin.
LEMMA LimbBegins ==
  ASSUME NEW q \in 0 .. Limbs - 1
  PROVE  /\ q * Bits \in Nat
         /\ q * Bits + Bits = (q + 1) * Bits
         /\ q * Bits + Bits <= Width
<1>0. Limbs \in Nat \ {0} /\ Bits \in Nat \ {0}
  BY WidthAssumption
<1>1. q \in Nat /\ q + 1 \in Nat /\ q + 1 <= Limbs
  BY <1>0
<1>2. (q + 1) * Bits <= Limbs * Bits
  BY <1>0, <1>1, ProductsGrow
<1>3. (q + 1) * Bits = q * Bits + Bits
  BY <1>0, <1>1
<1>4. q * Bits \in Nat
  BY <1>0, <1>1
<1> QED
  BY <1>2, <1>3, <1>4 DEF Width

LEMMA WeightIsBit ==
  ASSUME NEW n \in 0 .. Limbs PROVE Weight[n] = Bit[n * Bits]
<1>0. Limbs \in Nat \ {0} /\ Bits \in Nat \ {0}
  BY WidthAssumption
<1> DEFINE S == {q \in Nat : q <= Limbs => Weight[q] = Bit[q * Bits]}
<1>1. 0 \in S
  <2>1. 0 * Bits = 0
    BY <1>0
  <2> QED
    BY <2>1, BitIs, WeightIs
<1>2. ASSUME NEW q \in Nat, q \in S PROVE q + 1 \in S
  <2> SUFFICES ASSUME q + 1 <= Limbs PROVE Weight[q + 1] = Bit[(q + 1) * Bits]
    OBVIOUS
  <2>1. q <= Limbs /\ q \in 0 .. Limbs - 1 /\ q + 1 \in 1 .. Limbs /\ (q + 1) - 1 = q
        /\ q \in 0 .. Limbs
    BY <1>0
  <2>2. Weight[q] = Bit[q * Bits]
    BY <1>2, <2>1
  <2>3. Weight[q + 1] = Base * Weight[q]
    <3>1. Weight[q + 1] = Base * Weight[(q + 1) - 1]
      BY <2>1, WeightIs
    <3> QED
      BY <2>1, <3>1
  <2> DEFINE s == q * Bits
  <2>4. s \in Nat /\ s + Bits = (q + 1) * Bits /\ s + Bits <= Width
    BY <2>1, LimbBegins
  <2> HIDE DEF s
  <2>5. Bit[s + Bits] = Bit[s] * Bit[Bits]
    BY <1>0, <2>4, BitsOfSum
  <2>6. Bit[Bits] = Base /\ Base \in Nat /\ Weight[q] \in Nat
    BY <2>1, WeightIs, WidthAssumption
  <2>7. Bit[s] = Weight[q]
    BY <2>2 DEF s
  <2> QED
    BY <2>3, <2>4, <2>5, <2>6, <2>7
<1>3. \A k \in Nat : k \in S
  <2> HIDE DEF S
  <2> QED
    BY <1>1, <1>2, SetInduction
<1> QED
  BY <1>0, <1>3

\* One more bit of a.
LEMMA OneMoreBit ==
  ASSUME NEW a \in Nat, NEW b \in Nat \ {0}
  PROVE  a % (2 * b) = (a % b) + (IF (a \div b) % 2 = 1 THEN b ELSE 0)
<1>1. PICK r \in Nat : r = a % b /\ r \in 0 .. b - 1
  BY Remainder
<1>2. PICK p \in Nat : p = a \div b
  BY Remainder
<1>3. a = p * b + r
  BY <1>1, <1>2, Remainder
<1>4. PICK e \in Nat : e = p % 2 /\ e \in 0 .. 1
  <2>1. p % 2 \in 0 .. 2 - 1
    BY Remainder
  <2> QED
    BY <2>1
<1>5. PICK u \in Nat : p = u * 2 + e
  BY <1>4, Divide
<1>6. a = u * (2 * b) + (e * b + r)
  <2>1. (u * 2 + e) * b = u * (2 * b) + e * b
    OBVIOUS
  <2>2. u * (2 * b) \in Nat /\ e * b \in Nat
    OBVIOUS
  <2> QED
    BY <1>3, <1>5, <2>1, <2>2
<1>7. e * b + r = IF e = 1 THEN r + b ELSE r
  <2>1. CASE e = 0
    BY <2>1
  <2>2. CASE e = 1
    BY <2>2
  <2> QED
    BY <1>4, <2>1, <2>2
<1>8. e * b + r \in 0 .. (2 * b) - 1 /\ 2 * b \in Nat \ {0}
  BY <1>1, <1>7
<1>9. (u * (2 * b) + (e * b + r)) % (2 * b) = e * b + r
  BY <1>8, RemainderIs
<1>10. a % (2 * b) = e * b + r
  BY <1>6, <1>9
<1> QED
  BY <1>1, <1>2, <1>4, <1>7, <1>10

\* f sums the bits of x that are set below the nth.
BitSums(f, x) ==
  /\ f \in [0 .. Width -> Nat]
  /\ f[0] = 0
  /\ \A n \in 1 .. Width :
       f[n] = f[n - 1] + IF BitIsSet(x, n - 1) THEN Bit[n - 1] ELSE 0

LEMMA BitSumsExist == ASSUME NEW x \in UInt PROVE \E f : BitSums(f, x)
<1>0. Width \in Nat
  BY WidthAssumption DEF Width
<1> DEFINE g == [k \in 0 .. Width - 1 |->
                   [v \in Nat |-> v + IF BitIsSet(x, k) THEN Bit[k] ELSE 0]]
<1>1. g \in [0 .. Width - 1 -> [Nat -> Nat]]
  <2>1. \A k \in 0 .. Width - 1 : Bit[k] \in Nat
    BY <1>0, BitIs
  <2> QED
    BY <2>1
<1>2. PICK f : Recursion(f, Nat, 0, g, Width)
  <2> HIDE DEF g
  <2> QED
    BY <1>0, <1>1, RecursionExists
<1>3. ASSUME NEW k \in 1 .. Width
      PROVE  f[k] = f[k - 1] + IF BitIsSet(x, k - 1) THEN Bit[k - 1] ELSE 0
  <2>1. k - 1 \in 0 .. Width - 1 /\ k - 1 \in 0 .. Width
    BY <1>0
  <2>2. f[k - 1] \in Nat
    BY <1>2, <2>1 DEF Recursion
  <2>3. f[k] = g[k - 1][f[k - 1]]
    BY <1>2 DEF Recursion
  <2> QED
    BY <2>1, <2>2, <2>3
<1>4. BitSums(f, x)
  BY <1>2, <1>3 DEF BitSums, Recursion
<1> QED
  BY <1>4

\* Below the end of limb q, j bits into it.
LEMMA BitSumInLimb ==
  ASSUME NEW x \in UInt, NEW f, BitSums(f, x),
         NEW q \in 0 .. Limbs - 1, NEW n \in 0 .. Bits
  PROVE  f[q * Bits + n] = f[q * Bits] + Weight[q] * (x[q] % Bit[n])
<1>0. Limbs \in Nat \ {0} /\ Bits \in Nat \ {0} /\ Width \in Nat /\ Base \in Nat \ {0}
  BY WidthAssumption DEF Width
<1> DEFINE s == q * Bits a == x[q] w == Weight[q]
           S == {j \in Nat : j <= Bits => f[s + j] = f[s] + w * (a % Bit[j])}
<1>1. s \in Nat /\ s + Bits <= Width
  BY LimbBegins
<1>2. a \in Nat /\ w \in Nat \ {0}
  <2>1. a \in Limb /\ q \in 0 .. Limbs
    BY <1>0 DEF UInt
  <2> QED
    BY <1>0, <2>1, WeightIs DEF Limb
<1>3. w = Bit[s]
  <2>1. q \in 0 .. Limbs
    BY <1>0
  <2> QED
    BY <2>1, WeightIsBit
<1>4. 0 \in S
  <2>1. Bit[0] = 1 /\ a % 1 = 0
    BY <1>2, BitIs
  <2>2. s + 0 = s /\ s \in 0 .. Width
    BY <1>0, <1>1
  <2>3. f[s] \in Nat
    BY <2>2 DEF BitSums
  <2> HIDE DEF s, a, w
  <2>4. f[s] = f[s] + w * 0
    BY <1>2, <2>3
  <2> QED
    BY <2>1, <2>2, <2>4
<1>5. ASSUME NEW j \in Nat, j \in S PROVE j + 1 \in S
  <2> SUFFICES ASSUME j + 1 <= Bits PROVE f[s + (j + 1)] = f[s] + w * (a % Bit[j + 1])
    OBVIOUS
  <2>1. /\ j <= Bits /\ j \in 0 .. Bits - 1 /\ s \in 0 .. Width
        /\ s + j \in 0 .. Width /\ s + (j + 1) \in 1 .. Width /\ (s + (j + 1)) - 1 = s + j
        /\ j \in 0 .. Width /\ j + 1 \in 1 .. Width /\ (j + 1) - 1 = j /\ s + j <= Width
    BY <1>0, <1>1
  <2>2. f[s + j] = f[s] + w * (a % Bit[j])
    BY <1>5, <2>1
  <2> DEFINE set == (a \div Bit[j]) % 2 = 1 b == Bit[j]
  <2>3. BitIsSet(x, s + j) <=> set
    <3>1. (s + j) \div Bits = q /\ (s + j) % Bits = j
      <4>1. q \in Nat
        BY <1>0
      <4> QED
        BY <1>0, <2>1, <4>1, RemainderIs
    <3> HIDE DEF s
    <3> QED
      BY <3>1 DEF BitIsSet
  <2>4. b \in Nat \ {0} /\ Bit[j + 1] = 2 * b
    <3>1. Bit[j + 1] = 2 * Bit[(j + 1) - 1]
      BY <2>1, BitIs
    <3> QED
      BY <2>1, <3>1, BitIs
  <2>5. Bit[s + j] = w * b
    BY <1>1, <1>3, <2>1, BitsOfSum
  <2>6. f[s + (j + 1)] = f[s + j] + IF set THEN w * b ELSE 0
    <3>1. f[s + (j + 1)] = f[(s + (j + 1)) - 1]
            + IF BitIsSet(x, (s + (j + 1)) - 1) THEN Bit[(s + (j + 1)) - 1] ELSE 0
      BY <2>1 DEF BitSums
    <3> HIDE DEF s, set, w, b
    <3> QED
      BY <2>1, <2>3, <2>5, <3>1
  <2>7. a % (2 * b) = (a % b) + IF set THEN b ELSE 0
    <3>1. a % (2 * b) = (a % b) + IF (a \div b) % 2 = 1 THEN b ELSE 0
      <4> HIDE DEF a, b
      <4> QED
        BY <1>2, <2>4, OneMoreBit
    <3> QED
      BY <3>1
  <2>8. f[s] \in Nat
    BY <2>1 DEF BitSums
  <2>9. a % b \in Nat
    <3> HIDE DEF a, b
    <3> QED
      BY <1>2, <2>4, Remainder
  <2> DEFINE t == a % b
  <2>10. f[s + j] = f[s] + w * t /\ a % Bit[j + 1] = t + IF set THEN b ELSE 0
    BY <2>2, <2>4, <2>7
  <2> HIDE DEF s, a, w, set, b, t
  <2>11. t \in Nat
    BY <2>9 DEF t
  <2>12. CASE set
    <3>1. w * (t + b) = w * t + w * b
      BY <1>2, <2>4, <2>11
    <3>2. w * t \in Nat /\ w * b \in Nat
      BY <1>2, <2>4, <2>11
    <3>3. f[s + (j + 1)] = (f[s] + w * t) + w * b
      BY <2>6, <2>10, <2>12
    <3>4. (f[s] + w * t) + w * b = f[s] + (w * t + w * b)
      BY <2>8, <3>2
    <3> QED
      BY <2>10, <2>12, <3>1, <3>3, <3>4
  <2>13. CASE ~set
    <3>1. f[s + (j + 1)] = f[s] + w * t
      <4>1. w * t \in Nat
        BY <1>2, <2>11
      <4> QED
        BY <2>6, <2>8, <2>10, <2>13, <4>1
    <3>2. a % Bit[j + 1] = t
      BY <2>10, <2>11, <2>13
    <3> QED
      BY <3>1, <3>2
  <2> QED
    BY <2>12, <2>13
<1>6. \A k \in Nat : k \in S
  <2> HIDE DEF S
  <2> QED
    BY <1>4, <1>5, SetInduction
<1> QED
  BY <1>0, <1>6

\* The bits of a number add up to it.
LEMMA BitsAddUp ==
  ASSUME NEW x \in UInt, NEW f, BitSums(f, x)
  PROVE  f[Width] = Value(x)
<1>0. Limbs \in Nat \ {0} /\ Bits \in Nat \ {0} /\ Base \in Nat \ {0} /\ Base = Bit[Bits]
  BY WidthAssumption
<1>1. PICK h : Prefixes(h, x) /\ Value(x) = h[Limbs]
  BY ValueIs
<1> DEFINE S == {q \in Nat : q <= Limbs => f[q * Bits] = h[q]}
<1>2. 0 \in S
  <2>1. 0 * Bits = 0 /\ f[0] = 0 /\ h[0] = 0
    BY <1>0, <1>1 DEF BitSums, Prefixes
  <2> QED
    BY <2>1
<1>3. ASSUME NEW q \in Nat, q \in S PROVE q + 1 \in S
  <2> SUFFICES ASSUME q + 1 <= Limbs PROVE f[(q + 1) * Bits] = h[q + 1]
    OBVIOUS
  <2>1. q <= Limbs /\ q \in 0 .. Limbs - 1 /\ q + 1 \in 1 .. Limbs /\ (q + 1) - 1 = q
        /\ q \in 0 .. Limbs
    BY <1>0
  <2>2. f[q * Bits] = h[q]
    BY <1>3, <2>1
  <2>3. f[q * Bits + Bits] = f[q * Bits] + Weight[q] * (x[q] % Bit[Bits])
    <3>1. Bits \in 0 .. Bits
      BY <1>0
    <3> QED
      BY <2>1, <3>1, BitSumInLimb
  <2>4. x[q] \in Nat /\ x[q] < Base
    BY <1>0, <2>1 DEF UInt, Limb
  <2>5. x[q] % Bit[Bits] = x[q]
    BY <1>0, <2>4, ModSmall
  <2>6. q * Bits + Bits = (q + 1) * Bits
    BY <2>1, LimbBegins
  <2>7. h[q + 1] = h[q] + x[q] * Weight[q]
    <3>1. h[q + 1] = h[(q + 1) - 1] + x[(q + 1) - 1] * Weight[(q + 1) - 1]
      BY <1>1, <2>1 DEF Prefixes
    <3> QED
      BY <2>1, <3>1
  <2>8. Weight[q] * x[q] = x[q] * Weight[q]
    <3>1. Weight[q] \in Nat
      BY <2>1, WeightIs
    <3> QED
      BY <2>4, <3>1
  <2> QED
    BY <2>2, <2>3, <2>5, <2>6, <2>7, <2>8
<1>4. \A k \in Nat : k \in S
  <2> HIDE DEF S
  <2> QED
    BY <1>2, <1>3, SetInduction
<1> QED
  BY <1>0, <1>1, <1>4 DEF Width

------------------------------------------------------------------------------
(* Multiplication *)

LEMMA ZeroIs == FromLimb(0) \in UInt /\ Value(FromLimb(0)) = 0
<1>0. Limbs \in Nat \ {0} /\ Base \in Nat /\ Base >= 2
  BY WidthAssumption
<1> DEFINE x == FromLimb(0)
<1>1. x = [k \in 0 .. Limbs - 1 |-> 0]
  BY DEF FromLimb
<1>2. x \in UInt
  <2>1. 0 \in Limb
    BY <1>0 DEF Limb
  <2> QED
    BY <1>1, <2>1 DEF UInt
<1>3. \A k \in 0 .. Limbs - 1 : x[k] = 0
  BY <1>1
<1> HIDE DEF x
<1>4. PICK f : Prefixes(f, x) /\ Value(x) = f[Limbs]
  BY <1>2, ValueIs
<1> DEFINE S == {k \in Nat : k <= Limbs => f[k] = 0}
<1>5. 0 \in S
  BY <1>4 DEF Prefixes
<1>6. ASSUME NEW k \in Nat, k \in S PROVE k + 1 \in S
  <2> SUFFICES ASSUME k + 1 <= Limbs PROVE f[k + 1] = 0
    OBVIOUS
  <2>1. k <= Limbs /\ k + 1 \in 1 .. Limbs /\ (k + 1) - 1 = k /\ k \in 0 .. Limbs - 1
        /\ k \in 0 .. Limbs
    BY <1>0
  <2>2. f[k + 1] = f[(k + 1) - 1] + x[(k + 1) - 1] * Weight[(k + 1) - 1]
    BY <1>4, <2>1 DEF Prefixes
  <2>3. x[k] = 0 /\ Weight[k] \in Nat
    BY <1>3, <2>1, WeightIs
  <2>4. f[k] = 0
    BY <1>6, <2>1
  <2> QED
    BY <2>1, <2>2, <2>3, <2>4
<1>7. \A k \in Nat : k \in S
  <2> HIDE DEF S
  <2> QED
    BY <1>5, <1>6, SetInduction
<1> QED
  BY <1>0, <1>2, <1>4, <1>7 DEF x

LEMMA ProductsIs ==
  ASSUME NEW l \in UInt, NEW r \in UInt
  PROVE  /\ \A n \in 0 .. Width : Products(l, r)[n] \in UInt
         /\ Products(l, r)[0] = FromLimb(0)
         /\ \A n \in 1 .. Width :
              Products(l, r)[n] =
                IF BitIsSet(l, n - 1)
                THEN Add(Products(l, r)[n - 1], LeftShift(r, n - 1))
                ELSE Products(l, r)[n - 1]
<1>0. Width \in Nat
  BY WidthAssumption DEF Width
<1> DEFINE g == [n \in 0 .. Width - 1 |->
                   [v \in UInt |-> IF BitIsSet(l, n) THEN Add(v, LeftShift(r, n)) ELSE v]]
           p == Products(l, r)
           z == FromLimb(0)
<1>1. z \in UInt /\ g \in [0 .. Width - 1 -> [UInt -> UInt]]
  <2>1. ASSUME NEW n \in 0 .. Width - 1, NEW v \in UInt
        PROVE  Add(v, LeftShift(r, n)) \in UInt
    <3>1. n \in 0 .. Width
      BY <1>0
    <3>2. LeftShift(r, n) \in UInt
      BY <3>1, LeftShiftExact
    <3> QED
      BY <3>2, AddIs
  <2> QED
    BY <2>1, ZeroIs
<1>2. PICK f : Recursion(f, UInt, z, g, Width)
  <2> HIDE DEF g, z
  <2> QED
    BY <1>0, <1>1, RecursionExists
<1>3. ASSUME NEW n \in 1 .. Width
      PROVE  f[n] = IF BitIsSet(l, n - 1)
                    THEN Add(f[n - 1], LeftShift(r, n - 1)) ELSE f[n - 1]
  <2>1. n - 1 \in 0 .. Width - 1 /\ n - 1 \in 0 .. Width
    BY <1>0
  <2>2. f[n - 1] \in UInt
    BY <1>2, <2>1 DEF Recursion
  <2>3. f[n] = g[n - 1][f[n - 1]]
    BY <1>2 DEF Recursion
  <2> QED
    BY <2>1, <2>2, <2>3
<1>4. f \in [0 .. Width -> UInt] /\ f[0] = z
  BY <1>2 DEF Recursion
<1> HIDE DEF z
<1>5. f = [n \in 0 .. Width |->
             IF n = 0 THEN z
             ELSE IF BitIsSet(l, n - 1) THEN Add(f[n - 1], LeftShift(r, n - 1))
             ELSE f[n - 1]]
  BY <1>0, <1>3, <1>4
<1>6. p = [n \in 0 .. Width |->
             IF n = 0 THEN z
             ELSE IF BitIsSet(l, n - 1) THEN Add(p[n - 1], LeftShift(r, n - 1))
             ELSE p[n - 1]]
  BY <1>5, Zenon DEF Products, z
<1> HIDE DEF p, g
<1>7. p[0] = z
  BY <1>0, <1>6
<1>8. ASSUME NEW n \in 1 .. Width
      PROVE  p[n] = IF BitIsSet(l, n - 1)
                    THEN Add(p[n - 1], LeftShift(r, n - 1)) ELSE p[n - 1]
  <2>1. n \in 0 .. Width /\ n # 0
    BY <1>0
  <2> QED
    BY <1>6, <2>1
<1> DEFINE S == {k \in Nat : k <= Width => p[k] = f[k]}
<1>9. 0 \in S
  BY <1>4, <1>7
<1>10. ASSUME NEW k \in Nat, k \in S PROVE k + 1 \in S
  <2> SUFFICES ASSUME k + 1 <= Width PROVE p[k + 1] = f[k + 1]
    OBVIOUS
  <2>1. k + 1 \in 1 .. Width /\ (k + 1) - 1 = k /\ k <= Width
    BY <1>0
  <2>2. p[k] = f[k]
    BY <1>10, <2>1
  <2> QED
    BY <1>3, <1>8, <2>1, <2>2
<1>11. \A k \in Nat : k \in S
  <2> HIDE DEF S
  <2> QED
    BY <1>9, <1>10, SetInduction
<1>12. \A n \in 0 .. Width : p[n] \in UInt
  BY <1>0, <1>4, <1>11
<1> QED
  BY <1>7, <1>8, <1>12 DEF p, z

\* uint256_mul is exact, modulo the width, when none of its additions loses a
\* carry.
LEMMA MulExact ==
  ASSUME NEW l \in UInt, NEW r \in UInt,
         \A n \in 1 .. Width :
           ~(/\ BitIsSet(l, n - 1)
             /\ LosesCarry(Products(l, r)[n - 1], LeftShift(r, n - 1)))
  PROVE  Value(Mul(l, r)) = (Value(l) * Value(r)) % Modulus
<1>0. Width \in Nat
  BY WidthAssumption DEF Width
<1>1. PICK f : BitSums(f, l)
  BY BitSumsExist
<1> DEFINE m == Modulus v == Value(r) p == Products(l, r)
           S == {n \in Nat : n <= Width => Value(p[n]) = (f[n] * v) % m}
<1>2. m \in Nat \ {0} /\ v \in Nat
  BY ValueFits
<1> HIDE DEF m, v
<1>3. 0 \in S
  <2>1. f[0] = 0 /\ p[0] = FromLimb(0)
    BY <1>1, ProductsIs DEF BitSums
  <2>2. 0 * v = 0 /\ 0 % m = 0
    <3>1. 0 % m = 0
      BY <1>2, ModSmall
    <3> QED
      BY <1>2, <3>1
  <2> HIDE DEF p
  <2> QED
    BY <2>1, <2>2, ZeroIs
<1>4. ASSUME NEW n \in Nat, n \in S PROVE n + 1 \in S
  <2> SUFFICES ASSUME n + 1 <= Width PROVE Value(p[n + 1]) = (f[n + 1] * v) % m
    OBVIOUS
  <2>1. /\ n + 1 \in 1 .. Width /\ (n + 1) - 1 = n /\ n <= Width /\ n \in 0 .. Width
    BY <1>0
  <2>2. Value(p[n]) = (f[n] * v) % m
    BY <1>4, <2>1
  <2>3. f[n + 1] = f[n] + IF BitIsSet(l, n) THEN Bit[n] ELSE 0
    <3>1. f[n + 1] = f[(n + 1) - 1]
            + IF BitIsSet(l, (n + 1) - 1) THEN Bit[(n + 1) - 1] ELSE 0
      BY <1>1, <2>1 DEF BitSums
    <3> QED
      BY <2>1, <3>1
  <2>4. p[n + 1] = IF BitIsSet(l, n) THEN Add(p[n], LeftShift(r, n)) ELSE p[n]
    <3>1. p[n + 1] = IF BitIsSet(l, (n + 1) - 1)
                     THEN Add(p[(n + 1) - 1], LeftShift(r, (n + 1) - 1))
                     ELSE p[(n + 1) - 1]
      BY <2>1, ProductsIs
    <3> QED
      BY <2>1, <3>1
  <2>5. f[n] \in Nat /\ Bit[n] \in Nat /\ p[n] \in UInt
    BY <1>1, <2>1, BitIs, ProductsIs DEF BitSums
  <2>6. LeftShift(r, n) \in UInt /\ Value(LeftShift(r, n)) = (v * Bit[n]) % m
    BY <2>1, LeftShiftExact DEF v, m
  <2>7. BitIsSet(l, n) => ~LosesCarry(p[n], LeftShift(r, n))
    <3>1. ~(BitIsSet(l, (n + 1) - 1)
            /\ LosesCarry(p[(n + 1) - 1], LeftShift(r, (n + 1) - 1)))
      BY <2>1
    <3> QED
      BY <2>1, <3>1
  <2> HIDE DEF p
  <2>8. CASE ~BitIsSet(l, n)
    <3>1. f[n + 1] = f[n]
      BY <2>3, <2>5, <2>8
    <3> QED
      BY <2>2, <2>4, <2>8, <3>1
  <2>9. CASE BitIsSet(l, n)
    <3> DEFINE a == f[n] * v b == v * Bit[n] s == LeftShift(r, n)
    <3>1. a \in Nat /\ b \in Nat
      BY <1>2, <2>5
    <3>2. Value(Add(p[n], s)) = (Value(p[n]) + Value(s)) % m
      BY <2>5, <2>6, <2>7, <2>9, AddExact DEF m
    <3>3. f[n + 1] * v = a + b
      <4>1. (f[n] + Bit[n]) * v = f[n] * v + v * Bit[n]
        BY <1>2, <2>5
      <4> QED
        BY <2>3, <2>9, <4>1
    <3>4. Value(p[n]) = a % m /\ Value(s) = b % m
      BY <2>2, <2>6
    <3> HIDE DEF a, b, s
    <3>5. ((a % m) + (b % m)) % m = (a + b) % m
      BY <1>2, <3>1, ModOfSum
    <3>6. p[n + 1] = Add(p[n], s)
      BY <2>4, <2>9 DEF s
    <3> QED
      BY <3>2, <3>3, <3>4, <3>5, <3>6
  <2> QED
    BY <2>8, <2>9
<1>5. \A n \in Nat : n \in S
  <2> HIDE DEF S
  <2> QED
    BY <1>3, <1>4, SetInduction
<1>6. f[Width] = Value(l)
  BY <1>1, BitsAddUp
<1> QED
  BY <1>0, <1>5, <1>6 DEF Mul, m, v

------------------------------------------------------------------------------
(* Strings of digits *)

Digit == 0 .. Radix - 1

LEMMA PlaceIs ==
  /\ Place \in [0 .. LimbDigits -> Nat \ {0}]
  /\ Place[0] = 1
  /\ \A k \in 1 .. LimbDigits : Place[k] = Radix * Place[k - 1]
<1>0. LimbDigits \in Nat /\ Radix \in Nat \ {0}
  BY WidthAssumption
<1> DEFINE V == Nat \ {0}
           g == [k \in 0 .. LimbDigits - 1 |-> [v \in V |-> Radix * v]]
<1>1. 1 \in V /\ g \in [0 .. LimbDigits - 1 -> [V -> V]]
  BY <1>0, ProductIsPositive
<1>2. PICK f : Recursion(f, V, 1, g, LimbDigits)
  <2> HIDE DEF V, g
  <2> QED
    BY <1>0, <1>1, RecursionExists
<1>3. ASSUME NEW k \in 1 .. LimbDigits PROVE f[k] = Radix * f[k - 1]
  <2>1. k - 1 \in 0 .. LimbDigits - 1 /\ k - 1 \in 0 .. LimbDigits
    BY <1>0
  <2>2. f[k - 1] \in V
    BY <1>2, <2>1 DEF Recursion
  <2>3. f[k] = g[k - 1][f[k - 1]]
    BY <1>2 DEF Recursion
  <2> QED
    BY <2>1, <2>2, <2>3
<1>4. f \in [0 .. LimbDigits -> V] /\ f[0] = 1
  BY <1>2 DEF Recursion
<1>5. f = [k \in 0 .. LimbDigits |-> IF k = 0 THEN 1 ELSE Radix * f[k - 1]]
  BY <1>0, <1>3, <1>4
<1>6. Place = [k \in 0 .. LimbDigits |-> IF k = 0 THEN 1 ELSE Radix * Place[k - 1]]
  BY <1>5, Zenon DEF Place
<1>7. Place[0] = 1
  BY <1>0, <1>6
<1>8. \A k \in 1 .. LimbDigits : Place[k] = Radix * Place[k - 1]
  BY <1>0, <1>6
<1>9. \A k \in 0 .. LimbDigits : Place[k] \in V
  <2> DEFINE S == {k \in Nat : k <= LimbDigits => Place[k] \in V}
  <2>1. 0 \in S
    BY <1>7
  <2>2. ASSUME NEW k \in Nat, k \in S PROVE k + 1 \in S
    <3> SUFFICES ASSUME k + 1 <= LimbDigits PROVE Place[k + 1] \in V
      OBVIOUS
    <3>1. k + 1 \in 1 .. LimbDigits /\ (k + 1) - 1 = k /\ k <= LimbDigits
      BY <1>0
    <3>2. Place[k] \in V /\ Place[k + 1] = Radix * Place[k]
      BY <1>8, <2>2, <3>1
    <3> QED
      BY <1>0, <3>2, ProductIsPositive
  <2>3. \A k \in Nat : k \in S
    <3> HIDE DEF S
    <3> QED
      BY <2>1, <2>2, SetInduction
  <2> QED
    BY <2>3
<1>10. Place \in [0 .. LimbDigits -> V]
  BY <1>6, <1>9
<1> QED
  BY <1>7, <1>8, <1>10

\* f has the numbers of the first n digits of d.
Reads(f, d, n) ==
  /\ f \in [0 .. n -> Nat]
  /\ f[0] = 0
  /\ \A k \in 1 .. n : f[k] = Radix * f[k - 1] + d[k]

LEMMA NumberIs ==
  ASSUME NEW d \in Seq(Digit)
  PROVE  \E f : Reads(f, d, Len(d)) /\ Number(d) = f[Len(d)]
<1>0. Radix \in Nat \ {0, 1}
  BY WidthAssumption
<1>1. PICK n \in Nat : n = Len(d)
  OBVIOUS
<1>2. \A k \in 1 .. n : d[k] \in Nat
  BY <1>0, <1>1 DEF Digit
<1> DEFINE g == [k \in 0 .. n - 1 |-> [v \in Nat |-> Radix * v + d[k + 1]]]
<1>3. g \in [0 .. n - 1 -> [Nat -> Nat]]
  <2>1. ASSUME NEW k \in 0 .. n - 1, NEW v \in Nat PROVE Radix * v + d[k + 1] \in Nat
    <3>1. k + 1 \in 1 .. n
      BY <1>1
    <3>2. d[k + 1] \in Nat
      BY <1>2, <3>1
    <3>3. Radix * v \in Nat
      BY <1>0
    <3> QED
      BY <3>2, <3>3
  <2> QED
    BY <2>1
<1>4. PICK f : Recursion(f, Nat, 0, g, n)
  <2> HIDE DEF g
  <2> QED
    BY <1>3, RecursionExists
<1>5. ASSUME NEW k \in 1 .. n PROVE f[k] = Radix * f[k - 1] + d[k]
  <2>1. k - 1 \in 0 .. n - 1 /\ k - 1 \in 0 .. n /\ (k - 1) + 1 = k
    BY <1>1
  <2>2. f[k - 1] \in Nat
    BY <1>4, <2>1 DEF Recursion
  <2>3. f[k] = g[k - 1][f[k - 1]]
    BY <1>4 DEF Recursion
  <2> QED
    BY <2>1, <2>2, <2>3
<1>6. f \in [0 .. n -> Nat] /\ f[0] = 0
  BY <1>4 DEF Recursion
<1>7. Reads(f, d, n)
  BY <1>5, <1>6 DEF Reads
<1>8. f = [k \in 0 .. Len(d) |-> IF k = 0 THEN 0 ELSE Radix * f[k - 1] + d[k]]
  BY <1>1, <1>5, <1>6
<1> DEFINE h == CHOOSE h : h = [k \in 0 .. Len(d) |->
                                 IF k = 0 THEN 0 ELSE Radix * h[k - 1] + d[k]]
<1>9. h = [k \in 0 .. Len(d) |-> IF k = 0 THEN 0 ELSE Radix * h[k - 1] + d[k]]
  BY <1>8, Zenon
<1>10. Number(d) = h[Len(d)]
  BY Zenon DEF Number
<1> HIDE DEF h
<1>11. h[0] = 0 /\ \A k \in 1 .. n : h[k] = Radix * h[k - 1] + d[k]
  BY <1>1, <1>9
<1>12. h[n] = f[n]
  <2> DEFINE S == {k \in Nat : k <= n => h[k] = f[k]}
  <2>1. 0 \in S
    BY <1>6, <1>11
  <2>2. ASSUME NEW k \in Nat, k \in S PROVE k + 1 \in S
    <3> SUFFICES ASSUME k + 1 <= n PROVE h[k + 1] = f[k + 1]
      OBVIOUS
    <3>1. k + 1 \in 1 .. n /\ (k + 1) - 1 = k /\ k <= n
      BY <1>1
    <3>2. h[k] = f[k]
      BY <2>2, <3>1
    <3> QED
      BY <1>5, <1>11, <3>1, <3>2
  <2>3. n \in S
    <3> HIDE DEF S
    <3> QED
      BY <2>1, <2>2, SetInduction
  <2> QED
    BY <2>3
<1> QED
  BY <1>1, <1>7, <1>10, <1>12

LEMMA NumberInNat == ASSUME NEW d \in Seq(Digit) PROVE Number(d) \in Nat
<1>1. PICK f : Reads(f, d, Len(d)) /\ Number(d) = f[Len(d)]
  BY NumberIs
<1> QED
  BY <1>1 DEF Reads

\* e are the p digits of d that follow the first m.
Follow(e, d, m, p) == \A i \in 1 .. p : e[i] = d[m + i] /\ e[i] \in Nat

\* The number read goes on from what comes before the p digits e.
LEMMA PartReads ==
  ASSUME NEW n \in Nat, NEW f, NEW d, Reads(f, d, n),
         NEW m \in Nat, NEW p \in 0 .. LimbDigits, m + p <= n,
         NEW h, NEW e, Reads(h, e, p), Follow(e, d, m, p)
  PROVE  f[m + p] = f[m] * Place[p] + h[p]
<1>0. LimbDigits \in Nat /\ Radix \in Nat \ {0}
  BY WidthAssumption
<1>1. PICK a \in Nat : a = f[m]
  <2>1. m \in 0 .. n
    BY <1>0
  <2> QED
    BY <2>1 DEF Reads
<1> DEFINE S == {i \in Nat : i <= p => f[m + i] = a * Place[i] + h[i]}
<1>2. 0 \in S
  BY <1>1, PlaceIs DEF Reads
<1>3. ASSUME NEW i \in Nat, i \in S PROVE i + 1 \in S
  <2> SUFFICES ASSUME i + 1 <= p PROVE f[m + (i + 1)] = a * Place[i + 1] + h[i + 1]
    OBVIOUS
  <2>1. /\ i + 1 \in 1 .. p /\ (i + 1) - 1 = i /\ i <= p /\ i \in 0 .. p
        /\ m + (i + 1) \in 1 .. n /\ (m + (i + 1)) - 1 = m + i
        /\ i + 1 \in 1 .. LimbDigits /\ i \in 0 .. LimbDigits
    BY <1>0
  <2>2. PICK w \in Nat : w = Place[i] /\ Place[i + 1] = Radix * w
    BY <2>1, PlaceIs
  <2>3. PICK b \in Nat : b = h[i]
    BY <2>1 DEF Reads
  <2>4. PICK c \in Nat : c = e[i + 1] /\ c = d[m + (i + 1)]
    BY <2>1 DEF Follow
  <2>5. f[m + i] = a * w + b
    BY <1>3, <2>1, <2>2, <2>3
  <2>6. f[m + (i + 1)] = Radix * (a * w + b) + c /\ h[i + 1] = Radix * b + c
    BY <2>1, <2>3, <2>4, <2>5 DEF Reads
  <2>7. Radix * (a * w + b) = a * (Radix * w) + Radix * b
    BY <1>0
  <2>8. a * (Radix * w) \in Nat /\ Radix * b \in Nat
    BY <1>0
  <2> QED
    BY <2>2, <2>6, <2>7, <2>8
<1>4. p \in S
  <2> HIDE DEF S
  <2> QED
    BY <1>0, <1>2, <1>3, SetInduction
<1> QED
  BY <1>0, <1>1, <1>4

\* p digits are a number below Radix^p.
LEMMA ReadsBelow ==
  ASSUME NEW p \in 0 .. LimbDigits, NEW h, NEW e, Reads(h, e, p),
         \A i \in 1 .. p : e[i] \in Digit
  PROVE  h[p] \in Nat /\ h[p] < Place[p]
<1>0. LimbDigits \in Nat /\ Radix \in Nat \ {0}
  BY WidthAssumption
<1> DEFINE S == {i \in Nat : i <= p => h[i] \in Nat /\ h[i] < Place[i]}
<1>1. 0 \in S
  BY PlaceIs DEF Reads
<1>2. ASSUME NEW i \in Nat, i \in S PROVE i + 1 \in S
  <2> SUFFICES ASSUME i + 1 <= p PROVE h[i + 1] \in Nat /\ h[i + 1] < Place[i + 1]
    OBVIOUS
  <2>1. i + 1 \in 1 .. p /\ (i + 1) - 1 = i /\ i <= p /\ i + 1 \in 1 .. LimbDigits
        /\ i \in 0 .. LimbDigits
    BY <1>0
  <2>2. PICK w \in Nat : w = Place[i] /\ Place[i + 1] = Radix * w
    BY <2>1, PlaceIs
  <2>3. PICK b \in Nat : b = h[i] /\ b < w
    BY <1>2, <2>1, <2>2
  <2>4. PICK c \in Nat : c = e[i + 1] /\ c < Radix
    BY <1>0, <2>1 DEF Digit
  <2>5. h[i + 1] = Radix * b + c
    BY <2>1, <2>3, <2>4 DEF Reads
  <2>6. (b + 1) * Radix <= w * Radix
    BY <1>0, <2>3, ProductsGrow
  <2>7. (b + 1) * Radix = Radix * b + Radix /\ w * Radix = Radix * w /\ Radix * b \in Nat
        /\ Radix * w \in Nat
    BY <1>0
  <2> QED
    BY <1>0, <2>2, <2>4, <2>5, <2>6, <2>7
<1>3. p \in S
  <2> HIDE DEF S
  <2> QED
    BY <1>0, <1>1, <1>2, SetInduction
<1> QED
  BY <1>0, <1>3

\* More digits: a number that is not 0 becomes more than itself, and 0 stays 0
\* as long as the digits are zeros.
LEMMA MoreDigits ==
  ASSUME NEW n \in Nat, NEW f, NEW d, Reads(f, d, n), \A i \in 1 .. n : d[i] \in Nat,
         NEW m \in 0 .. n
  PROVE  /\ f[m] > 0 /\ m < n => f[n] > f[m]
         /\ f[m] = 0 => (f[n] = 0 <=> \A i \in m + 1 .. n : d[i] = 0)
<1>0. Radix \in Nat \ {0, 1}
  BY WidthAssumption
<1> DEFINE S == {j \in Nat : m + j <= n =>
                   /\ f[m + j] \in Nat
                   /\ f[m] > 0 /\ j > 0 => f[m + j] > f[m]
                   /\ f[m] = 0 => (f[m + j] = 0 <=> \A i \in m + 1 .. m + j : d[i] = 0)}
<1>1. 0 \in S
  BY DEF Reads
<1>2. ASSUME NEW j \in Nat, j \in S PROVE j + 1 \in S
  <2> SUFFICES ASSUME m + (j + 1) <= n
               PROVE  /\ f[m + (j + 1)] \in Nat
                      /\ f[m] > 0 => f[m + (j + 1)] > f[m]
                      /\ f[m] = 0 => (f[m + (j + 1)] = 0
                                        <=> \A i \in m + 1 .. m + (j + 1) : d[i] = 0)
    <3>1. j + 1 \in Nat
      OBVIOUS
    <3> QED
      BY <3>1, Zenon
  <2>1. m + (j + 1) \in 1 .. n /\ (m + (j + 1)) - 1 = m + j /\ m + j <= n
    OBVIOUS
  <2>2. PICK b \in Nat : b = f[m + j] /\ f[m] \in Nat
    BY <2>1 DEF Reads
  <2>3. PICK c \in Nat : c = d[m + (j + 1)]
    BY <2>1
  <2>4. f[m + (j + 1)] = Radix * b + c
    BY <2>1, <2>2, <2>3 DEF Reads
  <2>5. 2 * b <= Radix * b /\ Radix * b \in Nat
    BY <1>0, ProductsGrow
  <2>6. Radix * b = 0 <=> b = 0
    BY <1>0, <2>5
  <2>7. f[m] > 0 => b >= f[m]
    BY <1>2, <2>1, <2>2
  <2>8. f[m] > 0 => f[m + (j + 1)] > f[m]
    BY <2>2, <2>4, <2>5, <2>7
  <2>9. ASSUME f[m] = 0
        PROVE  f[m + (j + 1)] = 0 <=> \A i \in m + 1 .. m + (j + 1) : d[i] = 0
    <3>1. b = 0 <=> \A i \in m + 1 .. m + j : d[i] = 0
      BY <1>2, <2>1, <2>2, <2>9
    <3>2. f[m + (j + 1)] = 0 <=> b = 0 /\ c = 0
      BY <2>4, <2>5, <2>6
    <3>3. \A i : i \in m + 1 .. m + (j + 1) <=> (i \in m + 1 .. m + j \/ i = m + (j + 1))
      OBVIOUS
    <3> QED
      BY <2>3, <3>1, <3>2, <3>3
  <2> QED
    BY <2>2, <2>4, <2>5, <2>8, <2>9
<1>3. PICK j \in Nat : n = m + j /\ (j > 0 <=> m < n)
  <2>1. n - m \in Nat /\ n = m + (n - m)
    OBVIOUS
  <2> QED
    BY <2>1
<1>4. j \in S
  <2> HIDE DEF S
  <2> QED
    BY <1>1, <1>2, SetInduction
<1> QED
  BY <1>3, <1>4

\* The digits before those of the limb k.
Before(k) == (Limbs - 1 - k) * LimbDigits

\* The digits of the limb k.
Piece(d, k) == SubSeq(d, Before(k) + 1, Before(k) + LimbDigits)

LEMMA BeforeIs ==
  /\ Digits \in Nat \ {0}
  /\ \A k \in 0 .. Limbs - 1 : Before(k) \in Nat /\ Before(k) + LimbDigits <= Digits
  /\ Before(Limbs - 1) = 0 /\ Before(0) + LimbDigits = Digits
  /\ \A k \in 1 .. Limbs - 1 : Before(k - 1) = Before(k) + LimbDigits
  /\ \A k \in 0 .. Limbs - 1 : Digits - Before(k) = k * LimbDigits + LimbDigits
<1>0. Limbs \in Nat \ {0} /\ LimbDigits \in Nat \ {0}
  BY WidthAssumption
<1>1. Digits \in Nat \ {0}
  BY <1>0, ProductIsPositive DEF Digits
<1>2. ASSUME NEW k \in 0 .. Limbs - 1
      PROVE  /\ Before(k) \in Nat
             /\ Before(k) + LimbDigits <= Digits
             /\ Digits - Before(k) = k * LimbDigits + LimbDigits
             /\ k = 0 => Before(k) + LimbDigits = Digits
             /\ k > 0 => Before(k - 1) = Before(k) + LimbDigits
  <2>1. PICK j \in Nat : j = Limbs - 1 - k /\ Limbs = j + k + 1 /\ k \in Nat
    <3>1. Limbs - 1 - k \in Nat /\ Limbs = (Limbs - 1 - k) + k + 1 /\ k \in Nat
      BY <1>0
    <3> QED
      BY <3>1
  <2>2. Before(k) = j * LimbDigits
    BY <2>1 DEF Before
  <2>3. (j + k + 1) * LimbDigits = j * LimbDigits + k * LimbDigits + LimbDigits
    BY <1>0, <2>1
  <2>4. j * LimbDigits \in Nat /\ k * LimbDigits \in Nat
    BY <1>0, <2>1
  <2>5. Digits = j * LimbDigits + k * LimbDigits + LimbDigits
    BY <2>1, <2>3 DEF Digits
  <2>6. ASSUME k = 0 PROVE k * LimbDigits = 0
    BY <1>0, <2>6
  <2>7. ASSUME k > 0 PROVE Before(k - 1) = Before(k) + LimbDigits
    <3>1. Limbs - 1 - (k - 1) = j + 1 /\ (j + 1) * LimbDigits = j * LimbDigits + LimbDigits
      BY <1>0, <2>1
    <3> QED
      BY <2>2, <3>1 DEF Before
  <2> QED
    BY <1>0, <2>2, <2>4, <2>5, <2>6, <2>7
<1>3. Before(Limbs - 1) = 0
  <2>1. Limbs - 1 - (Limbs - 1) = 0 /\ 0 * LimbDigits = 0
    BY <1>0
  <2> QED
    BY <2>1 DEF Before
<1>4. 0 \in 0 .. Limbs - 1 /\ \A k \in 1 .. Limbs - 1 : k \in 0 .. Limbs - 1 /\ k > 0
  BY <1>0
<1> QED
  BY <1>1, <1>2, <1>3, <1>4

LEMMA BeforeFits ==
  ASSUME NEW k \in 0 .. Limbs - 1
  PROVE  \E b \in Nat : b = Before(k) /\ b + LimbDigits <= Digits /\ b \in 0 .. Digits
<1>1. PICK n \in Nat, m \in Nat : n = LimbDigits /\ m = Digits
  BY WidthAssumption, BeforeIs
<1>2. PICK b \in Nat : b = Before(k) /\ b + n <= m
  BY <1>1, BeforeIs
<1>3. b \in 0 .. m
  BY <1>2
<1> QED
  BY <1>1, <1>2, <1>3

LEMMA PieceIs ==
  ASSUME NEW d \in Seq(Digit), Len(d) = Digits, NEW k \in 0 .. Limbs - 1
  PROVE  /\ Piece(d, k) \in Seq(Digit) /\ Len(Piece(d, k)) = LimbDigits
         /\ \A i \in 1 .. LimbDigits : Piece(d, k)[i] = d[Before(k) + i]
<1>0. LimbDigits \in Nat \ {0}
  BY WidthAssumption
<1>1. PICK b \in Nat : b = Before(k) /\ b + LimbDigits <= Digits
  BY BeforeIs
<1>2. b + 1 \in 1 .. Len(d) + 1 /\ b + LimbDigits \in 1 .. Len(d)
  BY <1>0, <1>1, BeforeIs
<1>3. /\ SubSeq(d, b + 1, b + LimbDigits) \in Seq(Digit)
      /\ Len(SubSeq(d, b + 1, b + LimbDigits))
           = IF b + 1 <= b + LimbDigits THEN (b + LimbDigits) - (b + 1) + 1 ELSE 0
      /\ \A i \in 1 .. (b + LimbDigits) - (b + 1) + 1 :
           SubSeq(d, b + 1, b + LimbDigits)[i] = d[b + 1 + i - 1]
  BY <1>2, SubSeqProperties
<1>4. b + 1 <= b + LimbDigits /\ (b + LimbDigits) - (b + 1) + 1 = LimbDigits
      /\ \A i \in 1 .. LimbDigits : b + 1 + i - 1 = b + i
  BY <1>0
<1> QED
  BY <1>1, <1>3, <1>4 DEF Piece

\* The digits of a limb are a limb, and strtoul reads them as they are.
LEMMA PieceNumber ==
  ASSUME NEW d \in Seq(Digit), Len(d) = Digits, NEW k \in 0 .. Limbs - 1
  PROVE  /\ Number(Piece(d, k)) \in Limb
         /\ Strtoul(Piece(d, k) \o <<>>) = Number(Piece(d, k))
<1>0. LimbDigits \in Nat /\ LimbDigits \in 0 .. LimbDigits /\ Base \in Nat
      /\ Base = Place[LimbDigits]
  BY WidthAssumption
<1>1. PICK e \in Seq(Digit) : e = Piece(d, k) /\ Len(e) = LimbDigits
  BY PieceIs
<1>2. PICK h : Reads(h, e, LimbDigits) /\ Number(e) = h[LimbDigits]
  BY <1>1, NumberIs
<1>3. \A i \in 1 .. LimbDigits : e[i] \in Digit
  BY <1>1
<1>4. Number(e) \in Nat /\ Number(e) < Base
  BY <1>0, <1>2, <1>3, ReadsBelow
<1>5. e \o <<>> = e
  BY <1>1
<1> QED
  BY <1>0, <1>1, <1>4, <1>5 DEF Strtoul, Limb

\* The limbs that the digits of a string are cut into have its number.
LEMMA PiecesAddUp ==
  ASSUME NEW d \in Seq(Digit), Len(d) = Digits,
         NEW x \in UInt, \A k \in 0 .. Limbs - 1 : x[k] = Number(Piece(d, k))
  PROVE  Value(x) = Number(d)
<1>0. Limbs \in Nat \ {0} /\ LimbDigits \in Nat \ {0} /\ Base \in Nat /\ Base = Place[LimbDigits]
      /\ Digits \in Nat \ {0}
  BY WidthAssumption, BeforeIs
<1>1. PICK f : Prefixes(f, x) /\ Value(x) = f[Limbs]
  BY ValueIs
<1>2. PICK F : Reads(F, d, Digits) /\ Number(d) = F[Digits]
  BY NumberIs
<1>3. \A i \in 1 .. Digits : d[i] \in Nat
  <2>1. \A i \in 1 .. Digits : d[i] \in Digit
    OBVIOUS
  <2>2. \A v \in Digit : v \in Nat
    BY WidthAssumption DEF Digit
  <2> QED
    BY <2>1, <2>2
<1>4. ASSUME NEW k \in 0 .. Limbs - 1
      PROVE  F[Before(k) + LimbDigits] = F[Before(k)] * Base + x[k]
  <2>1. PICK e \in Seq(Digit) : e = Piece(d, k) /\ Len(e) = LimbDigits
                                /\ \A i \in 1 .. LimbDigits : e[i] = d[Before(k) + i]
    BY PieceIs
  <2>2. PICK h : Reads(h, e, LimbDigits) /\ Number(e) = h[LimbDigits]
    BY <2>1, NumberIs
  <2>3. PICK b \in Nat : b = Before(k) /\ b + LimbDigits <= Digits
    BY BeforeFits
  <2>4. Follow(e, d, b, LimbDigits)
    <3>1. \A i \in 1 .. LimbDigits : b + i \in 1 .. Digits
      BY <1>0, <2>3
    <3> QED
      BY <1>3, <2>1, <2>3, <3>1 DEF Follow
  <2>5. LimbDigits \in 0 .. LimbDigits /\ Digits \in Nat
    BY <1>0
  <2>6. F[b + LimbDigits] = F[b] * Place[LimbDigits] + h[LimbDigits]
    <3>1. Reads(F, d, Digits) /\ Reads(h, e, LimbDigits)
      BY <1>2, <2>2
    <3> QED
      BY <2>3, <2>4, <2>5, <3>1, PartReads
  <2> QED
    BY <1>0, <2>1, <2>2, <2>3, <2>6
<1>5. \A j \in 0 .. Digits : F[j] \in Nat
  BY <1>2 DEF Reads
<1> DEFINE S == {k \in Nat : k < Limbs =>
                   f[k] + F[Before(k) + LimbDigits] * Weight[k] = F[Digits]}
<1>6. 0 \in S
  <2>1. f[0] = 0 /\ Weight[0] = 1 /\ Before(0) + LimbDigits = Digits
    BY <1>1, BeforeIs, WeightIs DEF Prefixes
  <2>2. F[Digits] \in Nat
    BY <1>0, <1>5
  <2> QED
    BY <2>1, <2>2
\* One limb more: what it has of the number moves to the prefix.
<1>7. ASSUME NEW k \in 0 .. Limbs - 1,
             f[k] + F[Before(k) + LimbDigits] * Weight[k] = F[Digits]
      PROVE  f[k + 1] + F[Before(k)] * Weight[k + 1] = F[Digits]
  <2>1. k + 1 \in 1 .. Limbs /\ (k + 1) - 1 = k /\ k \in 0 .. Limbs /\ k \in Nat
    BY <1>0
  <2>2. PICK w \in Nat : w = Weight[k] /\ Weight[k + 1] = Base * w
    BY <2>1, WeightIs
  <2>3. PICK a \in Nat : a = F[Before(k)]
    <3>1. PICK b \in 0 .. Digits : b = Before(k)
      BY BeforeFits
    <3> QED
      BY <1>5, <3>1
  <2>4. PICK v \in Nat : v = x[k]
    BY <1>0 DEF UInt, Limb
  <2>5. PICK s \in Nat : s = f[k] /\ f[k + 1] = s + v * w
    BY <1>1, <2>1, <2>2, <2>4 DEF Prefixes
  <2>6. s + (a * Base + v) * w = F[Digits]
    BY <1>4, <1>7, <2>2, <2>3, <2>4, <2>5
  <2>7. (a * Base + v) * w = a * (Base * w) + v * w
    BY <1>0
  <2>8. a * (Base * w) \in Nat /\ v * w \in Nat
    BY <1>0
  <2>9. (s + v * w) + a * (Base * w) = F[Digits]
    BY <2>6, <2>7, <2>8
  <2> QED
    BY <2>2, <2>3, <2>5, <2>9
<1>8. ASSUME NEW k \in Nat, k \in S PROVE k + 1 \in S
  <2> SUFFICES ASSUME k + 1 < Limbs
               PROVE  f[k + 1] + F[Before(k + 1) + LimbDigits] * Weight[k + 1] = F[Digits]
    OBVIOUS
  <2>1. k \in 0 .. Limbs - 1 /\ k < Limbs /\ k + 1 \in 1 .. Limbs - 1 /\ (k + 1) - 1 = k
    BY <1>0
  <2>2. Before(k) = Before(k + 1) + LimbDigits
    BY <2>1, BeforeIs
  <2>3. f[k] + F[Before(k) + LimbDigits] * Weight[k] = F[Digits]
    BY <1>8, <2>1
  <2> QED
    BY <1>7, <2>1, <2>2, <2>3
<1>9. PICK k \in 0 .. Limbs - 1 : k = Limbs - 1 /\ k \in Nat /\ k < Limbs /\ k + 1 = Limbs
  BY <1>0
<1>10. k \in S
  <2> HIDE DEF S
  <2> QED
    BY <1>6, <1>8, <1>9, SetInduction
<1>11. f[k + 1] + F[Before(k)] * Weight[k + 1] = F[Digits]
  BY <1>7, <1>9, <1>10
<1>12. F[Before(k)] = 0
  BY <1>2, <1>9, BeforeIs DEF Reads
<1>13. PICK w \in Nat : w = Weight[Limbs]
  BY <1>0, WeightIs
<1>14. f[Limbs] \in Nat
  BY <1>0, <1>1 DEF Prefixes
<1>15. f[Limbs] + 0 * w = F[Digits] /\ 0 * w = 0
  BY <1>9, <1>11, <1>12, <1>13
<1> QED
  BY <1>1, <1>2, <1>14, <1>15

\* new_hex: the string behind as many zeros as fill the buffer.
Padded(hex) == Zeros(Digits - Len(hex)) \o hex

LEMMA PaddedIs ==
  ASSUME NEW hex \in Seq(Digit), NEW z \in Nat, z + Len(hex) = Digits
  PROVE  /\ Padded(hex) \in Seq(Digit) /\ Len(Padded(hex)) = Digits
         /\ \A i \in 1 .. z : Padded(hex)[i] = 0
         /\ \A i \in 1 .. Len(hex) : Padded(hex)[z + i] = hex[i]
<1>0. Radix \in Nat \ {0} /\ Digits \in Nat /\ Len(hex) \in Nat
  BY WidthAssumption, BeforeIs
<1>1. z = Digits - Len(hex)
  BY <1>0
<1>2. PICK p : p = Zeros(z)
  OBVIOUS
<1>3. p \in Seq(Digit) /\ Len(p) = z /\ \A i \in 1 .. z : p[i] = 0
  <2>1. 0 \in Digit
    BY <1>0 DEF Digit
  <2> QED
    BY <1>2, <2>1 DEF Zeros
<1>4. /\ p \o hex \in Seq(Digit) /\ Len(p \o hex) = z + Len(hex)
      /\ \A i \in 1 .. z + Len(hex) :
           (p \o hex)[i] = IF i <= z THEN p[i] ELSE hex[i - z]
  BY <1>3, ConcatProperties
<1>5. \A i \in 1 .. z : i \in 1 .. z + Len(hex) /\ i <= z
  BY <1>0
<1>6. \A i \in 1 .. Len(hex) : z + i \in 1 .. z + Len(hex) /\ ~(z + i <= z) /\ (z + i) - z = i
  BY <1>0
<1>7. Padded(hex) = p \o hex
  BY <1>1, <1>2 DEF Padded
<1> QED
  BY <1>3, <1>4, <1>5, <1>6, <1>7

\* Zeros in front do not change the number.
LEMMA PaddedNumber ==
  ASSUME NEW hex \in Seq(Digit), NEW z \in Nat, z + Len(hex) = Digits
  PROVE  Number(Padded(hex)) = Number(hex)
<1> DEFINE n == Len(hex)
<1>0. Radix \in Nat \ {0} /\ Digits \in Nat /\ n \in Nat
  BY WidthAssumption, BeforeIs
<1>1. PICK d \in Seq(Digit) : /\ d = Padded(hex) /\ Len(d) = Digits
                              /\ \A i \in 1 .. z : d[i] = 0
                              /\ \A i \in 1 .. n : d[z + i] = hex[i]
  BY PaddedIs
<1>2. PICK F : Reads(F, d, Digits) /\ Number(d) = F[Digits]
  BY <1>1, NumberIs
<1>3. PICK h : Reads(h, hex, n) /\ Number(hex) = h[n]
  BY NumberIs
<1> HIDE DEF n
<1> DEFINE S == {i \in Nat : i <= z => F[i] = 0}
<1>4. 0 \in S
  BY <1>2 DEF Reads
<1>5. ASSUME NEW i \in Nat, i \in S PROVE i + 1 \in S
  <2> SUFFICES ASSUME i + 1 <= z PROVE F[i + 1] = 0
    OBVIOUS
  <2>1. i + 1 \in 1 .. z /\ i + 1 \in 1 .. Digits /\ (i + 1) - 1 = i /\ i <= z
    BY <1>0 DEF n
  <2>2. F[i + 1] = Radix * F[i] + d[i + 1]
    BY <1>2, <2>1 DEF Reads
  <2>3. F[i] = 0 /\ d[i + 1] = 0
    BY <1>1, <1>5, <2>1
  <2> QED
    BY <1>0, <2>2, <2>3
<1>6. F[z] = 0
  <2>1. z \in S
    <3> HIDE DEF S
    <3> QED
      BY <1>4, <1>5, SetInduction
  <2> QED
    BY <2>1
<1> DEFINE T == {i \in Nat : i <= n => F[z + i] = h[i]}
<1>7. 0 \in T
  BY <1>3, <1>6 DEF Reads
<1>8. ASSUME NEW i \in Nat, i \in T PROVE i + 1 \in T
  <2> SUFFICES ASSUME i + 1 <= n PROVE F[z + (i + 1)] = h[i + 1]
    OBVIOUS
  <2>1. /\ i + 1 \in 1 .. n /\ (i + 1) - 1 = i /\ i <= n
        /\ z + (i + 1) \in 1 .. Digits /\ (z + (i + 1)) - 1 = z + i
    BY <1>0 DEF n
  <2>2. F[z + (i + 1)] = Radix * F[z + i] + d[z + (i + 1)]
    BY <1>2, <2>1 DEF Reads
  <2>3. h[i + 1] = Radix * h[i] + hex[i + 1]
    BY <1>3, <2>1 DEF Reads
  <2>4. F[z + i] = h[i] /\ d[z + (i + 1)] = hex[i + 1]
    BY <1>1, <1>8, <2>1
  <2> QED
    BY <2>2, <2>3, <2>4
<1>9. n \in T
  <2> HIDE DEF T
  <2> QED
    BY <1>0, <1>7, <1>8, SetInduction
<1>10. F[z + n] = h[n]
  BY <1>0, <1>9
<1> QED
  BY <1>1, <1>2, <1>3, <1>10 DEF n

\* What FromHex makes of a string's digits when nothing follows them in temp.
LEMMA FromHexIs ==
  ASSUME NEW hex \in Seq(Digit), NEW z \in Nat, z + Len(hex) = Digits
  PROVE  /\ FromHex(hex, <<>>) \in UInt
         /\ \A k \in 0 .. Limbs - 1 : FromHex(hex, <<>>)[k] = Number(Piece(Padded(hex), k))
<1>1. Padded(hex) \in Seq(Digit) /\ Len(Padded(hex)) = Digits
  BY PaddedIs
<1>2. ASSUME NEW k \in 0 .. Limbs - 1
      PROVE  /\ Strtoul(Piece(Padded(hex), k) \o <<>>) \in Limb
             /\ Strtoul(Piece(Padded(hex), k) \o <<>>) = Number(Piece(Padded(hex), k))
  BY <1>1, PieceNumber
<1>3. FromHex(hex, <<>>) = [k \in 0 .. Limbs - 1 |-> Strtoul(Piece(Padded(hex), k) \o <<>>)]
  BY Zenon DEF FromHex, Piece, Padded, Before
<1> QED
  BY <1>2, <1>3 DEF UInt

LEMMA FromHexExact ==
  ASSUME NEW hex \in Seq(Digit), NEW z \in Nat, z + Len(hex) = Digits
  PROVE  Value(FromHex(hex, <<>>)) = Number(hex)
<1>1. PICK d : d = Padded(hex) /\ d \in Seq(Digit) /\ Len(d) = Digits /\ Number(d) = Number(hex)
  BY PaddedIs, PaddedNumber
<1>2. PICK x : /\ x = FromHex(hex, <<>>) /\ x \in UInt
               /\ \A k \in 0 .. Limbs - 1 : x[k] = Number(Piece(d, k))
  BY <1>1, FromHexIs
<1>3. Value(x) = Number(d)
  BY <1>1, <1>2, PiecesAddUp
<1> QED
  BY <1>1, <1>2, <1>3

\* The digits t that follow those of a limb change it, unless there are none, or
\* it is the largest limb, or all of them are zeros.
LEMMA TailChanges ==
  ASSUME NEW e \in Seq(Digit), Len(e) = LimbDigits, Number(e) \in Limb, NEW t \in Seq(Digit)
  PROVE  Strtoul(e \o t) = Number(e)
           <=> \/ t = <<>> \/ Number(e) = Base - 1
               \/ Number(e) = 0 /\ \A i \in DOMAIN t : t[i] = 0
<1>0. LimbDigits \in Nat \ {0} /\ Base \in Nat \ {0, 1} /\ Radix \in Nat \ {0, 1}
  BY WidthAssumption
<1>1. PICK l \in Nat, m \in Nat : l = LimbDigits /\ m = Len(t)
  BY <1>0
<1>2. PICK d \in Seq(Digit) :
        /\ d = e \o t /\ Len(d) = l + m
        /\ \A i \in 1 .. l + m : d[i] = IF i <= l THEN e[i] ELSE t[i - l]
  <2>1. Len(e) = l /\ Len(t) = m
    BY <1>1
  <2>2. /\ e \o t \in Seq(Digit) /\ Len(e \o t) = Len(e) + Len(t)
        /\ \A i \in 1 .. Len(e) + Len(t) :
             (e \o t)[i] = IF i <= Len(e) THEN e[i] ELSE t[i - Len(e)]
    BY ConcatProperties
  <2> QED
    BY <2>1, <2>2
<1>3. PICK f : Reads(f, d, l + m) /\ Number(d) = f[l + m]
  BY <1>2, NumberIs
<1>4. PICK h : Reads(h, e, l) /\ Number(e) = h[l]
  BY <1>1, NumberIs
<1>5. f[l] = h[l]
  <2> DEFINE S == {i \in Nat : i <= l => f[i] = h[i]}
  <2>1. 0 \in S
    BY <1>3, <1>4 DEF Reads
  <2>2. ASSUME NEW i \in Nat, i \in S PROVE i + 1 \in S
    <3> SUFFICES ASSUME i + 1 <= l PROVE f[i + 1] = h[i + 1]
      OBVIOUS
    <3>1. i + 1 \in 1 .. l /\ i + 1 \in 1 .. l + m /\ (i + 1) - 1 = i /\ i <= l
      OBVIOUS
    <3>2. f[i + 1] = Radix * f[i] + d[i + 1] /\ h[i + 1] = Radix * h[i] + e[i + 1]
      BY <1>3, <1>4, <3>1 DEF Reads
    <3>3. f[i] = h[i] /\ d[i + 1] = e[i + 1]
      BY <1>2, <2>2, <3>1
    <3> QED
      BY <3>2, <3>3
  <2>3. l \in S
    <3> HIDE DEF S
    <3> QED
      BY <2>1, <2>2, SetInduction
  <2> QED
    BY <2>3
<1>6. PICK a \in Limb : a = Number(e) /\ a = f[l]
  BY <1>4, <1>5
<1>7. PICK b \in Nat : b = Number(d) /\ b = f[l + m]
  BY <1>2, <1>3, NumberInNat
<1>8. /\ a > 0 /\ m > 0 => b > a
      /\ a = 0 => (b = 0 <=> \A i \in l + 1 .. l + m : d[i] = 0)
  <2>1. \A i \in 1 .. l + m : d[i] \in Nat
    <3>1. \A v \in Digit : v \in Nat
      BY <1>0 DEF Digit
    <3> QED
      BY <1>2, <3>1
  <2>2. l + m \in Nat /\ l \in 0 .. l + m /\ (m > 0 => l < l + m)
    OBVIOUS
  <2>3. /\ f[l] > 0 /\ l < l + m => f[l + m] > f[l]
        /\ f[l] = 0 => (f[l + m] = 0 <=> \A i \in l + 1 .. l + m : d[i] = 0)
    BY <1>3, <2>1, <2>2, MoreDigits
  <2> QED
    BY <1>6, <1>7, <2>2, <2>3
<1>9. (\A i \in l + 1 .. l + m : d[i] = 0) <=> \A i \in DOMAIN t : t[i] = 0
  <2>1. DOMAIN t = 1 .. m
    BY <1>1
  <2>2. \A i \in 1 .. m : l + i \in l + 1 .. l + m /\ d[l + i] = t[i]
    <3>1. ASSUME NEW i \in 1 .. m PROVE l + i \in 1 .. l + m /\ ~(l + i <= l) /\ (l + i) - l = i
                                        /\ l + i \in l + 1 .. l + m
      OBVIOUS
    <3> QED
      BY <1>2, <3>1
  <2>3. \A i \in l + 1 .. l + m : i - l \in 1 .. m /\ d[i] = t[i - l]
    <3>1. ASSUME NEW i \in l + 1 .. l + m PROVE i \in 1 .. l + m /\ ~(i <= l) /\ i - l \in 1 .. m
      OBVIOUS
    <3> QED
      BY <1>2, <3>1
  <2> QED
    BY <2>1, <2>2, <2>3
<1>10. m = 0 <=> t = <<>>
  BY <1>1
<1>11. m = 0 => b = a
  BY <1>6, <1>7
<1>12. Strtoul(d) = IF b < Base THEN b ELSE Base - 1
  BY <1>7 DEF Strtoul
<1>13. Strtoul(d) = a <=> \/ m = 0 \/ a = Base - 1
                          \/ a = 0 /\ \A i \in DOMAIN t : t[i] = 0
  <2>1. a \in 0 .. Base - 1
    BY <1>6 DEF Limb
  <2>2. CASE m = 0
    BY <1>0, <1>11, <1>12, <2>1, <2>2
  <2>3. CASE m > 0 /\ a > 0
    BY <1>0, <1>8, <1>12, <2>1, <2>3
  <2>4. CASE m > 0 /\ a = 0
    BY <1>0, <1>8, <1>9, <1>12, <2>1, <2>4
  <2> QED
    BY <1>1, <2>1, <2>2, <2>3, <2>4
<1> QED
  BY <1>2, <1>6, <1>10, <1>13

LEMMA Quotient ==
  ASSUME NEW a \in Nat, NEW m \in Nat \ {0}
  PROVE  \E q \in Nat : \E r \in 0 .. m - 1 : a = q * m + r /\ q = a \div m /\ r = a % m
<1>1. PICK q \in Nat, r \in Nat : a = q * m + r /\ r = a % m /\ r \in 0 .. m - 1
  BY Divide
<1>2. (q * m + r) \div m = q
  BY <1>1, RemainderIs
<1> QED
  BY <1>1, <1>2

\* Dividing twice is dividing once by the product.
LEMMA DivideTwice ==
  ASSUME NEW a \in Nat, NEW m \in Nat \ {0}, NEW n \in Nat \ {0}
  PROVE  a \div (n * m) = (a \div m) \div n
<1>1. PICK q \in Nat : \E r \in 0 .. m - 1 : a = q * m + r /\ q = a \div m
  BY Quotient
<1>2. PICK r \in 0 .. m - 1 : a = q * m + r
  BY <1>1
<1>3. PICK s \in Nat : \E t \in 0 .. n - 1 : q = s * n + t /\ s = q \div n
  BY Quotient
<1>4. PICK t \in 0 .. n - 1 : q = s * n + t
  BY <1>3
<1>5. PICK w \in Nat \ {0} : w = n * m
  BY ProductIsPositive
<1>6. PICK u \in Nat : u = t * m + r
  <2>1. t * m \in Nat
    OBVIOUS
  <2> QED
    BY <2>1
<1>7. u \in 0 .. w - 1
  <2>1. (t + 1) * m <= n * m
    BY ProductsGrow
  <2>2. (t + 1) * m = t * m + m /\ t * m \in Nat
    OBVIOUS
  <2> QED
    BY <1>5, <1>6, <2>1, <2>2
<1>8. a = s * w + u
  <2>1. (s * n + t) * m = s * (n * m) + t * m
    OBVIOUS
  <2>2. s * (n * m) \in Nat /\ t * m \in Nat
    OBVIOUS
  <2> QED
    BY <1>2, <1>4, <1>5, <1>6, <2>1, <2>2
<1>9. (s * w + u) \div w = s
  BY <1>5, <1>7, RemainderIs
<1> QED
  BY <1>1, <1>3, <1>5, <1>8, <1>9

\* A digit of a number, and all of them, the highest first.
DigitOf(x, p) == (x[p \div LimbDigits] \div Place[p % LimbDigits]) % Radix

AllDigits(x) == [i \in 1 .. Digits |-> DigitOf(x, Digits - i)]

LEMMA AllDigitsAre ==
  ASSUME NEW x \in UInt
  PROVE  /\ AllDigits(x) \in Seq(Digit) /\ Len(AllDigits(x)) = Digits
         /\ \A k \in 0 .. Limbs - 1, i \in 1 .. LimbDigits :
              Piece(AllDigits(x), k)[i] = (x[k] \div Place[LimbDigits - i]) % Radix
<1>0. /\ LimbDigits \in Nat \ {0} /\ Limbs \in Nat \ {0} /\ Radix \in Nat \ {0}
      /\ Digits \in Nat \ {0}
  BY WidthAssumption, BeforeIs
<1>1. ASSUME NEW k \in 0 .. Limbs - 1, NEW j \in 0 .. LimbDigits - 1
      PROVE  /\ DigitOf(x, k * LimbDigits + j) = (x[k] \div Place[j]) % Radix
             /\ DigitOf(x, k * LimbDigits + j) \in Digit
  <2>1. (k * LimbDigits + j) \div LimbDigits = k /\ (k * LimbDigits + j) % LimbDigits = j
    BY <1>0, RemainderIs
  <2>2. PICK w \in Nat \ {0} : w = Place[j]
    BY <1>0, PlaceIs
  <2>3. PICK v \in Nat : v = x[k]
    BY <1>0, WidthAssumption DEF UInt, Limb
  <2>4. PICK q \in Nat : q = v \div w
    BY Remainder
  <2>5. q % Radix \in 0 .. Radix - 1
    BY <1>0
  <2> QED
    BY <2>1, <2>2, <2>3, <2>4, <2>5 DEF DigitOf, Digit
<1>2. ASSUME NEW i \in 1 .. Digits
      PROVE  \E k \in 0 .. Limbs - 1, j \in 0 .. LimbDigits - 1 : Digits - i = k * LimbDigits + j
  <2>1. PICK n \in Nat : n = Digits - i /\ n < Digits
    <3>1. Digits - i \in Nat /\ Digits - i < Digits
      BY <1>0
    <3> QED
      BY <3>1
  <2>2. PICK k \in Nat : \E j \in 0 .. LimbDigits - 1 : n = k * LimbDigits + j
    <3>1. \E q \in Nat : \E j \in 0 .. LimbDigits - 1 :
             n = q * LimbDigits + j /\ q = n \div LimbDigits /\ j = n % LimbDigits
      BY <1>0, Quotient
    <3> QED
      BY <3>1
  <2>3. k < Limbs
    <3> SUFFICES ASSUME Limbs <= k PROVE FALSE
      BY <1>0
    <3>1. Limbs * LimbDigits <= k * LimbDigits
      BY <1>0, ProductsGrow
    <3>2. k * LimbDigits \in Nat
      BY <1>0
    <3> QED
      BY <1>0, <2>1, <2>2, <3>1, <3>2 DEF Digits
  <2> QED
    BY <1>0, <2>1, <2>2, <2>3
<1>3. \A i \in 1 .. Digits : DigitOf(x, Digits - i) \in Digit
  BY <1>1, <1>2
<1>4. AllDigits(x) \in Seq(Digit) /\ Len(AllDigits(x)) = Digits
  BY <1>0, <1>3 DEF AllDigits
<1>5. ASSUME NEW k \in 0 .. Limbs - 1, NEW i \in 1 .. LimbDigits
      PROVE  Piece(AllDigits(x), k)[i] = (x[k] \div Place[LimbDigits - i]) % Radix
  <2>1. PICK b \in Nat : b = Before(k) /\ b + LimbDigits <= Digits
    BY BeforeFits
  <2>2. b + i \in 1 .. Digits
    BY <1>0, <2>1
  <2>3. Piece(AllDigits(x), k)[i] = DigitOf(x, Digits - (b + i))
    <3>1. Piece(AllDigits(x), k)[i] = AllDigits(x)[b + i]
      BY <1>4, <2>1, PieceIs
    <3> QED
      BY <2>2, <3>1 DEF AllDigits
  <2>4. PICK c \in Nat : c = k * LimbDigits /\ Digits - b = c + LimbDigits
    <3>1. k * LimbDigits \in Nat
      BY <1>0
    <3>2. Digits - Before(k) = k * LimbDigits + LimbDigits
      BY BeforeIs
    <3> QED
      BY <2>1, <3>1, <3>2
  <2>5. LimbDigits - i \in 0 .. LimbDigits - 1 /\ Digits - (b + i) = c + (LimbDigits - i)
    BY <1>0, <2>4
  <2> QED
    BY <1>1, <2>3, <2>4, <2>5
<1> QED
  BY <1>4, <1>5

\* The digits of a limb read back are the limb.
LEMMA DigitsRead ==
  ASSUME NEW x \in UInt, NEW k \in 0 .. Limbs - 1
  PROVE  Number(Piece(AllDigits(x), k)) = x[k]
<1>0. /\ LimbDigits \in Nat \ {0} /\ Radix \in Nat \ {0} /\ Base \in Nat \ {0}
      /\ Base = Place[LimbDigits]
  BY WidthAssumption
<1>1. PICK e \in Seq(Digit) : e = Piece(AllDigits(x), k) /\ Len(e) = LimbDigits
  BY AllDigitsAre, PieceIs
<1>2. PICK v \in Nat : v = x[k] /\ v \in 0 .. Base - 1
  BY <1>0 DEF UInt, Limb
<1>3. \A i \in 1 .. LimbDigits : e[i] = (v \div Place[LimbDigits - i]) % Radix
  BY <1>1, <1>2, AllDigitsAre
<1>4. PICK h : Reads(h, e, LimbDigits) /\ Number(e) = h[LimbDigits]
  BY <1>1, NumberIs
<1> DEFINE S == {i \in Nat : i <= LimbDigits => h[i] = v \div Place[LimbDigits - i]}
<1>5. 0 \in S
  <2>1. (0 * Base + v) \div Base = 0
    BY <1>0, <1>2, RemainderIs
  <2>2. 0 * Base + v = v /\ LimbDigits - 0 = LimbDigits
    BY <1>0
  <2> QED
    BY <1>0, <1>4, <2>1, <2>2 DEF Reads
<1>6. ASSUME NEW i \in Nat, i \in S PROVE i + 1 \in S
  <2> SUFFICES ASSUME i + 1 <= LimbDigits PROVE h[i + 1] = v \div Place[LimbDigits - (i + 1)]
    OBVIOUS
  <2>1. /\ i + 1 \in 1 .. LimbDigits /\ (i + 1) - 1 = i /\ i <= LimbDigits
        /\ LimbDigits - i \in 1 .. LimbDigits /\ (LimbDigits - i) - 1 = LimbDigits - (i + 1)
        /\ LimbDigits - (i + 1) \in 0 .. LimbDigits
    BY <1>0
  <2>2. PICK w \in Nat \ {0} : w = Place[LimbDigits - (i + 1)] /\ Place[LimbDigits - i] = Radix * w
    BY <2>1, PlaceIs
  <2>3. PICK q \in Nat : q = v \div w
    BY <1>0, Remainder
  <2>4. v \div (Radix * w) = q \div Radix
    <3>1. v \div (Radix * w) = (v \div w) \div Radix
      BY <1>0, DivideTwice
    <3> QED
      BY <2>3, <3>1
  <2>5. h[i] = q \div Radix
    BY <1>6, <2>1, <2>2, <2>4
  <2>6. e[i + 1] = q % Radix
    BY <1>3, <2>1, <2>2, <2>3
  <2>7. h[i + 1] = Radix * (q \div Radix) + (q % Radix)
    BY <1>4, <2>1, <2>5, <2>6 DEF Reads
  <2>8. PICK p \in Nat : \E r \in 0 .. Radix - 1 :
                           q = p * Radix + r /\ p = q \div Radix /\ r = q % Radix
    BY <1>0, Quotient
  <2>9. p * Radix = Radix * p
    BY <1>0
  <2> QED
    BY <2>2, <2>3, <2>7, <2>8, <2>9
<1>7. LimbDigits \in S
  <2> HIDE DEF S
  <2> QED
    BY <1>0, <1>5, <1>6, SetInduction
<1>8. LimbDigits - LimbDigits = 0 /\ Place[0] = 1
  BY <1>0, PlaceIs
<1>9. v \div 1 = v
  <2>1. (v * 1 + 0) \div 1 = v
    BY <1>0, RemainderIs
  <2>2. v * 1 + 0 = v
    BY <1>0
  <2> QED
    BY <2>1, <2>2
<1> QED
  BY <1>0, <1>1, <1>2, <1>4, <1>7, <1>8, <1>9

\* format_as_hex keeps the digits from the first that is not 0, or the last one.
LEMMA FormatIs ==
  ASSUME NEW x
  PROVE  \E n \in 1 .. Digits :
           /\ FormatAsHex(x) = SubSeq(AllDigits(x), n, Digits)
           /\ n = Digits \/ AllDigits(x)[n] # 0
           /\ \A j \in 1 .. n - 1 : AllDigits(x)[j] = 0
<1>0. Digits \in Nat \ {0}
  BY BeforeIs
<1>1. PICK a : a = AllDigits(x)
  OBVIOUS
<1> DEFINE First(n) == (n = Digits \/ a[n] # 0) /\ \A j \in 1 .. n - 1 : a[j] = 0
<1>2. \E n \in 1 .. Digits : First(n)
  <2> DEFINE T == {n \in 1 .. Digits : n = Digits \/ a[n] # 0}
  <2>1. T \subseteq Nat /\ Digits \in T
    BY <1>0
  <2>2. PICK n \in T : \A m \in T : n <= m
    BY <2>1, LeastNat
  <2>3. ASSUME NEW j \in 1 .. n - 1 PROVE a[j] = 0
    <3>1. n \in 1 .. Digits
      BY <2>2
    <3>2. j \in 1 .. Digits /\ ~(n <= j)
      BY <1>0, <3>1
    <3>3. j \notin T
      BY <2>2, <3>2
    <3> QED
      BY <3>2, <3>3
  <2>4. n \in 1 .. Digits /\ (n = Digits \/ a[n] # 0)
    BY <2>2
  <2> QED
    BY <2>3, <2>4
<1>3. FormatAsHex(x) = SubSeq(a, CHOOSE n \in 1 .. Digits : First(n), Digits)
  BY <1>1, Zenon DEF FormatAsHex, AllDigits, DigitOf
<1>4. PICK n \in 1 .. Digits : n = (CHOOSE i \in 1 .. Digits : First(i)) /\ First(n)
  <2> HIDE DEF First
  <2> QED
    BY <1>2
<1> QED
  BY <1>1, <1>3, <1>4

LEMMA FormatExact ==
  ASSUME NEW x \in UInt
  PROVE  /\ FromHex(FormatAsHex(x), <<>>) = x
         /\ Len(FormatAsHex(x)) = 1 \/ Head(FormatAsHex(x)) # 0
<1>0. Digits \in Nat \ {0}
  BY BeforeIs
<1>1. PICK a \in Seq(Digit) :
        /\ a = AllDigits(x) /\ Len(a) = Digits
        /\ \A k \in 0 .. Limbs - 1 : Number(Piece(a, k)) = x[k]
  BY AllDigitsAre, DigitsRead
<1>2. PICK n \in 1 .. Digits : /\ FormatAsHex(x) = SubSeq(a, n, Digits)
                               /\ n = Digits \/ a[n] # 0
                               /\ \A j \in 1 .. n - 1 : a[j] = 0
  BY <1>1, FormatIs
<1>3. PICK hex \in Seq(Digit) : /\ hex = FormatAsHex(x) /\ Len(hex) = Digits - n + 1
                                /\ \A i \in 1 .. Digits - n + 1 : hex[i] = a[n + i - 1]
  <2>1. \A i \in n .. Digits : a[i] \in Digit
    BY <1>0, <1>1
  <2>2. n \in Int /\ Digits \in Int /\ n <= Digits
    BY <1>0
  <2>3. /\ SubSeq(a, n, Digits) \in Seq(Digit)
        /\ Len(SubSeq(a, n, Digits)) = Digits - n + 1
        /\ \A i \in 1 .. Digits - n + 1 : SubSeq(a, n, Digits)[i] = a[n + i - 1]
    BY <2>1, <2>2, SubSeqProperties
  <2> QED
    BY <1>2, <2>3
<1>4. PICK z \in Nat : z = n - 1 /\ z + Len(hex) = Digits /\ Len(hex) = Digits - z
  <2>1. n - 1 \in Nat /\ (n - 1) + (Digits - n + 1) = Digits
        /\ Digits - n + 1 = Digits - (n - 1)
    BY <1>0
  <2> QED
    BY <1>3, <2>1
<1>5. PICK d \in Seq(Digit) : /\ d = Padded(hex) /\ Len(d) = Digits
                              /\ \A i \in 1 .. z : d[i] = 0
                              /\ \A i \in 1 .. Len(hex) : d[z + i] = hex[i]
  BY <1>4, PaddedIs
<1>6. d = a
  <2>1. ASSUME NEW i \in 1 .. Digits PROVE d[i] = a[i]
    <3>1. CASE i <= z
      <4>1. i \in 1 .. z /\ i \in 1 .. n - 1
        BY <1>4, <3>1
      <4> QED
        BY <1>2, <1>5, <4>1
    <3>2. CASE ~(i <= z)
      <4>1. i - z \in 1 .. Len(hex) /\ z + (i - z) = i /\ n + (i - z) - 1 = i
            /\ i - z \in 1 .. Digits - n + 1
        BY <1>0, <1>4, <3>2
      <4>2. d[z + (i - z)] = hex[i - z] /\ hex[i - z] = a[n + (i - z) - 1]
        BY <1>3, <1>5, <4>1
      <4> QED
        BY <4>1, <4>2
    <3> QED
      BY <3>1, <3>2
  <2> QED
    BY <1>1, <1>5, <2>1, SeqEqual
<1>7. PICK y : y = FromHex(hex, <<>>)
  OBVIOUS
<1>8. y \in UInt /\ \A k \in 0 .. Limbs - 1 : y[k] = x[k]
  <2>1. /\ FromHex(hex, <<>>) \in UInt
        /\ \A k \in 0 .. Limbs - 1 : FromHex(hex, <<>>)[k] = Number(Piece(Padded(hex), k))
    BY <1>4, FromHexIs
  <2> QED
    BY <1>1, <1>5, <1>6, <1>7, <2>1
<1>9. y = x
  <2>1. PICK D : D = 0 .. Limbs - 1
    OBVIOUS
  <2>2. y \in [D -> Limb] /\ x \in [D -> Limb] /\ \A k \in D : y[k] = x[k]
    BY <1>8, <2>1 DEF UInt
  <2> QED
    BY <2>2
<1>10. Len(hex) = 1 \/ Head(hex) # 0
  <2>1. CASE n = Digits
    BY <1>0, <1>3, <2>1
  <2>2. CASE a[n] # 0
    <3>1. 1 \in 1 .. Digits - n + 1 /\ n + 1 - 1 = n
      BY <1>0
    <3>2. hex[1] = a[n] /\ hex # <<>>
      BY <1>3, <3>1
    <3> QED
      BY <2>2, <3>2
  <2> QED
    BY <1>2, <2>1, <2>2
<1> QED
  BY <1>3, <1>7, <1>9, <1>10

------------------------------------------------------------------------------
(* What the calls return *)

\* The arguments are numbers, and a result is what its function returns.
Returned ==
  /\ left \in UInt /\ right \in UInt /\ shift \in 0 .. Width
  /\ op = "add" => result = Add(left, right)
  /\ op = "negate" => result = Negate(left)
  /\ op = "sub" => result = Sub(left, right)
  /\ op = "leftShift" => result = LeftShift(left, shift)
  /\ op = "mul" => result = Mul(left, right)
  /\ op = "format" => text = FormatAsHex(left)
  /\ op = "fromHex" => /\ text \in Seq(Digit) /\ tail \in Seq(Digit)
                        /\ Len(text) <= Digits
                        /\ result = FromHex(text, tail)

LEMMA ReturnedStart == Init => Returned
  BY DEF Init, Returned

LEMMA ReturnedNext == Returned /\ [Next]_vars => Returned'
<1> SUFFICES ASSUME Returned, [Next]_vars PROVE Returned'
  OBVIOUS
<1>1. CASE Call("add", Add(left, right))
  BY <1>1 DEF Returned, Call
<1>2. CASE Call("sub", Sub(left, right))
  BY <1>2 DEF Returned, Call
<1>3. CASE Call("mul", Mul(left, right))
  BY <1>3 DEF Returned, Call
<1>4. CASE Call("negate", Negate(left))
  BY <1>4 DEF Returned, Call
<1>5. CASE Format
  BY <1>5 DEF Returned, Format
<1>6. CASE CreateFromHex
  <2>1. op' \in {"abort", "fromHex"} /\ UNCHANGED <<left, right, shift>>
    BY <1>6 DEF CreateFromHex
  <2>2. ASSUME op' = "fromHex"
        PROVE  ~(Len(text') > Digits) /\ result' = FromHex(text', tail')
    BY <1>6, <2>2 DEF CreateFromHex
  <2>3. text' \in Seq(Digit)
    <3>1. PICK n \in 0 .. Digits + 1 : text' \in [1..n -> 0 .. Radix - 1]
      BY <1>6 DEF CreateFromHex
    <3>2. n \in Nat
      BY <3>1, BeforeIs
    <3>3. ASSUME NEW s \in [1..n -> 0 .. Radix - 1] PROVE s \in Seq(0 .. Radix - 1)
      BY <3>2, SeqDef, Zenon
    <3> QED
      BY <3>1, <3>3 DEF Digit
  <2>4. tail' \in Seq(Digit)
    BY <1>6, WidthAssumption DEF CreateFromHex, Digit
  <2>5. Len(text') \in Nat /\ Digits \in Nat
    BY <2>3, BeforeIs
  <2>6. op' = "fromHex" => Len(text') <= Digits /\ result' = FromHex(text', tail')
    BY <2>2, <2>5
  <2> QED
    BY <2>1, <2>3, <2>4, <2>6 DEF Returned
<1>7. CASE Call("leftShift", LeftShift(left, shift))
  BY <1>7 DEF Returned, Call
<1>8. CASE UNCHANGED vars
  BY <1>8 DEF Returned, vars
<1> QED
  BY <1>1, <1>2, <1>3, <1>4, <1>5, <1>6, <1>7, <1>8 DEF Next

\* uint256_add (uint256.c:104-135): for every number of limbs and every width,
\* the sum is exact modulo the width if and only if no carry is lost in two
\* limbs of all ones.
THEOREM SumIsExact == Spec => []AddIsExact
<1>1. Returned => AddIsExact
  BY AddExact DEF Returned, AddIsExact
<1> QED
  BY <1>1, ReturnedStart, ReturnedNext, PTL DEF Spec

\* uint256_negate and uint256_leftShift are exact; uint256_sub is exact if and
\* only if its addition loses no carry, uint256_mul if none of its additions
\* does (uint256.c:138-232).
THEOREM OthersAreExact == Spec => []DerivedAreExact
<1>1. Returned => DerivedAreExact
  <2> SUFFICES ASSUME Returned PROVE DerivedAreExact
    OBVIOUS
  <2>1. left \in UInt /\ right \in UInt /\ shift \in 0 .. Width
    BY DEF Returned
  <2>2. op = "negate" => Value(result) = (Modulus - Value(left)) % Modulus
    BY <2>1, NegateExact DEF Returned
  <2>3. op = "sub" =>
          (Value(result) = (Modulus + Value(left) - Value(right)) % Modulus
             <=> ~LosesCarry(left, Negate(right)))
    BY <2>1, SubExact DEF Returned
  <2>4. op = "leftShift" => Value(result) = (Value(left) * Bit[shift]) % Modulus
    BY <2>1, LeftShiftExact DEF Returned
  <2>5. op = "mul" =>
          \/ Value(result) = (Value(left) * Value(right)) % Modulus
          \/ \E n \in 1 .. Width :
               /\ BitIsSet(left, n - 1)
               /\ LosesCarry(Products(left, right)[n - 1], LeftShift(right, n - 1))
    BY <2>1, MulExact DEF Returned
  <2> QED
    BY <2>2, <2>3, <2>4, <2>5 DEF DerivedAreExact
<1> QED
  BY <1>1, ReturnedStart, ReturnedNext, PTL DEF Spec

\* uint256_format_as_hex and uint256_create_from_hex (uint256.c:38-90): for every
\* radix, number of digits and of limbs, a number written is the shortest string
\* that is read back as the number, and a string read is its number unless a
\* digit left in the heap counts as the end of a limb.
THEOREM StringsAreNumbers == Spec => []HexIsExact
<1>1. Returned => HexIsExact
  <2> SUFFICES ASSUME Returned PROVE HexIsExact
    OBVIOUS
  <2>1. ASSUME op = "format"
        PROVE  /\ FromHex(text, <<>>) = left
               /\ Len(text) = 1 \/ Head(text) # 0
    BY <2>1, FormatExact DEF Returned
  <2>2. ASSUME op = "fromHex"
        PROVE  LET meant == FromHex(text, <<>>)
               IN  /\ Value(meant) = Number(text)
                   /\ result = meant <=> \A k \in 0 .. Limbs - 1 : TailIsHarmless(meant[k])
    <3>1. /\ text \in Seq(Digit) /\ tail \in Seq(Digit) /\ Len(text) <= Digits
          /\ result = FromHex(text, tail)
      BY <2>2 DEF Returned
    <3>2. PICK z \in Nat : z + Len(text) = Digits
      <4>1. Len(text) \in Nat /\ Digits \in Nat
        BY <3>1, BeforeIs
      <4>2. Digits - Len(text) \in Nat /\ (Digits - Len(text)) + Len(text) = Digits
        BY <3>1, <4>1
      <4> QED
        BY <4>2
    <3>3. PICK d : d = Padded(text) /\ d \in Seq(Digit) /\ Len(d) = Digits
      BY <3>1, <3>2, PaddedIs
    <3>4. PICK meant : meant = FromHex(text, <<>>)
      OBVIOUS
    <3>5. Value(meant) = Number(text)
      BY <3>1, <3>2, <3>4, FromHexExact
    <3>6. meant \in UInt /\ \A k \in 0 .. Limbs - 1 : meant[k] = Number(Piece(d, k))
      BY <3>1, <3>2, <3>3, <3>4, FromHexIs
    <3>7. result = [k \in 0 .. Limbs - 1 |-> Strtoul(Piece(d, k) \o tail)]
      BY <3>1, <3>3, Zenon DEF FromHex, Piece, Padded, Before
    <3>8. ASSUME NEW k \in 0 .. Limbs - 1
          PROVE  result[k] = meant[k] <=> TailIsHarmless(meant[k])
      <4>1. PICK e \in Seq(Digit) : e = Piece(d, k) /\ Len(e) = LimbDigits
        BY <3>3, PieceIs
      <4>2. Number(e) \in Limb /\ meant[k] = Number(e)
        BY <3>3, <3>6, <4>1, PieceNumber
      <4>3. Strtoul(e \o tail) = Number(e)
              <=> \/ tail = <<>> \/ Number(e) = Base - 1
                  \/ Number(e) = 0 /\ \A i \in DOMAIN tail : tail[i] = 0
        BY <3>1, <4>1, <4>2, TailChanges
      <4>4. result[k] = Strtoul(e \o tail)
        BY <3>7, <4>1
      <4> QED
        BY <4>2, <4>3, <4>4 DEF TailIsHarmless
    <3>9. result = meant <=> \A k \in 0 .. Limbs - 1 : result[k] = meant[k]
      <4>1. PICK D : D = 0 .. Limbs - 1
        OBVIOUS
      <4>2. meant \in [D -> Limb] /\ result = [k \in D |-> Strtoul(Piece(d, k) \o tail)]
        BY <3>6, <3>7, <4>1 DEF UInt
      <4>3. meant = [k \in D |-> meant[k]]
        BY <4>2
      <4>4. ASSUME \A k \in D : result[k] = meant[k] PROVE result = meant
        BY <4>2, <4>3, <4>4
      <4> QED
        BY <4>1, <4>4
    <3> QED
      BY <3>4, <3>5, <3>8, <3>9
  <2> QED
    BY <2>1, <2>2, Zenon DEF HexIsExact
<1> QED
  BY <1>1, ReturnedStart, ReturnedNext, PTL DEF Spec

------------------------------------------------------------------------------
(* The hex dump of HexDump, whose numbers are digits in the same way *)

LEMMA DumpPlaceIs ==
  /\ DigitPlace \in [0 .. OffsetDigits + 2 -> Nat \ {0}]
  /\ DigitPlace[0] = 1
  /\ \A k \in 1 .. OffsetDigits + 2 : DigitPlace[k] = 16 * DigitPlace[k - 1]
<1>0. PICK m \in Nat : m = OffsetDigits + 2
  BY HexDumpAssumption
<1> DEFINE V == Nat \ {0}
           g == [k \in 0 .. m - 1 |-> [v \in V |-> 16 * v]]
<1>1. 1 \in V /\ g \in [0 .. m - 1 -> [V -> V]]
  OBVIOUS
<1>2. PICK f : Recursion(f, V, 1, g, m)
  <2> HIDE DEF V, g
  <2> QED
    BY <1>0, <1>1, RecursionExists
<1>3. ASSUME NEW k \in 1 .. m PROVE f[k] = 16 * f[k - 1]
  <2>1. k - 1 \in 0 .. m - 1 /\ k - 1 \in 0 .. m
    BY <1>0
  <2>2. f[k - 1] \in V
    BY <1>2, <2>1 DEF Recursion
  <2>3. f[k] = g[k - 1][f[k - 1]]
    BY <1>2 DEF Recursion
  <2> QED
    BY <2>1, <2>2, <2>3
<1>4. f \in [0 .. m -> V] /\ f[0] = 1
  BY <1>2 DEF Recursion
<1>5. f = [k \in 0 .. OffsetDigits + 2 |-> IF k = 0 THEN 1 ELSE 16 * f[k - 1]]
  <2>1. \A k \in 0 .. m : f[k] = IF k = 0 THEN 1 ELSE 16 * f[k - 1]
    <3> TAKE k \in 0 .. m
    <3>1. CASE k = 0
      BY <1>4, <3>1
    <3>2. CASE k # 0
      <4>1. k \in 1 .. m
        BY <1>0, <3>2
      <4> QED
        BY <1>3, <3>2, <4>1
    <3> QED
      BY <3>1, <3>2
  <2>2. f = [k \in 0 .. m |-> IF k = 0 THEN 1 ELSE 16 * f[k - 1]]
    <3> HIDE DEF V
    <3> QED
      BY <1>4, <2>1
  <2> QED
    BY <1>0, <2>2
<1>6. DigitPlace = [k \in 0 .. OffsetDigits + 2 |-> IF k = 0 THEN 1 ELSE 16 * DigitPlace[k - 1]]
  BY <1>5, Zenon DEF DigitPlace
<1>7. DigitPlace[0] = 1
  BY <1>0, <1>6
<1>8. \A k \in 1 .. m : DigitPlace[k] = 16 * DigitPlace[k - 1]
  BY <1>0, <1>6
<1>9. \A k \in 0 .. m : DigitPlace[k] \in V
  <2> DEFINE S == {k \in Nat : k <= m => DigitPlace[k] \in V}
  <2>1. 0 \in S
    BY <1>7
  <2>2. ASSUME NEW k \in Nat, k \in S PROVE k + 1 \in S
    <3> SUFFICES ASSUME k + 1 <= m PROVE DigitPlace[k + 1] \in V
      OBVIOUS
    <3>1. k + 1 \in 1 .. m /\ (k + 1) - 1 = k /\ k <= m
      BY <1>0
    <3>2. DigitPlace[k] \in V /\ DigitPlace[k + 1] = 16 * DigitPlace[k]
      BY <1>8, <2>2, <3>1
    <3> QED
      BY <3>2
  <2>3. \A k \in Nat : k \in S
    <3> HIDE DEF S
    <3> QED
      BY <2>1, <2>2, SetInduction
  <2> QED
    BY <2>3
<1>10. DigitPlace \in [0 .. m -> V]
  BY <1>0, <1>6, <1>9
<1> QED
  BY <1>0, <1>7, <1>8, <1>10

\* A digit's character stands for it.
LEMMA DigitIsItself == ASSUME NEW d \in 0 .. 15 PROVE DigitValue(HexDigit(d)) = d
  BY DEF DigitValue, HexDigit

\* What is formatted with enough digits is decoded again.
LEMMA FormatDecodes ==
  ASSUME NEW n \in 0 .. OffsetDigits + 2, NEW v \in Nat, v < DigitPlace[n]
  PROVE  Decoded(HexFormat(v, n)) = v
<1>0. OffsetDigits + 2 \in Nat /\ n \in Nat
  BY HexDumpAssumption
<1>1. PICK d : d = HexFormat(v, n)
  OBVIOUS
<1>2. ASSUME NEW i \in 1 .. n
      PROVE  \E w \in Nat \ {0} : \E q \in Nat :
               /\ w = DigitPlace[n - i] /\ DigitPlace[n - i + 1] = 16 * w
               /\ q = v \div w /\ DigitValue(d[i]) = q % 16
  <2>1. n - i \in 0 .. OffsetDigits + 2 /\ n - i + 1 \in 1 .. OffsetDigits + 2
        /\ (n - i + 1) - 1 = n - i
    BY <1>0
  <2>2. PICK w \in Nat \ {0} : w = DigitPlace[n - i] /\ DigitPlace[n - i + 1] = 16 * w
    BY <2>1, DumpPlaceIs
  <2>3. PICK q \in Nat : q = v \div w
    BY Quotient
  <2>4. q % 16 \in 0 .. 15
    OBVIOUS
  <2>5. d[i] = HexDigit(q % 16)
    BY <1>1, <2>2, <2>3 DEF HexFormat
  <2> QED
    BY <2>2, <2>3, <2>4, <2>5, DigitIsItself
<1>3. Len(d) = n
  BY <1>0, <1>1 DEF HexFormat
<1>4. \A i \in 1 .. n : DigitValue(d[i]) \in Nat
  <2> TAKE i \in 1 .. n
  <2>1. PICK q \in Nat : DigitValue(d[i]) = q % 16
    BY <1>2
  <2> QED
    BY <2>1
<1> DEFINE g == [k \in 0 .. n - 1 |-> [u \in Nat |-> 16 * u + DigitValue(d[k + 1])]]
<1>5. g \in [0 .. n - 1 -> [Nat -> Nat]]
  <2>1. ASSUME NEW k \in 0 .. n - 1, NEW u \in Nat PROVE 16 * u + DigitValue(d[k + 1]) \in Nat
    <3>1. k + 1 \in 1 .. n
      BY <1>0
    <3> QED
      BY <1>4, <3>1
  <2> QED
    BY <2>1
<1>6. PICK f : Recursion(f, Nat, 0, g, n)
  <2> HIDE DEF g
  <2> QED
    BY <1>0, <1>5, RecursionExists
<1>7. ASSUME NEW k \in 1 .. n PROVE f[k] = 16 * f[k - 1] + DigitValue(d[k])
  <2>1. k - 1 \in 0 .. n - 1 /\ k - 1 \in 0 .. n /\ (k - 1) + 1 = k
    BY <1>0
  <2>2. f[k - 1] \in Nat
    BY <1>6, <2>1 DEF Recursion
  <2>3. f[k] = g[k - 1][f[k - 1]]
    BY <1>6 DEF Recursion
  <2> QED
    BY <2>1, <2>2, <2>3
<1>8. f \in [0 .. n -> Nat] /\ f[0] = 0
  BY <1>6 DEF Recursion
<1>9. f = [k \in 0 .. Len(d) |-> IF k = 0 THEN 0 ELSE 16 * f[k - 1] + DigitValue(d[k])]
  BY <1>3, <1>7, <1>8
<1> DEFINE h == CHOOSE h : h = [k \in 0 .. Len(d) |->
                                 IF k = 0 THEN 0 ELSE 16 * h[k - 1] + DigitValue(d[k])]
<1>10. h = [k \in 0 .. Len(d) |-> IF k = 0 THEN 0 ELSE 16 * h[k - 1] + DigitValue(d[k])]
  BY <1>9, Zenon
<1>11. Decoded(d) = h[Len(d)]
  BY Zenon DEF Decoded
<1> HIDE DEF h
<1>12. h[0] = 0 /\ \A k \in 1 .. n : h[k] = 16 * h[k - 1] + DigitValue(d[k])
  BY <1>0, <1>3, <1>10
<1> DEFINE S == {i \in Nat : i <= n => h[i] = v \div DigitPlace[n - i]}
<1>13. 0 \in S
  <2>1. PICK w \in Nat \ {0} : w = DigitPlace[n] /\ v < w
    BY DumpPlaceIs
  <2>2. (0 * w + v) \div w = 0 /\ 0 * w + v = v
    BY <2>1, RemainderIs
  <2>3. n - 0 = n
    BY <1>0
  <2>4. v \div w = 0
    BY <2>2
  <2> QED
    BY <1>12, <2>1, <2>3, <2>4
<1>14. ASSUME NEW i \in Nat, i \in S PROVE i + 1 \in S
  <2> SUFFICES ASSUME i + 1 <= n PROVE h[i + 1] = v \div DigitPlace[n - (i + 1)]
    OBVIOUS
  <2>1. /\ i + 1 \in 1 .. n /\ (i + 1) - 1 = i /\ i <= n
        /\ n - (i + 1) + 1 = n - i
    BY <1>0
  <2>2. PICK w \in Nat \ {0} : \E q \in Nat :
               /\ w = DigitPlace[n - (i + 1)] /\ DigitPlace[n - (i + 1) + 1] = 16 * w
               /\ q = v \div w /\ DigitValue(d[i + 1]) = q % 16
    BY <1>2, <2>1
  <2>3. PICK q \in Nat : q = v \div w /\ DigitValue(d[i + 1]) = q % 16
    BY <2>2
  <2>4. v \div (16 * w) = q \div 16
    <3>1. v \div (16 * w) = (v \div w) \div 16
      <4>1. 16 \in Nat \ {0}
        OBVIOUS
      <4> HIDE DEF S, g
      <4> QED
        BY <4>1, DivideTwice, Zenon
    <3> QED
      BY <2>3, <3>1
  <2>5. h[i] = q \div 16
    BY <1>14, <2>1, <2>2, <2>4
  <2>6. h[i + 1] = 16 * (q \div 16) + (q % 16)
    BY <1>12, <2>1, <2>3, <2>5
  <2> QED
    BY <2>2, <2>3, <2>6
<1>15. n \in S
  <2> HIDE DEF S
  <2> QED
    BY <1>0, <1>13, <1>14, SetInduction
<1>16. h[n] = v \div 1
  BY <1>0, <1>15, DumpPlaceIs
<1> QED
  BY <1>1, <1>3, <1>11, <1>16

------------------------------------------------------------------------------
(* The hex dump: the invariant *)

DumpTypes ==
  /\ main \in {"C", "asm"} /\ funcs \in {"C", "asm"}
  /\ status \in {"reading", "printing", "ended", "crashed"}
  /\ offset \in 0 .. Offsets - 1
  /\ data_buf \in [0 .. LineLen -> Byte]
  /\ nread \in -1 .. LineLen
  /\ position \in -1 .. Offsets - 1

\* The counter is right for as long as every read was full, and so is the
\* offset before the last line.
OffsetsAgree ==
  /\ position # -1 => offset = position
  /\ line # NoLine /\ line.at >= 0 => Decoded(line.offset) = line.at

\* What the buffer holds while the loop prints it: what was read and a NUL, or,
\* after a read that failed, what it held before.
BufferIsRead ==
  status = "printing" =>
    \/ /\ nread = Len(chunk) /\ chunk \in Chunks
       /\ \A i \in 0 .. LineLen : i < nread => data_buf[i] = chunk[i + 1]
       /\ data_buf[nread] = 0
    \/ nread = -1 /\ funcs = "asm"

\* After a full line the buffer holds a full line of text.
TextRemains ==
  position > 0 /\ (status = "reading" \/ (status = "printing" /\ nread = -1)) =>
    /\ \A i \in 0 .. LineLen : i < LineLen => data_buf[i] \in 32 .. 126
    /\ data_buf[LineLen] = 0

DumpInv == DumpTypes /\ OffsetsAgree /\ BufferIsRead /\ TextRemains /\ DumpIsRight

LEMMA DumpConstants ==
  /\ LineLen \in Nat \ {0} /\ OffsetDigits \in Nat \ {0}
  /\ Offsets \in Nat \ {0} /\ DigitPlace[2] = 256
  /\ \A c \in Chunks : c \in Seq(Byte) /\ Len(c) \in 1 .. LineLen
<1>1. LineLen \in Nat \ {0} /\ OffsetDigits \in Nat \ {0}
      /\ \A c \in Chunks : c \in Seq(Byte) /\ Len(c) \in 1 .. LineLen
  BY HexDumpAssumption
<1>2. Offsets \in Nat \ {0}
  BY <1>1, DumpPlaceIs DEF Offsets
<1>3. DigitPlace[2] = 256
  <2>1. 1 \in 1 .. OffsetDigits + 2 /\ 2 \in 1 .. OffsetDigits + 2
    BY <1>1
  <2>2. /\ DigitPlace[0] = 1
        /\ DigitPlace[1] = 16 * DigitPlace[0] /\ DigitPlace[2] = 16 * DigitPlace[1]
    BY <2>1, DumpPlaceIs
  <2> QED
    BY <2>2
<1> QED
  BY <1>1, <1>2, <1>3

LEMMA DumpStart ==
  ASSUME DumpInit
  PROVE  DumpInv
<1>1. DumpTypes
  <2>1. data_buf \in [0 .. LineLen -> Byte]
    BY HexDumpAssumption DEF DumpInit
  <2>2. 0 \in 0 .. Offsets - 1
    BY DumpConstants
  <2>3. 0 \in -1 .. LineLen /\ 0 \in -1 .. Offsets - 1
    BY DumpConstants
  <2> QED
    BY <2>1, <2>2, <2>3 DEF DumpInit, DumpTypes
<1>2. OffsetsAgree
  BY DEF DumpInit, OffsetsAgree
<1>3. BufferIsRead /\ TextRemains /\ DumpIsRight
  BY DEF DumpInit, BufferIsRead, TextRemains, DumpIsRight, Printed
<1> QED
  BY <1>1, <1>2, <1>3 DEF DumpInv

\* A read that returns bytes leaves them in the buffer, before a NUL.
LEMMA DumpReadInput ==
  ASSUME DumpInv, ReadInput
  PROVE  DumpInv'
<1>1. PICK bytes \in Chunks \cup {<<>>} : Read(bytes) /\ chunk' = bytes
  BY DEF ReadInput
<1>2. /\ line' = NoLine /\ main' = main /\ funcs' = funcs /\ offset' = offset
      /\ position' = position
  BY DEF ReadInput
<1>4. LineLen \in Nat
  BY DumpConstants
<1>3. bytes \in Seq(Byte) /\ Len(bytes) \in 0 .. LineLen
  <2>1. CASE bytes \in Chunks
    <3>1. bytes \in Seq(Byte) /\ Len(bytes) \in 1 .. LineLen
      BY <2>1, DumpConstants, Zenon
    <3> QED
      BY <1>4, <3>1
  <2>2. CASE bytes = <<>>
    BY <1>4, <2>2
  <2> QED
    BY <2>1, <2>2
<1>5. /\ data_buf' = [i \in 0 .. LineLen |-> IF i < Len(bytes) THEN bytes[i + 1]
                                             ELSE IF i = Len(bytes) THEN 0 ELSE data_buf[i]]
      /\ nread' = Len(bytes)
      /\ status' = IF bytes = <<>> THEN "ended" ELSE "printing"
  BY <1>1 DEF Read
<1>6. DumpTypes'
  <2>1. data_buf' \in [0 .. LineLen -> Byte]
    <3> SUFFICES ASSUME NEW i \in 0 .. LineLen PROVE data_buf'[i] \in Byte
      BY <1>5
    <3>1. CASE i < Len(bytes)
      <4>1. i + 1 \in 1 .. Len(bytes)
        BY <1>3, <3>1
      <4> QED
        BY <1>3, <1>5, <3>1, <4>1
    <3>2. CASE i = Len(bytes)
      BY <1>5, <3>2 DEF Byte
    <3>3. CASE ~(i < Len(bytes)) /\ i # Len(bytes)
      BY <1>5, <3>3 DEF DumpInv, DumpTypes
    <3> QED
      BY <3>1, <3>2, <3>3
  <2>2. nread' \in -1 .. LineLen
    BY <1>3, <1>4, <1>5
  <2> QED
    BY <1>2, <1>5, <2>1, <2>2 DEF DumpInv, DumpTypes, Offsets
<1>7. OffsetsAgree'
  BY <1>2 DEF DumpInv, OffsetsAgree, NoLine
<1>8. BufferIsRead'
  <2> SUFFICES ASSUME status' = "printing"
               PROVE  /\ nread' = Len(chunk') /\ chunk' \in Chunks
                      /\ \A i \in 0 .. LineLen : i < nread' => data_buf'[i] = chunk'[i + 1]
                      /\ data_buf'[nread'] = 0
    BY DEF BufferIsRead
  <2>1. bytes \in Chunks
    BY <1>1, <1>5
  <2>2. data_buf'[nread'] = 0
    BY <1>3, <1>4, <1>5
  <2>3. \A i \in 0 .. LineLen : i < nread' => data_buf'[i] = chunk'[i + 1]
    BY <1>1, <1>5
  <2> QED
    BY <1>1, <1>5, <2>1, <2>2, <2>3
<1>9. TextRemains'
  <2>1. status' # "reading" /\ nread' # -1
    BY <1>3, <1>5
  <2> QED
    BY <2>1 DEF TextRemains
<1>10. DumpIsRight'
  BY <1>2 DEF DumpIsRight, Printed, NoLine
<1> QED
  BY <1>6, <1>7, <1>8, <1>9, <1>10 DEF DumpInv

LEMMA DumpReadFails ==
  ASSUME DumpInv, ReadFails
  PROVE  DumpInv'
<1>1. /\ line' = NoLine /\ main' = main /\ funcs' = funcs /\ offset' = offset
      /\ position' = position /\ data_buf' = data_buf /\ nread' = -1
      /\ status = "reading"
      /\ status' = IF funcs = "C" THEN "crashed" ELSE "printing"
  BY DEF ReadFails
<1>2. DumpTypes'
  <2>1. -1 \in -1 .. LineLen
    BY DumpConstants
  <2> QED
    BY <1>1, <2>1 DEF DumpInv, DumpTypes, Offsets
<1>3. OffsetsAgree'
  BY <1>1 DEF DumpInv, OffsetsAgree, NoLine
<1>4. BufferIsRead'
  BY <1>1 DEF DumpInv, DumpTypes, BufferIsRead
<1>5. TextRemains'
  BY <1>1 DEF DumpInv, TextRemains
<1>6. DumpIsRight'
  BY <1>1 DEF DumpIsRight, Printed, NoLine
<1> QED
  BY <1>2, <1>3, <1>4, <1>5, <1>6 DEF DumpInv

\* A text without a NUL or a byte past 127 is written up to the NUL after it.
LEMMA TextIsWritten ==
  ASSUME NEW buf, NEW n \in 0 .. LineLen,
         \A i \in 0 .. LineLen : i < n => buf[i] \in 32 .. 126, buf[n] = 0
  PROVE  /\ Len(WriteString(buf)) = n
         /\ \A i \in 1 .. n : WriteString(buf)[i] = buf[i - 1]
<1>1. LineLen \in Nat
  BY DumpConstants
<1> DEFINE ends(i) == buf[i] = 0 \/ (funcs = "asm" /\ buf[i] > 127)
           T == {i \in 0 .. LineLen : ends(i)} \cup {LineLen + 1}
<1>2. n \in T
  OBVIOUS
<1>3. ASSUME NEW i \in T PROVE n <= i
  <2> SUFFICES ASSUME i < n PROVE FALSE
    BY <1>1
  <2>1. i \in 0 .. LineLen /\ ends(i) /\ buf[i] \in 32 .. 126
    BY <1>1
  <2>2. buf[i] = 0 \/ buf[i] > 127
    BY <2>1
  <2>3. PICK b \in 32 .. 126 : b = buf[i]
    BY <2>1
  <2>4. b = 0 \/ b > 127
    BY <2>2, <2>3, Zenon
  <2> HIDE DEF T
  <2> QED
    BY <2>4
<1>4. Min(T) = n
  <2>1. \A x \in T : x \in Int
    BY <1>1
  <2> HIDE DEF T
  <2>2. Min(T) \in T /\ \A y \in T : Min(T) <= y
    <3>1. \E x \in T : \A y \in T : x <= y
      BY <1>2, <1>3
    <3> QED
      BY <3>1, Zenon DEF Min
  <2>3. Min(T) \in Int /\ n \in Int /\ Min(T) <= n /\ n <= Min(T)
    BY <1>2, <1>3, <2>1, <2>2
  <2> QED
    BY <2>3
<1>5. WriteString(buf) = [i \in 1 .. n |-> buf[i - 1]]
  BY <1>4 DEF WriteString
<1> QED
  BY <1>1, <1>5

\* A line that is written: with the bytes that were read, or with none.
LEMMA DumpWriteLine ==
  ASSUME DumpInv, WriteLine
  PROVE  DumpInv'
<1>1. /\ status = "printing" /\ main' = main /\ funcs' = funcs /\ nread' = nread
      /\ chunk' = chunk
      /\ position' = IF position >= 0 /\ nread = LineLen
                     THEN (position + LineLen) % Offsets ELSE -1
  BY DEF WriteLine
<1> DEFINE buf == [i \in 0 .. LineLen |-> IF IsRead(i) THEN ToPrintable(data_buf[i])
                                          ELSE data_buf[i]]
           lost == main = "C" /\ nread = -1
<1>2. /\ lost => /\ line' = Line(<<>>) /\ status' = "crashed"
                 /\ data_buf' = data_buf /\ offset' = offset
      /\ ~lost => /\ data_buf' = buf /\ line' = Line(WriteString(buf))
                  /\ offset' = Grown /\ status' = "reading"
  BY DEF WriteLine
<1>3. /\ LineLen \in Nat \ {0} /\ OffsetDigits \in Nat \ {0} /\ Offsets \in Nat \ {0}
      /\ offset \in 0 .. Offsets - 1 /\ position \in -1 .. Offsets - 1
      /\ nread \in -1 .. LineLen /\ data_buf \in [0 .. LineLen -> Byte]
  BY DumpConstants DEF DumpInv, DumpTypes
<1>4. ~lost => \A i \in 0 .. LineLen : IsRead(i) <=> i < nread
  BY DEF IsRead
<1>5. \A b \in Byte : ToPrintable(b) \in 32 .. 126
  BY DEF Byte, ToPrintable
<1>6. /\ line'.offset = HexFormat(offset, OffsetDigits) /\ line'.columns = Columns
      /\ line'.at = position
      /\ ~lost => line'.text = WriteString(buf)
  BY <1>2 DEF Line
<1> HIDE DEF lost
<1>7. (offset + LineLen) % Offsets \in 0 .. Offsets - 1
  BY <1>3
<1>8. DumpTypes'
  <2>1. data_buf' \in [0 .. LineLen -> Byte]
    <3>1. CASE lost
      BY <1>2, <1>3, <3>1
    <3>2. CASE ~lost
      <4>1. \A i \in 0 .. LineLen : ToPrintable(data_buf[i]) \in Byte
        <5>1. \A i \in 0 .. LineLen : ToPrintable(data_buf[i]) \in 32 .. 126
          BY <1>3, <1>5
        <5>2. 32 .. 126 \subseteq Byte
          BY DEF Byte
        <5> QED
          BY <5>1, <5>2
      <4> QED
        BY <1>2, <1>3, <3>2, <4>1
    <3> QED
      BY <3>1, <3>2
  <2>2. offset' \in 0 .. Offsets - 1
    BY <1>2, <1>3, <1>7 DEF Grown
  <2>3. position' \in -1 .. Offsets - 1
    <3>1. CASE position >= 0 /\ nread = LineLen
      <4>1. (position + LineLen) % Offsets \in 0 .. Offsets - 1
        BY <1>3, <3>1
      <4> QED
        BY <1>1, <1>3, <3>1, <4>1
    <3>2. CASE ~(position >= 0 /\ nread = LineLen)
      BY <1>1, <1>3, <3>2
    <3> QED
      BY <3>1, <3>2
  <2>4. status' \in {"reading", "printing", "ended", "crashed"}
    BY <1>2
  <2> QED
    BY <1>1, <2>1, <2>2, <2>3, <2>4 DEF DumpInv, DumpTypes, Offsets
<1>9. OffsetsAgree'
  <2>1. ASSUME position' # -1 PROVE offset' = position'
    <3>1. position >= 0 /\ nread = LineLen /\ position' = (position + LineLen) % Offsets
      BY <1>1, <2>1
    <3>2. offset = position
      BY <1>3, <3>1 DEF DumpInv, OffsetsAgree
    <3>3. ~lost
      BY <1>3, <3>1 DEF lost
    <3> QED
      BY <1>2, <3>1, <3>2, <3>3 DEF Grown
  <2>2. ASSUME line'.at >= 0 PROVE Decoded(line'.offset) = line'.at
    <3>1. position >= 0 /\ offset = position
      BY <1>3, <1>6, <2>2 DEF DumpInv, OffsetsAgree
    <3>2. /\ OffsetDigits \in 0 .. OffsetDigits + 2
          /\ offset \in Nat /\ offset < DigitPlace[OffsetDigits]
      BY <1>3 DEF Offsets
    <3>3. Decoded(HexFormat(offset, OffsetDigits)) = offset
      BY <3>2, FormatDecodes
    <3> QED
      BY <1>6, <3>1, <3>3
  <2> QED
    BY <2>1, <2>2 DEF OffsetsAgree
<1>10. BufferIsRead'
  BY <1>2 DEF BufferIsRead
<1>11. nread # -1 => /\ nread = Len(chunk) /\ chunk \in Chunks
                     /\ nread \in 1 .. LineLen /\ chunk \in Seq(Byte)
                     /\ \A i \in 0 .. LineLen : i < nread => data_buf[i] = chunk[i + 1]
                     /\ data_buf[nread] = 0
  <2> SUFFICES ASSUME nread # -1
               PROVE  /\ nread = Len(chunk) /\ chunk \in Chunks
                      /\ nread \in 1 .. LineLen /\ chunk \in Seq(Byte)
                      /\ \A i \in 0 .. LineLen : i < nread => data_buf[i] = chunk[i + 1]
                      /\ data_buf[nread] = 0
    OBVIOUS
  <2>1. /\ nread = Len(chunk) /\ chunk \in Chunks
        /\ \A i \in 0 .. LineLen : i < nread => data_buf[i] = chunk[i + 1]
        /\ data_buf[nread] = 0
    BY <1>1 DEF DumpInv, BufferIsRead
  <2> QED
    BY <2>1, DumpConstants
<1>12. ~lost /\ nread # -1 => /\ \A i \in 0 .. LineLen : i < nread => buf[i] \in 32 .. 126
                              /\ buf[nread] = 0
  <2> SUFFICES ASSUME ~lost, nread # -1
               PROVE  /\ \A i \in 0 .. LineLen : i < nread => buf[i] \in 32 .. 126
                      /\ buf[nread] = 0
    OBVIOUS
  <2>1. nread \in 0 .. LineLen /\ ~IsRead(nread)
    BY <1>3, <1>4, <1>11
  <2>2. buf[nread] = 0
    BY <1>11, <2>1
  <2>3. ASSUME NEW i \in 0 .. LineLen, i < nread PROVE buf[i] \in 32 .. 126
    BY <1>3, <1>4, <1>5, <2>3
  <2> QED
    BY <2>2, <2>3
<1>13. TextRemains'
  <2> SUFFICES ASSUME position' > 0, status' = "reading" \/ (status' = "printing" /\ nread' = -1)
               PROVE  /\ \A i \in 0 .. LineLen : i < LineLen => data_buf'[i] \in 32 .. 126
                      /\ data_buf'[LineLen] = 0
    BY DEF TextRemains
  <2>1. nread = LineLen
    BY <1>1
  <2>2. nread # -1
    BY <1>3, <2>1
  <2>3. ~lost /\ data_buf' = buf
    BY <1>2, <2>2 DEF lost
  <2>4. /\ \A i \in 0 .. LineLen : i < LineLen => buf[i] \in 32 .. 126
        /\ buf[LineLen] = 0
    BY <1>12, <2>1, <2>2, <2>3
  <2> QED
    BY <2>3, <2>4
<1>14. ASSUME Printed', nread > 0
       PROVE  /\ \A i \in 1 .. LineLen :
                   IF i <= Len(chunk) THEN Decoded(line'.columns[i]) = chunk[i]
                   ELSE line'.columns[i] = <<>>
              /\ Len(line'.text) = Len(chunk)
              /\ \A i \in 1 .. Len(chunk) :
                   \/ line'.text[i] = chunk[i] /\ chunk[i] \in 32 .. 126
                   \/ line'.text[i] = 46 /\ chunk[i] \notin 32 .. 126
  <2>1. ~lost /\ nread # -1
    BY <1>2, <1>14 DEF Printed
  <2>2. /\ nread = Len(chunk) /\ nread \in 1 .. LineLen /\ chunk \in Seq(Byte)
        /\ \A i \in 0 .. LineLen : i < nread => data_buf[i] = chunk[i + 1]
    BY <1>11, <2>1
  <2>3. ASSUME NEW i \in 1 .. LineLen
        PROVE  IF i <= Len(chunk) THEN Decoded(line'.columns[i]) = chunk[i]
               ELSE line'.columns[i] = <<>>
    <3>1. i - 1 \in 0 .. LineLen /\ (i - 1) + 1 = i
      BY <1>3
    <3>2. line'.columns[i] = IF IsRead(i - 1) THEN HexFormat(data_buf[i - 1], 2) ELSE <<>>
      BY <1>6 DEF Columns
    <3>3. IsRead(i - 1) <=> i <= Len(chunk)
      BY <1>3, <1>4, <2>1, <2>2, <3>1
    <3>4. ASSUME i <= Len(chunk) PROVE Decoded(HexFormat(data_buf[i - 1], 2)) = chunk[i]
      <4>1. data_buf[i - 1] = chunk[i]
        BY <2>2, <3>1, <3>4
      <4>2. chunk[i] \in Nat /\ chunk[i] < DigitPlace[2]
        <5>1. chunk[i] \in Byte
          <6>1. i \in 1 .. Len(chunk)
            BY <2>2, <3>4
          <6> QED
            BY <2>2, <6>1
        <5>2. DigitPlace[2] = 256
          BY DumpConstants
        <5>3. \A b \in Byte : b \in Nat /\ b < 256
          BY DEF Byte
        <5> QED
          <6>1. chunk[i] \in Nat /\ chunk[i] < 256
            BY <5>1, <5>3, Zenon
          <6> QED
            BY <5>2, <6>1
      <4>3. 2 \in 0 .. OffsetDigits + 2
        BY <1>3
      <4> QED
        BY <4>1, <4>2, <4>3, FormatDecodes
    <3> QED
      BY <3>2, <3>3, <3>4
  <2>4. /\ Len(WriteString(buf)) = nread
        /\ \A i \in 1 .. nread : WriteString(buf)[i] = buf[i - 1]
    <3>1. nread \in 0 .. LineLen
      BY <1>3, <2>2
    <3> HIDE DEF buf
    <3> QED
      BY <1>12, <2>1, <3>1, TextIsWritten
  <2>5. ASSUME NEW i \in 1 .. Len(chunk)
        PROVE  \/ line'.text[i] = chunk[i] /\ chunk[i] \in 32 .. 126
               \/ line'.text[i] = 46 /\ chunk[i] \notin 32 .. 126
    <3>1. /\ i - 1 \in 0 .. LineLen /\ i - 1 < nread /\ (i - 1) + 1 = i
      BY <1>3, <2>2
    <3>2. data_buf[i - 1] = chunk[i] /\ IsRead(i - 1)
      BY <1>4, <2>1, <2>2, <3>1
    <3>3. line'.text[i] = ToPrintable(chunk[i])
      BY <1>6, <2>1, <2>2, <2>4, <3>1, <3>2
    <3>4. chunk[i] \in Byte
      BY <2>2
    <3>5. ASSUME NEW b \in Byte
          PROVE  \/ ToPrintable(b) = b /\ b \in 32 .. 126
                 \/ ToPrintable(b) = 46 /\ b \notin 32 .. 126
      BY DEF ToPrintable, Byte
    <3> QED
      <4>1. \/ ToPrintable(chunk[i]) = chunk[i] /\ chunk[i] \in 32 .. 126
            \/ ToPrintable(chunk[i]) = 46 /\ chunk[i] \notin 32 .. 126
        BY <3>4, <3>5, Zenon
      <4> QED
        BY <3>3, <4>1, Zenon
  <2> QED
    BY <1>6, <2>1, <2>2, <2>3, <2>4, <2>5
<1>15. ASSUME Printed', nread = -1
       PROVE  /\ main = "asm" /\ \A i \in 1 .. LineLen : line'.columns[i] = <<>>
              /\ line'.at > 0 => \A i \in 1 .. Len(line'.text) : line'.text[i] \in 32 .. 126
  <2>1. ~lost
    BY <1>2, <1>15 DEF Printed
  <2>2. main = "asm"
    BY <1>15, <2>1 DEF lost, DumpInv, DumpTypes
  <2>3. ASSUME NEW i \in 1 .. LineLen PROVE line'.columns[i] = <<>>
    <3>1. i - 1 \in 0 .. LineLen /\ ~(i - 1 < nread)
      BY <1>3, <1>15
    <3>2. ~IsRead(i - 1)
      BY <1>4, <2>1, <3>1
    <3> QED
      BY <1>6, <3>2 DEF Columns
  <2>4. ASSUME line'.at > 0 PROVE \A i \in 1 .. Len(line'.text) : line'.text[i] \in 32 .. 126
    <3>1. /\ \A i \in 0 .. LineLen : i < LineLen => data_buf[i] \in 32 .. 126
          /\ data_buf[LineLen] = 0
      BY <1>1, <1>6, <1>15, <2>4 DEF DumpInv, TextRemains
    <3>2. \A i \in 0 .. LineLen : buf[i] = data_buf[i]
      BY <1>3, <1>4, <1>15, <2>1
    <3>3. /\ Len(WriteString(buf)) = LineLen
          /\ \A i \in 1 .. LineLen : WriteString(buf)[i] = buf[i - 1]
      <4>1. LineLen \in 0 .. LineLen
        BY <1>3
      <4>2. \A i \in 0 .. LineLen : i < LineLen => buf[i] \in 32 .. 126
        BY <3>1, <3>2
      <4>3. buf[LineLen] = 0
        BY <3>1, <3>2, <4>1
      <4> HIDE DEF buf
      <4> QED
        BY <4>1, <4>2, <4>3, TextIsWritten
    <3>4. ASSUME NEW i \in 1 .. LineLen PROVE line'.text[i] \in 32 .. 126
      <4>1. i - 1 \in 0 .. LineLen /\ i - 1 < LineLen
        BY <1>3
      <4> QED
        <5>1. line'.text[i] = buf[i - 1]
          BY <1>6, <2>1, <3>3
        <5>2. buf[i - 1] = data_buf[i - 1] /\ data_buf[i - 1] \in 32 .. 126
          BY <3>1, <3>2, <4>1
        <5> HIDE DEF buf
        <5> QED
          BY <5>1, <5>2
    <3> QED
      BY <1>6, <2>1, <3>3, <3>4
  <2> QED
    BY <2>2, <2>3, <2>4
<1>16. DumpIsRight'
  BY <1>1, <1>14, <1>15 DEF DumpIsRight
<1> QED
  BY <1>8, <1>9, <1>10, <1>13, <1>16 DEF DumpInv

\* The invariant holds in every state of a run of one of the programs.
LEMMA DumpAlwaysInv == DumpSpec => []DumpInv
<1>1. DumpInit => DumpInv
  BY DumpStart
<1>2. DumpInv /\ [DumpNext]_dumpVars => DumpInv'
  <2> SUFFICES ASSUME DumpInv, [DumpNext]_dumpVars PROVE DumpInv'
    OBVIOUS
  <2>1. CASE ReadInput
    BY <2>1, DumpReadInput
  <2>2. CASE ReadFails
    BY <2>2, DumpReadFails
  <2>3. CASE WriteLine
    BY <2>3, DumpWriteLine
  <2>4. CASE UNCHANGED dumpVars
    BY <2>4 DEF dumpVars, DumpInv, DumpTypes, OffsetsAgree, BufferIsRead, TextRemains,
                DumpIsRight, Printed, Offsets
  <2> QED
    BY <2>1, <2>2, <2>3, <2>4 DEF DumpNext
<1> QED
  BY <1>1, <1>2, PTL DEF DumpSpec

\* What each of the three programs writes for a line is what it read, for every
\* length of a line, every input and everything the buffer may hold before; a
\* read that fails crashes the ones in C, and in assembly shows nothing that is
\* not text.
THEOREM DumpIsAlwaysRight == DumpSpec => []DumpIsRight
<1>1. DumpInv => DumpIsRight
  BY DEF DumpInv
<1> QED
  BY <1>1, DumpAlwaysInv, PTL

\* The offset before a line is its position, modulo what its digits can hold,
\* as long as every read before it was full, for every number of digits.
THEOREM OffsetsArePositions == DumpSpec => []OffsetIsPosition
<1>1. DumpInv => OffsetIsPosition
  BY DEF DumpInv, OffsetsAgree, OffsetIsPosition, Printed
<1> QED
  BY <1>1, DumpAlwaysInv, PTL
==============================================================================
