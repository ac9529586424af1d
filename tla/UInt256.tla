------------------------------- MODULE UInt256 -------------------------------
(***************************************************************************)
(* csf_assign01/uint256.c: arithmetic on unsigned integers of Limbs limbs  *)
(* of Bits bits (4 and 64 in the code), the least significant first.  A    *)
(* behaviour is one call; its result is compared with the integers.        *)
(***************************************************************************)
EXTENDS Integers, Sequences

CONSTANTS
  Limbs,                   \* 4 in the code
  Bits,                    \* 64 in the code
  Base,                    \* 2^Bits
  Radix, LimbDigits,       \* 16 and 16: digits of the radix Radix in a limb
  Tails                    \* digits a freed block may hold where temp ends

Width == Limbs * Bits

\* 1 << n in a number of any width: 2^n.
Bit[n \in 0 .. Width] == IF n = 0 THEN 1 ELSE 2 * Bit[n - 1]

\* Radix^n: what the digit n of a limb counts, the lowest being digit 0.
Place[n \in 0 .. LimbDigits] == IF n = 0 THEN 1 ELSE Radix * Place[n - 1]

ASSUME WidthAssumption ==
  /\ Limbs \in Nat \ {0} /\ Bits \in Nat \ {0}
  /\ Base \in Nat \ {0, 1} /\ Base = Bit[Bits]
  /\ Radix \in Nat \ {0, 1} /\ LimbDigits \in Nat \ {0} /\ Base = Place[LimbDigits]
  /\ \A t \in Tails : t \in Seq(0 .. Radix - 1)

VARIABLES
  op,                      \* the function called, "none" before the call
  left, right, shift,      \* its arguments
  result,
  text,                    \* the string of digits read or made, the highest first
  tail                     \* the digits that follow temp's 16 in its block

vars == <<op, left, right, shift, result, text, tail>>

Limb == 0 .. Base - 1
UInt == [0 .. Limbs - 1 -> Limb]

\* uint256_create_from_u64
FromLimb(v) == [k \in 0 .. Limbs - 1 |-> IF k = 0 THEN v ELSE 0]

------------------------------------------------------------------------------
\* a + b + c in a uint64_t, for a carry c of 0 or 1
LimbSum(a, b, c) == IF a + b + c < Base THEN a + b + c ELSE a + b + c - Base

\* Mutant: compared with one operand only.
CarryOfOne(a, b, c) == IF LimbSum(a, b, c) < a THEN 1 ELSE 0

\* The next carry, told from the sum being smaller than an operand.
CarryOut(a, b, c) ==
  IF LimbSum(a, b, c) < a \/ LimbSum(a, b, c) < b THEN 1 ELSE 0

Carries(l, r) ==
  LET into[k \in 0 .. Limbs] ==
        IF k = 0 THEN 0 ELSE CarryOut(l[k - 1], r[k - 1], into[k - 1])
  IN  into

Add(l, r) ==
  LET into == Carries(l, r)
  IN  [k \in 0 .. Limbs - 1 |-> LimbSum(l[k], r[k], into[k])]

\* Mutant: the one's complement for the two's.
Complement(x) == [k \in 0 .. Limbs - 1 |-> Base - 1 - x[k]]

Negate(x) == Add([k \in 0 .. Limbs - 1 |-> Base - 1 - x[k]], FromLimb(1))

\* Mutant: the one is not added.
SubOfComplement(l, r) == Add(l, Complement(r))

Sub(l, r) == Add(l, Negate(r))

\* One turn of leftShift's outer loop: each bit takes the value of the one
\* below it, the highest first.
ShiftedOnce(x) ==
  [k \in 0 .. Limbs - 1 |->
     ((2 * x[k]) % Base) + IF k = 0 THEN 0 ELSE (2 * x[k - 1]) \div Base]

LeftShift(x, n) ==
  LET after[m \in 0..n] == IF m = 0 THEN x ELSE ShiftedOnce(after[m - 1])
  IN  after[n]

BitIsSet(x, n) == (x[n \div Bits] \div Bit[n % Bits]) % 2 = 1

\* The products the loop of uint256_mul passes through, one for each bit.
Products(l, r) ==
  LET after[n \in 0 .. Width] ==
        IF n = 0 THEN FromLimb(0)
        ELSE IF BitIsSet(l, n - 1)
             THEN Add(after[n - 1], LeftShift(r, n - 1))
             ELSE after[n - 1]
  IN  after

Mul(l, r) == Products(l, r)[Width]

------------------------------------------------------------------------------
Digits == Limbs * LimbDigits

\* What the digits stand for, the highest first.
Number(digits) ==
  LET upTo[n \in 0 .. Len(digits)] ==
        IF n = 0 THEN 0 ELSE Radix * upTo[n - 1] + digits[n]
  IN  upTo[Len(digits)]

\* strtoul: the number, at most the largest of a limb.
Strtoul(digits) ==
  IF Number(digits) < Base THEN Number(digits) ELSE Base - 1

Zeros(n) == [i \in 1..n |-> 0]

\* Mutant: the digits are put at the front of the zeros.
FromHexAtFront(hex, after) ==
  LET padded == hex \o Zeros(Digits - Len(hex))
  IN  [k \in 0 .. Limbs - 1 |->
         LET first == (Limbs - 1 - k) * LimbDigits
         IN  Strtoul(SubSeq(padded, first + 1, first + LimbDigits) \o after)]

\* Each limb's 16 digits are copied to temp, a block of malloc(16) without room
\* for their end: strtoul reads on into what the block held before, the same
\* for every limb as free and malloc give the one block back and forth.
FromHex(hex, after) ==
  LET padded == Zeros(Digits - Len(hex)) \o hex
  IN  [k \in 0 .. Limbs - 1 |->
         LET first == (Limbs - 1 - k) * LimbDigits
         IN  Strtoul(SubSeq(padded, first + 1, first + LimbDigits) \o after)]

\* All the digits, then the leading zeros but the last digit dropped.
FormatAsHex(x) ==
  LET digit(p) == (x[p \div LimbDigits] \div Place[p % LimbDigits]) % Radix
      all == [i \in 1 .. Digits |-> digit(Digits - i)]
      first == CHOOSE i \in 1 .. Digits :
                 /\ i = Digits \/ all[i] # 0
                 /\ \A j \in 1 .. i - 1 : all[j] = 0
  IN  SubSeq(all, first, Digits)

------------------------------------------------------------------------------
Init ==
  /\ op = "none"
  /\ text = <<>> /\ tail = <<>>
  /\ left \in UInt /\ right \in UInt
  /\ shift \in 0 .. Width
  /\ result = FromLimb(0)

Call(f, x) ==
  /\ op = "none"
  /\ op' = f
  /\ result' = x
  /\ UNCHANGED <<left, right, shift, text, tail>>

\* A digit more than 64 is written before the buffer, over the size malloc
\* keeps there, and free(new_hex) aborts.
CreateFromHex ==
  /\ op = "none"
  /\ left = FromLimb(0)
  /\ \E n \in 0 .. Digits + 1 : text' \in [1..n -> 0 .. Radix - 1]
  /\ tail' \in Tails
  /\ IF Len(text') > Digits
     THEN op' = "abort" /\ UNCHANGED result
     ELSE op' = "fromHex" /\ result' = FromHex(text', tail')
  /\ UNCHANGED <<left, right, shift>>

Format ==
  /\ op = "none"
  /\ op' = "format"
  /\ text' = FormatAsHex(left)
  /\ UNCHANGED <<left, right, shift, result, tail>>

\* Each function is called once for each of its arguments.
Next ==
  \/ /\ shift = 0
     /\ \/ Call("add", Add(left, right))
        \/ Call("sub", Sub(left, right))
        \/ Call("mul", Mul(left, right))
        \/ left = right /\ (Call("negate", Negate(left)) \/ Format \/ CreateFromHex)
  \/ left = right /\ Call("leftShift", LeftShift(left, shift))

Spec == Init /\ [][Next]_vars

------------------------------------------------------------------------------
(* Properties *)

\* Base^k: what the limb k counts.
Weight[k \in 0 .. Limbs] == IF k = 0 THEN 1 ELSE Base * Weight[k - 1]

Value(x) ==
  LET upTo[k \in 0 .. Limbs] ==
        IF k = 0 THEN 0 ELSE upTo[k - 1] + x[k - 1] * Weight[k - 1]
  IN  upTo[Limbs]

Modulus == Weight[Limbs]

\* A sum loses a carry where both limbs are all ones and a carry comes in: the
\* sum is then no smaller than either of them (uint256.c:122-128).
LosesCarry(l, r) ==
  \E k \in 0 .. Limbs - 2 :
    l[k] = Base - 1 /\ r[k] = Base - 1 /\ Carries(l, r)[k] = 1

\* The sum is exact, modulo the width, unless a carry is lost; then it is not.
AddIsExact ==
  op = "add" =>
    (Value(result) = (Value(left) + Value(right)) % Modulus
       <=> ~LosesCarry(left, right))

\* The operations made of additions.  A negation never loses a carry, as one
\* operand is 1; a difference is exact unless its one addition of two arbitrary
\* numbers loses one.  A shift drops what leaves the width and nothing between
\* two limbs; a product is exact when none of its loop's additions loses one.
DerivedAreExact ==
  /\ op = "negate" => Value(result) = (Modulus - Value(left)) % Modulus
  /\ op = "sub" =>
       (Value(result) = (Modulus + Value(left) - Value(right)) % Modulus
          <=> ~LosesCarry(left, Negate(right)))
  /\ op = "leftShift" => Value(result) = (Value(left) * Bit[shift]) % Modulus
  /\ op = "mul" =>
       \/ Value(result) = (Value(left) * Value(right)) % Modulus
       \/ \E n \in 1 .. Width :
            /\ BitIsSet(left, n - 1)
            /\ LosesCarry(Products(left, right)[n - 1], LeftShift(right, n - 1))

\* The digits after a limb's own leave its value only if they are none, if it is
\* the largest (strtoul stops there), or if all are zeros.
TailIsHarmless(limb) ==
  \/ tail = <<>> \/ limb = Base - 1
  \/ limb = 0 /\ \A i \in DOMAIN tail : tail[i] = 0

\* format_as_hex makes the shortest string that create_from_hex turns into the
\* same number; create_from_hex is exact just when no digit that an earlier
\* string left in the heap counts as the end of a limb (uint256.c:54-59).
HexIsExact ==
  /\ op = "format" =>
       /\ FromHex(text, <<>>) = left
       /\ Len(text) = 1 \/ Head(text) # 0
  /\ op = "fromHex" =>
       LET meant == FromHex(text, <<>>)
       IN  /\ Value(meant) = Number(text)
           /\ result = meant <=> \A k \in 0 .. Limbs - 1 : TailIsHarmless(meant[k])

\* uint256.c:103, "Compute the sum of two UInt256 values."
SumOfTwoValues ==
  op = "add" => Value(result) = (Value(left) + Value(right)) % Modulus

==============================================================================
