------------------------------ MODULE MCUInt256 ------------------------------
(* Instances of UInt256: three limbs of two bits, every pair of numbers, and *)
(* every string of up to seven binary digits.                                *)
EXTENDS UInt256

SomeTails == UNION {[1..n -> 0 .. Radix - 1] : n \in 0 .. 2}
==============================================================================
