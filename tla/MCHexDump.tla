------------------------------ MODULE MCHexDump ------------------------------
(* Lines of two bytes and offsets of one digit, which soon go round.  A read  *)
(* returns any byte alone, or two of those at the bounds of the digits, of the *)
(* printable characters and of a signed char.                                  *)
EXTENDS HexDump

Bounds == {0, 9, 10, 31, 32, 126, 127, 128, 255}

SomeChunks == [1..1 -> Byte] \cup [1..2 -> Bounds]
==============================================================================
