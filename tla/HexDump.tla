------------------------------- MODULE HexDump -------------------------------
(***************************************************************************)
(* csf_assign02: the hex dump of standard input, in the three programs of  *)
(* its Makefile: c_hexdump, asm_hexdump, and casm_hexdump, whose main is   *)
(* the one in C and whose functions are the ones in assembly.              *)
(*                                                                         *)
(* A character is its code.  What a program writes is taken to be written; *)
(* the state keeps one line.                                               *)
(***************************************************************************)
EXTENDS Integers, Sequences, FiniteSetsExt

CONSTANTS
  LineLen,                 \* 16 in the code
  OffsetDigits,            \* 8 in the code
  Chunks,                  \* the bytes that a read may return
  Junk                     \* the bytes that the buffer may hold at the start

Byte == 0 .. 255

ASSUME HexDumpAssumption ==
  /\ LineLen \in Nat \ {0} /\ OffsetDigits \in Nat \ {0}
  /\ \A c \in Chunks : c \in Seq(Byte) /\ Len(c) \in 1 .. LineLen
  /\ Junk \subseteq Byte

VARIABLES
  main, funcs,             \* the language of each part of the program
  status,                  \* "reading", "printing", "ended" or "crashed"
  offset,
  data_buf,
  nread,                   \* -1 after a read that failed
  line,                    \* the line just written; history: where its bytes began
  chunk,                   \* history: what the last read returned
  position                 \* history: of the next read; -1 once one was not full

dumpVars == <<main, funcs, status, offset, data_buf, nread, line, chunk, position>>

\* What a digit counts in the place n from the right.
DigitPlace[n \in 0 .. OffsetDigits + 2] == IF n = 0 THEN 1 ELSE 16 * DigitPlace[n - 1]

Offsets == DigitPlace[OffsetDigits]

NoLine == [offset |-> <<>>, columns |-> <<>>, text |-> <<>>, at |-> 0]

DumpInit ==
  /\ main \in {"C", "asm"} /\ funcs \in {main, "asm"}
  /\ status = "reading"
  /\ offset = 0
  /\ data_buf \in [0 .. LineLen -> Junk]
  /\ nread = 0
  /\ line = NoLine
  /\ chunk = <<>>
  /\ position = 0

------------------------------------------------------------------------------
(* The functions, the same in C and in assembly but for where a string ends *)

HexDigit(d) == IF d < 10 THEN d + 48 ELSE d + 87

\* Mutant: the digits in the order in which the loop finds them.
FormatReversed(value, digits) ==
  [i \in 1 .. digits |-> HexDigit((value \div DigitPlace[i - 1]) % 16)]

\* hex_format_offset and hex_format_byte_as_hex: from the right, over zeros.
HexFormat(value, digits) ==
  [i \in 1 .. digits |-> HexDigit((value \div DigitPlace[digits - i]) % 16)]

ToPrintable(b) == IF b < 32 \/ b > 126 THEN 46 ELSE b

\* hex_write_string writes up to the NUL; in assembly also up to a byte that is
\* negative as a char.  What lies past the buffer's end is no better than Junk.
WriteString(buf) ==
  LET ends(i) == buf[i] = 0 \/ (funcs = "asm" /\ buf[i] > 127)
      length == Min({i \in 0 .. LineLen : ends(i)} \cup {LineLen + 1})
  IN  [i \in 1 .. length |-> buf[i - 1]]

------------------------------------------------------------------------------
\* Mutant: a buffer that a read does not fill is left without its end.
ReadBare(bytes) ==
  /\ data_buf' = [i \in 0 .. LineLen |->
                    IF i < Len(bytes) THEN bytes[i + 1]
                    ELSE IF i = LineLen THEN 0 ELSE data_buf[i]]
  /\ nread' = Len(bytes)
  /\ status' = IF bytes = <<>> THEN "ended" ELSE "printing"

\* hex_read, and main's test of what it returns.
Read(bytes) ==
  /\ data_buf' = [i \in 0 .. LineLen |->
                    IF i < Len(bytes) THEN bytes[i + 1]
                    ELSE IF i = Len(bytes) THEN 0 ELSE data_buf[i]]
  /\ nread' = Len(bytes)
  /\ status' = IF bytes = <<>> THEN "ended" ELSE "printing"

ReadInput ==
  /\ status = "reading"
  /\ \E bytes \in Chunks \cup {<<>>} : Read(bytes) /\ chunk' = bytes
  /\ line' = NoLine
  /\ UNCHANGED <<main, funcs, offset, position>>

\* read returns -1.  As an unsigned index in C it is far outside the buffer; in
\* assembly the NUL goes just before the buffer, where there is one.
ReadFails ==
  /\ status = "reading"
  /\ nread' = -1
  /\ chunk' = <<>>
  /\ status' = IF funcs = "C" THEN "crashed" ELSE "printing"
  /\ line' = NoLine
  /\ UNCHANGED <<main, funcs, offset, data_buf, position>>

\* Whether the loop over the columns takes index i to have been read: unsigned
\* in C, signed in assembly.
IsRead(i) == i < nread \/ (main = "C" /\ nread = -1)

Columns ==
  [i \in 1 .. LineLen |-> IF IsRead(i - 1) THEN HexFormat(data_buf[i - 1], 2) ELSE <<>>]

Line(text) ==
  [offset |-> HexFormat(offset, OffsetDigits), columns |-> Columns, text |-> text, at |-> position]

\* Mutant: the counter is kept in a byte.
GrownInByte == (offset + LineLen) % (Offsets \div 2)

\* A uint32_t, and as much for each read, whatever it returned.
Grown == (offset + LineLen) % Offsets

\* The rest of main's loop.  With -1 in C the loop over the text runs past the
\* stack after the columns are written.
WriteLine ==
  /\ status = "printing"
  /\ LET printable == [i \in 0 .. LineLen |->
                         IF IsRead(i) THEN ToPrintable(data_buf[i]) ELSE data_buf[i]]
     IN  IF main = "C" /\ nread = -1
         THEN /\ line' = Line(<<>>)
              /\ status' = "crashed"
              /\ UNCHANGED <<data_buf, offset>>
         ELSE /\ data_buf' = printable
              /\ line' = Line(WriteString(printable))
              /\ offset' = Grown
              /\ status' = "reading"
  /\ position' = IF position >= 0 /\ nread = LineLen THEN (position + LineLen) % Offsets ELSE -1
  /\ UNCHANGED <<main, funcs, nread, chunk>>

DumpNext == ReadInput \/ ReadFails \/ WriteLine

DumpSpec == DumpInit /\ [][DumpNext]_dumpVars

------------------------------------------------------------------------------
(* Properties *)

DigitValue(c) == IF c < 58 THEN c - 48 ELSE c - 87

Decoded(digits) ==
  LET upTo[i \in 0 .. Len(digits)] ==
        IF i = 0 THEN 0 ELSE 16 * upTo[i - 1] + DigitValue(digits[i])
  IN  upTo[Len(digits)]

Printed == status = "reading" /\ line # NoLine

\* After a read that succeeded each program writes, for each byte read, its hex
\* value in its column and its printable form or a dot in its place, and
\* nothing of an earlier line (c_hexmain.c:31-64).  After one that failed
\* c_hexdump writes nothing; asm_hexdump writes a line without a byte, of the
\* text before; casm_hexdump does not get to the end of its line.
DumpIsRight ==
  /\ Printed /\ nread > 0 =>
       /\ \A i \in 1 .. LineLen :
            IF i <= Len(chunk) THEN Decoded(line.columns[i]) = chunk[i]
            ELSE line.columns[i] = <<>>
       /\ Len(line.text) = Len(chunk)
       /\ \A i \in 1 .. Len(chunk) :
            \/ line.text[i] = chunk[i] /\ chunk[i] \in 32 .. 126
            \/ line.text[i] = 46 /\ chunk[i] \notin 32 .. 126
  /\ Printed /\ nread = -1 =>
       /\ main = "asm" /\ \A i \in 1 .. LineLen : line.columns[i] = <<>>
       /\ line.at > 0 => \A i \in 1 .. Len(line.text) : line.text[i] \in 32 .. 126

\* The offset before a line is where its bytes are in the input, modulo its
\* width, as long as every read before it was full (c_hexmain.c:65): a read from
\* a pipe or a terminal may return less.
OffsetIsPosition ==
  Printed /\ line.at >= 0 => Decoded(line.offset) = line.at

==============================================================================
