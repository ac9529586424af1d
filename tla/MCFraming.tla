------------------------------ MODULE MCFraming ------------------------------
(* Lines of four characters at most: the messages are shorter, just as long  *)
(* as MAX_LEN, and longer with a rest that is no message or looks like one.  *)
EXTENDS Framing

CONSTANTS t, a, colon, newline

M(data) == [tag |-> t, data |-> data]

SomeMessages ==
  {M(<<>>), M(<<a>>), M(<<colon>>), M(<<a, a>>), M(<<a, colon, a, a, a, colon>>), M(<<a, a, t, colon>>)}
==============================================================================
