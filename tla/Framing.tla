------------------------------ MODULE Framing ------------------------------
(***************************************************************************)
(* csf_assign05: one direction of a connection.  Connection::send encodes  *)
(* a Message and writes it with rio_writen; Connection::receive takes one  *)
(* line from the rio buffer with rio_readlineb and parses it.  The socket  *)
(* between them keeps the order of the bytes and hands them on in pieces   *)
(* of any size; either end may fail or be closed between any two bytes.    *)
(*                                                                         *)
(* A tag is one character here, and lengths are small: what matters is how *)
(* a line's length compares with Message::MAX_LEN and where its first      *)
(* colon is.                                                               *)
(***************************************************************************)
EXTENDS Naturals, Sequences

CONSTANTS
  Tags, Text,              \* the tags receive() knows, the other characters
  Colon, Newline,
  Messages,                \* what is sent: a tag and data
  MaxLen,                  \* Message::MAX_LEN, 255 in the code
  BufSize,                 \* RIO_BUFSIZE, 8192 in the code
  MaxSends                 \* bound: calls of send

Char == Tags \cup Text \cup {Colon, Newline}
Line == Seq(Char)

ASSUME FramingAssumption ==
  /\ Messages \subseteq [tag : Tags, data : Seq(Char \ {Newline})]
  /\ MaxLen \in Nat /\ MaxLen > 1
  /\ BufSize \in Nat \ {0}
  /\ MaxSends \in Nat

\* No tag has a newline in it (message.h:27-37), nor is it the colon.
ASSUME NewlineAssumption == Newline \notin Tags \cup {Colon}

VARIABLES
  open,                    \* the writer has its end of the socket open
  unwritten,               \* rio_writen: the bytes from bufp on
  net,                     \* the bytes in the socket
  rio,                     \* rio_t: the bytes from rio_bufptr on
  buf,                     \* receive: what rio_readlineb has put in buf
  last,                    \* Connection: the reader's m_last_result
  sent,                    \* history: the Messages given to send
  lines,                   \* history: the lines receive has parsed
  written, taken           \* history: the bytes written, and those in lines

writer == <<open, unwritten, sent>>
reader == <<rio, buf, last, lines, taken>>
vars == <<writer, net, reader, written>>

Init ==
  /\ open = TRUE
  /\ unwritten = <<>> /\ net = <<>> /\ rio = <<>> /\ buf = <<>>
  /\ last = "SUCCESS"
  /\ sent = <<>> /\ lines = <<>>
  /\ written = <<>> /\ taken = <<>>

------------------------------------------------------------------------------
(* Connection::send *)

\* Mutant: the newline is left out after an empty text.
EncodeBare(m) ==
  <<m.tag, Colon>> \o m.data \o (IF m.data = <<>> THEN <<>> ELSE <<Newline>>)

Encode(m) == <<m.tag, Colon>> \o m.data \o <<Newline>>

Send(m) ==
  /\ open /\ unwritten = <<>>
  /\ Len(sent) < MaxSends
  /\ sent' = Append(sent, m)
  /\ unwritten' = Encode(m)
  /\ UNCHANGED <<open, net, reader, written>>

From(s, k) == SubSeq(s, k, Len(s))

\* One turn of rio_writen's loop: the socket takes k of the bytes left.
Write(k) ==
  /\ k \in 1 .. Len(unwritten)
  /\ net' = net \o SubSeq(unwritten, 1, k)
  /\ written' = written \o SubSeq(unwritten, 1, k)
  /\ unwritten' = From(unwritten, k + 1)
  /\ UNCHANGED <<open, sent, reader>>

\* rio_writen returns -1, send FALSE, and the caller gives the connection up;
\* or the writer's process ends, which it may do between any two writes.
Close ==
  /\ open
  /\ open' = FALSE
  /\ unwritten' = <<>>
  /\ UNCHANGED <<sent, net, reader, written>>

------------------------------------------------------------------------------
(* Connection::receive *)

Reading == last # "EOF_OR_ERROR"

\* Mutant: the buffer is refilled while there is still something in it.
RefillEarly(k) ==
  /\ Reading
  /\ k \in 1 .. Len(net) /\ k <= BufSize
  /\ rio' = SubSeq(net, 1, k)
  /\ net' = From(net, k + 1)
  /\ UNCHANGED <<writer, buf, last, lines, taken, written>>

\* rio_read: the buffer is refilled only when it is empty.
Refill(k) ==
  /\ Reading /\ rio = <<>>
  /\ k \in 1 .. Len(net) /\ k <= BufSize
  /\ rio' = SubSeq(net, 1, k)
  /\ net' = From(net, k + 1)
  /\ UNCHANGED <<writer, buf, last, lines, taken, written>>

\* The text before the first colon is the tag and the rest is the data; a line
\* without a colon is both.
Parsed(l) ==
  LET colons == {i \in 1 .. Len(l) : l[i] = Colon}
      first == CHOOSE i \in colons : \A j \in colons : i <= j
  IN  IF colons = {} THEN [tag |-> l, data |-> l]
      ELSE [tag |-> SubSeq(l, 1, first - 1), data |-> From(l, first + 1)]

IsValid(l) == \E t \in Tags : Parsed(l).tag = <<t>>

Return(l) ==
  /\ lines' = Append(lines, l)
  /\ taken' = taken \o l
  /\ buf' = <<>>
  /\ last' = IF IsValid(l) THEN "SUCCESS" ELSE "INVALID_MSG"

\* Mutant: the last place in buf is given to a character too.
TakeOneMore ==
  /\ Reading /\ rio # <<>>
  /\ rio' = Tail(rio)
  /\ LET l == Append(buf, Head(rio))
     IN  IF Head(rio) = Newline \/ Len(l) = MaxLen THEN Return(l)
         ELSE buf' = l /\ UNCHANGED <<lines, taken, last>>
  /\ UNCHANGED <<writer, net, written>>

\* One turn of rio_readlineb's loop.  A line ends with its newline, or when
\* MaxLen - 1 characters have been read: the last place in buf is for the NUL.
TakeChar ==
  /\ Reading /\ rio # <<>>
  /\ rio' = Tail(rio)
  /\ LET l == Append(buf, Head(rio))
     IN  IF Head(rio) = Newline \/ Len(l) = MaxLen - 1 THEN Return(l)
         ELSE buf' = l /\ UNCHANGED <<lines, taken, last>>
  /\ UNCHANGED <<writer, net, written>>

\* End of file: what has been read of a line is returned as one.
ReadEof ==
  /\ Reading /\ rio = <<>>
  /\ net = <<>> /\ ~open
  /\ IF buf # <<>> THEN Return(buf)
     ELSE last' = "EOF_OR_ERROR" /\ UNCHANGED <<buf, lines, taken>>
  /\ UNCHANGED <<writer, net, rio, written>>

\* read() fails with another error than EINTR: what has been read is dropped.
ReadFails ==
  /\ Reading /\ rio = <<>>
  /\ last' = "EOF_OR_ERROR"
  /\ UNCHANGED <<writer, net, rio, buf, lines, taken, written>>

------------------------------------------------------------------------------
Writing == \E k \in 1 .. Len(unwritten) : Write(k)

Receiving ==
  \/ \E k \in 1 .. Len(net) : Refill(k)
  \/ TakeChar
  \/ ReadEof

Next ==
  \/ \E m \in Messages : Send(m)
  \/ Writing
  \/ Close
  \/ Receiving
  \/ ReadFails

\* A write is taken up in the end, and a reader with something to read reads.
Fairness == WF_vars(Writing) /\ WF_vars(Receiving)

SafeSpec == Init /\ [][Next]_vars
Spec == SafeSpec /\ Fairness

------------------------------------------------------------------------------
(* Properties *)

TypeOK ==
  /\ open \in BOOLEAN
  /\ unwritten \in Line /\ net \in Line /\ rio \in Line /\ buf \in Line
  /\ last \in {"SUCCESS", "INVALID_MSG", "EOF_OR_ERROR"}
  /\ sent \in Seq(Messages)
  /\ lines \in Seq(Line)
  /\ written \in Line /\ taken \in Line

\* rio_readlineb writes its terminator behind what it has read: there is always
\* room for it in receive's buf of MAX_LEN characters (connection.cpp:87-88).
LineFitsBuffer ==
  /\ Len(buf) < MaxLen
  /\ \A i \in DOMAIN lines : Len(lines[i]) < MaxLen

\* Whatever the pieces in which write and read move them, the bytes reach
\* receive in the order in which send wrote them, none lost and none twice
\* (csapp.c:781-836).
StreamInOrder == written = taken \o buf \o rio \o net

Pieces(m) ==
  LET e == Encode(m)
      size == MaxLen - 1
  IN  [i \in 1 .. (Len(e) + size - 1) \div size |->
         SubSeq(e, (i - 1) * size + 1, IF i * size < Len(e) THEN i * size ELSE Len(e))]

\* What f makes of the elements of s, one after the other.
Joined(f, s) ==
  LET upTo[n \in 0 .. Len(s)] ==
        IF n = 0 THEN <<>> ELSE upTo[n - 1] \o f[s[n]]
  IN  upTo[Len(s)]

Expected == Joined([m \in Messages |-> Pieces(m)], sent)

Begins(s, t) == Len(s) <= Len(t) /\ s = SubSeq(t, 1, Len(s))

\* receive returns each message as one line if it is shorter than MAX_LEN, else
\* cut into pieces of MAX_LEN - 1, and always starts the next one afresh.  Only
\* the last line before the end of file may be a message broken off: send was
\* interrupted, and receive returns what there is as if it were whole.
LinesArePieces ==
  \/ Begins(lines, Expected)
  \/ LET n == Len(lines)
     IN  /\ Begins(SubSeq(lines, 1, n - 1), Expected)
         /\ Begins(lines[n], Expected[n]) /\ lines[n] # Expected[n]
         /\ ~open /\ net = <<>> /\ rio = <<>> /\ buf = <<>>

\* A receive that has got part of a line returns: every message ends with a
\* newline, and one that is broken off is followed by the end of the file.
StartedLineEnds == buf # <<>> ~> (buf = <<>> \/ last = "EOF_OR_ERROR")

==============================================================================
