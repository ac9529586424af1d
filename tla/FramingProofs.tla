--------------------------- MODULE FramingProofs ---------------------------
(***************************************************************************)
(* Framing's safety for messages, lines and buffers of every length.  The  *)
(* first inductive invariant adds to what the properties say that a line   *)
(* in progress leaves room for two characters more, the next and the NUL.  *)
(* The second one says where receive is in what has been sent: behind n    *)
(* messages and j lines of the next one, of which it has read a part.      *)
(***************************************************************************)
EXTENDS Framing, SequenceTheorems, WellFoundedInduction, TLAPS

RoomForOneMore ==
  /\ Len(buf) < MaxLen - 1
  /\ \A i \in DOMAIN lines : Len(lines[i]) < MaxLen

IInv == TypeOK /\ StreamInOrder /\ RoomForOneMore

------------------------------------------------------------------------------
(* Moving bytes from the front of one sequence to the end of another *)

\* What is cut off a line at some place is a line, and so is what is left; put
\* together again they are the line.
LEMMA Cut ==
  ASSUME NEW s \in Line, NEW k \in 1 .. Len(s)
  PROVE  /\ SubSeq(s, 1, k) \in Line /\ From(s, k + 1) \in Line
         /\ SubSeq(s, 1, k) \o From(s, k + 1) = s
<1>1. Len(s) \in Nat /\ \A i \in 1 .. Len(s) : s[i] \in Char
  BY LenProperties, ElementOfSeq DEF Line
<1>2. SubSeq(s, 1, k) \in Line
  <2>1. \A i \in 1 .. k : s[i] \in Char
    BY <1>1
  <2>. QED BY <1>1, <2>1, SubSeqProperties DEF Line
<1>3. From(s, k + 1) \in Line
  <2>1. \A i \in k + 1 .. Len(s) : s[i] \in Char
    BY <1>1
  <2>2. k + 1 \in Int /\ Len(s) \in Int
    BY <1>1
  <2>. QED BY <2>1, <2>2, SubSeqProperties DEF Line, From
<1>4. SubSeq(s, 1, k) \o SubSeq(s, k + 1, Len(s)) = SubSeq(s, 1, Len(s))
  BY <1>1, ConcatAdjacentSubSeq DEF Line
<1>. QED BY <1>2, <1>3, <1>4, SubSeqFull DEF From, Line

\* The same for one character taken from the front.
LEMMA CutOne ==
  ASSUME NEW s \in Line, s # <<>>
  PROVE  Head(s) \in Char /\ Tail(s) \in Line /\ <<Head(s)>> \o Tail(s) = s
<1>1. Len(s) \in Nat /\ Len(s) > 0
  BY EmptySeq DEF Line
<1>2. Head(s) \in Char /\ Tail(s) \in Line
  BY HeadTailProperties DEF Line
<1>3. SubSeq(s, 1, Len(s)) = <<s[1]>> \o SubSeq(s, 2, Len(s))
  BY <1>1, SubSeqRecursiveFirst DEF Line
<1>4. Tail(s) = SubSeq(s, 2, Len(s)) /\ Head(s) = s[1]
  BY TailIsSubSeq DEF Line
<1>. QED BY <1>2, <1>3, <1>4, SubSeqFull DEF Line

\* Lines are closed under concatenation.
LEMMA Concat ==
  ASSUME NEW s \in Line, NEW t \in Line
  PROVE  s \o t \in Line
BY ConcatProperties DEF Line

\* Concatenation of lines is associative.
LEMMA Regroup ==
  ASSUME NEW s \in Line, NEW t \in Line, NEW u \in Line
  PROVE  (s \o t) \o u = s \o (t \o u)
BY ConcatAssociative DEF Line

\* What is added behind equal strings keeps them equal.
Associate(s, t, u) == (s \o t) \o u = s \o (t \o u)

StayEqual(t, b, u, v, w) == t \o b = u \o v => t \o (b \o w) = u \o (v \o w)

LEMMA AddToBoth ==
  ASSUME NEW t \in Line, NEW b \in Line, NEW u \in Line, NEW v \in Line, NEW w \in Line
  PROVE  StayEqual(t, b, u, v, w)
<1>1. \A x, y, z \in Line : Associate(x, y, z)
  BY Regroup DEF Associate
<1>2. Associate(t, b, w) /\ Associate(u, v, w)
  BY <1>1
<1> QED
  BY <1>2 DEF Associate, StayEqual

AppendsLater(u, v, d) == Append(u \o v, d) = u \o Append(v, d)

LEMMA AppendLater ==
  ASSUME NEW T, NEW u \in Seq(T), NEW v \in Seq(T), NEW d \in T
  PROVE  AppendsLater(u, v, d)
<1>1. u \o v \in Seq(T) /\ <<d>> \in Seq(T)
  OBVIOUS
<1>2. Append(u \o v, d) = (u \o v) \o <<d>>
  BY <1>1, AppendIsConcat
<1>3. Append(v, d) = v \o <<d>>
  BY AppendIsConcat
<1>4. (u \o v) \o <<d>> = u \o (v \o <<d>>)
  BY <1>1, ConcatAssociative
<1> QED
  BY <1>2, <1>3, <1>4 DEF AppendsLater

\* A part of a sequence that goes on for one more.
LEMMA SubSeqGrows ==
  ASSUME NEW T, NEW s \in Seq(T), NEW x \in Nat, NEW y \in Nat, x + y < Len(s)
  PROVE  SubSeq(s, x + 1, x + y + 1) = Append(SubSeq(s, x + 1, x + y), s[x + y + 1])
<1>1. PICK n \in Nat : n = Len(s)
  OBVIOUS
<1>2. \A i \in 1 .. n : s[i] \in T
  BY <1>1
<1> DEFINE u == SubSeq(s, x + 1, x + y)
           v == SubSeq(s, x + 1, x + y + 1)
<1>3. u \in Seq(T) /\ Len(u) = y /\ \A i \in 1 .. y : u[i] = s[x + i]
  BY <1>1, <1>2
<1>4. v \in Seq(T) /\ Len(v) = y + 1 /\ \A i \in 1 .. y + 1 : v[i] = s[x + i]
  BY <1>1, <1>2
<1> HIDE DEF u, v
<1>5. s[x + y + 1] \in T
  BY <1>1, <1>2
<1>6. PICK w : w = Append(u, s[x + y + 1])
  OBVIOUS
<1>7. w \in Seq(T) /\ Len(w) = y + 1
      /\ \A i \in 1 .. y + 1 : w[i] = s[x + i]
  BY <1>3, <1>5, <1>6
<1>8. v = w
  BY <1>4, <1>7, SeqEqual
<1> QED
  BY <1>6, <1>8 DEF u, v

LEMMA FirstOnes ==
  ASSUME NEW T, NEW s \in Seq(T), NEW j \in Nat, j + 1 \in 1 .. Len(s)
  PROVE  /\ SubSeq(s, 1, j) \in Seq(T) /\ s[j + 1] \in T
         /\ SubSeq(s, 1, j + 1) = Append(SubSeq(s, 1, j), s[j + 1])
<1>1. PICK n \in Nat : n = Len(s)
  OBVIOUS
<1>2. j < n /\ \A i \in 1 .. n : s[i] \in T
  BY <1>1
<1>3. s[j + 1] \in T
  BY <1>1, <1>2
<1>4. \A i \in 1 .. j : s[i] \in T
  BY <1>2
<1>5. SubSeq(s, 1, j) \in Seq(T)
  BY <1>1, <1>2, <1>4
<1>6. SubSeq(s, 0 + 1, 0 + j + 1) = Append(SubSeq(s, 0 + 1, 0 + j), s[0 + j + 1])
  <2>1. 0 \in Nat /\ 0 + j < Len(s)
    BY <1>1, <1>2
  <2> QED
    BY <2>1, SubSeqGrows
<1>7. 0 + 1 = 1 /\ 0 + j = j /\ 0 + j + 1 = j + 1
  OBVIOUS
<1> QED
  BY <1>3, <1>5, <1>6, <1>7

\* l goes from behind the xth character of e to the one behind the (x + y)th; t
\* before it, the bytes u have been followed by e so far.
\* Before, that was b.
Growing(e, t, u, b, x, y) ==
  /\ y = Len(b) /\ x + y < Len(e) /\ b = SubSeq(e, x + 1, x + y)
  /\ t \o b = u \o SubSeq(e, 1, x + y)

Grown(e, t, u, l, x, y) ==
  /\ x + y + 1 \in 1 .. Len(e) /\ Len(l) = y + 1
  /\ l = SubSeq(e, x + 1, x + y + 1)
  /\ t \o l = u \o SubSeq(e, 1, x + y + 1)

LEMMA OneMoreCharacter ==
  ASSUME NEW e \in Seq(Char), NEW t \in Seq(Char), NEW u \in Seq(Char), NEW b \in Seq(Char),
         NEW x \in Nat, NEW y \in Nat, Growing(e, t, u, b, x, y),
         NEW c \in Char, c = e[x + y + 1]
  PROVE  Grown(e, t, u, Append(b, c), x, y)
<1>1. PICK z \in Nat : z = x + y
  OBVIOUS
<1>2. z + 1 \in 1 .. Len(e)
  <2>1. PICK top \in Nat : top = Len(e)
    OBVIOUS
  <2> QED
    BY <1>1, <2>1 DEF Growing
<1> DEFINE v == SubSeq(e, 1, z)
           w == <<c>>
           l == Append(b, c)
<1>3. Len(l) = y + 1
  BY DEF Growing
<1>4. l = SubSeq(e, x + 1, x + y + 1)
  <2>1. SubSeq(e, x + 1, x + y + 1) = Append(SubSeq(e, x + 1, x + y), e[x + y + 1])
    BY SubSeqGrows DEF Growing
  <2> QED
    BY <2>1 DEF Growing
<1>5. v \in Seq(Char) /\ SubSeq(e, 1, z + 1) = Append(v, c)
  BY <1>1, <1>2, FirstOnes
<1>6. v \in Line /\ w \in Line /\ t \in Line /\ u \in Line /\ b \in Line
  BY <1>5 DEF Line
<1>7. l = b \o w /\ Append(v, c) = v \o w
  BY <1>5, AppendIsConcat
<1>8. t \o b = u \o v
  BY <1>1 DEF Growing
<1> HIDE DEF v, w, l
<1>9. t \o (b \o w) = u \o (v \o w)
  <2>1. StayEqual(t, b, u, v, w)
    BY <1>6, AddToBoth
  <2> QED
    BY <1>8, <2>1 DEF StayEqual
<1>10. t \o l = u \o SubSeq(e, 1, z + 1)
  BY <1>5, <1>7, <1>9
<1> QED
  BY <1>1, <1>2, <1>3, <1>4, <1>10 DEF Grown, l

\* What send writes of a message is a line.
LEMMA EncodeIsLine ==
  ASSUME NEW m \in Messages
  PROVE  Encode(m) \in Line
<1>1. m.tag \in Char /\ m.data \in Seq(Char \ {Newline}) /\ Colon \in Char /\ Newline \in Char
  BY FramingAssumption DEF Char
<1>2. m.data \in Line
  BY <1>1, SeqMonotonic DEF Line
<1>3. <<m.tag, Colon>> \in Line /\ <<Newline>> \in Line
  BY <1>1 DEF Line
<1>. QED BY <1>2, <1>3, Concat DEF Encode

------------------------------------------------------------------------------
\* Everything is empty at the start.
LEMMA InitInv == Init => IInv
<1>. SUFFICES ASSUME Init PROVE IInv
  OBVIOUS
<1>1. <<>> \in Line /\ <<>> \in Seq(Messages) /\ <<>> \in Seq(Line) /\ Len(<<>>) = 0
  BY EmptySeq DEF Line
<1>2. TypeOK
  BY <1>1 DEF Init, TypeOK
<1>3. <<>> \o <<>> = <<>>
  BY <1>1, ConcatEmptySeq DEF Line
<1>4. StreamInOrder
  BY <1>3 DEF Init, StreamInOrder
<1>5. RoomForOneMore
  <2>1. DOMAIN <<>> = {}
    OBVIOUS
  <2>. QED BY <1>1, <2>1, FramingAssumption DEF Init, RoomForOneMore
<1>. QED BY <1>2, <1>4, <1>5 DEF IInv

\* Returning a line moves buf to the end of what has been taken.
LEMMA ReturnKeeps ==
  ASSUME TypeOK, RoomForOneMore, NEW l \in Line, Len(l) < MaxLen, Return(l)
  PROVE  /\ buf' \in Line /\ lines' \in Seq(Line) /\ taken' \in Line
         /\ last' \in {"SUCCESS", "INVALID_MSG", "EOF_OR_ERROR"}
         /\ taken' \o buf' = taken \o l
         /\ RoomForOneMore'
<1>1. buf' = <<>> /\ buf' \in Line /\ Len(buf') = 0
  BY EmptySeq DEF Return, Line
<1>2. lines' = Append(lines, l) /\ lines' \in Seq(Line)
  BY AppendProperties DEF Return, TypeOK
<1>3. taken' = taken \o l /\ taken' \in Line
  BY Concat DEF Return, TypeOK
<1>4. taken' \o buf' = taken'
  BY <1>1, <1>3, ConcatEmptySeq DEF Line
<1>5. \A i \in DOMAIN lines' : Len(lines'[i]) < MaxLen
  <2>1. DOMAIN lines = 1 .. Len(lines) /\ DOMAIN lines' = 1 .. Len(lines') /\ Len(lines) \in Nat
    BY <1>2, LenProperties DEF TypeOK
  <2>2. Len(lines') = Len(lines) + 1
    BY <1>2, AppendProperties DEF TypeOK
  <2>3. \A i \in 1 .. Len(lines) : lines'[i] = lines[i]
    BY <1>2, AppendProperties DEF TypeOK
  <2>4. lines'[Len(lines) + 1] = l
    BY <1>2, AppendProperties DEF TypeOK
  <2>. QED BY <2>1, <2>2, <2>3, <2>4 DEF RoomForOneMore
<1>6. Len(buf') < MaxLen - 1
  BY <1>1, FramingAssumption
<1>. QED BY <1>1, <1>2, <1>3, <1>4, <1>5, <1>6 DEF Return, RoomForOneMore

\* Each step of either side keeps the bytes in order.
LEMMA StepInv == IInv /\ [Next]_vars => IInv'
<1>. SUFFICES ASSUME IInv, [Next]_vars PROVE IInv'
  OBVIOUS
<1>. USE DEF IInv
<1>0. Char = Char' /\ Line = Line'
  OBVIOUS
<1>1. ASSUME NEW m \in Messages, Send(m) PROVE IInv'
  <2>1. unwritten' \in Line /\ sent' \in Seq(Messages)
    BY <1>1, EncodeIsLine, AppendProperties DEF Send, TypeOK
  <2>. QED BY <1>1, <2>1 DEF Send, reader, TypeOK, StreamInOrder, RoomForOneMore
<1>2. ASSUME NEW k \in 1 .. Len(unwritten), Write(k) PROVE IInv'
  <2>. DEFINE moved == SubSeq(unwritten, 1, k)
  <2>1. moved \in Line /\ From(unwritten, k + 1) \in Line
    BY Cut DEF TypeOK
  <2>. HIDE DEF moved
  <2>2. net' = net \o moved /\ written' = written \o moved /\ unwritten' = From(unwritten, k + 1)
    BY <1>2 DEF Write, moved
  <2>3. TypeOK'
    <3>1. net \o moved \in Line /\ written \o moved \in Line
      BY <2>1, Concat DEF TypeOK
    <3>. QED BY <1>2, <2>1, <2>2, <3>1 DEF Write, reader, TypeOK
  <2>4. StreamInOrder'
    <3>1. taken \o buf \in Line /\ (taken \o buf) \o rio \in Line
      BY Concat DEF TypeOK
    <3>2. written' = ((taken \o buf) \o rio) \o (net \o moved)
      <4>. DEFINE read == (taken \o buf) \o rio
      <4>0. read \in Line /\ net \in Line
        BY <3>1 DEF TypeOK
      <4>. HIDE DEF read
      <4>1. (read \o net) \o moved = read \o (net \o moved)
        BY <2>1, <4>0, Regroup
      <4>. QED BY <2>2, <4>1 DEF StreamInOrder, read
    <3>. QED BY <1>2, <2>2, <3>2 DEF Write, reader, StreamInOrder
  <2>. QED BY <1>2, <2>3, <2>4 DEF Write, reader, RoomForOneMore
<1>3. CASE Close
  <2>1. <<>> \in Line
    BY EmptySeq DEF Line
  <2>. QED BY <1>3, <2>1 DEF Close, reader, TypeOK, StreamInOrder, RoomForOneMore
<1>4. ASSUME NEW k \in 1 .. Len(net), Refill(k) PROVE IInv'
  <2>1. rio' \in Line /\ net' \in Line /\ rio' \o net' = net
    BY <1>4, Cut DEF Refill, TypeOK
  <2>2. StreamInOrder'
    <3>1. taken \o buf \in Line
      BY Concat DEF TypeOK
    <3>2. (taken \o buf) \o rio = taken \o buf
      BY <1>4, <3>1, ConcatEmptySeq DEF Refill, Line
    <3>3. written = (taken \o buf) \o (rio' \o net')
      BY <2>1, <3>2 DEF StreamInOrder
    <3>4. written = ((taken \o buf) \o rio') \o net'
      BY <2>1, <3>1, <3>3, Regroup
    <3>. QED BY <1>4, <3>4 DEF Refill, StreamInOrder
  <2>. QED BY <1>4, <2>1, <2>2 DEF Refill, writer, TypeOK, RoomForOneMore
<1>5. CASE TakeChar
  <2>. DEFINE c == Head(rio)
  <2>. DEFINE l == Append(buf, c)
  <2>1. c \in Char /\ rio' \in Line /\ <<c>> \o rio' = rio
    BY <1>5, CutOne DEF TakeChar, TypeOK
  <2>2. l \in Line /\ l = buf \o <<c>> /\ Len(l) = Len(buf) + 1 /\ Len(l) < MaxLen
    <3>1. l \in Line /\ l = buf \o <<c>> /\ Len(l) = Len(buf) + 1
      BY <2>1, AppendProperties, AppendIsConcat DEF TypeOK, Line
    <3>2. Len(buf) \in Nat /\ MaxLen \in Nat
      BY LenProperties, FramingAssumption DEF TypeOK, Line
    <3>. QED BY <3>1, <3>2 DEF RoomForOneMore
  <2>3. taken \o l \o rio' = taken \o buf \o rio
    <3>1. <<c>> \in Line
      BY <2>1 DEF Line
    <3>2. taken \o l = (taken \o buf) \o <<c>> /\ taken \o buf \in Line
      <4>1. taken \o (buf \o <<c>>) = (taken \o buf) \o <<c>>
        BY <3>1, Regroup DEF TypeOK
      <4>. QED BY <2>2, <4>1, Concat DEF TypeOK
    <3>3. ((taken \o buf) \o <<c>>) \o rio' = (taken \o buf) \o (<<c>> \o rio')
      BY <2>1, <3>1, <3>2, Regroup
    <3>. QED BY <2>1, <3>2, <3>3
  <2>. HIDE DEF c, l
  <2>4. CASE Return(l)
    <3>1. /\ buf' \in Line /\ lines' \in Seq(Line) /\ taken' \in Line
          /\ last' \in {"SUCCESS", "INVALID_MSG", "EOF_OR_ERROR"}
          /\ taken' \o buf' = taken \o l
          /\ RoomForOneMore'
      BY <2>2, <2>4, ReturnKeeps
    <3>2. UNCHANGED <<writer, net, written>>
      BY <1>5 DEF TakeChar
    <3>3. StreamInOrder'
      BY <2>3, <3>1, <3>2 DEF StreamInOrder
    <3>. QED BY <2>1, <3>1, <3>2, <3>3 DEF writer, TypeOK
  <2>5. CASE ~Return(l)
    <3>1. buf' = l /\ UNCHANGED <<lines, taken, last>> /\ Len(l) # MaxLen - 1
      BY <1>5, <2>5 DEF TakeChar, l, c
    <3>2. UNCHANGED <<writer, net, written>>
      BY <1>5 DEF TakeChar
    <3>3. StreamInOrder'
      BY <2>3, <3>1, <3>2 DEF StreamInOrder
    <3>4. Len(buf') < MaxLen - 1
      BY <2>2, <3>1, FramingAssumption, LenProperties DEF Line
    <3>. QED BY <2>1, <2>2, <3>1, <3>2, <3>3, <3>4 DEF writer, TypeOK, RoomForOneMore
  <2>. QED BY <2>4, <2>5
<1>6. CASE ReadEof
  <2>1. CASE buf # <<>>
    <3>1. Return(buf) /\ UNCHANGED <<writer, net, rio, written>>
      BY <1>6, <2>1 DEF ReadEof
    <3>2. buf \in Line /\ Len(buf) < MaxLen
      BY LenProperties, FramingAssumption DEF TypeOK, RoomForOneMore, Line
    <3>3. /\ buf' \in Line /\ lines' \in Seq(Line) /\ taken' \in Line
          /\ last' \in {"SUCCESS", "INVALID_MSG", "EOF_OR_ERROR"}
          /\ taken' \o buf' = taken \o buf
          /\ RoomForOneMore'
      BY <3>1, <3>2, ReturnKeeps
    <3>4. StreamInOrder'
      BY <3>1, <3>3 DEF StreamInOrder
    <3>. QED BY <3>1, <3>3, <3>4 DEF writer, TypeOK
  <2>2. CASE buf = <<>>
    BY <1>6, <2>2 DEF ReadEof, writer, TypeOK, StreamInOrder, RoomForOneMore
  <2>. QED BY <2>1, <2>2
<1>7. CASE ReadFails
  BY <1>7 DEF ReadFails, writer, TypeOK, StreamInOrder, RoomForOneMore
<1>8. CASE UNCHANGED vars
  BY <1>8 DEF vars, writer, reader, TypeOK, StreamInOrder, RoomForOneMore
<1>. QED BY <1>1, <1>2, <1>3, <1>4, <1>5, <1>6, <1>7, <1>8 DEF Next, Writing, Receiving

------------------------------------------------------------------------------
\* Every variable keeps its type, whatever is sent and however it is cut.
THEOREM TypeCorrect == SafeSpec => []TypeOK
<1>1. IInv => TypeOK
  BY DEF IInv
<1>. QED BY <1>1, InitInv, StepInv, PTL DEF SafeSpec

\* For messages of every length and pieces of every size, the bytes reach
\* receive in the order in which send wrote them, each once (csapp.c:781-836).
THEOREM BytesStayInOrder == SafeSpec => []StreamInOrder
<1>1. IInv => StreamInOrder
  BY DEF IInv
<1>. QED BY <1>1, InitInv, StepInv, PTL DEF SafeSpec

\* rio_readlineb never writes past the MAX_LEN characters of receive's buf, and
\* no line that receive parses is as long (connection.cpp:87-88).
THEOREM LineAlwaysFits == SafeSpec => []LineFitsBuffer
<1>1. IInv => LineFitsBuffer
  BY FramingAssumption, LenProperties DEF IInv, LineFitsBuffer, RoomForOneMore, TypeOK, Line
<1>. QED BY <1>1, InitInv, StepInv, PTL DEF SafeSpec


------------------------------------------------------------------------------
(* Induction and recursion on numbers *)

LEMMA LeastNat ==
  ASSUME NEW T, T \subseteq Nat, T # {}
  PROVE  \E n \in T : \A m \in T : n <= m
<1> DEFINE R == OpToRel(<, Nat)
<1>1. IsWellFoundedOn(R, Nat)
  BY NatLessThanWellFounded
<1>2. \A x, y \in Nat : <<x, y>> \in R <=> x < y
  BY DEF OpToRel
<1> HIDE DEF R
<1>3. PICK n \in T : \A m \in T : ~(<<m, n>> \in R)
  BY <1>1, WFMin
<1>4. n \in Nat /\ \A m \in T : m \in Nat
  BY <1>3
<1>5. \A m \in T : ~(m < n)
  BY <1>2, <1>3, <1>4
<1> QED
  BY <1>3, <1>4, <1>5

LEMMA SetInduction ==
  ASSUME NEW S, 0 \in S, \A n \in Nat : n \in S => n + 1 \in S
  PROVE  \A n \in Nat : n \in S
<1> SUFFICES ASSUME Nat \ S # {} PROVE FALSE
  OBVIOUS
<1>1. PICK n \in Nat \ S : \A m \in Nat \ S : n <= m
  BY LeastNat
<1>2. n # 0 /\ n - 1 \in Nat /\ (n - 1) + 1 = n /\ ~(n <= n - 1)
  BY <1>1
<1>3. n - 1 \in S
  BY <1>1, <1>2
<1> QED
  BY <1>1, <1>2, <1>3

\* f begins with z and goes on with the steps g up to n.
Recursion(f, V, z, g, n) ==
  /\ f \in [0 .. n -> V]
  /\ f[0] = z
  /\ \A k \in 1 .. n : f[k] = g[k - 1][f[k - 1]]

\* A recursive function exists, whatever it computes.
LEMMA RecursionExists ==
  ASSUME NEW V, NEW z \in V, NEW top \in Nat, NEW g \in [0 .. top - 1 -> [V -> V]]
  PROVE  \E f : Recursion(f, V, z, g, top)
<1> DEFINE S == {m \in Nat : m <= top => \E f : Recursion(f, V, z, g, m)}
<1>1. 0 \in S
  <2>1. Recursion([k \in 0 .. 0 |-> z], V, z, g, 0)
    BY DEF Recursion
  <2> QED
    BY <2>1
<1>2. ASSUME NEW m \in Nat, m \in S PROVE m + 1 \in S
  <2> SUFFICES ASSUME m + 1 <= top PROVE \E f : Recursion(f, V, z, g, m + 1)
    OBVIOUS
  <2>1. PICK f : Recursion(f, V, z, g, m)
    BY <1>2
  <2> DEFINE h == [k \in 0 .. m + 1 |-> IF k = m + 1 THEN g[m][f[m]] ELSE f[k]]
  <2>2. m \in 0 .. top - 1 /\ f[m] \in V
    BY <2>1 DEF Recursion
  <2>3. g[m][f[m]] \in V
    BY <2>2
  <2>4. \A k \in 0 .. m : f[k] \in V
    BY <2>1 DEF Recursion
  <2>5. h \in [0 .. m + 1 -> V]
    BY <2>3, <2>4
  <2>6. h[0] = z
    BY <2>1 DEF Recursion
  <2>7. ASSUME NEW k \in 1 .. m + 1 PROVE h[k] = g[k - 1][h[k - 1]]
    <3>1. k \in 0 .. m + 1 /\ k - 1 \in 0 .. m + 1 /\ k - 1 # m + 1
      OBVIOUS
    <3>2. h[k - 1] = f[k - 1]
      BY <3>1
    <3>3. CASE k = m + 1
      BY <3>1, <3>2, <3>3
    <3>4. CASE k # m + 1
      <4>1. k \in 1 .. m
        BY <3>4
      <4>2. f[k] = g[k - 1][f[k - 1]]
        BY <2>1, <4>1 DEF Recursion
      <4>3. h[k] = f[k]
        BY <3>1, <3>4
      <4> QED
        BY <3>2, <4>2, <4>3
    <3> QED
      BY <3>3, <3>4
  <2>8. Recursion(h, V, z, g, m + 1)
    BY <2>5, <2>6, <2>7 DEF Recursion
  <2> QED
    BY <2>8
<1>3. top \in S
  <2> HIDE DEF S
  <2> QED
    BY <1>1, <1>2, SetInduction
<1> QED
  BY <1>3

------------------------------------------------------------------------------
(* Beginnings of sequences *)

LEMMA BeginsIs ==
  ASSUME NEW T, NEW s \in Seq(T), NEW t \in Seq(T)
  PROVE  Begins(s, t) <=> Len(s) <= Len(t) /\ \A k \in 1 .. Len(s) : s[k] = t[k]
<1>1. Len(s) \in Nat /\ Len(t) \in Nat
  OBVIOUS
<1>2. ASSUME Len(s) <= Len(t)
      PROVE  SubSeq(t, 1, Len(s)) \in Seq(T) /\ Len(SubSeq(t, 1, Len(s))) = Len(s)
             /\ \A k \in 1 .. Len(s) : SubSeq(t, 1, Len(s))[k] = t[k]
  BY <1>1, <1>2
<1>3. ASSUME Len(s) <= Len(t), \A k \in 1 .. Len(s) : s[k] = t[k]
      PROVE  s = SubSeq(t, 1, Len(s))
  <2> DEFINE u == SubSeq(t, 1, Len(s))
  <2>1. u \in Seq(T) /\ Len(u) = Len(s) /\ \A k \in 1 .. Len(s) : u[k] = t[k]
    BY <1>2, <1>3
  <2> HIDE DEF u
  <2>2. u = s
    BY <1>3, <2>1
  <2> QED
    BY <2>2 DEF u
<1> QED
  BY <1>2, <1>3 DEF Begins

\* What is a beginning still is one of something longer.
LEMMA BeginsLonger ==
  ASSUME NEW T, NEW s \in Seq(T), NEW t \in Seq(T), NEW u \in Seq(T)
  PROVE  /\ Begins(s, s)
         /\ Begins(s, t) => Begins(s, t \o u)
         /\ Begins(s, s \o u)
<1>1. Len(s) \in Nat /\ Len(t) \in Nat /\ Len(u) \in Nat
  OBVIOUS
<1>2. /\ t \o u \in Seq(T) /\ Len(t \o u) = Len(t) + Len(u)
      /\ \A k \in 1 .. Len(t) : (t \o u)[k] = t[k]
  OBVIOUS
<1>3. /\ s \o u \in Seq(T) /\ Len(s \o u) = Len(s) + Len(u)
      /\ \A k \in 1 .. Len(s) : (s \o u)[k] = s[k]
  OBVIOUS
<1>4. Begins(s, s)
  BY BeginsIs, <1>1
<1>5. Begins(s, t) => Begins(s, t \o u)
  <2> SUFFICES ASSUME Begins(s, t) PROVE Begins(s, t \o u)
    OBVIOUS
  <2>1. Len(s) <= Len(t) /\ \A k \in 1 .. Len(s) : s[k] = t[k]
    BY BeginsIs
  <2>2. Len(s) <= Len(t \o u) /\ \A k \in 1 .. Len(s) : s[k] = (t \o u)[k]
    BY <1>1, <1>2, <2>1
  <2> QED
    BY <1>2, <2>2, BeginsIs
<1>6. Begins(s, s \o u)
  <2>1. Len(s) <= Len(s \o u) /\ \A k \in 1 .. Len(s) : s[k] = (s \o u)[k]
    BY <1>1, <1>3
  <2> QED
    BY <1>3, <2>1, BeginsIs
<1> QED
  BY <1>4, <1>5, <1>6

LEMMA BeginsTwice ==
  ASSUME NEW T, NEW s \in Seq(T), NEW t \in Seq(T), NEW u \in Seq(T),
         Begins(s, t), Begins(t, u)
  PROVE  Begins(s, u)
<1>1. Len(s) \in Nat /\ Len(t) \in Nat /\ Len(u) \in Nat
  OBVIOUS
<1>2. Len(s) <= Len(t) /\ \A k \in 1 .. Len(s) : s[k] = t[k]
  BY BeginsIs
<1>3. Len(t) <= Len(u) /\ \A k \in 1 .. Len(t) : t[k] = u[k]
  BY BeginsIs
<1>4. Len(s) <= Len(u) /\ \A k \in 1 .. Len(s) : s[k] = u[k]
  BY <1>1, <1>2, <1>3
<1> QED
  BY <1>4, BeginsIs

\* A part of what follows, too.
LEMMA BeginsWithPart ==
  ASSUME NEW T, NEW s \in Seq(T), NEW t \in Seq(T), NEW j \in 0 .. Len(t)
  PROVE  SubSeq(t, 1, j) \in Seq(T) /\ Begins(s \o SubSeq(t, 1, j), s \o t)
<1>1. Len(s) \in Nat /\ Len(t) \in Nat
  OBVIOUS
<1> DEFINE u == SubSeq(t, 1, j)
<1>2. u \in Seq(T) /\ Len(u) = j /\ \A k \in 1 .. j : u[k] = t[k]
  BY <1>1
<1> HIDE DEF u
<1>3. s \o u \in Seq(T) /\ Len(s \o u) = Len(s) + j /\ s \o t \in Seq(T)
      /\ Len(s \o t) = Len(s) + Len(t)
  BY <1>2
<1>4. ASSUME NEW k \in 1 .. Len(s \o u) PROVE (s \o u)[k] = (s \o t)[k]
  <2>0. k \in Nat /\ k >= 1 /\ k <= Len(s) + j
    BY <1>1, <1>3
  <2>1. CASE k <= Len(s)
    BY <1>1, <1>2, <2>0, <2>1
  <2>2. CASE k > Len(s)
    <3>1. k - Len(s) \in 1 .. j
      BY <1>1, <2>0, <2>2
    <3>2. (s \o u)[k] = u[k - Len(s)] /\ (s \o t)[k] = t[k - Len(s)]
      BY <1>1, <1>2, <2>0, <2>2, <3>1
    <3> QED
      BY <1>2, <3>1, <3>2
  <2> QED
    BY <1>1, <2>0, <2>1, <2>2
<1>5. Begins(s \o u, s \o t)
  <2>1. Len(s \o u) <= Len(s \o t)
    BY <1>1, <1>3
  <2> QED
    BY <1>3, <1>4, <2>1, BeginsIs
<1> QED
  BY <1>2, <1>5 DEF u

------------------------------------------------------------------------------
(* Sequences joined to one *)

IsUpTo(T, f, s, u) ==
  /\ u \in [0 .. Len(s) -> Seq(T)]
  /\ u[0] = <<>>
  /\ \A n \in 1 .. Len(s) : u[n] = u[n - 1] \o f[s[n]]
  /\ Joined(f, s) = u[Len(s)]

LEMMA JoinedIs ==
  ASSUME NEW M, NEW T, NEW f \in [M -> Seq(T)], NEW s \in Seq(M)
  PROVE  \E u : IsUpTo(T, f, s, u)
<1> DEFINE V == Seq(T)
           g == [n \in 0 .. Len(s) - 1 |-> [v \in V |-> v \o f[s[n + 1]]]]
<1>1. PICK top \in Nat : top = Len(s)
  OBVIOUS
<1>2. \A n \in 1 .. top : f[s[n]] \in Seq(T)
  BY <1>1
<1>3. g \in [0 .. top - 1 -> [V -> V]]
  <2>1. ASSUME NEW n \in 0 .. top - 1, NEW v \in V PROVE v \o f[s[n + 1]] \in V
    <3>1. n + 1 \in 1 .. top
      BY <1>1
    <3>2. f[s[n + 1]] \in Seq(T)
      BY <1>2, <3>1
    <3> QED
      BY <3>2
  <2> HIDE DEF V
  <2> QED
    BY <1>1, <2>1
<1>4. <<>> \in V
  OBVIOUS
<1>5. PICK u : Recursion(u, V, <<>>, g, top)
  <2> HIDE DEF V, g
  <2> QED
    BY <1>1, <1>3, <1>4, RecursionExists
<1> HIDE DEF V
<1>6. u \in [0 .. top -> V] /\ u[0] = <<>>
  BY <1>5 DEF Recursion
<1>7. ASSUME NEW n \in 1 .. top PROVE u[n] = u[n - 1] \o f[s[n]]
  <2>1. n - 1 \in 0 .. top - 1 /\ n - 1 \in 0 .. top /\ (n - 1) + 1 = n
    BY <1>1
  <2>2. u[n] = g[n - 1][u[n - 1]] /\ u[n - 1] \in V
    BY <1>5, <2>1 DEF Recursion
  <2> QED
    BY <1>1, <2>1, <2>2
<1> HIDE DEF g
<1>8. u = [n \in 0 .. Len(s) |-> IF n = 0 THEN <<>> ELSE u[n - 1] \o f[s[n]]]
  <2>1. u = [n \in 0 .. top |-> u[n]]
    BY <1>6
  <2>2. \A n \in 0 .. top : u[n] = IF n = 0 THEN <<>> ELSE u[n - 1] \o f[s[n]]
    <3>1. \A n \in 0 .. top : n = 0 \/ n \in 1 .. top
      OBVIOUS
    <3> QED
      BY <1>6, <1>7, <3>1, Zenon
  <2> QED
    BY <1>1, <2>1, <2>2, Zenon
<1> DEFINE w == CHOOSE h : h = [n \in 0 .. Len(s) |->
                                  IF n = 0 THEN <<>> ELSE h[n - 1] \o f[s[n]]]
<1>9. w = [n \in 0 .. Len(s) |-> IF n = 0 THEN <<>> ELSE w[n - 1] \o f[s[n]]]
  BY <1>8, Zenon
<1>10. Joined(f, s) = w[Len(s)]
  BY DEF Joined
<1> HIDE DEF w
<1>11. w[0] = <<>> /\ \A n \in 1 .. top : w[n] = w[n - 1] \o f[s[n]]
  <2>1. 0 \in 0 .. top /\ \A n \in 1 .. top : n \in 0 .. top /\ n # 0
    BY <1>1
  <2> QED
    BY <1>1, <1>9, <2>1
<1> DEFINE S == {n \in Nat : n <= top => w[n] \in V}
<1>12. 0 \in S
  BY <1>4, <1>11
<1>13. ASSUME NEW n \in Nat, n \in S PROVE n + 1 \in S
  <2> SUFFICES ASSUME n + 1 <= top PROVE w[n + 1] \in V
    OBVIOUS
  <2>1. n <= top /\ n + 1 \in 1 .. top /\ (n + 1) - 1 = n
    BY <1>1
  <2>2. w[n] \in V /\ w[n + 1] = w[n] \o f[s[n + 1]]
    BY <1>11, <1>13, <2>1
  <2>3. f[s[n + 1]] \in Seq(T)
    BY <1>2, <2>1
  <2> QED
    BY <2>2, <2>3 DEF V
<1>14. \A n \in Nat : n \in S
  <2> HIDE DEF S
  <2> QED
    BY <1>12, <1>13, SetInduction
<1>15. w \in [0 .. top -> Seq(T)]
  <2>1. \A n \in 0 .. top : w[n] \in V
    BY <1>1, <1>14
  <2>2. \E h : w = [n \in 0 .. top |-> h[n]]
    <3>1. w = [n \in 0 .. top |-> [k \in 0 .. top |->
                 IF k = 0 THEN <<>> ELSE w[k - 1] \o f[s[k]]][n]]
      BY <1>1, <1>9
    <3> QED
      BY <3>1
  <2> QED
    BY <2>1, <2>2 DEF V
<1>16. IsUpTo(T, f, s, w)
  BY <1>1, <1>10, <1>11, <1>15 DEF IsUpTo
<1> QED
  BY <1>16

LEMMA JoinedTypes ==
  ASSUME NEW M, NEW T, NEW f \in [M -> Seq(T)], NEW s \in Seq(M)
  PROVE  Joined(f, s) \in Seq(T)
<1>1. PICK u : IsUpTo(T, f, s, u)
  BY JoinedIs
<1>2. Len(s) \in 0 .. Len(s)
  OBVIOUS
<1> QED
  BY <1>1, <1>2 DEF IsUpTo

LEMMA JoinedEmpty ==
  ASSUME NEW M, NEW T, NEW f \in [M -> Seq(T)]
  PROVE  Joined(f, <<>>) = <<>>
<1>1. PICK s \in Seq(M) : s = <<>>
  <2>1. <<>> \in Seq(M)
    OBVIOUS
  <2> QED
    BY <2>1
<1>2. PICK u : IsUpTo(T, f, s, u)
  BY JoinedIs
<1>3. Len(s) \in 0 .. Len(s) /\ Len(s) = 0
  BY <1>1
<1> QED
  BY <1>1, <1>2, <1>3 DEF IsUpTo

\* What is joined before does not depend on what comes later.
LEMMA JoinedAppend ==
  ASSUME NEW M, NEW T, NEW f \in [M -> Seq(T)], NEW s \in Seq(M), NEW m \in M
  PROVE  Joined(f, Append(s, m)) = Joined(f, s) \o f[m]
<1>1. PICK top \in Nat : top = Len(s)
  OBVIOUS
<1> DEFINE t == Append(s, m)
<1>2. /\ t \in Seq(M) /\ Len(t) = top + 1 /\ t[top + 1] = m
      /\ \A n \in 1 .. top : t[n] = s[n]
  BY <1>1
<1> HIDE DEF t
<1>3. PICK u : IsUpTo(T, f, s, u)
  BY JoinedIs
<1>4. PICK w : IsUpTo(T, f, t, w)
  BY <1>2, JoinedIs
<1>5. u[0] = w[0] /\ \A n \in 1 .. top : u[n] = u[n - 1] \o f[s[n]]
  BY <1>1, <1>3, <1>4 DEF IsUpTo
<1>6. \A n \in 1 .. top + 1 : w[n] = w[n - 1] \o f[t[n]]
  BY <1>2, <1>4 DEF IsUpTo
<1> DEFINE S == {n \in Nat : n <= top => u[n] = w[n]}
<1>7. 0 \in S
  BY <1>5
<1>8. ASSUME NEW n \in Nat, n \in S PROVE n + 1 \in S
  <2> SUFFICES ASSUME n + 1 <= top PROVE u[n + 1] = w[n + 1]
    OBVIOUS
  <2>1. n <= top /\ n + 1 \in 1 .. top /\ n + 1 \in 1 .. top + 1 /\ (n + 1) - 1 = n
    OBVIOUS
  <2>2. u[n] = w[n]
    BY <1>8, <2>1
  <2>3. u[n + 1] = u[n] \o f[s[n + 1]] /\ w[n + 1] = w[n] \o f[t[n + 1]]
    BY <1>5, <1>6, <2>1
  <2> QED
    BY <1>2, <2>1, <2>2, <2>3
<1>9. top \in S
  <2> HIDE DEF S
  <2> QED
    BY <1>7, <1>8, SetInduction
<1>10. w[top + 1] = w[top] \o f[m]
  <2>1. top + 1 \in 1 .. top + 1 /\ (top + 1) - 1 = top
    OBVIOUS
  <2> QED
    BY <1>2, <1>6, <2>1
<1>11. Joined(f, s) = u[top] /\ Joined(f, t) = w[top + 1]
  BY <1>1, <1>2, <1>3, <1>4 DEF IsUpTo
<1>12. u[top] = w[top]
  BY <1>9
<1>13. Joined(f, t) = Joined(f, s) \o f[m]
  BY <1>10, <1>11, <1>12, Zenon
<1> QED
  BY <1>13 DEF t

\* One element further in s.
OneMore(M, f, s, n) ==
  /\ SubSeq(s, 1, n) \in Seq(M) /\ s[n + 1] \in M
  /\ Joined(f, SubSeq(s, 1, n + 1)) = Joined(f, SubSeq(s, 1, n)) \o f[s[n + 1]]

LEMMA JoinedStep ==
  ASSUME NEW M, NEW T, NEW f \in [M -> Seq(T)], NEW s \in Seq(M),
         NEW n \in Nat, n < Len(s)
  PROVE  OneMore(M, f, s, n)
<1>1. SubSeq(s, 1, n) \in Seq(M) /\ s[n + 1] \in M
  OBVIOUS
<1>2. SubSeq(s, 1, n + 1) = Append(SubSeq(s, 1, n), s[n + 1])
  OBVIOUS
<1>3. Joined(f, SubSeq(s, 1, n + 1)) = Joined(f, SubSeq(s, 1, n)) \o f[s[n + 1]]
  BY <1>1, <1>2, JoinedAppend
<1> QED
  BY <1>1, <1>3 DEF OneMore

\* What is joined of a part is the beginning of what is joined of the whole.
LEMMA JoinedBegins ==
  ASSUME NEW M, NEW T, NEW f \in [M -> Seq(T)], NEW s \in Seq(M),
         NEW n \in 0 .. Len(s)
  PROVE  /\ SubSeq(s, 1, n) \in Seq(M)
         /\ Joined(f, SubSeq(s, 1, n)) \in Seq(T)
         /\ Begins(Joined(f, SubSeq(s, 1, n)), Joined(f, s))
<1> DEFINE J(k) == Joined(f, SubSeq(s, 1, k))
<1>1. PICK top \in Nat : top = Len(s)
  OBVIOUS
<1>2. \A k \in 0 .. top : SubSeq(s, 1, k) \in Seq(M)
  BY <1>1
<1>3. \A k \in 0 .. top : J(k) \in Seq(T)
  BY <1>2, JoinedTypes
<1>4. \A k \in 0 .. top - 1 : J(k + 1) = J(k) \o f[s[k + 1]] /\ f[s[k + 1]] \in Seq(T)
  <2> SUFFICES ASSUME NEW k \in 0 .. top - 1
               PROVE  J(k + 1) = J(k) \o f[s[k + 1]] /\ f[s[k + 1]] \in Seq(T)
    OBVIOUS
  <2>1. k \in Nat /\ k < Len(s)
    BY <1>1
  <2>2. OneMore(M, f, s, k)
    BY <2>1, JoinedStep
  <2> QED
    BY <2>2 DEF OneMore
<1>5. SubSeq(s, 1, top) = s
  BY <1>1
<1> HIDE DEF J
<1> DEFINE S == {k \in Nat : n + k <= top => Begins(J(n), J(n + k))}
<1>6. 0 \in S
  <2>1. n + 0 = n /\ n \in 0 .. top
    BY <1>1
  <2> QED
    BY <1>3, <2>1, BeginsLonger
<1>7. ASSUME NEW k \in Nat, k \in S PROVE k + 1 \in S
  <2> SUFFICES ASSUME n + (k + 1) <= top PROVE Begins(J(n), J(n + (k + 1)))
    OBVIOUS
  <2>1. n + k <= top /\ n + k \in 0 .. top - 1 /\ n + k \in 0 .. top /\ n \in 0 .. top
        /\ (n + k) + 1 = n + (k + 1)
    BY <1>1
  <2>2. Begins(J(n), J(n + k))
    BY <1>7, <2>1
  <2>3. J(n + (k + 1)) = J(n + k) \o f[s[(n + k) + 1]] /\ f[s[(n + k) + 1]] \in Seq(T)
    BY <1>4, <2>1
  <2> QED
    BY <1>3, <2>1, <2>2, <2>3, BeginsLonger
<1>8. top - n \in S
  <2> HIDE DEF S
  <2>1. top - n \in Nat
    BY <1>1
  <2> QED
    BY <1>6, <1>7, <2>1, SetInduction
<1>9. n + (top - n) = top /\ n \in 0 .. top
  BY <1>1
<1>10. Begins(J(n), J(top))
  BY <1>8, <1>9
<1> QED
  BY <1>2, <1>3, <1>5, <1>9, <1>10 DEF J

------------------------------------------------------------------------------
(* Messages, their bytes and their lines *)

Size == MaxLen - 1

\* Where the line after the first j of a message begins.
Start(j) == j * Size

LEMMA Starts ==
  /\ Size \in Nat /\ Size > 0
  /\ Start(0) = 0
  /\ \A j \in Nat : Start(j) \in Nat /\ Start(j + 1) = Start(j) + Size
<1>1. Size \in Nat /\ Size > 0
  BY FramingAssumption DEF Size
<1> HIDE DEF Size
<1>2. 0 * Size = 0 /\ \A j \in Nat : j * Size \in Nat /\ (j + 1) * Size = j * Size + Size
  BY <1>1
<1> QED
  BY <1>1, <1>2 DEF Start

LEMMA StartsGrow ==
  ASSUME NEW i \in Nat, NEW j \in Nat, i <= j
  PROVE  Start(i) <= Start(j)
<1>1. PICK d \in Nat : j = i + d
  <2>1. j - i \in Nat /\ j = i + (j - i)
    OBVIOUS
  <2> QED
    BY <2>1
<1>2. Size \in Nat
  BY Starts
<1> HIDE DEF Size
<1>3. j * Size = i * Size + d * Size
  BY <1>1, <1>2
<1>4. i * Size \in Nat /\ d * Size \in Nat
  BY <1>2
<1> QED
  BY <1>3, <1>4 DEF Start

\* The lines of a text are as many as are needed, and the last is not empty.
LEMMA CountIs ==
  ASSUME NEW len \in Nat, len > 0
  PROVE  \E c \in Nat : /\ c = (len + Size - 1) \div Size
                        /\ \A j \in Nat : Start(j) < len <=> j < c
<1>0. Size \in Nat /\ Size > 0 /\ \A j \in Nat : Start(j) \in Nat /\ Start(j + 1) = Start(j) + Size
  BY Starts
<1> DEFINE a == len + Size - 1
           c == a \div Size
           r == a % Size
<1>1. a \in Nat
  BY <1>0
<1> HIDE DEF Size, a
<1>2. c \in Nat /\ r \in 0 .. Size - 1 /\ a = c * Size + r
  BY <1>0, <1>1
<1>3. c = (len + Size - 1) \div Size
  BY DEF a
<1> HIDE DEF c, r
<1>4. len + Size - 1 = Start(c) + r
  BY <1>2 DEF a, Start
<1> HIDE DEF Start
<1>5. len <= Start(c)
  BY <1>0, <1>2, <1>4
<1>6. ASSUME NEW j \in Nat PROVE Start(j) < len <=> j < c
  <2>1. CASE j < c
    <3>1. j + 1 <= c /\ j + 1 \in Nat
      BY <1>2, <2>1
    <3>2. Start(j + 1) <= Start(c)
      BY <1>2, <3>1, StartsGrow
    <3>3. Start(j) < len
      BY <1>0, <1>2, <1>4, <3>2
    <3> QED
      BY <2>1, <3>3
  <2>2. CASE ~(j < c)
    <3>1. Start(c) <= Start(j)
      BY <1>2, <2>2, StartsGrow
    <3>2. ~(Start(j) < len)
      BY <1>0, <1>2, <1>5, <3>1
    <3> QED
      BY <2>2, <3>2
  <2> QED
    BY <2>1, <2>2
<1> QED
  BY <1>2, <1>3, <1>6

\* A message has one newline, and that is its end.
EndsOnce(e) ==
  /\ e \in Line /\ Len(e) \in Nat /\ Len(e) > 0
  /\ e[Len(e)] = Newline
  /\ \A i \in 1 .. Len(e) - 1 : e[i] # Newline

LEMMA EncodeEndsOnce ==
  ASSUME NEW m \in Messages
  PROVE  EndsOnce(Encode(m))
<1> DEFINE t == m.tag d == m.data
<1>1. t \in Tags /\ d \in Seq(Char \ {Newline}) /\ t # Newline /\ Colon # Newline
  BY FramingAssumption, NewlineAssumption
<1> HIDE DEF t, d
<1>2. PICK n \in Nat : n = Len(d)
  BY <1>1
<1>3. \A i \in 1 .. n : d[i] # Newline /\ d[i] \in Char
  BY <1>1, <1>2
<1>4. Encode(m) = (<<t, Colon>> \o d) \o <<Newline>>
  BY DEF Encode, t, d
<1>5. Encode(m) \in Line
  BY EncodeIsLine
<1>6. t \in Char /\ Colon \in Char /\ Newline \in Char
  BY <1>1 DEF Char
<1> HIDE DEF Char
<1>7. <<t, Colon>> \in Seq(Char) /\ d \in Seq(Char) /\ <<Newline>> \in Seq(Char)
  <2>1. d \in Seq(Char)
    BY <1>1, <1>3
  <2> QED
    BY <1>6, <2>1
<1> DEFINE u == <<t, Colon>> \o d
<1>8. u \in Seq(Char) /\ Len(u) = n + 2 /\ u[1] = t /\ u[2] = Colon
      /\ \A i \in 3 .. n + 2 : u[i] = d[i - 2]
  BY <1>2, <1>7
<1>9. \A i \in 1 .. n + 2 : u[i] # Newline
  <2> SUFFICES ASSUME NEW i \in 1 .. n + 2 PROVE u[i] # Newline
    OBVIOUS
  <2>1. i = 1 \/ i = 2 \/ (i \in 3 .. n + 2 /\ i - 2 \in 1 .. n)
    OBVIOUS
  <2> HIDE DEF u
  <2> QED
    BY <1>1, <1>3, <1>8, <2>1
<1> HIDE DEF u
<1>10. Len(u \o <<Newline>>) = n + 3 /\ (u \o <<Newline>>)[n + 3] = Newline
       /\ \A i \in 1 .. n + 2 : (u \o <<Newline>>)[i] = u[i]
  BY <1>6, <1>8
<1>11. Encode(m) = u \o <<Newline>>
  BY <1>4 DEF u
<1>12. Len(Encode(m)) - 1 = n + 2
  BY <1>10, <1>11
<1> QED
  BY <1>5, <1>9, <1>10, <1>11, <1>12 DEF EndsOnce

\* The lines of p are those into which the text e is cut.
Cutting(p, e) ==
  /\ p \in Seq(Line)
  /\ \A j \in Nat : Start(j) < Len(e) =>
       /\ j + 1 \in 1 .. Len(p)
       /\ Start(j + 1) < Len(e) => p[j + 1] = SubSeq(e, Start(j) + 1, Start(j + 1))
       /\ Start(j + 1) >= Len(e) => /\ Len(p) = j + 1
                                    /\ p[j + 1] = SubSeq(e, Start(j) + 1, Len(e))

LEMMA PiecesAreCut ==
  ASSUME NEW m \in Messages
  PROVE  Cutting(Pieces(m), Encode(m))
<1> DEFINE e == Encode(m)
           p == Pieces(m)
           end(k) == IF k < Len(e) THEN k ELSE Len(e)
<1>1. e \in Line /\ Len(e) \in Nat /\ Len(e) > 0
  BY EncodeEndsOnce DEF EndsOnce
<1>2. Size \in Nat /\ Size > 0 /\ \A j \in Nat : Start(j) \in Nat /\ Start(j + 1) = Start(j) + Size
  BY Starts
<1>3. PICK c \in Nat : /\ c = (Len(e) + Size - 1) \div Size
                       /\ \A j \in Nat : Start(j) < Len(e) <=> j < c
  <2> HIDE DEF e, Size, Start
  <2> QED
    BY <1>1, CountIs
<1>4. p = [i \in 1 .. c |-> SubSeq(e, Start(i - 1) + 1, end(Start(i)))]
  BY <1>3 DEF Pieces, Size, Start
<1> HIDE DEF e, p, Size, Start
<1>5. \A j \in Nat : j < c => /\ j + 1 \in 1 .. c
                              /\ p[j + 1] = SubSeq(e, Start(j) + 1, end(Start(j + 1)))
  <2> SUFFICES ASSUME NEW j \in Nat, j < c
               PROVE  /\ j + 1 \in 1 .. c
                      /\ p[j + 1] = SubSeq(e, Start(j) + 1, end(Start(j + 1)))
    OBVIOUS
  <2>1. j + 1 \in 1 .. c /\ (j + 1) - 1 = j
    OBVIOUS
  <2> HIDE DEF end
  <2> QED
    BY <1>4, <2>1
<1>6. p \in Seq(Line) /\ Len(p) = c
  <2>1. ASSUME NEW i \in 1 .. c PROVE SubSeq(e, Start(i - 1) + 1, end(Start(i))) \in Line
    <3>1. Start(i - 1) \in Nat /\ Start(i) \in Nat
      BY <1>2
    <3>2. Start(i - 1) + 1 \in 1 .. Len(e) + 1 /\ end(Start(i)) \in 0 .. Len(e)
      <4>1. i - 1 \in Nat /\ i - 1 < c
        OBVIOUS
      <4> QED
        BY <1>1, <1>3, <3>1, <4>1
    <3> HIDE DEF end
    <3> QED
      BY <1>1, <3>2, SubSeqProperties DEF Line
  <2> DEFINE part(i) == SubSeq(e, Start(i - 1) + 1, end(Start(i)))
  <2>2. \A i \in 1 .. c : part(i) \in Line
    BY <2>1
  <2>3. p = [i \in 1 .. c |-> part(i)]
    BY <1>4
  <2> HIDE DEF part
  <2>4. p \in [1 .. c -> Line]
    BY <2>2, <2>3
  <2> QED
    BY <2>4
<1>7. ASSUME NEW j \in Nat, Start(j) < Len(e)
      PROVE  /\ j + 1 \in 1 .. Len(p)
             /\ Start(j + 1) < Len(e) => p[j + 1] = SubSeq(e, Start(j) + 1, Start(j + 1))
             /\ Start(j + 1) >= Len(e) => /\ Len(p) = j + 1
                                          /\ p[j + 1] = SubSeq(e, Start(j) + 1, Len(e))
  <2>1. j < c /\ j + 1 \in Nat
    BY <1>3, <1>7
  <2>2. j + 1 \in 1 .. c /\ p[j + 1] = SubSeq(e, Start(j) + 1, end(Start(j + 1)))
    BY <1>5, <2>1
  <2>3. Start(j + 1) < Len(e) => end(Start(j + 1)) = Start(j + 1)
    OBVIOUS
  <2>4. Start(j + 1) >= Len(e) => end(Start(j + 1)) = Len(e) /\ c = j + 1
    <3> SUFFICES ASSUME Start(j + 1) >= Len(e) PROVE end(Start(j + 1)) = Len(e) /\ c = j + 1
      OBVIOUS
    <3>1. Start(j + 1) \in Nat /\ ~(Start(j + 1) < Len(e))
      BY <1>1, <1>2, <2>1
    <3>2. ~(j + 1 < c)
      BY <1>3, <2>1, <3>1
    <3> QED
      BY <2>1, <3>1, <3>2
  <2> HIDE DEF end
  <2> QED
    BY <1>6, <2>2, <2>3, <2>4
<1> QED
  BY <1>6, <1>7 DEF Cutting, e, p

------------------------------------------------------------------------------
(* Where receive is in what has been sent *)

Encoded == [m \in Messages |-> Encode(m)]
CutUp == [m \in Messages |-> Pieces(m)]

\* The bytes and the lines of the first n of the messages s.
Bytes(s, n) == Joined(Encoded, SubSeq(s, 1, n))
Parts(s, n) == Joined(CutUp, SubSeq(s, 1, n))

\* A place in s: behind n messages and j lines of the next one.
Place(s, n, j) ==
  /\ n \in 0 .. Len(s) /\ j \in Nat
  /\ n = Len(s) => j = 0
  /\ n < Len(s) => Start(j) < Len(Encode(s[n + 1]))

BytesAt(s, n, j) ==
  IF n = Len(s) THEN Bytes(s, n)
  ELSE Bytes(s, n) \o SubSeq(Encode(s[n + 1]), 1, Start(j))

LinesAt(s, n, j) ==
  IF n = Len(s) THEN Parts(s, n)
  ELSE Parts(s, n) \o SubSeq(Pieces(s[n + 1]), 1, j)

\* b is the beginning of the line there, and not the whole message's rest.
Begun(s, n, j, b) ==
  IF n = Len(s) THEN b = <<>>
  ELSE LET e == Encode(s[n + 1])
       IN  Start(j) + Len(b) < Len(e) /\ b = SubSeq(e, Start(j) + 1, Start(j) + Len(b))

\* With ls returned, t taken and b read, receive is at that place.
At(s, ls, t, b, n, j) ==
  /\ Place(s, n, j)
  /\ ls = LinesAt(s, n, j) /\ t = BytesAt(s, n, j) /\ Begun(s, n, j, b)

\* The last of the lines ls is a part b of the line there, broken off.
BrokenAt(s, ls, b, n, j) ==
  /\ Place(s, n, j) /\ n < Len(s)
  /\ Begun(s, n, j, b) /\ b \in Line /\ b # <<>> /\ Len(b) < Size
  /\ ls = LinesAt(s, n, j) \o <<b>>

LEMMA Functions ==
  Encoded \in [Messages -> Seq(Char)] /\ CutUp \in [Messages -> Seq(Line)]
<1>1. \A m \in Messages : Encode(m) \in Seq(Char)
  BY EncodeIsLine DEF Line
<1>2. \A m \in Messages : Pieces(m) \in Seq(Line)
  BY PiecesAreCut DEF Cutting
<1> QED
  BY <1>1, <1>2 DEF Encoded, CutUp

\* No message, nothing encoded and nothing cut up.
LEMMA JoinedNothing == Joined(Encoded, <<>>) = <<>> /\ Joined(CutUp, <<>>) = <<>>
<1>1. Encoded \in [Messages -> Seq(Char)] /\ CutUp \in [Messages -> Seq(Line)]
  BY Functions
<1>2. Joined(Encoded, <<>>) = <<>>
  BY <1>1, JoinedEmpty
<1>3. Joined(CutUp, <<>>) = <<>>
  BY <1>1, JoinedEmpty
<1> QED
  BY <1>2, <1>3

\* What is known of the first n messages of s.
Whole(s, n) ==
  /\ Bytes(s, n) \in Seq(Char) /\ Parts(s, n) \in Seq(Line)
  /\ Begins(Bytes(s, n), Joined(Encoded, s)) /\ Begins(Parts(s, n), Joined(CutUp, s))

LEMMA WholeMessages ==
  ASSUME NEW s \in Seq(Messages), NEW n \in 0 .. Len(s)
  PROVE  Whole(s, n)
<1>1. /\ Bytes(s, n) \in Seq(Char)
      /\ Begins(Bytes(s, n), Joined(Encoded, s))
  BY Functions, JoinedBegins DEF Bytes
<1>2. /\ Parts(s, n) \in Seq(Line)
      /\ Begins(Parts(s, n), Joined(CutUp, s))
  BY Functions, JoinedBegins DEF Parts
<1> QED
  BY <1>1, <1>2 DEF Whole

LEMMA AllMessages ==
  ASSUME NEW s \in Seq(Messages)
  PROVE  /\ Bytes(s, Len(s)) = Joined(Encoded, s) /\ Parts(s, Len(s)) = Joined(CutUp, s)
         /\ Joined(Encoded, s) \in Seq(Char) /\ Joined(CutUp, s) \in Seq(Line)
<1>1. SubSeq(s, 1, Len(s)) = s
  OBVIOUS
<1>2. Joined(Encoded, s) \in Seq(Char) /\ Joined(CutUp, s) \in Seq(Line)
  BY Functions, JoinedTypes
<1> QED
  BY <1>1, <1>2 DEF Bytes, Parts

\* What the next of the messages adds.
Adds(s, n, e, p) ==
  /\ n + 1 \in 0 .. Len(s)
  /\ e \in Seq(Char) /\ EndsOnce(e) /\ Cutting(p, e)
  /\ Bytes(s, n) \in Seq(Char) /\ Parts(s, n) \in Seq(Line)
  /\ Bytes(s, n + 1) = Bytes(s, n) \o e
  /\ Parts(s, n + 1) = Parts(s, n) \o p

LEMMA NextMessage ==
  ASSUME NEW s \in Seq(Messages), NEW n \in 0 .. Len(s), n < Len(s)
  PROVE  Adds(s, n, Encode(s[n + 1]), Pieces(s[n + 1]))
<1>1. n \in Nat /\ n + 1 \in 0 .. Len(s) /\ s[n + 1] \in Messages
  OBVIOUS
<1>2. OneMore(Messages, Encoded, s, n) /\ OneMore(Messages, CutUp, s, n)
  BY <1>1, Functions, JoinedStep
<1>3. Encoded[s[n + 1]] = Encode(s[n + 1]) /\ CutUp[s[n + 1]] = Pieces(s[n + 1])
  BY <1>1 DEF Encoded, CutUp
<1>4. Bytes(s, n + 1) = Bytes(s, n) \o Encode(s[n + 1])
  BY <1>2, <1>3 DEF OneMore, Bytes
<1>5. Parts(s, n + 1) = Parts(s, n) \o Pieces(s[n + 1])
  BY <1>2, <1>3 DEF OneMore, Parts
<1>6. EndsOnce(Encode(s[n + 1])) /\ Cutting(Pieces(s[n + 1]), Encode(s[n + 1]))
  BY <1>1, EncodeEndsOnce, PiecesAreCut
<1>7. Encode(s[n + 1]) \in Seq(Char)
  BY <1>6 DEF EndsOnce, Line
<1>8. Whole(s, n)
  BY WholeMessages
<1> QED
  BY <1>1, <1>4, <1>5, <1>6, <1>7, <1>8 DEF Adds, Whole

\* At the start of a message.
LEMMA AtStart ==
  ASSUME NEW s \in Seq(Messages), NEW n \in 0 .. Len(s)
  PROVE  At(s, Parts(s, n), Bytes(s, n), <<>>, n, 0)
<1>1. Start(0) = 0
  BY Starts
<1>2. CASE n = Len(s)
  BY <1>2 DEF At, Place, LinesAt, BytesAt, Begun
<1>3. CASE n # Len(s)
  <2>1. n < Len(s)
    BY <1>3
  <2> DEFINE e == Encode(s[n + 1]) p == Pieces(s[n + 1])
  <2>2. Adds(s, n, e, p)
    BY <2>1, NextMessage
  <2> HIDE DEF e, p
  <2>3. SubSeq(e, 1, 0) = <<>> /\ SubSeq(p, 1, 0) = <<>> /\ Len(e) \in Nat /\ Len(e) > 0
    BY <2>2 DEF Adds, EndsOnce, Cutting
  <2>4. Bytes(s, n) \o <<>> = Bytes(s, n) /\ Parts(s, n) \o <<>> = Parts(s, n)
    BY <2>2 DEF Adds
  <2>5. Place(s, n, 0) /\ Parts(s, n) = LinesAt(s, n, 0) /\ Bytes(s, n) = BytesAt(s, n, 0)
    BY <1>1, <1>3, <2>1, <2>3, <2>4 DEF Place, LinesAt, BytesAt, e, p
  <2>6. Begun(s, n, 0, <<>>)
    <3>1. Len(<<>>) = 0 /\ Start(0) + Len(<<>>) = 0
      BY <1>1
    <3>2. <<>> = SubSeq(e, Start(0) + 1, Start(0) + Len(<<>>))
      BY <2>2, <3>1, <1>1 DEF Adds
    <3> QED
      BY <1>3, <2>3, <3>1, <3>2 DEF Begun, e
  <2> QED
    BY <2>5, <2>6 DEF At
<1> QED
  BY <1>2, <1>3

\* A message more that is sent changes nothing about the place.
LEMMA AtSend ==
  ASSUME NEW s \in Seq(Messages), NEW m \in Messages, NEW ls, NEW t, NEW b,
         NEW n, NEW j, At(s, ls, t, b, n, j)
  PROVE  At(Append(s, m), ls, t, b, n, j)
<1> DEFINE s2 == Append(s, m)
<1>0. PICK top \in Nat : top = Len(s)
  OBVIOUS
<1>1. n \in 0 .. top /\ j \in Nat
  BY <1>0 DEF At, Place
<1>2. s2 \in Seq(Messages) /\ Len(s2) = top + 1 /\ SubSeq(s2, 1, n) = SubSeq(s, 1, n)
      /\ (n < top => s2[n + 1] = s[n + 1])
  BY <1>0, <1>1
<1> HIDE DEF s2
<1>3. Bytes(s2, n) = Bytes(s, n) /\ Parts(s2, n) = Parts(s, n)
  BY <1>2 DEF Bytes, Parts
<1>4. CASE n < top
  <2>1. s2[n + 1] = s[n + 1] /\ n # Len(s) /\ n # Len(s2) /\ n < Len(s) /\ n < Len(s2)
        /\ n \in 0 .. Len(s2)
    BY <1>0, <1>1, <1>2, <1>4
  <2>2. Place(s2, n, j)
    BY <2>1 DEF At, Place
  <2>3. LinesAt(s2, n, j) = LinesAt(s, n, j) /\ BytesAt(s2, n, j) = BytesAt(s, n, j)
    BY <1>3, <2>1 DEF LinesAt, BytesAt
  <2>4. Begun(s2, n, j, b)
    BY <2>1 DEF At, Begun
  <2> QED
    BY <2>2, <2>3, <2>4 DEF At, s2
<1>5. CASE n = top
  <2>1. j = 0 /\ b = <<>> /\ ls = Parts(s, n) /\ t = Bytes(s, n)
    BY <1>0, <1>5 DEF At, Place, LinesAt, BytesAt, Begun
  <2>2. At(s2, Parts(s2, n), Bytes(s2, n), <<>>, n, 0)
    BY <1>1, <1>2, AtStart
  <2> QED
    BY <1>3, <2>1, <2>2 DEF s2
<1> QED
  BY <1>1, <1>4, <1>5

\* What has been taken and read, in the message that is next.
Taken(s, t, b, n, j) ==
  LET e == Encode(s[n + 1])
  IN  /\ Start(j) + Len(b) < Len(e)
      /\ b = SubSeq(e, Start(j) + 1, Start(j) + Len(b))
      /\ t \o b = Bytes(s, n) \o SubSeq(e, 1, Start(j) + Len(b))

LEMMA TakenIs ==
  ASSUME NEW s \in Seq(Messages), NEW ls, NEW t, NEW b \in Seq(Char),
         NEW n, NEW j, At(s, ls, t, b, n, j), n < Len(s)
  PROVE  Taken(s, t, b, n, j)
<1>1. n \in 0 .. Len(s) /\ j \in Nat /\ n # Len(s)
  BY DEF At, Place
<1> DEFINE e == Encode(s[n + 1]) p == Pieces(s[n + 1])
<1>2. Adds(s, n, e, p)
  BY <1>1, NextMessage
<1>3. PICK x \in Nat : x = Start(j)
  BY <1>1, Starts
<1>4. PICK y \in Nat : y = Len(b)
  OBVIOUS
<1>5. /\ x + y < Len(e) /\ b = SubSeq(e, x + 1, x + y)
      /\ t = Bytes(s, n) \o SubSeq(e, 1, x)
  BY <1>1, <1>3, <1>4 DEF At, Begun, BytesAt
<1> HIDE DEF e, p
<1>6. e \in Seq(Char) /\ Bytes(s, n) \in Seq(Char)
  BY <1>2 DEF Adds
<1>7. SubSeq(e, 1, x) \in Seq(Char) /\ SubSeq(e, x + 1, x + y) \in Seq(Char)
  BY <1>5, <1>6
<1>8. SubSeq(e, 1, x) \o SubSeq(e, x + 1, x + y) = SubSeq(e, 1, x + y)
  BY <1>5, <1>6
<1> DEFINE u == Bytes(s, n) v == SubSeq(e, 1, x) w == SubSeq(e, x + 1, x + y)
<1>9. (u \o v) \o w = u \o (v \o w)
  <2>1. u \in Line /\ v \in Line /\ w \in Line
    BY <1>6, <1>7 DEF Line
  <2> HIDE DEF u, v, w
  <2> QED
    BY <2>1, Regroup
<1>10. t \o b = u \o SubSeq(e, 1, x + y)
  BY <1>5, <1>8, <1>9
<1> QED
  BY <1>3, <1>4, <1>5, <1>10 DEF Taken, e

\* If there is more, w, then there is a next message, and w goes on with it.
LEMMA NextCharacter ==
  ASSUME NEW s \in Seq(Messages), NEW ls, NEW t \in Seq(Char), NEW b \in Seq(Char),
         NEW n, NEW j, At(s, ls, t, b, n, j),
         NEW w \in Seq(Char), w # <<>>, Begins((t \o b) \o w, Joined(Encoded, s))
  PROVE  n < Len(s) /\ Head(w) = Encode(s[n + 1])[Start(j) + Len(b) + 1]
<1>1. n \in 0 .. Len(s) /\ j \in Nat /\ n \in Nat /\ Len(s) \in Nat
  BY DEF At, Place
<1> DEFINE total == Joined(Encoded, s)
           r == t \o b
<1>2. total \in Seq(Char) /\ Bytes(s, Len(s)) = total
  BY AllMessages
<1>3. r \in Seq(Char) /\ Len(r) \in Nat /\ Len(w) \in Nat /\ Len(w) > 0 /\ Head(w) = w[1]
  OBVIOUS
<1> HIDE DEF r, total
<1>4. r \o w \in Seq(Char) /\ Len(r \o w) = Len(r) + Len(w) /\ (r \o w)[Len(r) + 1] = w[1]
  BY <1>3
<1>5. Begins(r \o w, total)
  BY DEF r, total
<1>6. Len(r) + Len(w) <= Len(total) /\ total[Len(r) + 1] = w[1] /\ Len(total) \in Nat
  <2>1. Len(r \o w) <= Len(total) /\ \A k \in 1 .. Len(r \o w) : (r \o w)[k] = total[k]
    <3>1. PICK v \in Seq(Char) : v = r \o w
      BY <1>4
    <3>2. Begins(v, total)
      BY <1>5, <3>1
    <3>3. Len(v) <= Len(total) /\ \A k \in 1 .. Len(v) : v[k] = total[k]
      BY <1>2, <3>2, BeginsIs
    <3> QED
      BY <3>1, <3>3
  <2>2. Len(r) + 1 \in 1 .. Len(r \o w)
    <3>1. PICK x \in Nat, y \in Nat : x = Len(r) /\ y = Len(w)
      BY <1>3
    <3>2. y > 0 /\ Len(r \o w) = x + y
      BY <1>3, <1>4, <3>1
    <3>3. x + 1 \in 1 .. x + y
      BY <3>2
    <3> QED
      BY <3>1, <3>2, <3>3
  <2>3. Len(total) \in Nat
    BY <1>2
  <2> QED
    BY <1>4, <2>1, <2>2, <2>3
<1>7. n < Len(s)
  <2> SUFFICES ASSUME n = Len(s) PROVE FALSE
    BY <1>1
  <2>1. b = <<>> /\ t = Bytes(s, n)
    BY DEF At, BytesAt, Begun
  <2>2. r = total
    <3>1. t \o <<>> = t
      OBVIOUS
    <3> QED
      BY <1>2, <2>1, <3>1 DEF r
  <2> QED
    BY <1>3, <1>6, <2>2
<1> DEFINE e == Encode(s[n + 1]) p == Pieces(s[n + 1])
<1>8. Adds(s, n, e, p)
  BY <1>1, <1>7, NextMessage
<1>9. PICK k \in Nat : k = Start(j) + Len(b)
  <2>1. Start(j) \in Nat /\ Len(b) \in Nat
    BY <1>1, Starts
  <2> QED
    BY <2>1
<1>10. k < Len(e) /\ r = Bytes(s, n) \o SubSeq(e, 1, k)
  <2>1. Taken(s, t, b, n, j)
    BY <1>7, TakenIs
  <2> QED
    BY <1>9, <2>1 DEF Taken, r
<1> HIDE DEF e, p
<1>11. e \in Seq(Char) /\ Bytes(s, n) \in Seq(Char) /\ Bytes(s, n + 1) = Bytes(s, n) \o e
       /\ n + 1 \in 0 .. Len(s)
  BY <1>8 DEF Adds
<1>12. PICK z \in Nat : z = Len(Bytes(s, n))
  BY <1>11
<1>13. Len(r) = z + k
  <2>1. SubSeq(e, 1, k) \in Seq(Char) /\ Len(SubSeq(e, 1, k)) = k
    BY <1>10, <1>11
  <2> QED
    BY <1>10, <1>11, <1>12, <2>1
<1>14. Len(Bytes(s, n + 1)) = z + Len(e) /\ Bytes(s, n + 1)[z + (k + 1)] = e[k + 1]
  <2>1. k + 1 \in 1 .. Len(e)
    BY <1>10
  <2> QED
    BY <1>11, <1>12, <2>1
<1>15. Bytes(s, n + 1)[z + (k + 1)] = total[z + (k + 1)]
  <2>1. Whole(s, n + 1)
    BY <1>11, WholeMessages
  <2>2. \A i \in 1 .. Len(Bytes(s, n + 1)) : Bytes(s, n + 1)[i] = total[i]
    BY <1>2, <2>1, BeginsIs DEF Whole, total
  <2>3. z + (k + 1) \in 1 .. Len(Bytes(s, n + 1))
    <3>1. Len(e) \in Nat /\ k + 1 <= Len(e)
      BY <1>10, <1>11
    <3> QED
      BY <1>14, <3>1
  <2> QED
    BY <2>2, <2>3
<1>16. z + (k + 1) = Len(r) + 1
  BY <1>13
<1>17. w[1] = e[k + 1]
  BY <1>6, <1>14, <1>15, <1>16
<1> QED
  BY <1>3, <1>7, <1>9, <1>17 DEF e

\* The character after what has been read of the line: with it the line is l.
Further(s, ls, t, b, c, n, j) ==
  LET e == Encode(s[n + 1])
      p == Pieces(s[n + 1])
      l == Append(b, c)
      end == Start(j) + Len(b) + 1
  IN  /\ end \in 1 .. Len(e) /\ Len(l) = Len(b) + 1
      /\ l = SubSeq(e, Start(j) + 1, end)
      /\ t \o l = Bytes(s, n) \o SubSeq(e, 1, end)
      /\ c = Newline <=> end = Len(e)
      /\ j + 1 \in 1 .. Len(p)
      /\ Append(ls, p[j + 1]) = Parts(s, n) \o SubSeq(p, 1, j + 1)

LEMMA CharacterTaken ==
  ASSUME NEW s \in Seq(Messages), NEW ls \in Seq(Line), NEW t \in Seq(Char),
         NEW b \in Seq(Char), NEW n, NEW j, At(s, ls, t, b, n, j), n < Len(s),
         NEW c \in Char, c = Encode(s[n + 1])[Start(j) + Len(b) + 1]
  PROVE  Further(s, ls, t, b, c, n, j)
<1>1. n \in 0 .. Len(s) /\ j \in Nat /\ n # Len(s)
  BY DEF At, Place
<1> DEFINE e == Encode(s[n + 1]) p == Pieces(s[n + 1]) l == Append(b, c)
<1>2. Adds(s, n, e, p)
  BY <1>1, NextMessage
<1>3. Taken(s, t, b, n, j)
  BY TakenIs
<1>4. PICK x \in Nat : x = Start(j)
  BY <1>1, Starts
<1>5. PICK y \in Nat : y = Len(b)
  OBVIOUS
<1>6. /\ x + y < Len(e) /\ b = SubSeq(e, x + 1, x + y) /\ c = e[x + y + 1]
      /\ t \o b = Bytes(s, n) \o SubSeq(e, 1, x + y)
  BY <1>3, <1>4, <1>5 DEF Taken
<1>7. ls = Parts(s, n) \o SubSeq(p, 1, j)
  BY <1>1 DEF At, LinesAt
<1> HIDE DEF e, p
<1>8. e \in Seq(Char) /\ Bytes(s, n) \in Seq(Char) /\ Len(e) \in Nat
      /\ p \in Seq(Line) /\ Parts(s, n) \in Seq(Line)
  BY <1>2 DEF Adds, Cutting
<1> DEFINE end == x + y + 1
<1> HIDE DEF l
<1>9. Grown(e, t, Bytes(s, n), l, x, y)
  <2>1. Growing(e, t, Bytes(s, n), b, x, y)
    BY <1>5, <1>6 DEF Growing
  <2> QED
    BY <1>6, <1>8, <2>1, OneMoreCharacter DEF l
<1>10. /\ end \in 1 .. Len(e) /\ Len(l) = y + 1 /\ l = SubSeq(e, x + 1, end)
       /\ t \o l = Bytes(s, n) \o SubSeq(e, 1, end)
  BY <1>9 DEF Grown
<1> HIDE DEF end
<1>11. end = x + y + 1
  BY DEF end
<1>12. c = Newline <=> end = Len(e)
  <2>1. EndsOnce(e)
    BY <1>2 DEF Adds
  <2>2. end = Len(e) \/ end \in 1 .. Len(e) - 1
    BY <1>8, <1>10
  <2> QED
    BY <1>6, <1>11, <2>1, <2>2 DEF EndsOnce
<1>13. j + 1 \in 1 .. Len(p)
  <2>1. Cutting(p, e)
    BY <1>2 DEF Adds
  <2>2. Start(j) < Len(e)
    <3>1. x < Len(e)
      BY <1>6, <1>8
    <3> QED
      BY <1>4, <3>1
  <2> QED
    BY <1>1, <2>1, <2>2 DEF Cutting
<1>14. Append(ls, p[j + 1]) = Parts(s, n) \o SubSeq(p, 1, j + 1)
  <2> DEFINE u == Parts(s, n) v == SubSeq(p, 1, j) d == p[j + 1]
  <2>1. v \in Seq(Line) /\ d \in Line /\ SubSeq(p, 1, j + 1) = Append(v, d)
    BY <1>1, <1>8, <1>13, FirstOnes
  <2>2. ls = u \o v /\ u \in Seq(Line)
    BY <1>7, <1>8
  <2> HIDE DEF u, v, d
  <2>3. Append(u \o v, d) = u \o Append(v, d)
    <3>1. u \in Seq(Line) /\ v \in Seq(Line) /\ d \in Line
      BY <2>1, <2>2
    <3>2. AppendsLater(u, v, d)
      BY <3>1, AppendLater
    <3> QED
      BY <3>2 DEF AppendsLater
  <2> QED
    BY <2>1, <2>2, <2>3 DEF u, d
<1>15. end = Start(j) + Len(b) + 1 /\ y = Len(b) /\ x = Start(j)
  BY <1>4, <1>5, <1>11
<1> QED
  BY <1>10, <1>12, <1>13, <1>14, <1>15 DEF Further, e, p, l

\* The end of the message: receive is behind it.
LEMMA MessageEnds ==
  ASSUME NEW s \in Seq(Messages), NEW ls \in Seq(Line), NEW t \in Seq(Char),
         NEW b \in Seq(Char), Len(b) < Size, NEW n, NEW j, At(s, ls, t, b, n, j), n < Len(s),
         NEW c, Further(s, ls, t, b, c, n, j), c = Newline
  PROVE  At(s, Append(ls, Append(b, c)), t \o Append(b, c), <<>>, n + 1, 0)
<1>1. n \in 0 .. Len(s) /\ j \in Nat /\ n # Len(s) /\ n + 1 \in 0 .. Len(s)
  BY DEF At, Place
<1> DEFINE e == Encode(s[n + 1]) p == Pieces(s[n + 1]) l == Append(b, c)
<1>2. Adds(s, n, e, p)
  BY <1>1, NextMessage
<1>3. PICK x \in Nat : x = Start(j)
  BY <1>1, Starts
<1>4. PICK y \in Nat : y = Len(b)
  OBVIOUS
<1>5. /\ x + y + 1 = Len(e) /\ l = SubSeq(e, x + 1, Len(e))
      /\ t \o l = Bytes(s, n) \o SubSeq(e, 1, Len(e))
      /\ Append(ls, p[j + 1]) = Parts(s, n) \o SubSeq(p, 1, j + 1)
  BY <1>3, <1>4 DEF Further
<1> HIDE DEF e, p, l
<1>6. Start(j) < Len(e) /\ Start(j + 1) >= Len(e)
  <2>1. Start(j + 1) = Start(j) + Size /\ Size \in Nat
    BY <1>1, Starts
  <2>2. PICK top \in Nat, size \in Nat, next \in Nat : top = Len(e) /\ size = Size /\ next = Start(j + 1)
    <3>1. Start(j + 1) \in Nat /\ Size \in Nat
      BY <1>1, Starts
    <3> QED
      BY <1>2, <3>1 DEF Adds, EndsOnce
  <2>3. next = x + size /\ x + y + 1 = top /\ y < size
    BY <1>3, <1>4, <1>5, <2>1, <2>2
  <2>4. x < top /\ next >= top
    BY <2>3
  <2> QED
    BY <1>3, <2>2, <2>4
<1>7. Len(p) = j + 1 /\ p[j + 1] = SubSeq(e, Start(j) + 1, Len(e))
  <2>1. Cutting(p, e)
    BY <1>2 DEF Adds
  <2> QED
    BY <1>1, <1>6, <2>1 DEF Cutting
<1>8. SubSeq(e, 1, Len(e)) = e /\ SubSeq(p, 1, Len(p)) = p
  BY <1>2 DEF Adds, Cutting
<1>9. t \o l = Bytes(s, n + 1)
  BY <1>2, <1>5, <1>8 DEF Adds
<1>10. Append(ls, l) = Parts(s, n + 1)
  BY <1>2, <1>3, <1>5, <1>7, <1>8 DEF Adds
<1> QED
  BY <1>1, <1>9, <1>10, AtStart DEF l

\* The end of a line that is full: receive is one line further.
LEMMA LineIsFull ==
  ASSUME NEW s \in Seq(Messages), NEW ls \in Seq(Line), NEW t \in Seq(Char),
         NEW b \in Seq(Char), NEW n, NEW j, At(s, ls, t, b, n, j), n < Len(s),
         NEW c, Further(s, ls, t, b, c, n, j), c # Newline,
         Len(Append(b, c)) = Size
  PROVE  At(s, Append(ls, Append(b, c)), t \o Append(b, c), <<>>, n, j + 1)
<1>1. n \in 0 .. Len(s) /\ j \in Nat /\ j + 1 \in Nat /\ n # Len(s)
  BY DEF At, Place
<1> DEFINE e == Encode(s[n + 1]) p == Pieces(s[n + 1]) l == Append(b, c)
<1>2. Adds(s, n, e, p)
  BY <1>1, NextMessage
<1>3. PICK x \in Nat : x = Start(j)
  BY <1>1, Starts
<1>4. PICK y \in Nat : y = Len(b)
  OBVIOUS
<1>5. /\ x + y + 1 \in 1 .. Len(e) /\ x + y + 1 # Len(e) /\ y + 1 = Size
      /\ l = SubSeq(e, x + 1, x + y + 1)
      /\ t \o l = Bytes(s, n) \o SubSeq(e, 1, x + y + 1)
      /\ Append(ls, p[j + 1]) = Parts(s, n) \o SubSeq(p, 1, j + 1)
  BY <1>3, <1>4 DEF Further
<1> HIDE DEF e, p, l
<1>6. Len(e) \in Nat /\ e \in Seq(Char)
  BY <1>2 DEF Adds
<1>7. Start(j + 1) = x + y + 1 /\ Start(j + 1) < Len(e) /\ Start(j) < Len(e)
  <2>1. Start(j + 1) = Start(j) + Size
    BY <1>1, Starts
  <2>2. PICK top \in Nat, next \in Nat : top = Len(e) /\ next = Start(j + 1)
    <3>1. Start(j + 1) \in Nat
      BY <1>1, Starts
    <3> QED
      BY <1>6, <3>1
  <2>3. next = x + (y + 1) /\ x + y + 1 \in 1 .. top /\ x + y + 1 # top
    BY <1>3, <1>5, <2>1, <2>2
  <2>4. next = x + y + 1 /\ next < top /\ x < top
    BY <2>3
  <2> QED
    BY <1>3, <2>2, <2>4
<1>8. p[j + 1] = SubSeq(e, Start(j) + 1, Start(j + 1))
  <2>1. Cutting(p, e)
    BY <1>2 DEF Adds
  <2> QED
    BY <1>1, <1>7, <2>1 DEF Cutting
<1>9. Append(ls, l) = LinesAt(s, n, j + 1) /\ t \o l = BytesAt(s, n, j + 1)
  BY <1>1, <1>3, <1>5, <1>7, <1>8 DEF LinesAt, BytesAt, e, p
<1>10. Place(s, n, j + 1)
  BY <1>1, <1>7 DEF Place, e
<1>11. Begun(s, n, j + 1, <<>>)
  <2>1. Len(<<>>) = 0 /\ Start(j + 1) \in Nat
    BY <1>1, Starts
  <2> HIDE DEF Start
  <2>2. Start(j + 1) + Len(<<>>) = Start(j + 1)
    BY <2>1
  <2>3. SubSeq(e, Start(j + 1) + 1, Start(j + 1)) = <<>>
    BY <1>6, <2>1
  <2> QED
    BY <1>1, <1>7, <2>2, <2>3 DEF Begun, e
<1> QED
  BY <1>9, <1>10, <1>11 DEF At, l

\* Else the line goes on.
LEMMA LineGoesOn ==
  ASSUME NEW s \in Seq(Messages), NEW ls, NEW t,
         NEW b \in Seq(Char), NEW n, NEW j, At(s, ls, t, b, n, j), n < Len(s),
         NEW c, Further(s, ls, t, b, c, n, j), c # Newline
  PROVE  At(s, ls, t, Append(b, c), n, j)
<1>1. n \in 0 .. Len(s) /\ j \in Nat /\ n # Len(s)
  BY DEF At, Place
<1> DEFINE e == Encode(s[n + 1]) l == Append(b, c)
<1>2. PICK x \in Nat : x = Start(j)
  BY <1>1, Starts
<1>3. PICK y \in Nat : y = Len(b)
  OBVIOUS
<1>4. /\ x + y + 1 \in 1 .. Len(e) /\ x + y + 1 # Len(e) /\ Len(l) = y + 1
      /\ l = SubSeq(e, x + 1, x + y + 1)
  BY <1>2, <1>3 DEF Further
<1> HIDE DEF e, l
<1>5. PICK top \in Int : top = Len(e)
  <2>1. Adds(s, n, Encode(s[n + 1]), Pieces(s[n + 1]))
    BY <1>1, NextMessage
  <2> QED
    BY <2>1 DEF Adds, EndsOnce, e
<1>6. x + Len(l) < Len(e) /\ l = SubSeq(e, x + 1, x + Len(l))
  <2>1. x + Len(l) = x + y + 1
    BY <1>4
  <2> QED
    BY <1>4, <1>5, <2>1
<1>7. Begun(s, n, j, l)
  BY <1>1, <1>2, <1>6 DEF Begun, e
<1> QED
  BY <1>7 DEF At, l

------------------------------------------------------------------------------
(* What is written is what the messages are encoded to *)

\* Up to the place where the writer gave up, if it has.
AllWritten ==
  /\ open => written \o unwritten = Joined(Encoded, sent)
  /\ ~open => unwritten = <<>> /\ Begins(written, Joined(Encoded, sent))

LEMMA WrittenStart == Init => AllWritten
<1> SUFFICES ASSUME Init PROVE AllWritten
  OBVIOUS
<1>1. written = <<>> /\ unwritten = <<>> /\ sent = <<>> /\ open = TRUE
  BY DEF Init
<1>2. <<>> \in Seq(Messages)
  OBVIOUS
<1>3. Joined(Encoded, <<>>) = <<>>
  BY JoinedNothing
<1>4. <<>> \o <<>> = <<>>
  OBVIOUS
<1> QED
  BY <1>1, <1>3, <1>4 DEF AllWritten

LEMMA WrittenNext == IInv /\ AllWritten /\ [Next]_vars => AllWritten'
<1> SUFFICES ASSUME IInv, AllWritten, [Next]_vars PROVE AllWritten'
  OBVIOUS
<1>1. open \in BOOLEAN /\ sent \in Seq(Messages) /\ written \in Line /\ unwritten \in Line
  BY DEF IInv, TypeOK
<1>2. ASSUME NEW m \in Messages, Send(m) PROVE AllWritten'
  <2>1. /\ open /\ open' = open /\ unwritten = <<>> /\ written' = written
        /\ sent' = Append(sent, m) /\ unwritten' = Encode(m)
    BY <1>2 DEF Send
  <2>2. Joined(Encoded, Append(sent, m)) = Joined(Encoded, sent) \o Encoded[m]
    BY <1>1, Functions, JoinedAppend
  <2>3. written = Joined(Encoded, sent)
    <3>1. written \o <<>> = written
      BY <1>1 DEF Line
    <3> QED
      BY <2>1, <3>1 DEF AllWritten
  <2>4. Encoded[m] = Encode(m)
    BY DEF Encoded
  <2>5. Joined(Encoded, sent)' = Joined(Encoded, Append(sent, m))
    BY <2>1 DEF Encoded
  <2> QED
    BY <1>1, <2>1, <2>2, <2>3, <2>4, <2>5 DEF AllWritten
<1>3. ASSUME UNCHANGED <<open, sent, written, unwritten>> PROVE AllWritten'
  <2>1. Joined(Encoded, sent)' = Joined(Encoded, sent)
    BY <1>3
  <2> QED
    BY <1>3, <2>1 DEF AllWritten
<1>4. ASSUME NEW k \in 1 .. Len(unwritten), Write(k) PROVE AllWritten'
  <2> DEFINE moved == SubSeq(unwritten, 1, k) rest == From(unwritten, k + 1)
  <2>1. moved \in Line /\ rest \in Line /\ moved \o rest = unwritten
    BY <1>1, Cut
  <2> HIDE DEF moved, rest
  <2>2. open' = open /\ sent' = sent /\ written' = written \o moved /\ unwritten' = rest
    BY <1>4 DEF Write, moved, rest
  <2>3. unwritten # <<>>
    OBVIOUS
  <2>4. open /\ written \o unwritten = Joined(Encoded, sent)
    BY <1>1, <2>3 DEF AllWritten
  <2>5. (written \o moved) \o rest = written \o (moved \o rest)
    <3>1. written \in Line
      BY <1>1
    <3> QED
      BY <2>1, <3>1, Regroup
  <2>6. Joined(Encoded, sent)' = Joined(Encoded, sent)
    BY <2>2
  <2> QED
    BY <2>1, <2>2, <2>4, <2>5, <2>6 DEF AllWritten
<1>5. CASE Close
  <2>1. open /\ ~open' /\ unwritten' = <<>> /\ written' = written /\ sent' = sent
    BY <1>5 DEF Close, reader
  <2>2. Begins(written, written \o unwritten)
    BY <1>1, BeginsLonger DEF Line
  <2>3. Begins(written, Joined(Encoded, sent))
    BY <2>1, <2>2 DEF AllWritten
  <2>4. Begins(written, Joined(Encoded, sent))'
    BY <2>1, <2>3
  <2> QED
    BY <2>1, <2>4 DEF AllWritten
<1>6. CASE Receiving \/ ReadFails \/ UNCHANGED vars
  <2>1. UNCHANGED <<open, sent, written, unwritten>>
    BY <1>6 DEF Receiving, Refill, TakeChar, ReadEof, ReadFails, writer, vars
  <2> QED
    BY <1>3, <2>1
<1> QED
  BY <1>2, <1>4, <1>5, <1>6 DEF Next, Writing

LEMMA WrittenBegins ==
  ASSUME IInv, AllWritten
  PROVE  Begins(written, Joined(Encoded, sent))
<1>1. open \in BOOLEAN /\ written \in Line /\ unwritten \in Line
  BY DEF IInv, TypeOK
<1>2. Begins(written, written \o unwritten)
  BY <1>1, BeginsLonger DEF Line
<1> QED
  BY <1>1, <1>2 DEF AllWritten

------------------------------------------------------------------------------
(* Every line is a piece of a message *)

InProgress == \E n, j : At(sent, lines, taken, buf, n, j)

BrokenOff ==
  /\ ~open /\ net = <<>> /\ rio = <<>> /\ buf = <<>>
  /\ \E b, n, j : BrokenAt(sent, lines, b, n, j)

LInv == IInv /\ AllWritten /\ (InProgress \/ BrokenOff)

LEMMA LinesStart == Init => InProgress
<1> SUFFICES ASSUME Init PROVE InProgress
  OBVIOUS
<1>1. sent = <<>> /\ lines = <<>> /\ taken = <<>> /\ buf = <<>>
  BY DEF Init
<1>0. <<>> \in Seq(Messages)
  OBVIOUS
<1>2. <<>> \in Seq(Messages) /\ 0 \in 0 .. Len(<<>>) /\ Len(<<>>) = 0
  OBVIOUS
<1>3. At(<<>>, Parts(<<>>, 0), Bytes(<<>>, 0), <<>>, 0, 0)
  BY <1>2, AtStart
<1>4. Parts(<<>>, 0) = <<>> /\ Bytes(<<>>, 0) = <<>>
  <2>0. Joined(Encoded, <<>>) = <<>>
    BY JoinedNothing
  <2>1. Joined(CutUp, <<>>) = <<>>
    BY JoinedNothing
  <2>2. Parts(<<>>, Len(<<>>)) = Joined(CutUp, <<>>) /\ Bytes(<<>>, Len(<<>>)) = Joined(Encoded, <<>>)
    BY <1>2, AllMessages
  <2> QED
    BY <1>2, <2>0, <2>1, <2>2
<1> QED
  BY <1>1, <1>3, <1>4 DEF InProgress

\* The character taken ends a message, fills a line, or is one more of a line.
LEMMA LinesTakeChar ==
  ASSUME LInv, InProgress, TakeChar
  PROVE  InProgress'
<1>1. /\ rio \in Line /\ net \in Line /\ buf \in Line /\ taken \in Line /\ written \in Line
      /\ sent \in Seq(Messages) /\ lines \in Seq(Line) /\ rio # <<>>
  BY DEF LInv, IInv, TypeOK, TakeChar
<1>2. PICK n, j : At(sent, lines, taken, buf, n, j)
  BY DEF InProgress
<1> DEFINE c == Head(rio) l == Append(buf, c)
<1>3. c \in Char
  BY <1>1, CutOne
<1>4. n < Len(sent) /\ c = Encode(sent[n + 1])[Start(j) + Len(buf) + 1]
  <2> DEFINE r == (taken \o buf) \o rio
  <2>1. Begins(written, Joined(Encoded, sent)) /\ Joined(Encoded, sent) \in Seq(Char)
    BY <1>1, WrittenBegins, AllMessages DEF LInv
  <2>2. r \in Line
    BY <1>1, Concat
  <2>3. written = r \o net
    BY DEF LInv, IInv, StreamInOrder
  <2> HIDE DEF r
  <2>4. Begins(r, written)
    BY <1>1, <2>2, <2>3, BeginsLonger DEF Line
  <2>5. Begins(r, Joined(Encoded, sent))
    BY <1>1, <2>1, <2>2, <2>4, BeginsTwice DEF Line
  <2> QED
    BY <1>1, <1>2, <2>5, NextCharacter DEF Line, r
<1>5. Further(sent, lines, taken, buf, c, n, j)
  BY <1>1, <1>2, <1>3, <1>4, CharacterTaken DEF Line
<1>6. Len(buf) < Size
  BY DEF LInv, IInv, RoomForOneMore, Size
<1>7. sent' = sent
  BY DEF TakeChar, writer
<1> HIDE DEF c
<1>8. CASE c = Newline
  <2>1. At(sent, Append(lines, l), taken \o l, <<>>, n + 1, 0)
    BY <1>1, <1>2, <1>4, <1>5, <1>6, <1>8, MessageEnds DEF Line
  <2>2. lines' = Append(lines, l) /\ taken' = taken \o l /\ buf' = <<>>
    BY <1>8 DEF TakeChar, Return, c
  <2> QED
    BY <1>7, <2>1, <2>2 DEF InProgress
<1>9. CASE c # Newline /\ Len(l) = Size
  <2>1. At(sent, Append(lines, l), taken \o l, <<>>, n, j + 1)
    BY <1>1, <1>2, <1>4, <1>5, <1>9, LineIsFull DEF Line
  <2>2. lines' = Append(lines, l) /\ taken' = taken \o l /\ buf' = <<>>
    BY <1>9 DEF TakeChar, Return, c, Size
  <2> QED
    BY <1>7, <2>1, <2>2 DEF InProgress
<1>10. CASE c # Newline /\ Len(l) # Size
  <2>1. At(sent, lines, taken, l, n, j)
    BY <1>1, <1>2, <1>4, <1>5, <1>10, LineGoesOn DEF Line
  <2>2. lines' = lines /\ taken' = taken /\ buf' = l
    BY <1>10 DEF TakeChar, c, Size
  <2> QED
    BY <1>7, <2>1, <2>2 DEF InProgress
<1> QED
  BY <1>8, <1>9, <1>10

\* At the end of the file what has been read of a line is the line broken off.
LEMMA LinesReadEof ==
  ASSUME LInv, InProgress, ReadEof
  PROVE  InProgress' \/ BrokenOff'
<1>1. PICK n, j : At(sent, lines, taken, buf, n, j)
  BY DEF InProgress
<1>2. sent \in Seq(Messages) /\ buf \in Line /\ lines \in Seq(Line)
  BY DEF LInv, IInv, TypeOK
<1>3. /\ rio = <<>> /\ net = <<>> /\ ~open
      /\ sent' = sent /\ open' = open /\ net' = net /\ rio' = rio
  BY DEF ReadEof, writer
<1>4. CASE buf = <<>>
  <2>1. UNCHANGED <<lines, taken, buf>>
    BY <1>4 DEF ReadEof
  <2> QED
    BY <1>1, <1>3, <2>1 DEF InProgress
<1>5. CASE buf # <<>>
  <2>1. lines' = Append(lines, buf) /\ buf' = <<>>
    BY <1>5 DEF ReadEof, Return
  <2>2. Place(sent, n, j) /\ n \in 0 .. Len(sent) /\ Begun(sent, n, j, buf)
        /\ lines = LinesAt(sent, n, j)
    BY <1>1 DEF At, Place
  <2>3. n < Len(sent)
    <3>1. n # Len(sent)
      BY <1>5, <2>2 DEF Begun
    <3> QED
      BY <1>2, <2>2, <3>1
  <2>4. Len(buf) < Size
    BY DEF LInv, IInv, RoomForOneMore, Size
  <2>5. Append(lines, buf) = lines \o <<buf>>
    BY <1>2, AppendIsConcat
  <2>6. BrokenAt(sent, lines', buf, n, j)
    BY <1>2, <1>5, <2>1, <2>2, <2>3, <2>4, <2>5 DEF BrokenAt
  <2> QED
    BY <1>3, <2>1, <2>6 DEF BrokenOff
<1> QED
  BY <1>4, <1>5

LEMMA LinesNext == LInv /\ [Next]_vars => (InProgress \/ BrokenOff)'
<1> SUFFICES ASSUME LInv, [Next]_vars PROVE InProgress' \/ BrokenOff'
  OBVIOUS
<1>1. sent \in Seq(Messages) /\ IInv /\ AllWritten /\ (InProgress \/ BrokenOff)
  BY DEF LInv, IInv, TypeOK
<1>2. ASSUME UNCHANGED <<sent, lines, taken, buf>>, InProgress PROVE InProgress'
  BY <1>2 DEF InProgress
<1>3. CASE BrokenOff
  <2>1. ~open /\ net = <<>> /\ rio = <<>> /\ buf = <<>> /\ unwritten = <<>>
    BY <1>1, <1>3 DEF BrokenOff, AllWritten
  <2>2. Len(unwritten) = 0 /\ Len(net) = 0
    BY <2>1
  <2>3. ~Writing /\ ~TakeChar /\ ~Close /\ \A m \in Messages : ~Send(m)
    BY <2>1, <2>2 DEF Writing, TakeChar, Close, Send
  <2>4. \A k \in 1 .. Len(net) : ~Refill(k)
    BY <2>2
  <2>5. ReadEof \/ ReadFails \/ UNCHANGED vars
    BY <2>3, <2>4 DEF Next, Receiving
  <2>6. UNCHANGED <<open, net, rio, buf, sent, lines>>
    BY <2>1, <2>5 DEF ReadEof, ReadFails, vars, writer, reader
  <2> QED
    BY <1>3, <2>6 DEF BrokenOff
<1>4. CASE InProgress
  <2>1. ASSUME NEW m \in Messages, Send(m) PROVE InProgress'
    <3>1. PICK n, j : At(sent, lines, taken, buf, n, j)
      BY <1>4 DEF InProgress
    <3>2. At(Append(sent, m), lines, taken, buf, n, j)
      BY <1>1, <3>1, AtSend
    <3>3. sent' = Append(sent, m) /\ lines' = lines /\ taken' = taken /\ buf' = buf
      BY <2>1 DEF Send, reader
    <3> QED
      BY <3>2, <3>3 DEF InProgress
  <2>2. CASE Writing \/ Close \/ ReadFails \/ UNCHANGED vars \/ \E k \in 1 .. Len(net) : Refill(k)
    <3>1. UNCHANGED <<sent, lines, taken, buf>>
      BY <2>2 DEF Writing, Write, Close, ReadFails, Refill, vars, writer, reader
    <3> QED
      BY <1>2, <1>4, <3>1
  <2>3. CASE TakeChar
    BY <1>4, <2>3, LinesTakeChar
  <2>4. CASE ReadEof
    BY <1>4, <2>4, LinesReadEof
  <2> QED
    BY <2>1, <2>2, <2>3, <2>4 DEF Next, Receiving
<1> QED
  BY <1>1, <1>3, <1>4

\* The lines at a place are those that come first in all there are.
LEMMA LinesBegin ==
  ASSUME NEW s \in Seq(Messages), NEW n, NEW j, Place(s, n, j)
  PROVE  LinesAt(s, n, j) \in Seq(Line) /\ Begins(LinesAt(s, n, j), Joined(CutUp, s))
<1>1. n \in 0 .. Len(s) /\ j \in Nat
  BY DEF Place
<1>2. Whole(s, n) /\ Joined(CutUp, s) \in Seq(Line)
  BY <1>1, WholeMessages, AllMessages
<1>3. CASE n = Len(s)
  BY <1>2, <1>3 DEF Whole, LinesAt
<1>4. CASE n # Len(s)
  <2> DEFINE e == Encode(s[n + 1]) p == Pieces(s[n + 1])
  <2>0. n < Len(s)
    BY <1>1, <1>4
  <2>1. Adds(s, n, e, p)
    BY <1>1, <2>0, NextMessage
  <2>2. Start(j) < Len(e)
    BY <2>0 DEF Place
  <2> HIDE DEF e, p
  <2>3. p \in Seq(Line) /\ j \in 0 .. Len(p) /\ Parts(s, n) \in Seq(Line)
        /\ Parts(s, n + 1) = Parts(s, n) \o p /\ n + 1 \in 0 .. Len(s)
    <3>1. p \in Seq(Line) /\ j + 1 \in 1 .. Len(p)
      BY <1>1, <2>1, <2>2 DEF Adds, Cutting
    <3>2. j \in 0 .. Len(p)
      BY <1>1, <3>1
    <3> QED
      BY <2>1, <3>1, <3>2 DEF Adds
  <2> DEFINE u == Parts(s, n) \o SubSeq(p, 1, j)
  <2>4. SubSeq(p, 1, j) \in Seq(Line) /\ Begins(u, Parts(s, n + 1))
    BY <2>3, BeginsWithPart
  <2>5. u \in Seq(Line) /\ Parts(s, n + 1) \in Seq(Line)
    <3>1. u \in Seq(Line)
      BY <2>3, <2>4, ConcatProperties
    <3>2. Parts(s, n + 1) \in Seq(Line)
      BY <2>3, ConcatProperties
    <3> QED
      BY <3>1, <3>2
  <2>6. Begins(Parts(s, n + 1), Joined(CutUp, s))
    BY <2>3, WholeMessages DEF Whole
  <2> HIDE DEF u
  <2>7. Begins(u, Joined(CutUp, s))
    BY <1>2, <2>4, <2>5, <2>6, BeginsTwice
  <2>8. LinesAt(s, n, j) = u
    BY <1>4 DEF LinesAt, u, p
  <2> QED
    BY <2>5, <2>7, <2>8
<1> QED
  BY <1>3, <1>4

\* The line there is the next of all there are; a part of it is not all of it.
LEMMA PartOfLine ==
  ASSUME NEW s \in Seq(Messages), NEW n, NEW j, Place(s, n, j), n < Len(s),
         NEW b \in Line, Begun(s, n, j, b), Len(b) < Size
  PROVE  LET next == Joined(CutUp, s)[Len(LinesAt(s, n, j)) + 1]
         IN  Begins(b, next) /\ b # next
<1>1. n \in 0 .. Len(s) /\ j \in Nat /\ n # Len(s)
  BY DEF Place
<1> DEFINE e == Encode(s[n + 1]) p == Pieces(s[n + 1]) all == Joined(CutUp, s)
<1>2. Adds(s, n, e, p)
  BY <1>1, NextMessage
<1>3. PICK x \in Nat : x = Start(j)
  BY <1>1, Starts
<1>4. PICK y \in Nat : y = Len(b)
  BY DEF Line
<1>5. x + y < Len(e) /\ b = SubSeq(e, x + 1, x + y) /\ y < Size /\ x < Len(e)
  BY <1>1, <1>3, <1>4 DEF Place, Begun
<1>6. LinesAt(s, n, j) = Parts(s, n) \o SubSeq(p, 1, j)
  BY <1>1 DEF LinesAt
<1>7. all \in Seq(Line)
  BY AllMessages
<1> HIDE DEF e, p, all
<1>8. /\ e \in Seq(Char) /\ Len(e) \in Nat /\ p \in Seq(Line) /\ j + 1 \in 1 .. Len(p)
      /\ Parts(s, n) \in Seq(Line) /\ Parts(s, n + 1) = Parts(s, n) \o p
      /\ n + 1 \in 0 .. Len(s)
  <2>1. Cutting(p, e) /\ Start(j) < Len(e)
    BY <1>2, <1>3, <1>5 DEF Adds
  <2>2. p \in Seq(Line) /\ j + 1 \in 1 .. Len(p)
    BY <1>1, <2>1 DEF Cutting
  <2> QED
    BY <1>2, <2>2 DEF Adds, EndsOnce
<1>9. PICK z \in Nat : z = Len(Parts(s, n))
  BY <1>8
<1>10. Len(LinesAt(s, n, j)) = z + j
  <2>1. SubSeq(p, 1, j) \in Seq(Line) /\ Len(SubSeq(p, 1, j)) = j
    BY <1>1, <1>8
  <2> QED
    BY <1>6, <1>8, <1>9, <2>1
<1>11. all[(z + j) + 1] = p[j + 1]
  <2>1. Parts(s, n + 1) \in Seq(Line) /\ Parts(s, n + 1)[z + (j + 1)] = p[j + 1]
        /\ Len(Parts(s, n + 1)) = z + Len(p)
    <3> DEFINE u == Parts(s, n)
    <3>1. PICK top \in Nat : top = Len(p)
      BY <1>8
    <3>2. u \in Seq(Line) /\ p \in Seq(Line) /\ Len(u) = z /\ j + 1 \in 1 .. top
      BY <1>8, <1>9, <3>1
    <3> HIDE DEF u
    <3>3. u \o p \in Seq(Line) /\ Len(u \o p) = z + top
      BY <3>1, <3>2, ConcatProperties
    <3>4. (u \o p)[z + (j + 1)] = p[j + 1]
      BY <3>1, <3>2
    <3> QED
      BY <1>8, <3>1, <3>3, <3>4 DEF u
  <2>2. Begins(Parts(s, n + 1), all)
    BY <1>8, WholeMessages DEF Whole, all
  <2>3. \A k \in 1 .. Len(Parts(s, n + 1)) : Parts(s, n + 1)[k] = all[k]
    BY <1>7, <2>1, <2>2, BeginsIs
  <2>4. z + (j + 1) \in 1 .. Len(Parts(s, n + 1))
    <3>1. PICK top \in Nat : top = Len(p)
      BY <1>8
    <3>2. j + 1 \in 1 .. top
      BY <1>8, <3>1
    <3> QED
      BY <2>1, <3>1, <3>2
  <2>5. z + (j + 1) = (z + j) + 1
    BY <1>1
  <2> QED
    BY <2>1, <2>3, <2>4, <2>5
<1>12. PICK end \in Nat : p[j + 1] = SubSeq(e, x + 1, end) /\ end <= Len(e) /\ x + y < end
  <2>1. Cutting(p, e)
    BY <1>2 DEF Adds
  <2>2. PICK next \in Nat : next = Start(j + 1) /\ next = x + Size
    BY <1>1, <1>3, Starts
  <2>3. CASE next < Len(e)
    <3>1. p[j + 1] = SubSeq(e, x + 1, next)
      BY <1>1, <1>3, <1>5, <2>1, <2>2, <2>3 DEF Cutting
    <3>2. x + y < next
      BY <1>5, <2>2, Starts
    <3> QED
      BY <2>3, <3>1, <3>2
  <2>4. CASE next >= Len(e)
    <3>1. p[j + 1] = SubSeq(e, x + 1, Len(e))
      BY <1>1, <1>3, <1>5, <2>1, <2>2, <2>4 DEF Cutting
    <3>2. PICK top \in Nat : top = Len(e)
      BY <1>8
    <3>3. p[j + 1] = SubSeq(e, x + 1, top) /\ top <= Len(e) /\ x + y < top
      BY <1>5, <3>1, <3>2
    <3> QED
      BY <3>3
  <2> QED
    BY <1>8, <2>2, <2>3, <2>4
<1>13. Begins(b, p[j + 1]) /\ b # p[j + 1]
  <2> DEFINE q == SubSeq(e, x + 1, end)
  <2>1. \A i \in x + 1 .. end : e[i] \in Char
    BY <1>8, <1>12
  <2>2. q \in Seq(Char) /\ Len(q) = end - x /\ \A i \in 1 .. end - x : q[i] = e[x + i]
    BY <1>8, <1>12, <2>1, SubSeqProperties
  <2>3. b \in Seq(Char) /\ Len(b) = y /\ \A i \in 1 .. y : b[i] = e[x + i]
    <3>1. \A i \in x + 1 .. x + y : e[i] \in Char
      BY <1>5, <1>8
    <3>2. x + 1 \in 1 .. Len(e) + 1 /\ x + y \in x .. Len(e)
      BY <1>5, <1>8
    <3>3. SubSeq(e, x + 1, x + y) \in Seq(Char)
          /\ \A i \in 1 .. y : SubSeq(e, x + 1, x + y)[i] = e[x + i]
      BY <1>8, <3>1, <3>2
    <3> QED
      BY <1>4, <1>5, <3>3
  <2>4. y < end - x /\ end - x \in Nat
    BY <1>12
  <2> HIDE DEF q
  <2>5. Len(b) <= Len(q) /\ \A i \in 1 .. Len(b) : b[i] = q[i]
    <3>1. \A i \in 1 .. y : i \in 1 .. end - x
      BY <2>4
    <3>2. \A i \in 1 .. y : b[i] = q[i]
      BY <2>2, <2>3, <3>1
    <3>3. Len(b) = y /\ Len(q) = end - x
      BY <2>2, <2>3
    <3> QED
      BY <2>4, <3>2, <3>3
  <2>6. Begins(b, q)
    BY <2>2, <2>3, <2>5, BeginsIs
  <2>7. b # q
    BY <2>2, <2>3, <2>4
  <2> QED
    BY <1>12, <2>6, <2>7 DEF q
<1> QED
  BY <1>10, <1>11, <1>13 DEF all

LEMMA LInvShows == LInv => LinesArePieces
<1> SUFFICES ASSUME LInv PROVE LinesArePieces
  OBVIOUS
<1>1. sent \in Seq(Messages) /\ lines \in Seq(Line) /\ (InProgress \/ BrokenOff)
  BY DEF LInv, IInv, TypeOK
<1>2. Expected = Joined(CutUp, sent)
  BY DEF Expected, CutUp
<1>3. CASE InProgress
  <2>1. PICK n, j : At(sent, lines, taken, buf, n, j)
    BY <1>3 DEF InProgress
  <2>2. Place(sent, n, j) /\ lines = LinesAt(sent, n, j)
    BY <2>1 DEF At
  <2>3. Begins(lines, Joined(CutUp, sent))
    BY <1>1, <2>2, LinesBegin
  <2> QED
    BY <1>2, <2>3 DEF LinesArePieces
<1>4. CASE BrokenOff
  <2>1. PICK b, n, j : BrokenAt(sent, lines, b, n, j)
    BY <1>4 DEF BrokenOff
  <2> DEFINE u == LinesAt(sent, n, j) all == Joined(CutUp, sent)
  <2>2. /\ Place(sent, n, j) /\ n < Len(sent) /\ Begun(sent, n, j, b)
        /\ b \in Line /\ Len(b) < Size /\ lines = u \o <<b>>
    BY <2>1 DEF BrokenAt
  <2>3. u \in Seq(Line) /\ Begins(u, all)
    BY <1>1, <2>2, LinesBegin
  <2>4. Begins(b, all[Len(u) + 1]) /\ b # all[Len(u) + 1]
    BY <1>1, <2>2, PartOfLine
  <2> HIDE DEF u, all
  <2>5. Len(lines) = Len(u) + 1 /\ lines[Len(lines)] = b /\ Len(u) \in Nat
    BY <2>2, <2>3
  <2>6. SubSeq(lines, 1, Len(lines) - 1) = u
    <3>1. SubSeq(lines, 1, Len(u)) = u
      BY <2>2, <2>3
    <3> QED
      BY <2>5, <3>1
  <2>7. Expected = all
    BY <1>2 DEF all
  <2>8. ~open /\ net = <<>> /\ rio = <<>> /\ buf = <<>>
    BY <1>4 DEF BrokenOff
  <2> QED
    BY <2>3, <2>4, <2>5, <2>6, <2>7, <2>8 DEF LinesArePieces
<1> QED
  BY <1>1, <1>3, <1>4

\* For every message and every way to cut the bytes, receive returns exactly the
\* lines of the messages, one after the other; only a message that is broken off
\* with the connection is returned in part (connection.cpp:81-110).
THEOREM LinesAreThePieces == SafeSpec => []LinesArePieces
<1>1. Init => LInv
  BY InitInv, WrittenStart, LinesStart DEF LInv
<1>2. LInv /\ [Next]_vars => LInv'
  BY StepInv, WrittenNext, LinesNext DEF LInv
<1>3. LInv => LinesArePieces
  BY LInvShows
<1> QED
  BY <1>1, <1>2, <1>3, PTL DEF SafeSpec

==============================================================================
