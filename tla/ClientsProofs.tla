---------------------------- MODULE ClientsProofs ----------------------------
(***************************************************************************)
(* The sender and the receiver against the threads that serve them, for    *)
(* all that users may type and be called, and any number of messages.  For *)
(* the sender the invariant says which lines on its connection still bring *)
(* an answer; for the receiver, that what it has printed and has yet to    *)
(* read follow each other in the order of what was said in the room.       *)
(***************************************************************************)
EXTENDS Clients, SequenceTheorems, TLAPS

Numbered(S) == [of : Nat, nth : Nat, line : S]
Line == Numbered(UpLine)
Answers == [of : Nat, tag : Tag]
Item == Numbered(DownLine)

SenderTypes ==
  /\ s_pc \in {"connect", "slogin", "login", "input", "reply", "exit"}
  /\ s_status \in {"none", "0", "1", "3", "6", "7", "8", "SIGPIPE", "abort"}
  /\ asked \in Nat /\ quitting \in BOOLEAN
  /\ users \in Users /\ turn \in 0 .. Len(users.types) /\ ended \in BOOLEAN
  /\ up \in Seq(Line) /\ down \in Seq(Answers)
  /\ s_thread \in {"login", "loop", "closed"} /\ room_name \in Place

ReceiverTypes ==
  /\ users \in Users
  /\ room \in Seq(Line)
  /\ r_thread \in {"login", "join", "serve", "closed"} /\ heard \in Nat
  /\ mqueue \in Seq(Nat)
  /\ r_up \in Seq(UpLine) /\ r_down \in Seq(Item)
  /\ r_pc \in {"connect", "rlogin", "login_reply", "join", "join_reply", "loop", "exit"}
  /\ r_status \in {"none", "1", "3", "4", "-1", "SIGPIPE"}
  /\ sender \in Item /\ msg_text \in Item
  /\ shown \in Seq([got : Item, name : Item, text : Item])

TypeOK == SenderTypes /\ ReceiverTypes

------------------------------------------------------------------------------
(* The sender's side *)

Asking == s_pc \in {"login", "reply"}

\* Up to the answer to its login the sender has written nothing else.
Hello ==
  /\ s_pc \in {"connect", "slogin"} => up = <<>> /\ down = <<>> /\ s_thread # "loop"
  /\ s_pc \in {"connect", "slogin", "login"} => turn = 0
  /\ s_pc = "login" /\ down # <<>> => down[1].tag = "ok"
  /\ s_pc = "login" /\ s_thread = "loop" => down # <<>>
  /\ s_thread = "login" =>
       /\ down = <<>> /\ s_pc \in {"connect", "slogin", "login"}
       /\ up # <<>> => up[1].line.tag # "bad"

\* The tags of the answers.
AnswersAre ==
  \A k \in 1 .. Len(down) : down[k].tag \in {"ok", "err", users.sender.reply_rest}

\* A line brings an answer unless receive() rejects it.
Answerable(k) == up[k].line.tag # "bad"

\* While the sender waits for an answer there is one, or a line that brings one.
AnswerComes ==
  Asking /\ s_thread # "closed" => down # <<>> \/ \E k \in 1 .. Len(up) : Answerable(k)

\* Unless a line was cut off there is no other answer, and no other line that
\* brings one; after a quit that line is the quit.
OneAnswer ==
  ~Cut /\ s_pc # "exit" =>
    /\ down # <<>> => Asking /\ Len(down) = 1 /\ down[1].of = asked - 1
    /\ s_thread # "closed" =>
         /\ ~Asking \/ down # <<>> => \A k \in 1 .. Len(up) : ~Answerable(k)
         /\ \A k \in 1 .. Len(up) : Answerable(k) => up[k].of = asked - 1
         /\ \A k, l \in 1 .. Len(up) : Answerable(k) /\ Answerable(l) => k = l
         /\ quitting => down = <<>>
         /\ quitting => \A k \in 1 .. Len(up) : Answerable(k) => up[k].line.tag = "quit"

\* The flag is set by the last line typed, and only until the answer.
QuitTyped == quitting => s_pc \in {"reply", "exit"} /\ LastTyped("send", {"quit"})

\* Why the sender has ended.
EndTold ==
  s_pc = "exit" =>
    \/ s_status = "0" /\ quitting /\ (s_thread = "closed" \/ Cut)
    \/ s_status = "abort" /\ LastTyped("abort", {})
    \/ s_status = "7" /\ users.sender.reply_rest = "other"
    \/ s_status \in {"1", "6", "8", "SIGPIPE"} /\ s_thread = "closed"

SInv ==
  SenderTypes /\ Hello /\ AnswersAre /\ AnswerComes /\ OneAnswer /\ QuitTyped /\ EndTold

------------------------------------------------------------------------------
(* The receiver's side *)

\* The replies that the receiver has yet to read before it prints.
Owed(pc) ==
  IF pc \in {"connect", "rlogin", "login_reply"} THEN 2
  ELSE IF pc \in {"join", "join_reply"} THEN 1 ELSE 0

\* What the receiver reads before it prints are replies.
RepliesFirst ==
  /\ \A k \in 1 .. Len(r_down) : k <= Owed(r_pc) => r_down[k].of = 0
  /\ r_thread = "login" => r_down = <<>> /\ r_pc \in {"connect", "rlogin", "login_reply"}
  /\ r_thread = "join" => Len(r_down) + 1 >= Owed(r_pc)
  /\ r_thread = "serve" => Len(r_down) >= Owed(r_pc)
  /\ r_thread \in {"login", "join"} =>
       shown = <<>> /\ \A k \in 1 .. Len(r_down) : r_down[k].of = 0

\* Replies are not taken for deliveries, and are refusals for a reason.
RepliesAre ==
  \A k \in 1 .. Len(r_down) : r_down[k].of = 0 =>
    /\ r_down[k].line.tag \in {"ok", "err", users.receiver.reply_rest}
    /\ r_down[k].line.tag = "err" =>
         users.receiver.reply_rest = "err" \/ users.receiver.rest # <<>>

\* With a short name the line after the login is the join.
JoinComes ==
  users.receiver.rest = <<>> =>
    /\ r_thread \in {"login", "join"} /\ r_pc \in {"connect", "rlogin"} => r_up = <<>>
    /\ r_thread = "login" => Len(r_up) <= 1
    /\ r_thread = "join" =>
         /\ r_pc \notin {"connect", "rlogin"}
         /\ r_pc \in {"login_reply", "join"} => r_up = <<>>
         /\ r_up # <<>> => r_up[1].tag = "join"

\* Why the receiver has ended.
ReceiverTold ==
  r_pc = "exit" =>
    \/ r_status = "3" /\ (users.receiver.reply_rest = "err" \/ users.receiver.rest # <<>>)
    \/ r_status = "4" /\ (users.receiver.reply_rest # "none" \/ r_thread = "closed")
    \/ r_status \in {"1", "-1", "SIGPIPE"} /\ r_thread = "closed"

\* The queue has the end of what was said, from the join on.
Queued ==
  /\ heard <= Len(room)
  /\ r_thread # "serve" => mqueue = <<>>
  /\ Len(mqueue) <= Len(room) - heard
  /\ \A k \in 1 .. Len(mqueue) : mqueue[k] = Len(room) - Len(mqueue) + k

\* Where the receiver is in what was said, after the first k lines to come.
Start == [of |-> heard, nth |-> 0, line |-> Reply("bad")]
Printed == IF shown = <<>> THEN Start ELSE shown[Len(shown)].got
At(k) == IF k = 0 \/ r_down[k].of = 0 THEN Printed ELSE r_down[k]

\* What comes next, after line p.
RightlyComing(l, p) == Delivered(l) /\ After(p, l)

\* What the receiver has yet to read comes in the room's order, without a gap.
InOrder ==
  /\ \A k \in 1 .. Len(r_down) :
       IF r_down[k].of = 0
       THEN shown = <<>> /\ \A j \in 1 .. k - 1 : r_down[j].of = 0
       ELSE RightlyComing(r_down[k], At(k - 1))
  /\ r_thread = "serve" =>
       LET last == At(Len(r_down)).of
       IN  last <= Len(room) - Len(mqueue) /\ (users.plain => last = Len(room) - Len(mqueue))

\* The name and the text were set by one line, unless that had no text.
SetTogether == sender = msg_text \/ sender.line.shows = "no_text"

\* What was printed, after line p.
RightlyShown(s, p) ==
  /\ Delivered(s.got) /\ After(p, s.got)
  /\ s.got.line.tag = "delivery" /\ s.got.line.here
  /\ s.name # s.got => s.got.line.shows = "no_name"
  /\ s.name # s.text => s.name.line.shows = "no_text"

ShownInOrder ==
  \A i \in 1 .. Len(shown) :
    RightlyShown(shown[i], IF i = 1 THEN Start ELSE shown[i - 1].got)

RInv ==
  /\ ReceiverTypes /\ RepliesFirst /\ RepliesAre /\ JoinComes /\ ReceiverTold
  /\ Queued /\ InOrder /\ SetTogether /\ ShownInOrder

------------------------------------------------------------------------------
(* What is said *)

Before(p, q) == p.of < q.of \/ (p.of = q.of /\ p.nth < q.nth)

\* What is on its way to the room was sent, and is later than what is there.
ToBeSaid ==
  /\ \A k \in 1 .. Len(up) :
       /\ up[k].of < asked
       /\ up[k].line.tag = "sendall" => Sent(up[k])
       /\ \A l \in 1 .. Len(room) : room[l].of # Others => Before(room[l], up[k])
  /\ \A k, l \in 1 .. Len(up) : k < l => Before(up[k], up[l])

SaidInOrder ==
  /\ \A k \in 1 .. Len(room) : room[k].of # Others => Sent(room[k]) /\ room[k].of < asked
  /\ \A k, l \in 1 .. Len(room) :
       k < l /\ room[k].of # Others /\ room[l].of # Others => Before(room[k], room[l])

WInv == SenderTypes /\ ReceiverTypes /\ ToBeSaid /\ SaidInOrder

------------------------------------------------------------------------------
(* Lines *)

\* A line read from a connection is the first; the others move up.
LEMMA Taken ==
  ASSUME NEW S, NEW q \in Seq(S), q # <<>>
  PROVE  /\ Head(q) \in S /\ Head(q) = q[1] /\ Len(q) >= 1
         /\ Tail(q) \in Seq(S) /\ Len(Tail(q)) = Len(q) - 1
         /\ \A k \in 1 .. Len(Tail(q)) : Tail(q)[k] = q[k + 1]
OBVIOUS

\* A line written to a connection is the last.
LEMMA Added ==
  ASSUME NEW S, NEW q \in Seq(S), NEW x \in S
  PROVE  /\ Append(q, x) \in Seq(S) /\ Len(Append(q, x)) = Len(q) + 1
         /\ \A k \in 1 .. Len(q) : Append(q, x)[k] = q[k]
         /\ Append(q, x)[Len(q) + 1] = x
OBVIOUS

\* Lines written together are the last ones.
LEMMA AllAdded ==
  ASSUME NEW S, NEW q \in Seq(S), NEW p \in Seq(S)
  PROVE  /\ q \o p \in Seq(S) /\ Len(q \o p) = Len(q) + Len(p)
         /\ \A k \in 1 .. Len(q) : (q \o p)[k] = q[k]
         /\ \A k \in 1 .. Len(p) : (q \o p)[Len(q) + k] = p[k]
OBVIOUS

\* A line and others after it.
LEMMA ThenAdded ==
  ASSUME NEW S, NEW q \in Seq(S), NEW x \in S, NEW p \in Seq(S), NEW r, r = q \o <<x>> \o p
  PROVE  /\ r \in Seq(S) /\ Len(r) = Len(q) + 1 + Len(p)
         /\ \A k \in 1 .. Len(q) : r[k] = q[k]
         /\ r[Len(q) + 1] = x
         /\ \A k \in 1 .. Len(p) : r[Len(q) + 1 + k] = p[k]
<1>1. PICK o : o = q \o <<x>>
  OBVIOUS
<1>2. <<x>> \in Seq(S) /\ Len(<<x>>) = 1 /\ <<x>>[1] = x
  OBVIOUS
<1>3. /\ o \in Seq(S) /\ Len(o) = Len(q) + 1
      /\ \A k \in 1 .. Len(q) : o[k] = q[k]
      /\ o[Len(q) + 1] = x
  BY <1>1, <1>2
<1>4. /\ r \in Seq(S) /\ Len(r) = Len(o) + Len(p)
      /\ \A k \in 1 .. Len(o) : r[k] = o[k]
      /\ \A k \in 1 .. Len(p) : r[Len(o) + k] = p[k]
  BY <1>1, <1>3
<1>5. Len(q) \in Nat
  OBVIOUS
<1>. QED BY <1>3, <1>4, <1>5

\* The lines of a message: the first, and its rest.
LEMMA LineOf ==
  ASSUME NEW n, NEW first, NEW rest, Len(rest) \in Nat
  PROVE  /\ \A k \in 1 .. Len(rest) + 1 :
              Lines(n, first, rest)[k] = [of |-> n, nth |-> k - 1, line |-> Part(k - 1, first, rest)]
         /\ DOMAIN Lines(n, first, rest) = 1 .. Len(rest) + 1
BY DEF Lines

LEMMA LinesAre ==
  ASSUME NEW S, NEW n \in Nat, NEW first \in S, NEW rest \in Seq(S)
  PROVE  Lines(n, first, rest) \in Seq(Numbered(S)) /\ Len(Lines(n, first, rest)) = Len(rest) + 1
<1>. DEFINE f(k) == [of |-> n, nth |-> k - 1, line |-> Part(k - 1, first, rest)]
<1>1. Len(rest) + 1 \in Nat
  OBVIOUS
<1>2. \A k \in 1 .. Len(rest) + 1 : f(k) \in Numbered(S)
  <2>. TAKE k \in 1 .. Len(rest) + 1
  <2>1. Part(k - 1, first, rest) \in S
    <3>1. CASE k = 1
      BY <3>1 DEF Part
    <3>2. CASE k > 1
      <4>1. k - 1 \in 1 .. Len(rest) /\ k - 1 # 0
        BY <3>2
      <4>. QED BY <4>1 DEF Part
    <3>. QED BY <3>1, <3>2
  <2>2. k - 1 \in Nat
    OBVIOUS
  <2>. QED BY <2>1, <2>2 DEF Numbered
<1>3. Lines(n, first, rest) = [k \in 1 .. Len(rest) + 1 |-> f(k)]
  BY DEF Lines
<1>. HIDE DEF f
<1>. QED BY <1>1, <1>2, <1>3

\* What users are and do.
LEMMA UsersAre ==
  ASSUME users \in Users
  PROVE  /\ users.types \in Seq(Typed) /\ users.blank \in Text /\ users.plain \in BOOLEAN
         /\ users.sender.rest \in Seq(UpLine) /\ users.receiver.rest \in Seq(UpLine)
         /\ users.join_rest \in Seq(UpLine)
         /\ users.sender.reply_rest \in {"none", "ok", "err", "other", "bad"}
         /\ users.receiver.reply_rest \in {"none", "ok", "err", "other", "bad"}
<1>1. users \in [types : Seq(Typed), blank : Text, sender : Name, receiver : Name,
                 join_rest : Seq(UpLine), plain : BOOLEAN]
  BY ClientsAssumption
<1>2. users.sender \in Name /\ users.receiver \in Name
  BY <1>1
<1>. QED BY <1>1, <1>2 DEF Name

LEMMA BareIs ==
  ASSUME users \in Users, NEW tag \in Tag
  PROVE  Bare(tag) \in UpLine /\ Bare(tag).tag = tag
BY UsersAre DEF Bare, UpLine, Place

LEMMA ReplyIs ==
  ASSUME NEW tag \in Tag
  PROVE  /\ Reply(tag) \in DownLine /\ Reply(tag).tag = tag
         /\ Replied(tag) \in Item /\ Replied(tag).of = 0 /\ Replied(tag).line.tag = tag
BY DEF Reply, Replied, Item, Numbered, DownLine, Shows

LEMMA SaysIs ==
  ASSUME NEW text \in Text
  PROVE  Says(text) \in UpLine /\ Says(text).tag = "sendall"
BY DEF Says, UpLine, Place, Tag

\* What is typed is a message or not.
LEMMA TypedIs ==
  ASSUME NEW t \in Typed
  PROVE  \/ t.does \in {"abort", "nothing"}
         \/ /\ t.does = "send" /\ t.line \in UpLine /\ t.rest \in Seq(UpLine)
            /\ t.line.tag # "bad"
BY DEF Typed, Command

\* What the loop reads is typed, or an empty line after the end of the input.
LEMMA InputIs ==
  ASSUME SenderTypes, ended \/ turn < Len(users.types)
  PROVE  /\ ended => /\ Input = Blank /\ Input.does = "send" /\ Input.line = Blank.line
                     /\ Input.rest = <<>> /\ Blank.line.tag = "sendall"
         /\ ~ended => /\ turn + 1 \in 1 .. Len(users.types)
                      /\ Input = users.types[turn + 1]
         /\ Input.does \notin {"abort", "nothing"} =>
              /\ Input.does = "send" /\ Input.line \in UpLine /\ Input.rest \in Seq(UpLine)
              /\ Input.line.tag # "bad"
<1>1. users.types \in Seq(Typed) /\ users.blank \in Text
  BY UsersAre DEF SenderTypes
<1>2. CASE ended
  <2>1. Says(users.blank) \in UpLine /\ Says(users.blank).tag = "sendall"
    BY <1>1, SaysIs
  <2>2. Input = Blank
    BY <1>2 DEF Input
  <2>3. Blank.does = "send" /\ Blank.line = Says(users.blank) /\ Blank.rest = <<>>
    BY DEF Blank
  <2>4. <<>> \in Seq(UpLine)
    OBVIOUS
  <2>. QED BY <1>2, <2>1, <2>2, <2>3, <2>4
<1>3. CASE ~ended
  <2>1. turn + 1 \in 1 .. Len(users.types)
    BY <1>1, <1>3 DEF SenderTypes
  <2>2. Input = users.types[turn + 1] /\ users.types[turn + 1] \in Typed
    BY <1>1, <1>3, <2>1 DEF Input
  <2>3. \/ Input.does \in {"abort", "nothing"}
        \/ /\ Input.does = "send" /\ Input.line \in UpLine /\ Input.rest \in Seq(UpLine)
           /\ Input.line.tag # "bad"
    BY <2>2, TypedIs
  <2>. QED BY <1>3, <2>1, <2>2, <2>3
<1>. QED BY <1>2, <1>3

\* A line cut off stays cut off.
LEMMA CutStays ==
  ASSUME SenderTypes, SenderTypes', users' = users, turn <= turn'
  PROVE  Cut => Cut'
<1>1. 1 .. turn \subseteq 1 .. turn'
  BY DEF SenderTypes
<1>. QED BY <1>1 DEF Cut, SaysMore

LEMMA CutSame ==
  ASSUME users' = users, turn' = turn
  PROVE  Cut' <=> Cut
BY DEF Cut, SaysMore

------------------------------------------------------------------------------
(* The sender's side *)

LEMMA InitSender == Init => SInv
<1>. SUFFICES ASSUME Init PROVE SInv
  OBVIOUS
<1>1. users.types \in Seq(Typed) /\ users \in Users
  BY UsersAre DEF Init
<1>2. up = <<>> /\ down = <<>> /\ turn = 0 /\ s_pc = "connect" /\ quitting = FALSE
  BY DEF Init
<1>3. SenderTypes
  <2>1. <<>> \in Seq(Line) /\ <<>> \in Seq(Answers) /\ 0 \in 0 .. Len(users.types)
    BY <1>1
  <2>2. room_name \in Place
    BY DEF Init, Place
  <2>. QED BY <1>1, <2>1, <2>2 DEF Init, SenderTypes
<1>4. Hello /\ AnswersAre /\ AnswerComes /\ OneAnswer /\ QuitTyped /\ EndTold
  BY <1>2 DEF Init, Hello, AnswersAre, AnswerComes, OneAnswer, QuitTyped, EndTold, Asking
<1>. QED BY <1>3, <1>4 DEF SInv

LEMMA ConnectSender == SInv /\ SenderConnects => SInv'
<1>. SUFFICES ASSUME SInv, SenderConnects PROVE SInv'
  OBVIOUS
<1>1. /\ s_pc = "connect" /\ s_pc' \in {"exit", "slogin"}
      /\ s_pc' = "exit" => s_status' = "1" /\ s_thread = "closed"
      /\ s_pc' # "exit" => s_status' = s_status
      /\ UNCHANGED <<asked, quitting, users, turn, ended, up, down, s_thread, room_name>>
  BY DEF SenderConnects, SenderEnds, serving
<1>2. SenderTypes'
  <2>. USE DEF SInv, SenderTypes
  <2>1. s_status' \in {"none", "0", "1", "3", "6", "7", "8", "SIGPIPE", "abort"}
    BY <1>1
  <2>. QED BY <1>1, <2>1
<1>3. up' = <<>> /\ down' = <<>> /\ turn' = 0 /\ quitting' = FALSE
  BY <1>1 DEF SInv, Hello, QuitTyped, SenderTypes
<1>4. Hello' /\ AnswersAre' /\ AnswerComes' /\ OneAnswer' /\ QuitTyped' /\ EndTold'
  BY <1>1, <1>3
  DEF SInv, Hello, AnswersAre, AnswerComes, OneAnswer, QuitTyped, EndTold, Asking
<1>. QED BY <1>2, <1>4 DEF SInv

\* What a message adds to the lines on the way to the server.
LEMMA Written ==
  ASSUME SenderTypes, NEW first \in UpLine, NEW rest \in Seq(UpLine),
         up' = up \o Lines(asked, first, rest)
  PROVE  /\ up' \in Seq(Line)
         /\ Len(up') = Len(up) + Len(rest) + 1
         /\ \A k \in 1 .. Len(up) : up'[k] = up[k]
         /\ up'[Len(up) + 1] = [of |-> asked, nth |-> 0, line |-> first]
         /\ \A k \in 1 .. Len(up') : k > Len(up) =>
              /\ up'[k].of = asked /\ up'[k].nth = k - Len(up) - 1
              /\ up'[k].line = Part(k - Len(up) - 1, first, rest)
         /\ \A k \in 1 .. Len(up') : k > Len(up) + 1 =>
              k - Len(up) - 1 \in 1 .. Len(rest) /\ up'[k].line = rest[k - Len(up) - 1]
<1>0. PICK p : p = Lines(asked, first, rest)
  OBVIOUS
<1>1. /\ p \in Seq(Line) /\ Len(p) = Len(rest) + 1
      /\ p[1] = [of |-> asked, nth |-> 0, line |-> first]
      /\ \A k \in 1 .. Len(p) : /\ p[k].of = asked /\ p[k].nth = k - 1
                                /\ p[k].line = Part(k - 1, first, rest)
      /\ \A k \in 1 .. Len(p) : k > 1 => k - 1 \in 1 .. Len(rest) /\ p[k].line = rest[k - 1]
  <2>1. asked \in Nat /\ Len(rest) \in Nat
    BY DEF SenderTypes
  <2>2. p \in Seq(Line) /\ Len(p) = Len(rest) + 1
    BY <1>0, <2>1, LinesAre DEF Line
  <2>3. \A k \in 1 .. Len(rest) + 1 :
          p[k] = [of |-> asked, nth |-> k - 1, line |-> Part(k - 1, first, rest)]
    BY <1>0, <2>1, LineOf
  <2>. QED BY <2>1, <2>2, <2>3 DEF Part
<1>2. p \in Seq(Line) /\ up \in Seq(Line) /\ up' = up \o p
  BY <1>0, <1>1 DEF SenderTypes
<1>3. /\ up \o p \in Seq(Line) /\ Len(up \o p) = Len(up) + Len(p)
      /\ \A k \in 1 .. Len(up) : (up \o p)[k] = up[k]
      /\ \A k \in 1 .. Len(p) : (up \o p)[Len(up) + k] = p[k]
  BY <1>2, AllAdded
<1>4. PICK n \in Nat : n = Len(up)
  BY <1>2
<1>5. \A k \in 1 .. Len(up') : k > n => k - n \in 1 .. Len(p) /\ up'[k] = p[k - n]
  <2>1. \A k \in 1 .. Len(p) : up'[n + k] = p[k]
    BY <1>2, <1>3, <1>4
  <2>. TAKE k \in 1 .. Len(up')
  <2>. HAVE k > n
  <2>2. k - n \in 1 .. Len(p) /\ n + (k - n) = k
    BY <1>1, <1>2, <1>3, <1>4
  <2>3. up'[n + (k - n)] = p[k - n]
    BY <2>1, <2>2
  <2>. QED BY <2>2, <2>3
<1>6. n + 1 \in 1 .. Len(up') /\ (n + 1) - n = 1
  BY <1>1, <1>2, <1>3, <1>4
<1>7. up'[n + 1] = p[1]
  BY <1>5, <1>6
<1>8. \A k \in 1 .. Len(up') : k > n =>
        /\ up'[k].of = asked /\ up'[k].nth = k - n - 1
        /\ up'[k].line = Part(k - n - 1, first, rest)
  BY <1>1, <1>5
<1>9. \A k \in 1 .. Len(up') : k > n + 1 =>
        k - n - 1 \in 1 .. Len(rest) /\ up'[k].line = rest[k - n - 1]
  <2>. TAKE k \in 1 .. Len(up')
  <2>. HAVE k > n + 1
  <2>1. k - n \in 1 .. Len(p) /\ up'[k] = p[k - n] /\ k - n > 1
    BY <1>4, <1>5
  <2>. QED BY <1>1, <2>1
<1>10. /\ up' \in Seq(Line) /\ Len(up') = n + Len(rest) + 1
       /\ \A k \in 1 .. n : up'[k] = up[k]
  BY <1>1, <1>2, <1>3, <1>4
<1>11. up'[n + 1] = [of |-> asked, nth |-> 0, line |-> first]
  BY <1>1, <1>7
<1>. QED BY Zenon, <1>4, <1>8, <1>9, <1>10, <1>11

\* What a send does: the lines are written, or the connection is closed.
LEMMA Sends ==
  ASSUME SenderTypes, NEW first \in UpLine, NEW rest \in Seq(UpLine), NEW next, NEW failed \in BOOLEAN,
         SenderSends(Lines(asked, first, rest), next, failed)
  PROVE  /\ asked' = asked + 1 /\ up' \in Seq(Line)
         /\ \/ up' = up \o Lines(asked, first, rest) /\ s_pc' = next /\ s_status' = s_status
            \/ /\ s_thread = "closed" /\ up' = up
               /\ failed \/ (s_pc' = "exit" /\ s_status' = "SIGPIPE")
<1>1. /\ asked' = asked + 1
      /\ \/ up' = up \o Lines(asked, first, rest) /\ s_pc' = next /\ s_status' = s_status
         \/ /\ s_thread = "closed" /\ up' = up
            /\ failed \/ (s_pc' = "exit" /\ s_status' = "SIGPIPE")
  BY DEF SenderSends, SenderEnds
<1>2. up \in Seq(Line)
  BY DEF SenderTypes
<1>3. up' = up \o Lines(asked, first, rest) => up' \in Seq(Line)
  BY Written
<1>. QED BY <1>1, <1>2, <1>3

LEMMA HelloSender == SInv /\ SenderSaysHello => SInv'
<1>. SUFFICES ASSUME SInv, SenderSaysHello PROVE SInv'
  OBVIOUS
<1>0. SenderTypes /\ asked \in Nat /\ users \in Users
  BY DEF SInv, SenderTypes
<1>. DEFINE first == Bare("slogin")
            rest == users.sender.rest
<1>1. /\ s_pc = "slogin" /\ up = <<>> /\ down = <<>> /\ turn = 0 /\ quitting = FALSE
      /\ s_thread # "loop"
      /\ UNCHANGED <<quitting, users, turn, ended, down, s_thread, room_name>>
  BY DEF SInv, SenderSaysHello, serving, Hello, QuitTyped, SenderTypes
<1>2. first \in UpLine /\ first.tag = "slogin" /\ rest \in Seq(UpLine)
  BY <1>0, UsersAre, BareIs DEF Tag
<1>3. /\ asked' = asked + 1 /\ up' \in Seq(Line)
      /\ \/ s_pc' = "login" /\ s_status' = s_status
         \/ s_thread = "closed" /\ s_pc' = "exit" /\ s_status' = "SIGPIPE"
      /\ s_thread # "closed" => up' = up \o Lines(asked, first, rest)
  <2>. HIDE DEF first, rest
  <2>1. SenderSends(Lines(asked, first, rest), "login", s_pc' = "login" /\ UNCHANGED s_status)
    BY DEF SenderSaysHello, first, rest
  <2>2. (s_pc' = "login" /\ UNCHANGED s_status) \in BOOLEAN
    OBVIOUS
  <2>. QED BY <1>0, <1>2, <2>1, <2>2, Sends
<1>. HIDE DEF first, rest
<1>4. s_thread # "closed" =>
        /\ 1 \in 1 .. Len(up')
        /\ up'[1] = [of |-> asked, nth |-> 0, line |-> first]
        /\ \A k \in 1 .. Len(up') : k > 1 => k - 1 \in 1 .. Len(rest) /\ up'[k].line = rest[k - 1]
  <2>. HAVE s_thread # "closed"
  <2>0. Len(up) = 0
    BY <1>1
  <2>1. up' = up \o Lines(asked, first, rest)
    BY <1>3
  <2>2. /\ Len(up') = Len(up) + Len(rest) + 1
        /\ up'[Len(up) + 1] = [of |-> asked, nth |-> 0, line |-> first]
        /\ \A k \in 1 .. Len(up') : k > Len(up) + 1 =>
             k - Len(up) - 1 \in 1 .. Len(rest) /\ up'[k].line = rest[k - Len(up) - 1]
    BY <1>0, <1>2, <2>1, Written
  <2>3. \A k \in 1 .. Len(up') : k > 1 => k - 1 \in 1 .. Len(rest) /\ up'[k].line = rest[k - 1]
    <3>. TAKE k \in 1 .. Len(up')
    <3>. HAVE k > 1
    <3>1. k - 0 - 1 = k - 1
      OBVIOUS
    <3>. QED BY <2>0, <2>2, <3>1
  <2>. QED BY <1>2, <2>0, <2>2, <2>3
<1>5. SenderTypes'
  BY <1>1, <1>3 DEF SInv, SenderTypes
<1>6. Hello'
  <2>1. s_thread' = "login" => up'[1].line.tag # "bad" /\ s_pc' = "login"
    BY <1>1, <1>2, <1>3, <1>4
  <2>. QED BY <1>1, <1>3, <2>1 DEF Hello
<1>7. EndTold' /\ QuitTyped' /\ AnswersAre'
  BY <1>1, <1>3 DEF EndTold, QuitTyped, AnswersAre
<1>8. AnswerComes'
  BY <1>1, <1>2, <1>4 DEF AnswerComes, Answerable
<1>9. OneAnswer'
  <2>. SUFFICES ASSUME ~Cut', s_thread # "closed" PROVE OneAnswer'
    BY <1>1 DEF OneAnswer
  <2>1. \A k \in 1 .. Len(rest) : rest[k].tag = "bad"
    BY <1>1 DEF Cut, SaysMore, rest
  <2>2. \A k \in 1 .. Len(up') : up'[k].line.tag # "bad" => k = 1
    <3>. TAKE k \in 1 .. Len(up')
    <3>. HAVE up'[k].line.tag # "bad"
    <3>. QED BY <1>4, <2>1
  <2>3. up'[1].of = asked' - 1
    BY <1>0, <1>3, <1>4
  <2>. QED BY <1>1, <1>3, <2>2, <2>3 DEF OneAnswer, Asking, Answerable
<1>. QED BY <1>5, <1>6, <1>7, <1>8, <1>9 DEF SInv

\* What the sender reads is the first answer, or nothing at the connection's end.
LEMMA Reads ==
  ASSUME SenderTypes, Arrives(down, s_thread), down' = Consumed(down)
  PROVE  /\ down' \in Seq(Answers)
         /\ \/ /\ down # <<>> /\ Response = down[1].tag /\ down[1] \in Answers
               /\ Len(down) >= 1 /\ Len(down') = Len(down) - 1
            \/ down = <<>> /\ down' = <<>> /\ s_thread = "closed" /\ Response = "end"
         /\ \A k \in 1 .. Len(down') : k + 1 \in 1 .. Len(down) /\ down'[k] = down[k + 1]
<1>1. down \in Seq(Answers)
  BY DEF SenderTypes
<1>2. CASE down = <<>>
  BY <1>1, <1>2 DEF Arrives, Consumed, Response
<1>3. CASE down # <<>>
  <2>1. down' = Tail(down) /\ Response = Head(down).tag
    BY <1>3 DEF Consumed, Response
  <2>2. /\ Head(down) \in Answers /\ Head(down) = down[1] /\ Len(down) >= 1
        /\ down' \in Seq(Answers) /\ Len(down') = Len(down) - 1
        /\ \A k \in 1 .. Len(down') : down'[k] = down[k + 1]
    BY <1>1, <1>3, <2>1, Taken
  <2>3. \A k \in 1 .. Len(down') : k + 1 \in 1 .. Len(down)
    BY <1>1, <2>2
  <2>. QED BY <1>3, <2>1, <2>2, <2>3
<1>. QED BY <1>2, <1>3

\* One answer is read: unless a line was cut off no other is there.
LEMMA LastRead ==
  ASSUME SenderTypes, Arrives(down, s_thread), down' = Consumed(down),
         down # <<>>, Len(down) = 1
  PROVE  down' = <<>>
<1>1. down' \in Seq(Answers) /\ Len(down') = Len(down) - 1
  BY Reads
<1>. QED BY <1>1

LEMMA LoginAnswered == SInv /\ SenderLogsIn => SInv'
<1>. SUFFICES ASSUME SInv, SenderLogsIn PROVE SInv'
  OBVIOUS
<1>0. SenderTypes
  BY DEF SInv
<1>1. /\ s_pc = "login" /\ Arrives(down, s_thread) /\ down' = Consumed(down)
      /\ IF Response = "err" THEN SenderEnds("3") ELSE s_pc' = "input" /\ UNCHANGED s_status
      /\ UNCHANGED <<asked, quitting, users, turn, ended, up, s_thread, room_name>>
  BY DEF SenderLogsIn, serving
<1>2. /\ down' \in Seq(Answers)
      /\ \/ /\ down # <<>> /\ Response = down[1].tag
            /\ Len(down) >= 1 /\ Len(down') = Len(down) - 1
         \/ down = <<>> /\ down' = <<>> /\ s_thread = "closed" /\ Response = "end"
      /\ \A k \in 1 .. Len(down') : k + 1 \in 1 .. Len(down) /\ down'[k] = down[k + 1]
  BY <1>0, <1>1, Reads
<1>3. Response # "err"
  BY <1>1, <1>2 DEF SInv, Hello
<1>4. s_pc' = "input" /\ s_status' = s_status
  BY <1>1, <1>3
<1>5. SenderTypes'
  BY <1>1, <1>2, <1>4 DEF SInv, SenderTypes
<1>6. Hello' /\ AnswerComes' /\ EndTold' /\ QuitTyped'
  <2>1. s_thread # "login"
    BY <1>2 DEF SInv, Hello
  <2>. QED BY <1>1, <1>4, <2>1
       DEF SInv, Hello, AnswerComes, EndTold, QuitTyped, Asking, LastTyped
<1>7. AnswersAre'
  BY <1>1, <1>2 DEF SInv, AnswersAre
<1>8. OneAnswer'
  <2>. SUFFICES ASSUME ~Cut' PROVE OneAnswer'
    BY DEF OneAnswer
  <2>1. ~Cut
    BY <1>1, CutSame
  <2>2. down' = <<>>
    BY <1>0, <1>1, <1>2, <2>1, LastRead DEF SInv, OneAnswer
  <2>3. s_thread # "closed" => \A k \in 1 .. Len(up) : ~Answerable(k)
    BY <1>1, <1>2, <2>1 DEF SInv, OneAnswer
  <2>. QED BY <1>1, <2>2, <2>3 DEF OneAnswer, Answerable
<1>. QED BY <1>5, <1>6, <1>7, <1>8 DEF SInv

LEMMA ReplyRead == SInv /\ SenderReads => SInv'
<1>. SUFFICES ASSUME SInv, SenderReads PROVE SInv'
  OBVIOUS
<1>0. SenderTypes /\ users \in Users
  BY DEF SInv, SenderTypes
<1>1. /\ s_pc = "reply" /\ Arrives(down, s_thread) /\ down' = Consumed(down)
      /\ UNCHANGED <<asked, quitting, users, turn, ended, up, s_thread, room_name>>
  BY DEF SenderReads, serving
<1>2. /\ down' \in Seq(Answers)
      /\ \/ /\ down # <<>> /\ Response = down[1].tag /\ down[1] \in Answers
            /\ Len(down) >= 1 /\ Len(down') = Len(down) - 1
         \/ down = <<>> /\ down' = <<>> /\ s_thread = "closed" /\ Response = "end"
      /\ \A k \in 1 .. Len(down') : k + 1 \in 1 .. Len(down) /\ down'[k] = down[k + 1]
  BY <1>0, <1>1, Reads
<1>3. down # <<>> => Response \in {"ok", "err", users.sender.reply_rest}
  <2>. HAVE down # <<>>
  <2>1. 1 \in 1 .. Len(down) /\ Response = down[1].tag
    BY <1>0, <1>2 DEF SenderTypes
  <2>. QED BY <2>1 DEF SInv, AnswersAre
<1>4. \/ down = <<>> /\ s_thread = "closed" /\ s_pc' = "exit" /\ s_status' = "8"
      \/ down # <<>> /\ quitting /\ s_pc' = "exit" /\ s_status' = "0"
      \/ down # <<>> /\ ~quitting /\ s_pc' = "input" /\ s_status' = s_status
      \/ /\ down # <<>> /\ s_pc' = "exit" /\ s_status' = "7"
         /\ Response \notin {"end", "ok", "err", "bad"}
  <2>1. CASE down = <<>>
    BY <1>2, <2>1 DEF SenderReads, SenderEnds
  <2>2. CASE down # <<>> /\ Response = "end"
    <3>1. users.sender.reply_rest # "end"
      BY <1>0, UsersAre
    <3>. QED BY <1>3, <2>2, <3>1
  <2>3. CASE down # <<>> /\ Response \in {"ok", "err", "bad"}
    BY <2>3 DEF SenderReads, SenderEnds
  <2>4. CASE down # <<>> /\ Response \notin {"end", "ok", "err", "bad"}
    BY <2>4 DEF SenderReads, SenderEnds
  <2>. QED BY <2>1, <2>2, <2>3, <2>4
<1>5. SenderTypes'
  BY <1>1, <1>2, <1>4 DEF SInv, SenderTypes
<1>6. Hello' /\ AnswerComes' /\ QuitTyped'
  <2>1. s_thread # "login"
    BY <1>1 DEF SInv, Hello
  <2>. QED BY <1>1, <1>4, <2>1 DEF SInv, Hello, AnswerComes, QuitTyped, Asking, LastTyped
<1>7. AnswersAre'
  BY <1>1, <1>2 DEF SInv, AnswersAre
<1>8. EndTold'
  <2>1. s_thread = "closed" \/ Cut \/ ~quitting \/ down = <<>>
    BY <1>1 DEF SInv, OneAnswer
  <2>2. Cut' <=> Cut
    BY <1>1, CutSame
  <2>3. s_pc' = "exit" /\ s_status' = "7" => users.sender.reply_rest = "other"
    <3>. HAVE s_pc' = "exit" /\ s_status' = "7"
    <3>1. Response \notin {"end", "ok", "err", "bad"} /\ down # <<>>
      BY <1>4
    <3>2. Response \in Tag
      BY <1>2, <3>1 DEF Answers
    <3>3. users.sender.reply_rest \in {"none", "ok", "err", "other", "bad"}
      BY <1>0, UsersAre
    <3>4. Response = users.sender.reply_rest
      BY <1>3, <3>1
    <3>. QED BY <3>1, <3>2, <3>3, <3>4 DEF Tag
  <2>. QED BY <1>1, <1>4, <2>1, <2>2, <2>3 DEF EndTold
<1>9. OneAnswer'
  <2>. SUFFICES ASSUME ~Cut', s_pc' = "input" PROVE OneAnswer'
    BY <1>4 DEF OneAnswer
  <2>1. ~Cut /\ down # <<>> /\ ~quitting
    BY <1>1, <1>4, CutSame
  <2>2. down' = <<>>
    BY <1>0, <1>1, <2>1, LastRead DEF SInv, OneAnswer
  <2>3. s_thread # "closed" => \A k \in 1 .. Len(up) : ~Answerable(k)
    BY <1>1, <2>1 DEF SInv, OneAnswer
  <2>. QED BY <1>1, <2>1, <2>2, <2>3 DEF OneAnswer, Answerable
<1>. QED BY <1>5, <1>6, <1>7, <1>8, <1>9 DEF SInv

\* A user's line becomes one message.
LEMMA Asks ==
  ASSUME SenderTypes, NEW t, t.line \in UpLine, t.rest \in Seq(UpLine), Request(t)
  PROVE  /\ asked' = asked + 1 /\ quitting' = (t.line.tag = "quit") /\ up' \in Seq(Line)
         /\ \/ s_pc' = "reply" /\ s_status' = s_status
            \/ s_pc' = "exit" /\ s_status' \in {"6", "SIGPIPE"} /\ s_thread = "closed"
         /\ up' = up \o Lines(asked, t.line, t.rest) \/ (s_thread = "closed" /\ up' = up)
<1>1. /\ quitting' = (t.line.tag = "quit")
      /\ SenderSends(Lines(asked, t.line, t.rest), "reply", SenderEnds("6"))
  BY DEF Request, Exits
<1>2. SenderEnds("6") \in BOOLEAN
  BY DEF SenderEnds
<1>3. /\ asked' = asked + 1 /\ up' \in Seq(Line)
      /\ \/ up' = up \o Lines(asked, t.line, t.rest) /\ s_pc' = "reply" /\ s_status' = s_status
         \/ /\ s_thread = "closed" /\ up' = up
            /\ SenderEnds("6") \/ (s_pc' = "exit" /\ s_status' = "SIGPIPE")
  BY <1>1, <1>2, Sends
<1>. QED BY <1>1, <1>3 DEF SenderEnds

LEMMA TypeSender == SInv /\ Type => SInv'
<1>. SUFFICES ASSUME SInv, Type PROVE SInv'
  OBVIOUS
<1>0. SenderTypes /\ users \in Users /\ users.types \in Seq(Typed) /\ turn \in Nat
  BY UsersAre DEF SInv, SenderTypes
<1>1. /\ s_pc = "input" /\ (ended \/ turn < Len(users.types))
      /\ turn' = IF ended THEN turn ELSE turn + 1
      /\ UNCHANGED <<users, ended, down, s_thread, room_name>>
  BY DEF Type, serving
<1>2. /\ ended => Input = Blank /\ Input.does = "send" /\ Input.line = Blank.line
                  /\ Input.rest = <<>> /\ Blank.line.tag = "sendall"
      /\ ~ended => turn + 1 \in 1 .. Len(users.types) /\ Input = users.types[turn + 1]
      /\ Input.does \notin {"abort", "nothing"} =>
           /\ Input.does = "send" /\ Input.line \in UpLine /\ Input.rest \in Seq(UpLine)
           /\ Input.line.tag # "bad"
  BY <1>0, <1>1, InputIs
<1>3. quitting = FALSE /\ s_thread # "login"
  BY <1>0, <1>1 DEF SInv, QuitTyped, SenderTypes, Hello
<1>4. turn' \in 0 .. Len(users.types) /\ turn <= turn'
  BY <1>0, <1>1, <1>2 DEF SenderTypes
<1>5. CASE Input.does \in {"abort", "nothing"}
  <2>1. /\ UNCHANGED <<asked, quitting, up>>
        /\ \/ Input.does = "abort" /\ s_pc' = "exit" /\ s_status' = "abort"
           \/ Input.does = "nothing" /\ s_pc' = s_pc /\ s_status' = s_status
    BY <1>5 DEF Type, SenderEnds
  <2>2. SenderTypes'
    BY <1>1, <1>4, <2>1 DEF SInv, SenderTypes
  <2>3. Hello' /\ AnswerComes' /\ QuitTyped' /\ AnswersAre'
    BY <1>1, <1>3, <2>1 DEF SInv, Hello, AnswerComes, QuitTyped, Asking, AnswersAre
  <2>4. EndTold'
    <3>1. ~ended /\ turn' = turn + 1
      BY <1>1, <1>2, <1>5
    <3>. QED BY <1>0, <1>1, <1>2, <2>1, <3>1 DEF EndTold, LastTyped
  <2>5. OneAnswer'
    <3>. SUFFICES ASSUME ~Cut', s_pc' = "input" PROVE OneAnswer'
      BY <1>1, <2>1 DEF OneAnswer
    <3>1. ~Cut
      BY <1>0, <1>1, <1>4, <2>2, CutStays
    <3>. QED BY <1>1, <1>3, <2>1, <3>1 DEF SInv, OneAnswer, Asking, Answerable
  <2>. QED BY <2>2, <2>3, <2>4, <2>5 DEF SInv
<1>6. CASE Input.does \notin {"abort", "nothing"}
  <2>0. Request(Input)
    BY <1>6 DEF Type
  <2>1. /\ asked' = asked + 1 /\ quitting' = (Input.line.tag = "quit") /\ up' \in Seq(Line)
        /\ \/ s_pc' = "reply" /\ s_status' = s_status
           \/ s_pc' = "exit" /\ s_status' \in {"6", "SIGPIPE"} /\ s_thread = "closed"
        /\ up' = up \o Lines(asked, Input.line, Input.rest) \/ (s_thread = "closed" /\ up' = up)
    BY <1>0, <1>2, <1>6, <2>0, Asks
  <2>2. SenderTypes'
    BY <1>1, <1>4, <2>1 DEF SInv, SenderTypes
  <2>3. Hello' /\ EndTold' /\ AnswersAre'
    BY <1>1, <1>3, <2>1 DEF SInv, Hello, EndTold, AnswersAre
  <2>4. QuitTyped'
    <3>. SUFFICES ASSUME quitting' PROVE QuitTyped'
      BY DEF QuitTyped
    <3>1. Input.line.tag = "quit"
      BY <2>1
    <3>2. ~ended /\ turn' = turn + 1 /\ Input = users.types[turn']
      BY <1>1, <1>2, <3>1
    <3>3. s_pc' \in {"reply", "exit"} /\ turn' > 0
      BY <1>0, <2>1, <3>2
    <3>. QED BY <1>1, <1>2, <1>6, <3>1, <3>2, <3>3 DEF QuitTyped, LastTyped
  <2>5. PICK n \in Nat : n = Len(up)
    BY <1>0 DEF SenderTypes
  <2>6. s_thread # "closed" =>
            /\ n + 1 \in 1 .. Len(up')
            /\ up'[n + 1] = [of |-> asked, nth |-> 0, line |-> Input.line]
            /\ \A k \in 1 .. n : up'[k] = up[k]
            /\ \A k \in 1 .. Len(up') : k > n + 1 =>
                 /\ k - n - 1 \in 1 .. Len(Input.rest)
                 /\ up'[k].line = Input.rest[k - n - 1]
    <3>. HAVE s_thread # "closed"
    <3>1. up' = up \o Lines(asked, Input.line, Input.rest)
      BY <2>1
    <3>2. /\ Len(up') = Len(up) + Len(Input.rest) + 1
          /\ \A k \in 1 .. Len(up) : up'[k] = up[k]
          /\ up'[Len(up) + 1] = [of |-> asked, nth |-> 0, line |-> Input.line]
          /\ \A k \in 1 .. Len(up') : k > Len(up) + 1 =>
               /\ k - Len(up) - 1 \in 1 .. Len(Input.rest)
               /\ up'[k].line = Input.rest[k - Len(up) - 1]
      BY <1>0, <1>2, <1>6, <3>1, Written
    <3>3. Len(up) + 1 \in 1 .. Len(up')
      <4>1. Len(up) \in Nat /\ Len(Input.rest) \in Nat
        BY <1>2, <1>6 DEF SInv, SenderTypes
      <4>. QED BY <3>2, <4>1
    <3>. QED BY <2>5, <3>2, <3>3
  <2>7. AnswerComes'
    BY <1>1, <1>2, <1>6, <2>5, <2>6 DEF AnswerComes, Answerable
  <2>8. OneAnswer'
    <3>. SUFFICES ASSUME ~Cut', s_pc' = "reply" PROVE OneAnswer'
      BY <2>1 DEF OneAnswer
    <3>1. ~Cut
      BY <1>0, <1>1, <1>4, <2>2, CutStays
    <3>2. down = <<>> /\ (s_thread # "closed" => \A k \in 1 .. Len(up) : up[k].line.tag = "bad")
      BY <1>1, <3>1 DEF SInv, OneAnswer, Asking, Answerable
    <3>. SUFFICES ASSUME s_thread # "closed" PROVE OneAnswer'
      BY <1>1, <3>2 DEF OneAnswer
    <3>3. \A k \in 1 .. Len(Input.rest) : Input.rest[k].tag = "bad"
      <4>1. CASE ended
        BY <1>2, <4>1
      <4>2. CASE ~ended
        <5>1. turn' \in 1 .. turn' /\ users'.types[turn'] = Input
          BY <1>0, <1>1, <1>2, <4>2
        <5>. QED BY <1>2, <1>6, <5>1 DEF Cut, SaysMore
      <4>. QED BY <4>1, <4>2
    <3>4. \A k \in 1 .. Len(up') : up'[k].line.tag # "bad" => k = n + 1
      <4>. TAKE k \in 1 .. Len(up')
      <4>1. CASE k \in 1 .. n
        BY <2>5, <2>6, <3>2, <4>1
      <4>2. CASE k > n + 1
        <5>1. k - n - 1 \in 1 .. Len(Input.rest) /\ up'[k].line = Input.rest[k - n - 1]
          BY <2>5, <2>6, <4>2
        <5>. QED BY <3>3, <5>1
      <4>3. k \in 1 .. n \/ k = n + 1 \/ k > n + 1
        OBVIOUS
      <4>. QED BY <4>1, <4>2, <4>3
    <3>5. up'[n + 1].of = asked' - 1 /\ (quitting' => up'[n + 1].line.tag = "quit")
      <4>1. up'[n + 1] = [of |-> asked, nth |-> 0, line |-> Input.line]
        BY <2>5, <2>6
      <4>2. up'[n + 1].of = asked /\ up'[n + 1].line = Input.line
        BY <4>1
      <4>3. asked = asked' - 1
        BY <1>0, <2>1 DEF SenderTypes
      <4>. QED BY <2>1, <4>2, <4>3
    <3>. QED BY <1>1, <3>2, <3>4, <3>5 DEF OneAnswer, Asking, Answerable
  <2>. QED BY <2>2, <2>3, <2>4, <2>7, <2>8 DEF SInv
<1>. QED BY <1>5, <1>6

LEMMA EndInputSender == SInv /\ EndInput => SInv'
<1>. SUFFICES ASSUME SInv, EndInput PROVE SInv'
  OBVIOUS
<1>1. ended' = TRUE
      /\ UNCHANGED <<s_pc, s_status, asked, quitting, users, turn, up, down, s_thread, room_name>>
  BY DEF EndInput, serving
<1>2. Cut' <=> Cut
  BY <1>1, CutSame
<1>3. SenderTypes'
  BY <1>1 DEF SInv, SenderTypes
<1>4. Hello' /\ AnswersAre' /\ AnswerComes' /\ QuitTyped' /\ EndTold'
  BY <1>1, <1>2
  DEF SInv, Hello, AnswersAre, AnswerComes, QuitTyped, EndTold, Asking, Answerable, LastTyped
<1>5. OneAnswer'
  BY <1>1, <1>2 DEF SInv, OneAnswer, Asking, Answerable
<1>. QED BY <1>3, <1>4, <1>5 DEF SInv

\* The thread takes the next line, and the others move up.
LEMMA LineTaken ==
  ASSUME SenderTypes, up # <<>>, up' = Tail(up)
  PROVE  /\ Head(up) \in Line /\ Head(up) = up[1] /\ 1 \in 1 .. Len(up)
         /\ up' \in Seq(Line) /\ Len(up') = Len(up) - 1
         /\ \A k \in 1 .. Len(up') : k + 1 \in 1 .. Len(up) /\ up'[k] = up[k + 1]
<1>1. up \in Seq(Line)
  BY DEF SenderTypes
<1>2. /\ Head(up) \in Line /\ Head(up) = up[1] /\ Len(up) >= 1
      /\ up' \in Seq(Line) /\ Len(up') = Len(up) - 1
      /\ \A k \in 1 .. Len(up') : up'[k] = up[k + 1]
  BY <1>1, Taken
<1>3. Len(up) \in Nat
  BY <1>1
<1>. QED BY <1>2, <1>3

LEMMA LoginServed == SInv /\ ServeLogin => SInv'
<1>. SUFFICES ASSUME SInv, ServeLogin PROVE SInv'
  OBVIOUS
<1>0. SenderTypes /\ users \in Users
  BY DEF SInv, SenderTypes
<1>. DEFINE more == users.sender.reply_rest
            ok == [of |-> Head(up).of, tag |-> "ok"]
            cut == [of |-> Head(up).of, tag |-> more]
<1>1. /\ s_thread = "login" /\ up # <<>> /\ up' = Tail(up) /\ s_thread' = "loop"
      /\ UNCHANGED <<s_pc, s_status, asked, quitting, users, turn, ended, room_name>>
  BY DEF ServeLogin, program
<1>2. /\ Head(up) \in Line /\ Head(up) = up[1] /\ 1 \in 1 .. Len(up)
      /\ up' \in Seq(Line) /\ Len(up') = Len(up) - 1
      /\ \A k \in 1 .. Len(up') : k + 1 \in 1 .. Len(up) /\ up'[k] = up[k + 1]
  BY <1>0, <1>1, LineTaken
<1>3. down = <<>> /\ s_pc = "login" /\ turn = 0 /\ ~quitting
  <2>1. s_pc \in {"connect", "slogin", "login"} /\ down = <<>>
    BY <1>1 DEF SInv, Hello
  <2>. QED BY <1>1, <2>1 DEF SInv, Hello, QuitTyped
<1>4. ok \in Answers /\ (more # "none" => cut \in Answers)
  <2>1. Head(up).of \in Nat
    BY <1>2 DEF Line, Numbered
  <2>2. more \in {"none", "ok", "err", "other", "bad"}
    BY <1>0, UsersAre
  <2>. HIDE DEF more
  <2>. QED BY <2>1, <2>2 DEF Answers, Tag
<1>5. /\ down' \in Seq(Answers) /\ down' # <<>> /\ (more = "none" => Len(down') = 1)
      /\ down'[1].tag = "ok" /\ down'[1].of = up[1].of
      /\ \A k \in 1 .. Len(down') : down'[k].tag \in {"ok", more}
  <2>1. ok.tag = "ok" /\ ok.of = up[1].of /\ cut.tag = more
    BY <1>2
  <2>. DEFINE a == IF more = "none" THEN <<>> ELSE <<cut>>
  <2>2. down' = down \o <<ok>> \o a
    BY DEF ServeLogin
  <2>. HIDE DEF ok, cut, more
  <2>3. a \in Seq(Answers) /\ (more = "none" => Len(a) = 0) /\ \A k \in 1 .. Len(a) : a[k] = cut
    BY <1>4
  <2>4. down \in Seq(Answers) /\ Len(down) = 0
    BY <1>3
  <2>. HIDE DEF a
  <2>5. /\ down' \in Seq(Answers) /\ Len(down') = Len(down) + 1 + Len(a)
        /\ down'[Len(down) + 1] = ok
        /\ \A k \in 1 .. Len(a) : down'[Len(down) + 1 + k] = a[k]
    BY <1>4, <2>2, <2>3, <2>4, ThenAdded
  <2>6. Len(a) \in Nat
    BY <2>3
  <2>7. down'[1] = ok /\ Len(down') = 1 + Len(a) /\ down' # <<>>
    BY <2>4, <2>5, <2>6
  <2>8. \A k \in 1 .. Len(down') : k = 1 \/ down'[k] = cut
    <3>. SUFFICES ASSUME NEW k \in 1 .. Len(down'), k # 1 PROVE down'[k] = cut
      OBVIOUS
    <3>1. k - 1 \in 1 .. Len(a) /\ 0 + 1 + (k - 1) = k
      BY <2>6, <2>7
    <3>. QED BY <2>3, <2>4, <2>5, <3>1
  <2>. QED BY <2>1, <2>3, <2>5, <2>6, <2>7, <2>8
<1>. HIDE DEF ok, cut
<1>6. SenderTypes'
  BY <1>1, <1>2, <1>5 DEF SInv, SenderTypes
<1>7. Hello' /\ AnswerComes' /\ QuitTyped' /\ EndTold'
  BY <1>1, <1>3, <1>5 DEF SInv, Hello, AnswerComes, QuitTyped, EndTold
<1>8. AnswersAre'
  BY <1>1, <1>5 DEF AnswersAre
<1>9. OneAnswer'
  <2>. SUFFICES ASSUME ~Cut' PROVE OneAnswer'
    BY DEF OneAnswer
  <2>1. ~Cut
    BY <1>1, CutSame
  <2>2. Len(down') = 1
    BY <1>5, <2>1 DEF Cut
  <2>3. up[1].line.tag # "bad"
    BY <1>1 DEF SInv, Hello
  <2>4. /\ up[1].of = asked - 1
        /\ \A k \in 1 .. Len(up) : Answerable(k) => k = 1
    BY <1>1, <1>2, <1>3, <2>1, <2>3 DEF SInv, OneAnswer, Answerable
  <2>5. \A k \in 1 .. Len(up') : up'[k].line.tag = "bad"
    BY <1>2, <2>4 DEF Answerable
  <2>. QED BY <1>1, <1>3, <1>5, <2>2, <2>4, <2>5 DEF OneAnswer, Asking, Answerable
<1>. QED BY <1>6, <1>7, <1>8, <1>9 DEF SInv

\* What chat_with_sender does to the connection.
LEMMA Served ==
  ASSUME SenderTypes, ServeSender
  PROVE  /\ s_thread = "loop" /\ s_thread' \in {"loop", "closed"} /\ room_name' \in Place
         /\ UNCHANGED <<s_pc, s_status, asked, quitting, users, turn, ended>>
         /\ up # <<>> /\ up[1] \in Line /\ 1 \in 1 .. Len(up)
         /\ up' \in Seq(Line) /\ Len(up') = Len(up) - 1
         /\ \A k \in 1 .. Len(up') : k + 1 \in 1 .. Len(up) /\ up'[k] = up[k + 1]
         /\ down' \in Seq(Answers)
         /\ \/ up[1].line.tag = "bad" /\ down' = down
            \/ /\ up[1].line.tag # "bad" /\ Len(down') = Len(down) + 1 /\ down' # <<>>
               /\ \A k \in 1 .. Len(down) : down'[k] = down[k]
               /\ down'[Len(down) + 1].of = up[1].of
               /\ down'[Len(down) + 1].tag \in {"ok", "err"}
         /\ s_thread' = "closed" <=> up[1].line.tag = "quit"
<1>0. down \in Seq(Answers) /\ room_name \in Place
  BY DEF SenderTypes
<1>1. /\ s_thread = "loop" /\ up # <<>> /\ up' = Tail(up)
      /\ Handle(Head(up))
      /\ UNCHANGED <<s_pc, s_status, asked, quitting, users, turn, ended>>
  BY DEF ServeSender, program
<1>2. /\ Head(up) \in Line /\ Head(up) = up[1] /\ 1 \in 1 .. Len(up)
      /\ up' \in Seq(Line) /\ Len(up') = Len(up) - 1
      /\ \A k \in 1 .. Len(up') : k + 1 \in 1 .. Len(up) /\ up'[k] = up[k + 1]
  BY <1>1, LineTaken
<1>3. up[1].of \in Nat /\ up[1].line \in UpLine /\ up[1].line.to \in Place
  BY <1>2 DEF Line, Numbered, UpLine
<1>. DEFINE answer == [of |-> up[1].of, tag |-> IF Accepted(up[1].line) THEN "ok" ELSE "err"]
<1>4. answer \in Answers /\ answer.of = up[1].of /\ answer.tag \in {"ok", "err"}
  BY <1>3 DEF Answers, Tag
<1>5. /\ IF up[1].line.tag = "bad" THEN UNCHANGED down ELSE down' = Append(down, answer)
      /\ s_thread' = IF up[1].line.tag = "quit" THEN "closed" ELSE "loop"
  BY <1>1, <1>2 DEF Handle, Answer, Answered
<1>6. room_name' \in Place
  BY <1>0, <1>1, <1>2, <1>3 DEF Handle, Place
<1>. HIDE DEF answer
<1>7. CASE up[1].line.tag = "bad"
  BY <1>0, <1>1, <1>2, <1>5, <1>6, <1>7
<1>8. CASE up[1].line.tag # "bad"
  <2>1. down' = Append(down, answer)
    BY <1>5, <1>8
  <2>2. /\ down' \in Seq(Answers) /\ Len(down') = Len(down) + 1
        /\ \A k \in 1 .. Len(down) : down'[k] = down[k]
        /\ down'[Len(down) + 1] = answer
    BY <1>0, <1>4, <2>1, Added
  <2>3. down' # <<>>
    BY <1>0, <2>1
  <2>. QED BY <1>1, <1>2, <1>4, <1>5, <1>6, <1>8, <2>2, <2>3
<1>. QED BY <1>7, <1>8

LEMMA SenderServed == SInv /\ ServeSender => SInv'
<1>. SUFFICES ASSUME SInv, ServeSender PROVE SInv'
  OBVIOUS
<1>0. SenderTypes /\ up \in Seq(Line) /\ down \in Seq(Answers)
  BY DEF SInv, SenderTypes
<1>1. /\ s_thread = "loop" /\ s_thread' \in {"loop", "closed"} /\ room_name' \in Place
      /\ UNCHANGED <<s_pc, s_status, asked, quitting, users, turn, ended>>
      /\ up # <<>> /\ up[1] \in Line /\ 1 \in 1 .. Len(up)
      /\ up' \in Seq(Line) /\ Len(up') = Len(up) - 1
      /\ \A k \in 1 .. Len(up') : k + 1 \in 1 .. Len(up) /\ up'[k] = up[k + 1]
      /\ down' \in Seq(Answers)
      /\ \/ up[1].line.tag = "bad" /\ down' = down
         \/ /\ up[1].line.tag # "bad" /\ Len(down') = Len(down) + 1 /\ down' # <<>>
            /\ \A k \in 1 .. Len(down) : down'[k] = down[k]
            /\ down'[Len(down) + 1].of = up[1].of
            /\ down'[Len(down) + 1].tag \in {"ok", "err"}
      /\ s_thread' = "closed" <=> up[1].line.tag = "quit"
  BY <1>0, Served
<1>2. Cut' <=> Cut
  BY <1>1, CutSame
<1>3. SenderTypes'
  BY <1>1 DEF SInv, SenderTypes
<1>4. Hello'
  <2>1. s_pc \notin {"connect", "slogin"}
    BY <1>1 DEF SInv, Hello
  <2>2. s_pc = "login" => down' # <<>> /\ down'[1].tag = "ok"
    <3>. HAVE s_pc = "login"
    <3>1. down # <<>> /\ down[1].tag = "ok"
      BY <1>1 DEF SInv, Hello
    <3>2. 1 \in 1 .. Len(down)
      BY <1>0, <3>1
    <3>. QED BY <1>1, <3>1, <3>2
  <2>. QED BY <1>1, <2>1, <2>2 DEF SInv, Hello
<1>5. QuitTyped' /\ EndTold'
  BY <1>1, <1>2 DEF SInv, QuitTyped, EndTold, LastTyped
<1>6. AnswersAre'
  <2>1. CASE up[1].line.tag = "bad"
    BY <1>1, <2>1 DEF SInv, AnswersAre
  <2>2. CASE up[1].line.tag # "bad"
    <3>1. \A k \in 1 .. Len(down') : k \in 1 .. Len(down) \/ k = Len(down) + 1
      BY <1>0, <1>1, <2>2
    <3>. QED BY <1>1, <2>2, <3>1 DEF SInv, AnswersAre
  <2>. QED BY <2>1, <2>2
<1>7. AnswerComes'
  <2>1. CASE up[1].line.tag = "bad" /\ Asking /\ down = <<>>
    <3>1. PICK k \in 1 .. Len(up) : Answerable(k)
      BY <1>1, <2>1 DEF SInv, AnswerComes
    <3>2. k - 1 \in 1 .. Len(up') /\ k = (k - 1) + 1
      BY <1>0, <1>1, <2>1, <3>1 DEF Answerable
    <3>3. up'[k - 1] = up[k]
      BY <1>1, <3>2
    <3>. QED BY <3>1, <3>2, <3>3 DEF AnswerComes, Answerable
  <2>. QED BY <1>1, <2>1 DEF AnswerComes, Asking
<1>8. OneAnswer'
  <2>. SUFFICES ASSUME ~Cut, s_pc # "exit" PROVE OneAnswer'
    BY <1>1, <1>2 DEF OneAnswer
  <2>1. /\ ~Asking \/ down # <<>> => \A k \in 1 .. Len(up) : ~Answerable(k)
        /\ \A k \in 1 .. Len(up) : Answerable(k) => up[k].of = asked - 1
        /\ \A k, l \in 1 .. Len(up) : Answerable(k) /\ Answerable(l) => k = l
        /\ quitting => down = <<>>
        /\ quitting => \A k \in 1 .. Len(up) : Answerable(k) => up[k].line.tag = "quit"
        /\ down # <<>> => Asking /\ Len(down) = 1 /\ down[1].of = asked - 1
    BY <1>1 DEF SInv, OneAnswer
  <2>2. CASE up[1].line.tag = "bad"
    <3>1. down' = down /\ s_thread' = s_thread
      BY <1>1, <2>2
    <3>2. \A k \in 1 .. Len(up') : Answerable(k)' <=> Answerable(k + 1)
      BY <1>1 DEF Answerable
    <3>3. ~Asking \/ down # <<>> => \A k \in 1 .. Len(up') : ~Answerable(k)'
      BY <1>1, <2>1, <3>2
    <3>4. \A k \in 1 .. Len(up') :
            Answerable(k)' => /\ up'[k].of = asked - 1
                              /\ quitting => up'[k].line.tag = "quit"
      BY <1>1, <2>1, <3>2
    <3>5. \A k, l \in 1 .. Len(up') : Answerable(k)' /\ Answerable(l)' => k = l
      <4>1. \A k, l \in 1 .. Len(up') : k + 1 = l + 1 => k = l
        OBVIOUS
      <4>. QED BY <1>1, <2>1, <3>2, <4>1
    <3>6. Asking' <=> Asking
      BY <1>1 DEF Asking
    <3>. QED BY Zenon, <1>1, <2>1, <3>1, <3>3, <3>4, <3>5, <3>6 DEF OneAnswer
  <2>3. CASE up[1].line.tag # "bad"
    <3>1. Answerable(1)
      BY <2>3 DEF Answerable
    <3>2. /\ Asking /\ down = <<>> /\ up[1].of = asked - 1
          /\ quitting => up[1].line.tag = "quit"
          /\ \A k \in 1 .. Len(up) : Answerable(k) => k = 1
      BY <1>1, <2>1, <3>1
    <3>3. \A k \in 1 .. Len(up') : ~Answerable(k)'
      <4>1. \A k \in 1 .. Len(up') : k + 1 # 1
        OBVIOUS
      <4>. QED BY <1>1, <3>2, <4>1 DEF Answerable
    <3>4. Len(down') = 1 /\ down'[1].of = asked - 1
      <4>1. Len(down) = 0
        BY <3>2
      <4>. QED BY <1>1, <2>3, <3>2, <4>1
    <3>5. quitting => s_thread' = "closed"
      BY <1>1, <3>2
    <3>. QED BY <1>1, <3>2, <3>3, <3>4, <3>5 DEF OneAnswer, Asking
  <2>. QED BY <2>2, <2>3
<1>. QED BY <1>3, <1>4, <1>5, <1>6, <1>7, <1>8 DEF SInv

\* The thread or the whole server goes: nothing more is answered.
LEMMA SenderLeft == SInv /\ (SenderGone \/ ServerExits \/ SenderIsReset) => SInv'
<1>. SUFFICES ASSUME SInv, SenderGone \/ ServerExits \/ SenderIsReset PROVE SInv'
  OBVIOUS
<1>0. SenderTypes
  BY DEF SInv
<1>1. /\ s_thread' = "closed" /\ up' \in {<<>>, up} /\ down' \in {<<>>, down}
      /\ s_pc \in {"connect", "slogin"} => up' = up /\ down' = down
      /\ UNCHANGED <<s_pc, s_status, asked, quitting, users, turn, ended, room_name>>
  BY DEF SenderGone, ServerExits, SenderIsReset, program, serving, SInv, Hello
<1>2. Cut' <=> Cut
  BY <1>1, CutSame
<1>3. SenderTypes'
  <2>1. <<>> \in Seq(Line) /\ <<>> \in Seq(Answers)
    OBVIOUS
  <2>. QED BY <1>0, <1>1, <2>1 DEF SenderTypes
<1>4. AnswersAre' /\ AnswerComes' /\ QuitTyped' /\ EndTold'
  BY <1>1, <1>2 DEF SInv, AnswersAre, AnswerComes, QuitTyped, EndTold, LastTyped
<1>5. Hello'
  BY <1>1 DEF SInv, Hello
<1>6. OneAnswer'
  BY <1>1, <1>2 DEF SInv, OneAnswer, Asking
<1>. QED BY <1>3, <1>4, <1>5, <1>6 DEF SInv

\* Nothing else touches the sender's side.
LEMMA SenderAlone == SInv /\ UNCHANGED s_side => SInv'
<1>. SUFFICES ASSUME SInv, UNCHANGED s_side PROVE SInv'
  OBVIOUS
<1>1. UNCHANGED <<s_pc, s_status, asked, quitting, users, turn, ended, up, down,
                  s_thread, room_name>>
  BY DEF s_side, program, serving
<1>2. Cut' <=> Cut
  BY <1>1, CutSame
<1>3. SenderTypes' /\ Hello' /\ AnswersAre' /\ AnswerComes' /\ QuitTyped'
  BY <1>1 DEF SInv, SenderTypes, Hello, AnswersAre, AnswerComes, QuitTyped, Asking,
              Answerable, LastTyped
<1>4. OneAnswer' /\ EndTold'
  BY <1>1, <1>2 DEF SInv, OneAnswer, EndTold, Asking, Answerable, LastTyped
<1>. QED BY <1>3, <1>4 DEF SInv

LEMMA SenderStep == SInv /\ [Next]_vars => SInv'
<1>. SUFFICES ASSUME SInv, [Next]_vars PROVE SInv'
  OBVIOUS
<1>1. CASE SenderRuns
  BY <1>1, ConnectSender, HelloSender, LoginAnswered, ReplyRead DEF SenderRuns
<1>2. CASE ReceiverRuns
  <2>1. UNCHANGED s_side
    BY <1>2 DEF ReceiverRuns, ReceiverConnects, ReceiverSends, ReceiverIsAnswered,
                ReceiverPrints, ReceiverStops
  <2>. QED BY <2>1, SenderAlone
<1>3. CASE ThreadRuns
  BY <1>3, LoginServed, SenderServed, SenderLeft DEF ThreadRuns
<1>4. CASE DeliveryRuns
  BY <1>4, SenderAlone
  DEF DeliveryRuns, ServeReceiverLogin, ServeReceiverJoin, Deliver, ReceiverGone
<1>5. CASE Type \/ EndInput
  BY <1>5, TypeSender, EndInputSender
<1>6. CASE \E text \in Said : OtherSays(text)
  BY <1>6, SenderAlone DEF OtherSays
<1>7. CASE ServerExits \/ SenderIsReset
  BY <1>7, SenderLeft
<1>8. CASE ReceiverIsReset
  BY <1>8, SenderAlone DEF ReceiverIsReset
<1>9. CASE UNCHANGED vars
  BY <1>9, SenderAlone DEF vars
<1>. QED BY <1>1, <1>2, <1>3, <1>4, <1>5, <1>6, <1>7, <1>8, <1>9 DEF Next

LEMMA SenderInvariant == Spec => []SInv
BY InitSender, SenderStep, PTL DEF Spec

\* sender.cpp:101-127: for all that users type and are called, the response the
\* sender takes for the one to its last message is that one, unless a line was cut
\* off that the server answered or that is part of an answer.
THEOREM InStep == Spec => []RepliesInStep
<1>1. SInv => RepliesInStep
  <2>. SUFFICES ASSUME SInv PROVE RepliesInStep
    OBVIOUS
  <2>1. down # <<>> => Head(down) = down[1]
    BY DEF SInv, SenderTypes
  <2>. QED BY <2>1 DEF SInv, OneAnswer, RepliesInStep, Asking
<1>. QED BY <1>1, SenderInvariant, PTL

\* sender.cpp:103, server.cpp:35: the sender and its thread never wait for each
\* other's line at once.
THEOREM NobodyWaits == Spec => []NoMutualWait
<1>1. SInv => NoMutualWait
  <2>. SUFFICES ASSUME SInv PROVE NoMutualWait
    OBVIOUS
  <2>1. up = <<>> => Len(up) = 0
    OBVIOUS
  <2>. QED BY <2>1 DEF SInv, AnswerComes, NoMutualWait, Asking
<1>. QED BY <1>1, SenderInvariant, PTL

------------------------------------------------------------------------------
(* The receiver's side *)

LEMMA InitReceiver == Init => RInv
<1>. SUFFICES ASSUME Init PROVE RInv
  OBVIOUS
<1>1. /\ room = <<>> /\ mqueue = <<>> /\ r_up = <<>> /\ r_down = <<>> /\ shown = <<>>
      /\ heard = 0 /\ r_thread = "login" /\ r_pc = "connect" /\ r_status = "none"
      /\ sender = Nothing /\ msg_text = Nothing /\ users \in Users
  BY DEF Init
<1>2. ReceiverTypes
  <2>1. Nothing \in Item
    BY ReplyIs DEF Nothing, Replied, Tag
  <2>2. /\ <<>> \in Seq(Line) /\ <<>> \in Seq(Nat) /\ <<>> \in Seq(UpLine) /\ <<>> \in Seq(Item)
        /\ <<>> \in Seq([got : Item, name : Item, text : Item])
    OBVIOUS
  <2>. QED BY <1>1, <2>1, <2>2 DEF ReceiverTypes
<1>3. RepliesFirst /\ RepliesAre /\ JoinComes /\ ReceiverTold
  BY <1>1 DEF RepliesFirst, RepliesAre, JoinComes, ReceiverTold
<1>4. Queued /\ InOrder /\ SetTogether /\ ShownInOrder
  BY <1>1 DEF Queued, InOrder, SetTogether, ShownInOrder
<1>. QED BY <1>2, <1>3, <1>4 DEF RInv

\* What was said stays so.
LEMMA DeliveredKept ==
  ASSUME users' = users, heard' = heard, Len(room) \in Nat, Len(room') \in Nat, heard \in Nat,
         Len(room) <= Len(room'), \A k \in 1 .. Len(room) : room'[k] = room[k],
         NEW l, Delivered(l)
  PROVE  Delivered(l)'
<1>1. l.of \in heard + 1 .. Len(room) /\ l.of \in heard' + 1 .. Len(room')
  BY DEF Delivered
<1>2. room'[l.of] = room[l.of]
  BY <1>1
<1>. QED BY <1>1, <1>2 DEF Delivered, Delivery

LEMMA RightlyKept ==
  ASSUME users' = users, heard' = heard, Len(room) \in Nat, Len(room') \in Nat, heard \in Nat,
         Len(room) <= Len(room'), \A k \in 1 .. Len(room) : room'[k] = room[k],
         NEW s, NEW p, RightlyShown(s, p)
  PROVE  RightlyShown(s, p)'
<1>1. PICK l : l = s.got
  OBVIOUS
<1>2. Delivered(l)'
  BY <1>1, DeliveredKept DEF RightlyShown
<1>3. After(p, l)'
  BY <1>1 DEF RightlyShown, After
<1>. QED BY <1>1, <1>2, <1>3 DEF RightlyShown

\* What was printed stays in order while nothing more is, and what is said only grows.
LEMMA ShownKept ==
  ASSUME RInv, users' = users, heard' = heard \/ shown = <<>>, shown' = shown,
         room' \in Seq(Line), Len(room) <= Len(room'),
         \A k \in 1 .. Len(room) : room'[k] = room[k]
  PROVE  ShownInOrder'
<1>1. CASE shown = <<>>
  BY <1>1 DEF ShownInOrder
<1>2. CASE shown # <<>>
  <2>. SUFFICES ASSUME NEW i \in 1 .. Len(shown)
                PROVE  RightlyShown(shown[i], IF i = 1 THEN Start ELSE shown[i - 1].got)'
    BY DEF ShownInOrder
  <2>1. room \in Seq(Line) /\ heard \in Nat /\ heard' = heard
    BY <1>2 DEF RInv, ReceiverTypes
  <2>2. Len(room) \in Nat /\ Len(room') \in Nat
    BY <2>1
  <2>3. PICK s, p : s = shown[i] /\ p = IF i = 1 THEN Start ELSE shown[i - 1].got
    OBVIOUS
  <2>4. RightlyShown(s, p)
    BY <2>3 DEF RInv, ShownInOrder
  <2>5. RightlyShown(s, p)'
    BY <2>1, <2>2, <2>4, RightlyKept
  <2>6. s = shown'[i] /\ p = IF i = 1 THEN Start' ELSE shown'[i - 1].got
    BY <2>1, <2>3 DEF Start, Reply
  <2>. QED BY <2>5, <2>6
<1>. QED BY <1>1, <1>2

LEMMA ComingKept ==
  ASSUME users' = users, heard' = heard, Len(room) \in Nat, Len(room') \in Nat, heard \in Nat,
         Len(room) <= Len(room'), \A k \in 1 .. Len(room) : room'[k] = room[k],
         NEW l, NEW p, RightlyComing(l, p)
  PROVE  RightlyComing(l, p)'
<1>1. Delivered(l)'
  BY DeliveredKept DEF RightlyComing
<1>2. After(p, l)'
  BY DEF RightlyComing, After
<1>. QED BY <1>1, <1>2 DEF RightlyComing

\* What comes stays in order while nothing comes or is read.
LEMMA ComingStays ==
  ASSUME RInv, users' = users, heard' = heard, shown' = shown, r_down' = r_down,
         room' \in Seq(Line), Len(room) <= Len(room'),
         \A k \in 1 .. Len(room) : room'[k] = room[k]
  PROVE  /\ \A k \in 1 .. Len(r_down') :
              IF r_down'[k].of = 0
              THEN shown' = <<>> /\ \A j \in 1 .. k - 1 : r_down'[j].of = 0
              ELSE RightlyComing(r_down[k], At(k - 1))'
         /\ \A k \in 0 .. Len(r_down) : At(k)' = At(k)
<1>1. \A k \in 0 .. Len(r_down) : At(k)' = At(k)
  BY DEF At, Printed, Start, Reply
<1>2. room \in Seq(Line) /\ heard \in Nat
  BY DEF RInv, ReceiverTypes
<1>3. Len(room) \in Nat /\ Len(room') \in Nat
  BY <1>2
<1>4. ASSUME NEW k \in 1 .. Len(r_down), r_down[k].of # 0
      PROVE  RightlyComing(r_down[k], At(k - 1))'
  <2>1. PICK l, p : l = r_down[k] /\ p = At(k - 1)
    OBVIOUS
  <2>2. RightlyComing(l, p)
    BY <1>4, <2>1 DEF RInv, InOrder
  <2>3. RightlyComing(l, p)'
    BY <1>2, <1>3, <2>2, ComingKept
  <2>4. k - 1 \in 0 .. Len(r_down)
    OBVIOUS
  <2>5. l = r_down'[k] /\ p = At(k - 1)'
    BY <1>1, <2>1, <2>4
  <2>. QED BY <2>3, <2>5
<1>. QED BY <1>1, <1>4 DEF RInv, InOrder

LEMMA OrderKept ==
  ASSUME RInv, users' = users, UNCHANGED <<heard, room, shown, r_down, sender, msg_text>>,
         \/ r_thread' = r_thread /\ mqueue' = mqueue
         \/ r_thread' = "closed" /\ mqueue' = <<>>
  PROVE  Queued' /\ InOrder' /\ SetTogether' /\ ShownInOrder'
<1>1. /\ room' \in Seq(Line) /\ Len(room) <= Len(room')
      /\ \A k \in 1 .. Len(room) : room'[k] = room[k]
  <2>1. room \in Seq(Line)
    BY DEF RInv, ReceiverTypes
  <2>2. Len(room) \in Nat
    BY <2>1
  <2>. QED BY <2>1, <2>2
<1>2. ShownInOrder'
  BY <1>1, ShownKept
<1>3. Queued'
  <2>1. room \in Seq(Line) /\ heard \in Nat
    BY DEF RInv, ReceiverTypes
  <2>2. Len(room) \in Nat /\ Len(<<>>) = 0
    BY <2>1
  <2>3. CASE mqueue' = mqueue /\ r_thread' = r_thread
    BY <2>3 DEF RInv, Queued
  <2>4. CASE mqueue' = <<>>
    <3>1. Len(mqueue') = 0 /\ heard <= Len(room)
      BY <2>2, <2>4 DEF RInv, Queued
    <3>2. 0 <= Len(room) - heard /\ 1 .. 0 = {}
      BY <2>1, <2>2, <3>1
    <3>. QED BY <2>4, <3>1, <3>2 DEF Queued
  <2>. QED BY <2>3, <2>4
<1>4. SetTogether'
  BY DEF RInv, SetTogether
<1>5. InOrder'
  <2>1. /\ \A k \in 1 .. Len(r_down') :
             IF r_down'[k].of = 0
             THEN shown' = <<>> /\ \A j \in 1 .. k - 1 : r_down'[j].of = 0
             ELSE RightlyComing(r_down[k], At(k - 1))'
        /\ \A k \in 0 .. Len(r_down) : At(k)' = At(k)
    BY <1>1, ComingStays
  <2>2. Len(r_down) \in 0 .. Len(r_down)
    <3>1. r_down \in Seq(Item)
      BY DEF RInv, ReceiverTypes
    <3>2. Len(r_down) \in Nat
      BY <3>1
    <3>. QED BY <3>2
  <2>3. At(Len(r_down))' = At(Len(r_down))
    BY <2>1, <2>2
  <2>4. r_thread' = "serve" =>
          LET last == At(Len(r_down)).of
          IN  last <= Len(room) - Len(mqueue) /\ (users.plain => last = Len(room) - Len(mqueue))
    BY DEF RInv, InOrder
  <2>. QED BY <2>1, <2>3, <2>4 DEF InOrder
<1>. QED BY <1>2, <1>3, <1>4, <1>5

\* A line read by the receiver is the first; the others move up.
LEMMA DownTaken ==
  ASSUME ReceiverTypes, r_down # <<>>, r_down' = Tail(r_down)
  PROVE  /\ Head(r_down) = r_down[1] /\ r_down[1] \in Item /\ 1 \in 1 .. Len(r_down)
         /\ r_down' \in Seq(Item) /\ Len(r_down') = Len(r_down) - 1
         /\ \A k \in 1 .. Len(r_down') : k + 1 \in 1 .. Len(r_down) /\ r_down'[k] = r_down[k + 1]
<1>1. r_down \in Seq(Item)
  BY DEF ReceiverTypes
<1>2. /\ Head(r_down) \in Item /\ Head(r_down) = r_down[1] /\ Len(r_down) >= 1
      /\ r_down' \in Seq(Item) /\ Len(r_down') = Len(r_down) - 1
      /\ \A k \in 1 .. Len(r_down') : r_down'[k] = r_down[k + 1]
  BY <1>1, Taken
<1>3. Len(r_down) \in Nat
  BY <1>1
<1>. QED BY <1>2, <1>3

\* A line was read, and the place before the next is what it was.
LEMMA OrderRead ==
  ASSUME RInv, ReceiverTypes', users' = users, UNCHANGED <<heard, room, mqueue, r_thread>>,
         r_down # <<>>, r_down' = Tail(r_down),
         \A k \in 1 .. Len(r_down) - 1 :
           r_down[k + 1].of # 0 => RightlyComing(r_down[k + 1], At(k - 1)'),
         \A k \in 1 .. Len(r_down) - 1 : r_down[k + 1].of = 0 => shown' = <<>>,
         r_thread = "serve" =>
           LET last == At(Len(r_down))'.of
           IN  last <= Len(room) - Len(mqueue) /\ (users.plain => last = Len(room) - Len(mqueue))
  PROVE  InOrder'
<1>0. /\ r_down' \in Seq(Item) /\ Len(r_down') = Len(r_down) - 1
      /\ \A k \in 1 .. Len(r_down') : k + 1 \in 1 .. Len(r_down) /\ r_down'[k] = r_down[k + 1]
  BY DownTaken DEF RInv
<1>1. room \in Seq(Line) /\ heard \in Nat
  BY DEF RInv, ReceiverTypes
<1>2. Len(room) \in Nat
  BY <1>1
<1>3. ASSUME NEW k \in 1 .. Len(r_down'), r_down'[k].of = 0
      PROVE  shown' = <<>> /\ \A j \in 1 .. k - 1 : r_down'[j].of = 0
  <2>1. k + 1 \in 1 .. Len(r_down) /\ r_down[k + 1].of = 0
    BY <1>0, <1>3
  <2>2. \A j \in 1 .. (k + 1) - 1 : r_down[j].of = 0
    BY <2>1 DEF RInv, InOrder
  <2>3. \A j \in 1 .. k - 1 : j + 1 \in 1 .. (k + 1) - 1 /\ r_down'[j] = r_down[j + 1]
    BY <1>0
  <2>. QED BY <1>0, <2>1, <2>2, <2>3
<1>4. ASSUME NEW k \in 1 .. Len(r_down'), r_down'[k].of # 0
      PROVE  RightlyComing(r_down[k], At(k - 1))'
  <2>1. PICK l, p : l = r_down'[k] /\ p = At(k - 1)'
    OBVIOUS
  <2>2. RightlyComing(l, p)
    BY <1>0, <1>4, <2>1
  <2>3. RightlyComing(l, p)'
    BY <1>1, <1>2, <2>2, ComingKept
  <2>. QED BY <2>1, <2>3
<1>5. r_thread' = "serve" =>
        LET last == At(Len(r_down))'.of
        IN  last <= Len(room') - Len(mqueue')
              /\ (users'.plain => last = Len(room') - Len(mqueue'))
  OBVIOUS
<1>. QED BY <1>3, <1>4, <1>5 DEF InOrder

\* The replies owed, by where the receiver is.
LEMMA OwedIs ==
  ASSUME NEW pc
  PROVE  /\ pc \in {"connect", "rlogin", "login_reply"} => Owed(pc) = 2
         /\ pc \in {"join", "join_reply"} => Owed(pc) = 1
         /\ pc \notin {"connect", "rlogin", "login_reply", "join", "join_reply"} => Owed(pc) = 0
         /\ Owed(pc) \in Nat
BY DEF Owed

\* Nothing is read, and no more is owed than before.
LEMMA RepliesKept ==
  ASSUME RInv, UNCHANGED <<users, r_down, shown>>, Owed(r_pc') \in Nat, Owed(r_pc) \in Nat, Owed(r_pc') <= Owed(r_pc),
         r_thread' \in {r_thread, "closed"},
         r_pc' \in {"rlogin", "login_reply"} \/ r_thread' # "login"
  PROVE  RepliesFirst' /\ RepliesAre'
<1>1. r_down \in Seq(Item)
  BY DEF RInv, ReceiverTypes
<1>2. Len(r_down) \in Nat
  BY <1>1
<1>3. \A k \in 1 .. Len(r_down') : k <= Owed(r_pc') => r_down'[k].of = 0
  BY <1>2 DEF RInv, RepliesFirst
<1>4. /\ r_thread' = "join" => Len(r_down') + 1 >= Owed(r_pc')
      /\ r_thread' = "serve" => Len(r_down') >= Owed(r_pc')
  <2>1. /\ r_thread = "join" => Len(r_down) + 1 >= Owed(r_pc)
        /\ r_thread = "serve" => Len(r_down) >= Owed(r_pc)
    BY DEF RInv, RepliesFirst
  <2>. QED BY <1>2, <2>1
<1>5. /\ r_thread' = "login" =>
           r_down' = <<>> /\ r_pc' \in {"connect", "rlogin", "login_reply"}
      /\ r_thread' \in {"login", "join"} =>
           shown' = <<>> /\ \A k \in 1 .. Len(r_down') : r_down'[k].of = 0
  BY DEF RInv, RepliesFirst
<1>6. RepliesAre'
  BY DEF RInv, RepliesAre
<1>. QED BY <1>3, <1>4, <1>5, <1>6 DEF RepliesFirst

LEMMA ReceiverStarts == RInv /\ (ReceiverConnects \/ ReceiverSends \/ ReceiverStops) => RInv'
<1>. SUFFICES ASSUME RInv, ReceiverConnects \/ ReceiverSends \/ ReceiverStops PROVE RInv'
  OBVIOUS
<1>0. ReceiverTypes /\ users \in Users
  BY DEF RInv, ReceiverTypes
<1>1. UNCHANGED <<users, room, r_thread, heard, mqueue, r_down, sender, msg_text, shown>>
  BY DEF ReceiverConnects, ReceiverSends, ReceiverStops, delivering, s_side, program
<1>2. \/ r_pc = "connect" /\ r_pc' = "rlogin" /\ r_up' = r_up
      \/ r_pc = "rlogin" /\ r_pc' = "login_reply" /\ r_up' = r_up \o <<Bare("rlogin")>> \o users.receiver.rest
      \/ r_pc = "join" /\ r_pc' = "join_reply" /\ r_up' = r_up \o <<Bare("join")>> \o users.join_rest
      \/ /\ r_thread = "closed" /\ r_pc' = "exit" /\ r_up' = r_up
         /\ r_status' \in {"1", "-1", "SIGPIPE"}
  BY DEF ReceiverConnects, ReceiverSends, ReceiverStops, ReceiverEnds, delivering
<1>3. r_pc' # "exit" => r_status' = r_status
  BY DEF ReceiverConnects, ReceiverSends, ReceiverStops, ReceiverEnds
<1>4. /\ Bare("rlogin") \in UpLine /\ Bare("join") \in UpLine /\ Bare("join").tag = "join"
      /\ users.receiver.rest \in Seq(UpLine) /\ users.join_rest \in Seq(UpLine)
  BY <1>0, BareIs, UsersAre DEF Tag
<1>5. r_up \in Seq(UpLine)
  BY <1>0 DEF ReceiverTypes
<1>6. r_pc = "rlogin" /\ r_pc' = "login_reply" =>
        /\ r_up' \in Seq(UpLine)
        /\ r_up = <<>> /\ users.receiver.rest = <<>> => Len(r_up') = 1
  <2>. HAVE r_pc = "rlogin" /\ r_pc' = "login_reply"
  <2>1. PICK x, p : x = Bare("rlogin") /\ p = users.receiver.rest
    OBVIOUS
  <2>2. x \in UpLine /\ p \in Seq(UpLine) /\ r_up' = r_up \o <<x>> \o p
    BY <1>2, <1>4, <2>1
  <2>3. r_up' \in Seq(UpLine) /\ Len(r_up') = Len(r_up) + 1 + Len(p)
    BY <1>5, <2>2, ThenAdded
  <2>4. r_up = <<>> /\ p = <<>> => Len(r_up) = 0 /\ Len(p) = 0
    OBVIOUS
  <2>5. r_up = <<>> /\ p = <<>> => Len(r_up') = 1
    BY <2>3, <2>4
  <2>. QED BY <2>1, <2>3, <2>5
<1>7. r_pc = "join" /\ r_pc' = "join_reply" =>
        /\ r_up' \in Seq(UpLine)
        /\ r_up = <<>> => r_up'[1].tag = "join"
  <2>. HAVE r_pc = "join" /\ r_pc' = "join_reply"
  <2>1. PICK x, p : x = Bare("join") /\ p = users.join_rest
    OBVIOUS
  <2>2. x \in UpLine /\ p \in Seq(UpLine) /\ r_up' = r_up \o <<x>> \o p
    BY <1>2, <1>4, <2>1
  <2>3. r_up' \in Seq(UpLine) /\ r_up'[Len(r_up) + 1] = x
    BY <1>5, <2>2, ThenAdded
  <2>4. Len(<<>>) = 0
    OBVIOUS
  <2>. QED BY <1>4, <2>1, <2>3, <2>4
<1>8. ReceiverTypes'
  <2>1. r_up' \in Seq(UpLine)
    BY <1>2, <1>5, <1>6, <1>7
  <2>2. r_status' \in {"none", "1", "3", "4", "-1", "SIGPIPE"}
    BY <1>0, <1>2, <1>3 DEF ReceiverTypes
  <2>. QED BY <1>0, <1>1, <1>2, <2>1, <2>2 DEF ReceiverTypes
<1>9. RepliesFirst' /\ RepliesAre'
  <2>1. Owed(r_pc') \in Nat /\ Owed(r_pc) \in Nat /\ Owed(r_pc') <= Owed(r_pc)
    <3>1. r_pc \in {"connect", "rlogin", "login_reply", "join", "join_reply", "loop", "exit"}
      BY <1>0 DEF ReceiverTypes
    <3>2. PICK n, m : n = r_pc /\ m = r_pc'
      OBVIOUS
    <3>3. Owed(n) \in Nat /\ Owed(m) \in Nat
      BY OwedIs
    <3>4. \/ n = "connect" /\ m = "rlogin"
          \/ n = "rlogin" /\ m = "login_reply"
          \/ n = "join" /\ m = "join_reply"
          \/ m = "exit"
      BY <1>2, <3>2
    <3>5. Owed(m) <= Owed(n)
      <4>1. m = "exit" => Owed(m) = 0
        BY OwedIs
      <4>2. n \in {"connect", "rlogin"} => Owed(n) = 2
        BY OwedIs
      <4>3. m \in {"rlogin", "login_reply"} => Owed(m) = 2
        BY OwedIs
      <4>4. /\ n = "join" => Owed(n) = 1
            /\ m = "join_reply" => Owed(m) = 1
        BY OwedIs
      <4>. QED BY <3>3, <3>4, <4>1, <4>2, <4>3, <4>4
    <3>. QED BY <3>2, <3>3, <3>5
  <2>2. r_pc' \in {"rlogin", "login_reply"} \/ r_thread # "login"
    BY <1>2 DEF RInv, RepliesFirst
  <2>. QED BY <1>1, <2>1, <2>2, RepliesKept
<1>10. JoinComes'
  <2>. SUFFICES ASSUME users.receiver.rest = <<>> PROVE JoinComes'
    BY <1>1 DEF JoinComes
  <2>1. CASE r_pc = "connect" /\ r_pc' = "rlogin" /\ r_up' = r_up
    BY <1>1, <2>1 DEF RInv, JoinComes
  <2>2. CASE r_pc = "rlogin" /\ r_pc' = "login_reply"
    <3>1. r_thread # "join"
      BY <2>2 DEF RInv, JoinComes
    <3>2. r_thread = "login" => r_up = <<>>
      BY <2>2 DEF RInv, JoinComes
    <3>3. r_thread = "login" => Len(r_up') = 1
      BY <1>6, <2>2, <3>2
    <3>4. r_thread' # "join" /\ r_pc' \notin {"connect", "rlogin"}
      BY <1>1, <2>2, <3>1
    <3>5. r_thread' = "login" => Len(r_up') <= 1
      BY <1>1, <3>3
    <3>. QED BY <3>4, <3>5 DEF JoinComes
  <2>3. CASE r_pc = "join" /\ r_pc' = "join_reply"
    BY <1>1, <1>7, <2>3 DEF RInv, JoinComes, RepliesFirst
  <2>4. CASE r_thread = "closed"
    BY <1>1, <2>4 DEF JoinComes
  <2>. QED BY <1>2, <2>1, <2>2, <2>3, <2>4
<1>11. ReceiverTold'
  BY <1>1, <1>2 DEF ReceiverTold
<1>12. Queued' /\ InOrder' /\ SetTogether' /\ ShownInOrder'
  BY <1>1, OrderKept
<1>. QED BY <1>8, <1>9, <1>10, <1>11, <1>12 DEF RInv

\* A line is read: what is left are the same replies but for one.
LEMMA RepliesRead ==
  ASSUME RInv, r_down # <<>>, r_down' = Tail(r_down), UNCHANGED <<users, r_thread>>,
         Owed(r_pc) \in Nat, Owed(r_pc') \in Nat,
         Owed(r_pc') = 0 \/ Owed(r_pc') <= Owed(r_pc) - 1,
         r_thread \in {"login", "join"} => shown' = <<>>
  PROVE  RepliesFirst' /\ RepliesAre'
<1>1. /\ r_down' \in Seq(Item) /\ Len(r_down') = Len(r_down) - 1
      /\ \A k \in 1 .. Len(r_down') : k + 1 \in 1 .. Len(r_down) /\ r_down'[k] = r_down[k + 1]
  BY DownTaken DEF RInv
<1>2. Len(r_down) \in Nat /\ Len(r_down') \in Nat
  <2>1. r_down \in Seq(Item)
    BY DEF RInv, ReceiverTypes
  <2>. QED BY <1>1, <2>1
<1>3. r_thread # "login"
  BY DEF RInv, RepliesFirst
<1>4. \A k \in 1 .. Len(r_down') : k <= Owed(r_pc') => r_down'[k].of = 0
  <2>. SUFFICES ASSUME NEW k \in 1 .. Len(r_down'), k <= Owed(r_pc') PROVE r_down'[k].of = 0
    OBVIOUS
  <2>1. k + 1 <= Owed(r_pc) /\ k + 1 \in 1 .. Len(r_down)
    BY <1>1, <1>2
  <2>. QED BY <1>1, <2>1 DEF RInv, RepliesFirst
<1>5. r_thread \in {"login", "join"} => \A k \in 1 .. Len(r_down') : r_down'[k].of = 0
  BY <1>1 DEF RInv, RepliesFirst
<1>6. /\ r_thread = "join" => Len(r_down') + 1 >= Owed(r_pc')
      /\ r_thread = "serve" => Len(r_down') >= Owed(r_pc')
  <2>1. /\ r_thread = "join" => Len(r_down) + 1 >= Owed(r_pc)
        /\ r_thread = "serve" => Len(r_down) >= Owed(r_pc)
    BY DEF RInv, RepliesFirst
  <2>. QED BY <1>1, <1>2, <2>1
<1>7. RepliesFirst'
  BY <1>3, <1>4, <1>5, <1>6 DEF RepliesFirst
<1>8. RepliesAre'
  BY <1>1 DEF RInv, RepliesAre
<1>. QED BY <1>7, <1>8

\* A reply is read.
LEMMA ReplyTaken ==
  ASSUME RInv, ReceiverTypes', r_down # <<>>, r_down' = Tail(r_down), r_down[1].of = 0,
         UNCHANGED <<users, room, r_thread, heard, mqueue, sender, msg_text, shown>>
  PROVE  Queued' /\ InOrder' /\ SetTogether' /\ ShownInOrder'
<1>0. ReceiverTypes /\ r_down \in Seq(Item) /\ Len(r_down) \in Nat
  <2>1. ReceiverTypes /\ r_down \in Seq(Item)
    BY DEF RInv, ReceiverTypes
  <2>. QED BY <2>1
<1>1. /\ r_down[1] \in Item /\ 1 \in 1 .. Len(r_down)
      /\ r_down' \in Seq(Item) /\ Len(r_down') = Len(r_down) - 1
      /\ \A k \in 1 .. Len(r_down') : k + 1 \in 1 .. Len(r_down) /\ r_down'[k] = r_down[k + 1]
  BY <1>0, DownTaken
<1>2. /\ At(1) = Printed
      /\ \A k \in 0 .. Len(r_down) - 1 : At(k)' = At(k + 1)
  <2>1. Printed' = Printed
    BY DEF Printed, Start, Reply
  <2>2. \A k \in 1 .. Len(r_down) - 1 : r_down'[k] = r_down[k + 1] /\ k + 1 # 0 /\ k # 0
    BY <1>1
  <2>3. At(1) = Printed /\ At(0)' = Printed'
    BY DEF At
  <2>. QED BY <1>0, <2>1, <2>2, <2>3 DEF At
<1>3. InOrder'
  <2>1. ASSUME NEW k \in 1 .. Len(r_down) - 1, r_down[k + 1].of # 0
        PROVE  RightlyComing(r_down[k + 1], At(k - 1)')
    <3>1. k + 1 \in 1 .. Len(r_down) /\ (k + 1) - 1 = k /\ k - 1 \in 0 .. Len(r_down) - 1
          /\ (k - 1) + 1 = k
      OBVIOUS
    <3>2. RightlyComing(r_down[k + 1], At((k + 1) - 1))
      BY <2>1, <3>1 DEF RInv, InOrder
    <3>3. At(k - 1)' = At((k - 1) + 1)
      BY <1>2, <3>1
    <3>. QED BY <3>1, <3>2, <3>3
  <2>2. \A k \in 1 .. Len(r_down) - 1 : r_down[k + 1].of = 0 => shown' = <<>>
    <3>. SUFFICES ASSUME NEW k \in 1 .. Len(r_down) - 1, r_down[k + 1].of = 0 PROVE shown' = <<>>
      OBVIOUS
    <3>1. k + 1 \in 1 .. Len(r_down)
      OBVIOUS
    <3>. QED BY <3>1 DEF RInv, InOrder
  <2>3. At(Len(r_down))' = At(Len(r_down))
    <3>1. PICK n : n = Len(r_down) - 1
      OBVIOUS
    <3>2. n \in 0 .. Len(r_down) - 1 /\ n + 1 = Len(r_down) /\ n = Len(r_down')
      BY <1>0, <1>1, <3>1
    <3>3. At(n)' = At(n + 1)
      BY <1>2, <3>2
    <3>. QED BY <3>2, <3>3
  <2>4. r_thread = "serve" =>
          LET last == At(Len(r_down))'.of
          IN  last <= Len(room) - Len(mqueue) /\ (users.plain => last = Len(room) - Len(mqueue))
    BY <2>3 DEF RInv, InOrder
  <2>. QED BY <1>0, <2>1, <2>2, <2>4, OrderRead
<1>4. Queued' /\ SetTogether'
  BY DEF RInv, Queued, SetTogether
<1>5. ShownInOrder'
  <2>1. room \in Seq(Line) /\ room' = room
    BY <1>0 DEF ReceiverTypes
  <2>2. Len(room) <= Len(room')
    BY <2>1
  <2>. QED BY <2>1, <2>2, ShownKept
<1>. QED BY <1>3, <1>4, <1>5

\* The response to the login or the join.
LEMMA ReceiverAnswered == RInv /\ ReceiverIsAnswered => RInv'
<1>. SUFFICES ASSUME RInv, ReceiverIsAnswered PROVE RInv'
  OBVIOUS
<1>0. ReceiverTypes /\ users \in Users /\ r_down \in Seq(Item) /\ Len(r_down) \in Nat
  <2>1. ReceiverTypes /\ users \in Users /\ r_down \in Seq(Item)
    BY DEF RInv, ReceiverTypes
  <2>. QED BY <2>1
<1>1. /\ r_pc \in {"login_reply", "join_reply"}
      /\ Arrives(r_down, r_thread) /\ r_down' = Consumed(r_down)
      /\ UNCHANGED <<users, room, r_thread, heard, mqueue, r_up, sender, msg_text, shown>>
  BY DEF ReceiverIsAnswered, delivering, s_side, program
<1>2. CASE r_down = <<>>
  <2>1. r_thread = "closed" /\ r_down' = r_down
    BY <1>1, <1>2 DEF Arrives, Consumed
  <2>2. r_pc' = "exit" /\ r_status' = "4"
    BY <1>2 DEF ReceiverIsAnswered, ReceiverEnds
  <2>3. ReceiverTypes'
    BY <1>0, <1>1, <2>1, <2>2 DEF ReceiverTypes
  <2>4. RepliesFirst' /\ RepliesAre' /\ JoinComes' /\ ReceiverTold'
    <3>1. Owed(r_pc') = 0 /\ Owed(r_pc) \in {1, 2}
      BY <1>1, <2>2, OwedIs
    <3>2. RepliesFirst' /\ RepliesAre'
      BY <1>1, <2>1, <3>1, RepliesKept
    <3>. QED BY <1>1, <2>1, <2>2, <3>2 DEF JoinComes, ReceiverTold
  <2>5. Queued' /\ InOrder' /\ SetTogether' /\ ShownInOrder'
    BY <1>1, <2>1, OrderKept
  <2>. QED BY <2>3, <2>4, <2>5 DEF RInv
<1>3. CASE r_down # <<>>
  <2>0. r_down' = Tail(r_down)
    BY <1>1, <1>3 DEF Consumed
  <2>1. /\ Head(r_down) = r_down[1] /\ r_down[1] \in Item /\ 1 \in 1 .. Len(r_down)
        /\ r_down' \in Seq(Item) /\ Len(r_down') = Len(r_down) - 1
        /\ \A k \in 1 .. Len(r_down') : k + 1 \in 1 .. Len(r_down) /\ r_down'[k] = r_down[k + 1]
    BY <1>0, <1>3, <2>0, DownTaken
  <2>2. Owed(r_pc) \in {1, 2} /\ 1 <= Owed(r_pc) /\ (r_pc = "login_reply" <=> Owed(r_pc) = 2)
    BY <1>1, OwedIs
  <2>3. r_down[1].of = 0
    BY <2>1, <2>2 DEF RInv, RepliesFirst
  <2>4. /\ r_down[1].line.tag \in {"ok", "err", users.receiver.reply_rest}
        /\ r_down[1].line.tag = "err" =>
             users.receiver.reply_rest = "err" \/ users.receiver.rest # <<>>
    BY <2>1, <2>3 DEF RInv, RepliesAre
  <2>5. r_down[1].line.tag \in Tag
    BY <2>1 DEF Item, Numbered, DownLine
  <2>6. \/ /\ r_pc' = IF r_pc = "login_reply" THEN "join" ELSE "loop"
           /\ r_status' = r_status
        \/ r_pc' = "exit" /\ r_status' = "3" /\ r_down[1].line.tag = "err"
        \/ r_pc' = "exit" /\ r_status' = "4" /\ r_down[1].line.tag \notin {"ok", "err"}
    BY <1>3, <2>1 DEF ReceiverIsAnswered, ReceiverEnds
  <2>7. Owed(r_pc') \in Nat /\ Owed(r_pc') <= Owed(r_pc) - 1
    BY <1>1, <2>2, <2>6, OwedIs
  <2>8. ReceiverTypes'
    <3>1. r_pc' \in {"connect", "rlogin", "login_reply", "join", "join_reply", "loop", "exit"}
      BY <2>6
    <3>2. r_status' \in {"none", "1", "3", "4", "-1", "SIGPIPE"}
      BY <1>0, <2>6 DEF ReceiverTypes
    <3>. QED BY <1>0, <1>1, <2>1, <3>1, <3>2 DEF ReceiverTypes
  <2>9. r_thread # "login"
    BY <1>3 DEF RInv, RepliesFirst
  <2>10. RepliesFirst' /\ RepliesAre'
    <3>1. r_thread \in {"login", "join"} => shown' = <<>>
      BY <1>1 DEF RInv, RepliesFirst
    <3>2. Owed(r_pc) \in Nat
      BY OwedIs
    <3>. QED BY <1>1, <1>3, <2>0, <2>7, <3>1, <3>2, RepliesRead
  <2>12. JoinComes'
    <3>1. r_thread = "join" =>
            r_pc' \notin {"connect", "rlogin", "login_reply"} /\ (r_pc' = "join" => r_pc = "login_reply")
      BY <1>1, <2>6
    <3>. QED BY <1>1, <2>6, <2>9, <3>1 DEF RInv, JoinComes
  <2>13. ReceiverTold'
    <3>1. r_down[1].line.tag \notin {"ok", "err"} => users.receiver.reply_rest # "none"
      BY <2>4, <2>5 DEF Tag
    <3>. QED BY <1>1, <2>4, <2>6, <3>1 DEF ReceiverTold
  <2>14. Queued' /\ InOrder' /\ SetTogether' /\ ShownInOrder'
    BY <1>1, <1>3, <2>0, <2>3, <2>8, ReplyTaken
  <2>. QED BY <2>8, <2>10, <2>12, <2>13, <2>14 DEF RInv
<1>. QED BY <1>2, <1>3

LEMMA LastIs ==
  ASSUME NEW S, NEW q \in Seq(S), q # <<>>
  PROVE  q[Len(q)] \in S
OBVIOUS

\* What is set from a line is set as its colons say.
LEMMA Shown ==
  ASSUME SetTogether, NEW d, Show(d)
  PROVE  /\ SetTogether'
         /\ sender' # d => d.line.shows = "no_name"
         /\ sender' # msg_text' => sender'.line.shows = "no_text"
<1>1. /\ sender' = IF d.line.shows = "no_name" THEN sender ELSE d
      /\ msg_text' = IF d.line.shows \in {"no_name", "no_text"} THEN msg_text ELSE d
  BY DEF Show
<1>2. sender = msg_text \/ sender.line.shows = "no_text"
  BY DEF SetTogether
<1>3. sender' # msg_text' => sender'.line.shows = "no_text"
  BY <1>1, <1>2
<1>. QED BY <1>1, <1>3 DEF SetTogether

\* Lines follow each other across one that is not printed, which is no first line
\* where the room's name is plain.
LEMMA AfterAfter ==
  ASSUME NEW p, NEW d, NEW e, After(p, d), After(d, e), users.plain => d.nth > 0,
         p.of \in Nat, p.nth \in Nat, d.of \in Nat, d.nth \in Nat, e.of \in Nat, e.nth \in Nat
  PROVE  After(p, e)
BY DEF After

LEMMA ReceiverPrinted == RInv /\ ReceiverPrints => RInv'
<1>. SUFFICES ASSUME RInv, ReceiverPrints PROVE RInv'
  OBVIOUS
<1>0. /\ ReceiverTypes /\ users \in Users /\ r_down \in Seq(Item) /\ Len(r_down) \in Nat
      /\ Len(shown) \in Nat /\ Len(room) \in Nat
  <2>1. /\ ReceiverTypes /\ users \in Users /\ r_down \in Seq(Item) /\ room \in Seq(Line)
        /\ shown \in Seq([got : Item, name : Item, text : Item])
    BY DEF RInv, ReceiverTypes
  <2>2. Len(r_down) \in Nat
    BY <2>1
  <2>3. Len(shown) \in Nat
    BY <2>1
  <2>4. Len(room) \in Nat
    BY <2>1
  <2>. QED BY <2>1, <2>2, <2>3, <2>4
<1>1. /\ r_pc = "loop" /\ r_down # <<>> /\ r_down' = Tail(r_down)
      /\ UNCHANGED <<users, room, r_thread, heard, mqueue, r_up, r_pc, r_status>>
  BY DEF ReceiverPrints, delivering, s_side, program
<1>2. PICK d : d = r_down[1]
  OBVIOUS
<1>3. /\ Head(r_down) = d /\ d \in Item /\ 1 \in 1 .. Len(r_down)
      /\ r_down' \in Seq(Item) /\ Len(r_down') = Len(r_down) - 1
      /\ \A k \in 1 .. Len(r_down') : k + 1 \in 1 .. Len(r_down) /\ r_down'[k] = r_down[k + 1]
  BY <1>0, <1>1, <1>2, DownTaken
<1>4. \/ d.line.tag = "delivery" /\ Show(d)
      \/ d.line.tag # "delivery" /\ UNCHANGED <<sender, msg_text, shown>>
  BY <1>3 DEF ReceiverPrints
<1>5. /\ d.line.tag = "delivery" /\ d.line.here =>
           shown' = Append(shown, [got |-> d, name |-> sender', text |-> msg_text'])
      /\ ~(d.line.tag = "delivery" /\ d.line.here) => shown' = shown
  BY <1>4 DEF Show
<1>6. sender' \in Item /\ msg_text' \in Item
  <2>1. sender \in Item /\ msg_text \in Item
    BY <1>0 DEF ReceiverTypes
  <2>. QED BY <1>3, <1>4, <2>1 DEF Show
<1>7. shown' \in Seq([got : Item, name : Item, text : Item])
  <2>1. PICK s : s = [got |-> d, name |-> sender', text |-> msg_text']
    OBVIOUS
  <2>2. s \in [got : Item, name : Item, text : Item]
    BY <1>3, <1>6, <2>1
  <2>3. shown \in Seq([got : Item, name : Item, text : Item])
    BY <1>0 DEF ReceiverTypes
  <2>4. Append(shown, s) \in Seq([got : Item, name : Item, text : Item])
    BY <2>2, <2>3
  <2>5. shown' = Append(shown, s) \/ shown' = shown
    BY <1>5, <2>1
  <2>. QED BY <2>3, <2>4, <2>5
<1>8. ReceiverTypes'
  BY <1>0, <1>1, <1>3, <1>6, <1>7 DEF ReceiverTypes
<1>9. JoinComes' /\ ReceiverTold'
  BY <1>1 DEF RInv, JoinComes, ReceiverTold
<1>10. d.of = 0 => d.line.tag # "delivery"
  <2>1. d.of = 0 => d.line.tag \in {"ok", "err", users.receiver.reply_rest}
    BY <1>2, <1>3 DEF RInv, RepliesAre
  <2>2. users.receiver.reply_rest # "delivery"
    BY <1>0, UsersAre
  <2>. QED BY <2>1, <2>2
<1>11. RepliesFirst' /\ RepliesAre'
  <2>1. Owed(r_pc) = 0 /\ Owed(r_pc') = 0
    BY <1>1, OwedIs
  <2>2. r_thread \in {"login", "join"} => d.of = 0 /\ shown = <<>>
    BY <1>2, <1>3 DEF RInv, RepliesFirst
  <2>3. r_thread \in {"login", "join"} => shown' = <<>>
    BY <1>4, <1>10, <2>2
  <2>. QED BY <1>1, <2>1, <2>3, RepliesRead
<1>12. CASE d.of = 0
  <2>1. UNCHANGED <<sender, msg_text, shown>>
    BY <1>4, <1>10, <1>12
  <2>2. Queued' /\ InOrder' /\ SetTogether' /\ ShownInOrder'
    <3>1. r_down[1].of = 0
      BY <1>2, <1>12
    <3>. QED BY <1>1, <1>8, <2>1, <3>1, ReplyTaken
  <2>. QED BY <1>8, <1>9, <1>11, <2>2 DEF RInv
<1>13. CASE d.of # 0
  <2>1. /\ \A k \in 1 .. Len(r_down) : r_down[k].of # 0
        /\ \A k \in 1 .. Len(r_down) : RightlyComing(r_down[k], At(k - 1))
    <3>1. \A k \in 1 .. Len(r_down) : r_down[k].of # 0
      <4>. SUFFICES ASSUME NEW k \in 1 .. Len(r_down), r_down[k].of = 0 PROVE FALSE
        OBVIOUS
      <4>1. \A j \in 1 .. k - 1 : r_down[j].of = 0
        BY DEF RInv, InOrder
      <4>2. k = 1 \/ 1 \in 1 .. k - 1
        OBVIOUS
      <4>. QED BY <1>2, <1>13, <4>1, <4>2
    <3>. QED BY <3>1 DEF RInv, InOrder
  <2>2. At(0) = Printed /\ \A k \in 1 .. Len(r_down) : At(k) = r_down[k]
    BY <2>1 DEF At
  <2>3. Delivered(d) /\ After(Printed, d)
    BY <1>2, <1>3, <2>1, <2>2 DEF RightlyComing
  <2>4. \A k \in 1 .. Len(r_down) - 1 : At(k)' = r_down[k + 1]
    BY <1>3, <2>1 DEF At
  <2>5. At(0)' = Printed'
    BY DEF At
  <2>6. Printed \in [of : Nat, nth : Nat, line : DownLine]
    <3>1. CASE shown = <<>>
      <4>1. heard \in Nat
        BY <1>0 DEF ReceiverTypes
      <4>2. Reply("bad") \in DownLine
        BY ReplyIs DEF Tag
      <4>. QED BY <3>1, <4>1, <4>2 DEF Printed, Start
    <3>2. CASE shown # <<>>
      <4>1. shown \in Seq([got : Item, name : Item, text : Item])
        BY <1>0 DEF ReceiverTypes
      <4>2. shown[Len(shown)] \in [got : Item, name : Item, text : Item]
        BY <3>2, <4>1, LastIs
      <4>3. shown[Len(shown)].got \in Item
        BY <4>2
      <4>. QED BY <3>2, <4>3 DEF Printed, Item, Numbered
    <3>. QED BY <3>1, <3>2
  <2>7. PICK p : p = Printed
    OBVIOUS
  <2>8. p.of \in Nat /\ p.nth \in Nat /\ d.of \in Nat /\ d.nth \in Nat
    BY <1>3, <2>6, <2>7 DEF Item, Numbered
  <2>9. \A k \in 1 .. Len(r_down) : r_down[k].of \in Nat /\ r_down[k].nth \in Nat
    <3>1. \A k \in 1 .. Len(r_down) : r_down[k] \in Item
      BY <1>0
    <3>. QED BY <3>1 DEF Item, Numbered
  <2>10. SetTogether'
    BY <1>4, Shown DEF RInv, SetTogether
  <2>11. Queued'
    BY <1>1 DEF RInv, Queued
  <2>12. \A k \in 1 .. Len(r_down) - 1 : r_down[k + 1].of = 0 => shown' = <<>>
    BY <2>1
  <2>13. CASE d.line.tag = "delivery" /\ d.line.here
    <3>. DEFINE s == [got |-> d, name |-> sender', text |-> msg_text']
    <3>1. shown' = Append(shown, s)
      BY <1>5, <2>13
    <3>2. s \in [got : Item, name : Item, text : Item] /\ s.got = d /\ s.name = sender' /\ s.text = msg_text'
      BY <1>3, <1>6
    <3>. HIDE DEF s
    <3>3. shown \in Seq([got : Item, name : Item, text : Item])
      BY <1>0 DEF ReceiverTypes
    <3>4. /\ Len(shown') = Len(shown) + 1 /\ shown' # <<>>
          /\ \A k \in 1 .. Len(shown) : shown'[k] = shown[k]
          /\ shown'[Len(shown) + 1] = s
      BY <3>1, <3>2, <3>3, Added
    <3>5. Printed' = d
      BY <3>2, <3>4 DEF Printed
    <3>6. \A k \in 0 .. Len(r_down) - 1 : At(k)' = At(k + 1)
      BY <1>2, <1>3, <2>2, <2>4, <2>5, <3>5
    <3>7. InOrder'
      <4>1. ASSUME NEW k \in 1 .. Len(r_down) - 1, r_down[k + 1].of # 0
            PROVE  RightlyComing(r_down[k + 1], At(k - 1)')
        <5>1. k + 1 \in 1 .. Len(r_down) /\ (k + 1) - 1 = k /\ k - 1 \in 0 .. Len(r_down) - 1
              /\ (k - 1) + 1 = k
          OBVIOUS
        <5>2. RightlyComing(r_down[k + 1], At((k + 1) - 1))
          BY <2>1, <5>1
        <5>3. At(k - 1)' = At((k - 1) + 1)
          BY <3>6, <5>1
        <5>. QED BY <5>1, <5>2, <5>3
      <4>2. At(Len(r_down))' = At(Len(r_down))
        <5>1. PICK n : n = Len(r_down) - 1
          OBVIOUS
        <5>2. n \in 0 .. Len(r_down) - 1 /\ n + 1 = Len(r_down) /\ n = Len(r_down')
          BY <1>0, <1>3, <5>1
        <5>3. At(n)' = At(n + 1)
          BY <3>6, <5>2
        <5>. QED BY <5>2, <5>3
      <4>3. r_thread = "serve" =>
              LET last == At(Len(r_down))'.of
              IN  last <= Len(room) - Len(mqueue) /\ (users.plain => last = Len(room) - Len(mqueue))
        BY <4>2 DEF RInv, InOrder
      <4>. QED BY <1>1, <1>8, <2>12, <4>1, <4>3, OrderRead
    <3>8. ShownInOrder'
      <4>0. heard \in Nat
        BY <1>0 DEF ReceiverTypes
      <4>1. RightlyShown(s, p)
        BY <1>4, <2>3, <2>7, <2>13, <3>2, Shown DEF RInv, RightlyShown
      <4>2. ASSUME NEW i \in 1 .. Len(shown')
            PROVE  RightlyShown(shown[i], IF i = 1 THEN Start ELSE shown[i - 1].got)'
        <5>1. PICK t, q : t = shown'[i] /\ q = IF i = 1 THEN Start ELSE shown'[i - 1].got
          OBVIOUS
        <5>2. RightlyShown(t, q)
          <6>1. CASE i \in 1 .. Len(shown)
            <7>1. i = 1 \/ i - 1 \in 1 .. Len(shown)
              BY <6>1
            <7>2. t = shown[i] /\ q = IF i = 1 THEN Start ELSE shown[i - 1].got
              BY <3>4, <5>1, <6>1, <7>1
            <7>. QED BY <6>1, <7>2 DEF RInv, ShownInOrder
          <6>2. CASE i = Len(shown) + 1
            <7>1. t = s
              BY <3>4, <5>1, <6>2
            <7>2. q = Printed
              <8>1. CASE i = 1
                BY <1>0, <3>3, <5>1, <6>2, <8>1 DEF Printed
              <8>2. CASE i # 1
                <9>1. i - 1 = Len(shown) /\ Len(shown) \in 1 .. Len(shown) /\ shown # <<>>
                  BY <1>0, <6>2, <8>2
                <9>. QED BY <3>4, <5>1, <8>2, <9>1 DEF Printed
              <8>. QED BY <8>1, <8>2
            <7>. QED BY <2>7, <4>1, <7>1, <7>2
          <6>. QED BY <1>0, <3>4, <6>1, <6>2
        <5>3. RightlyShown(t, q)'
          BY <1>0, <1>1, <4>0, <5>2, RightlyKept
        <5>4. q = IF i = 1 THEN Start' ELSE shown'[i - 1].got
          BY <1>1, <5>1 DEF Start, Reply
        <5>. QED BY <5>1, <5>3, <5>4
      <4>. QED BY <4>2 DEF ShownInOrder
    <3>. QED BY <1>8, <1>9, <1>11, <2>10, <2>11, <3>7, <3>8 DEF RInv
  <2>14. CASE ~(d.line.tag = "delivery" /\ d.line.here)
    <3>1. shown' = shown
      BY <1>5, <2>14
    <3>2. Printed' = p
      BY <1>1, <2>7, <3>1 DEF Printed, Start, Reply
    <3>3. users.plain => d.nth > 0
      <4>. SUFFICES ASSUME users.plain, d.nth = 0 PROVE FALSE
        BY <2>8
      <4>1. PICK text : text = room[d.of].line.says
        OBVIOUS
      <4>2. d.line = Delivery(text)
        BY <2>3, <4>1 DEF Delivered, Part
      <4>. QED BY <2>14, <4>2 DEF Delivery
    <3>4. InOrder'
      <4>1. ASSUME NEW k \in 1 .. Len(r_down) - 1, r_down[k + 1].of # 0
            PROVE  RightlyComing(r_down[k + 1], At(k - 1)')
        <5>1. k + 1 \in 1 .. Len(r_down) /\ (k + 1) - 1 = k /\ k \in 1 .. Len(r_down)
          OBVIOUS
        <5>2. RightlyComing(r_down[k + 1], r_down[k])
          BY <2>1, <2>2, <5>1
        <5>3. CASE k = 1
          <6>1. PICK e : e = r_down[2]
            OBVIOUS
          <6>2. Delivered(e) /\ After(d, e)
            BY <1>2, <5>2, <5>3, <6>1 DEF RightlyComing
          <6>3. e.of \in Nat /\ e.nth \in Nat
            BY <2>9, <5>1, <5>3, <6>1
          <6>4. After(p, e)
            BY <2>3, <2>7, <2>8, <3>3, <6>2, <6>3, AfterAfter
          <6>. QED BY <2>5, <3>2, <5>3, <6>1, <6>2, <6>4 DEF RightlyComing
        <5>4. CASE k > 1
          <6>1. k - 1 \in 1 .. Len(r_down) - 1 /\ (k - 1) + 1 = k
            BY <1>0, <5>4
          <6>2. At(k - 1)' = r_down[k]
            BY <2>4, <6>1
          <6>. QED BY <5>2, <6>2
        <5>. QED BY <5>3, <5>4
      <4>2. r_thread = "serve" =>
              LET last == At(Len(r_down))'.of
              IN  last <= Len(room) - Len(mqueue) /\ (users.plain => last = Len(room) - Len(mqueue))
        <5>. SUFFICES ASSUME r_thread = "serve"
                      PROVE  LET last == At(Len(r_down))'.of
                             IN  /\ last <= Len(room) - Len(mqueue)
                                 /\ users.plain => last = Len(room) - Len(mqueue)
          OBVIOUS
        <5>1. PICK n, was : n = Len(r_down) - 1 /\ was = At(Len(r_down)).of
          OBVIOUS
        <5>2. n \in 0 .. Len(r_down) - 1 /\ n + 1 = Len(r_down) /\ n = Len(r_down')
          BY <1>0, <1>3, <5>1
        <5>3. /\ was <= Len(room) - Len(mqueue)
              /\ users.plain => was = Len(room) - Len(mqueue)
          BY <5>1 DEF RInv, InOrder
        <5>4. Len(r_down) \in 1 .. Len(r_down)
          BY <1>0, <1>3
        <5>5. was = r_down[Len(r_down)].of /\ was \in Nat
          BY <2>2, <2>9, <5>1, <5>4
        <5>6. mqueue \in Seq(Nat)
          BY <1>0 DEF ReceiverTypes
        <5>7. Len(mqueue) \in Nat
          BY <5>6
        <5>8. CASE n = 0
          <6>1. At(n)' = p
            BY <2>5, <3>2, <5>8
          <6>2. was = d.of
            <7>1. Len(r_down) = 1
              BY <1>0, <5>1, <5>8
            <7>2. was = r_down[1].of
              BY <5>5, <7>1
            <7>. QED BY <1>2, <7>2
          <6>3. p.of <= d.of /\ (users.plain => p.of = d.of)
            BY <2>3, <2>7, <2>8, <3>3 DEF After
          <6>4. p.of <= Len(room) - Len(mqueue) /\ (users.plain => p.of = Len(room) - Len(mqueue))
            BY <1>0, <2>8, <5>3, <5>7, <6>2, <6>3
          <6>. QED BY <5>2, <6>1, <6>4
        <5>9. CASE n > 0
          <6>1. n \in 1 .. Len(r_down) - 1
            BY <5>2, <5>9
          <6>2. At(n)' = r_down[n + 1]
            BY <2>4, <6>1
          <6>. QED BY <5>2, <5>3, <5>5, <6>2
        <5>. QED BY <5>2, <5>8, <5>9
      <4>. QED BY <1>1, <1>8, <2>12, <4>1, <4>2, OrderRead
    <3>5. ShownInOrder'
      <4>1. room \in Seq(Line) /\ room' = room
        BY <1>0, <1>1 DEF ReceiverTypes
      <4>2. Len(room) <= Len(room')
        BY <4>1
      <4>. QED BY <1>1, <3>1, <4>1, <4>2, ShownKept
    <3>. QED BY <1>8, <1>9, <1>11, <2>10, <2>11, <3>4, <3>5 DEF RInv
  <2>. QED BY <2>13, <2>14
<1>. QED BY <1>12, <1>13

\* The receiver's thread ends, or nothing happens on the receiver's side.
LEMMA ReceiverIdle ==
  ASSUME RInv, users' = users,
         UNCHANGED <<heard, room, shown, r_down, sender, msg_text, r_pc, r_status>>,
         \/ r_thread' = r_thread /\ mqueue' = mqueue /\ r_up' = r_up
         \/ r_thread' = "closed" /\ mqueue' = <<>> /\ r_up' \in {r_up, <<>>}
  PROVE  RInv'
<1>1. ReceiverTypes'
  <2>1. <<>> \in Seq(Nat) /\ <<>> \in Seq(UpLine)
    OBVIOUS
  <2>. QED BY <2>1 DEF RInv, ReceiverTypes
<1>2. RepliesFirst' /\ RepliesAre'
  <2>1. Owed(r_pc) \in Nat
    BY OwedIs
  <2>2. Owed(r_pc') = Owed(r_pc)
    OBVIOUS
  <2>3. Owed(r_pc') <= Owed(r_pc)
    BY <2>1, <2>2
  <2>4. CASE r_thread' = "closed"
    BY <2>1, <2>2, <2>3, <2>4, RepliesKept
  <2>5. CASE r_thread' = r_thread
    BY <2>5 DEF RInv, RepliesFirst, RepliesAre
  <2>. QED BY <2>4, <2>5
<1>3. JoinComes' /\ ReceiverTold'
  BY DEF RInv, JoinComes, ReceiverTold
<1>4. Queued' /\ InOrder' /\ SetTogether' /\ ShownInOrder'
  BY OrderKept
<1>. QED BY <1>1, <1>2, <1>3, <1>4 DEF RInv

LEMMA ReceiverReset == RInv /\ ReceiverIsReset => RInv'
<1>. SUFFICES ASSUME RInv, ReceiverIsReset PROVE RInv'
  OBVIOUS
<1>1. /\ r_thread = "closed" /\ r_down' = <<>>
      /\ UNCHANGED <<users, room, r_thread, heard, mqueue, r_up, r_pc, r_status,
                     sender, msg_text, shown>>
  BY DEF ReceiverIsReset, delivering, receiver, s_side, program
<1>2. Len(<<>>) = 0 /\ <<>> \in Seq(Item)
  OBVIOUS
<1>3. ReceiverTypes'
  BY <1>1, <1>2 DEF RInv, ReceiverTypes
<1>4. 1 .. Len(r_down') = {}
  BY <1>1, <1>2
<1>5. RepliesFirst' /\ RepliesAre' /\ InOrder'
  BY <1>1, <1>4 DEF RepliesFirst, RepliesAre, InOrder
<1>6. JoinComes' /\ ReceiverTold' /\ Queued' /\ SetTogether'
  BY <1>1 DEF RInv, JoinComes, ReceiverTold, Queued, SetTogether
<1>7. ShownInOrder'
  <2>1. room \in Seq(Line) /\ room' = room
    BY <1>1 DEF RInv, ReceiverTypes
  <2>2. Len(room) <= Len(room')
    BY <2>1
  <2>. QED BY <1>1, <2>1, <2>2, ShownKept
<1>. QED BY <1>3, <1>5, <1>6, <1>7 DEF RInv

\* The confirmation of the login.
LEMMA ReceiverLogsIn == RInv /\ ServeReceiverLogin => RInv'
<1>. SUFFICES ASSUME RInv, ServeReceiverLogin PROVE RInv'
  OBVIOUS
<1>1. /\ r_thread = "login" /\ r_up # <<>> /\ r_up' = Tail(r_up) /\ r_thread' = "join"
      /\ UNCHANGED <<users, room, heard, mqueue, r_pc, r_status, sender, msg_text, shown>>
  BY DEF ServeReceiverLogin, receiver, s_side, program
<1>2. /\ r_down = <<>> /\ shown = <<>> /\ ReceiverTypes /\ users \in Users
      /\ r_up \in Seq(UpLine) /\ r_pc \in {"connect", "rlogin", "login_reply"}
  BY <1>1 DEF RInv, RepliesFirst, ReceiverTypes
<1>3. PICK more : more = users.receiver.reply_rest
  OBVIOUS
<1>4. more \in {"none", "ok", "err", "other", "bad"}
  BY <1>2, <1>3, UsersAre
<1>5. /\ r_down' \in Seq(Item) /\ Len(r_down') >= 1 /\ Len(r_down') \in Nat
      /\ \A k \in 1 .. Len(r_down') :
           /\ r_down'[k].of = 0
           /\ r_down'[k].line.tag \in {"ok", more}
  <2>1. PICK o : o = Replied("ok")
    OBVIOUS
  <2>2. o \in Item /\ o.of = 0 /\ o.line.tag = "ok"
    BY <2>1, ReplyIs DEF Tag
  <2>3. CASE more = "none"
    <3>1. r_down' = <<>> \o <<o>> \o <<>>
      BY <1>2, <1>3, <2>1, <2>3 DEF ServeReceiverLogin
    <3>2. r_down' = <<o>>
      BY <3>1
    <3>. QED BY <2>2, <3>2
  <2>4. CASE more # "none"
    <3>1. PICK m : m = Replied(more)
      OBVIOUS
    <3>2. r_down' = <<>> \o <<o>> \o <<m>>
      BY <1>2, <1>3, <2>1, <2>4, <3>1 DEF ServeReceiverLogin
    <3>3. m \in Item /\ m.of = 0 /\ m.line.tag = more
      <4>1. more \in Tag
        BY <1>4, <2>4 DEF Tag
      <4>. QED BY <3>1, <4>1, ReplyIs
    <3>4. PICK q, t : q = <<>> /\ t = <<m>>
      OBVIOUS
    <3>5. q \in Seq(Item) /\ t \in Seq(Item) /\ Len(q) = 0 /\ Len(t) = 1 /\ t[1] = m
      BY <3>3, <3>4
    <3>6. PICK r : r = r_down' /\ r = q \o <<o>> \o t
      BY <3>2, <3>4
    <3>7. o \in Item /\ q \in Seq(Item) /\ t \in Seq(Item) /\ r = q \o <<o>> \o t
      BY <2>2, <3>5, <3>6
    <3>8. /\ r \in Seq(Item) /\ Len(r) = Len(q) + 1 + Len(t)
          /\ r[Len(q) + 1] = o
          /\ \A k \in 1 .. Len(t) : r[Len(q) + 1 + k] = t[k]
      BY <3>7, ThenAdded
    <3>9. Len(r_down') = 2 /\ r_down'[1] = o /\ r_down'[2] = m
      <4>1. 1 \in 1 .. Len(t) /\ Len(q) + 1 + 1 = 2 /\ Len(q) + 1 = 1
        BY <3>5
      <4>. QED BY <3>5, <3>6, <3>8, <4>1
    <3>10. \A k \in 1 .. Len(r_down') : k = 1 \/ k = 2
      BY <3>9
    <3>. QED BY <2>2, <3>3, <3>6, <3>8, <3>9, <3>10
  <2>. QED BY <2>3, <2>4
<1>6. /\ Tail(r_up) \in Seq(UpLine)
      /\ Len(r_up) <= 1 => Tail(r_up) = <<>>
  BY <1>1, <1>2
<1>7. ReceiverTypes'
  BY <1>1, <1>2, <1>5, <1>6 DEF ReceiverTypes
<1>8. RepliesFirst'
  <2>1. Owed(r_pc') = 2
    BY <1>1, <1>2, OwedIs
  <2>2. Len(r_down') + 1 >= 2
    BY <1>5
  <2>. QED BY <1>1, <1>2, <1>5, <2>1, <2>2 DEF RepliesFirst
<1>9. RepliesAre'
  <2>1. users'.receiver.reply_rest = more
    BY <1>1, <1>3
  <2>. QED BY <1>5, <2>1 DEF RepliesAre
<1>10. JoinComes'
  BY <1>1, <1>6 DEF RInv, JoinComes
<1>11. ReceiverTold'
  BY <1>1, <1>2 DEF ReceiverTold
<1>12. InOrder'
  BY <1>1, <1>2, <1>5 DEF InOrder
<1>13. Queued' /\ SetTogether'
  BY <1>1 DEF RInv, Queued, SetTogether
<1>14. ShownInOrder'
  <2>1. Len(<<>>) = 0
    OBVIOUS
  <2>. QED BY <1>1, <1>2, <2>1 DEF ShownInOrder
<1>. QED BY <1>7, <1>8, <1>9, <1>10, <1>11, <1>12, <1>13, <1>14 DEF RInv

\* The join: from here on the receiver hears what is said.
LEMMA ReceiverJoins == RInv /\ ServeReceiverJoin => RInv'
<1>. SUFFICES ASSUME RInv, ServeReceiverJoin PROVE RInv'
  OBVIOUS
<1>1. /\ r_thread = "join" /\ r_up # <<>> /\ r_up' = Tail(r_up)
      /\ UNCHANGED <<users, room, mqueue, r_pc, r_status, sender, msg_text, shown>>
  BY DEF ServeReceiverJoin, receiver, s_side, program
<1>2. /\ shown = <<>> /\ ReceiverTypes /\ users \in Users /\ mqueue = <<>>
      /\ r_up \in Seq(UpLine) /\ r_down \in Seq(Item) /\ room \in Seq(Line)
      /\ \A k \in 1 .. Len(r_down) : r_down[k].of = 0
  BY <1>1 DEF RInv, RepliesFirst, ReceiverTypes, Queued
<1>3. Len(r_down) \in Nat /\ Len(room) \in Nat /\ Len(mqueue) = 0
  <2>1. Len(r_down) \in Nat
    BY <1>2
  <2>2. Len(room) \in Nat
    BY <1>2
  <2>3. Len(mqueue) = 0
    BY <1>2
  <2>. QED BY <2>1, <2>2, <2>3
<1>4. Head(r_up) = r_up[1] /\ Tail(r_up) \in Seq(UpLine)
  BY <1>1, <1>2
<1>5. PICK tag :
        /\ tag \in {"ok", "err"} /\ r_down' = Append(r_down, Replied(tag))
        /\ tag = "ok" => r_thread' = "serve" /\ heard' = Len(room)
        /\ tag = "err" => r_thread' = "closed" /\ heard' = heard /\ r_up[1].tag # "join"
  BY <1>4 DEF ServeReceiverJoin
<1>6. PICK x : x = Replied(tag)
  OBVIOUS
<1>7. x \in Item /\ x.of = 0 /\ x.line.tag = tag
  BY <1>5, <1>6, ReplyIs DEF Tag
<1>8. r_down' = Append(r_down, x)
  BY <1>5, <1>6
<1>9. /\ r_down' \in Seq(Item) /\ Len(r_down') = Len(r_down) + 1
      /\ \A k \in 1 .. Len(r_down) : r_down'[k] = r_down[k]
      /\ r_down'[Len(r_down) + 1] = x
  BY <1>2, <1>7, <1>8, Added
<1>10. /\ \A k \in 1 .. Len(r_down') : r_down'[k].of = 0
       /\ Len(r_down') \in 1 .. Len(r_down')
  BY <1>2, <1>3, <1>7, <1>9
<1>11. ReceiverTypes'
  <2>1. heard' \in Nat /\ r_thread' \in {"serve", "closed"}
    BY <1>2, <1>3, <1>5 DEF ReceiverTypes
  <2>. QED BY <1>1, <1>2, <1>4, <1>9, <2>1 DEF ReceiverTypes
<1>12. RepliesFirst'
  <2>1. Len(r_down) + 1 >= Owed(r_pc)
    BY <1>1 DEF RInv, RepliesFirst
  <2>2. Len(r_down') >= Owed(r_pc')
    BY <1>1, <1>9, <2>1
  <2>. QED BY <1>5, <1>10, <2>2 DEF RepliesFirst
<1>13. RepliesAre'
  <2>1. tag = "err" => users.receiver.rest # <<>>
    BY <1>1, <1>5 DEF RInv, JoinComes
  <2>2. \A k \in 1 .. Len(r_down') : k \in 1 .. Len(r_down) \/ k = Len(r_down) + 1
    BY <1>3, <1>9
  <2>3. \A k \in 1 .. Len(r_down) :
          /\ r_down[k].line.tag \in {"ok", "err", users.receiver.reply_rest}
          /\ r_down[k].line.tag = "err" =>
               users.receiver.reply_rest = "err" \/ users.receiver.rest # <<>>
    BY <1>2 DEF RInv, RepliesAre
  <2>4. \A k \in 1 .. Len(r_down') :
          /\ r_down'[k].line.tag \in {"ok", "err", users.receiver.reply_rest}
          /\ r_down'[k].line.tag = "err" =>
               users.receiver.reply_rest = "err" \/ users.receiver.rest # <<>>
    BY <1>5, <1>7, <1>9, <2>1, <2>2, <2>3
  <2>. QED BY <1>1, <2>4 DEF RepliesAre
<1>14. JoinComes' /\ ReceiverTold'
  BY <1>1, <1>5 DEF RInv, JoinComes, ReceiverTold
<1>15. Queued'
  BY <1>1, <1>2, <1>3, <1>5 DEF RInv, Queued
<1>16. InOrder'
  <2>1. At(Len(r_down))' = Start'
    <3>1. PICK n : n = Len(r_down')
      OBVIOUS
    <3>2. r_down'[n].of = 0
      BY <1>10, <3>1
    <3>3. At(n)' = Start'
      BY <1>1, <1>2, <3>2 DEF At, Printed
    <3>. QED BY <3>1, <3>3
  <2>2. r_thread' = "serve" => Start'.of = Len(room') - Len(mqueue')
    BY <1>1, <1>3, <1>5 DEF Start
  <2>3. r_thread' = "serve" => Start'.of <= Len(room') - Len(mqueue')
    BY <1>1, <1>3, <1>5 DEF Start
  <2>. QED BY <1>1, <1>2, <1>10, <2>1, <2>2, <2>3 DEF InOrder
<1>17. SetTogether'
  BY <1>1 DEF RInv, SetTogether
<1>18. ShownInOrder'
  <2>1. Len(<<>>) = 0
    OBVIOUS
  <2>. QED BY <1>1, <1>2, <2>1 DEF ShownInOrder
<1>. QED BY <1>11, <1>12, <1>13, <1>14, <1>15, <1>16, <1>17, <1>18 DEF RInv

\* Something is said in the room.
LEMMA ReceiverHears ==
  ASSUME RInv, NEW l \in Line, Say(l), users' = users,
         UNCHANGED <<heard, shown, r_down, sender, msg_text, r_pc, r_status, r_thread, r_up>>
  PROVE  RInv'
<1>1. ReceiverTypes /\ room \in Seq(Line) /\ mqueue \in Seq(Nat) /\ heard \in Nat
  BY DEF RInv, ReceiverTypes
<1>2. room' = Append(room, l) /\ mqueue' = IF r_thread = "serve" THEN Append(mqueue, Len(room) + 1) ELSE mqueue
  BY DEF Say
<1>3. /\ room' \in Seq(Line) /\ Len(room') = Len(room) + 1
      /\ \A k \in 1 .. Len(room) : room'[k] = room[k]
  BY <1>1, <1>2, Added
<1>4. Len(room) \in Nat /\ Len(mqueue) \in Nat
  <2>1. Len(room) \in Nat
    BY <1>1
  <2>2. Len(mqueue) \in Nat
    BY <1>1
  <2>. QED BY <2>1, <2>2
<1>5. /\ r_thread = "serve" =>
           /\ mqueue' \in Seq(Nat) /\ Len(mqueue') = Len(mqueue) + 1
           /\ \A k \in 1 .. Len(mqueue) : mqueue'[k] = mqueue[k]
           /\ mqueue'[Len(mqueue) + 1] = Len(room) + 1
      /\ r_thread # "serve" => mqueue' = mqueue /\ mqueue = <<>>
  <2>1. Len(room) + 1 \in Nat
    BY <1>4
  <2>. QED BY <1>1, <1>2, <2>1, Added DEF RInv, Queued
<1>6. ReceiverTypes'
  BY <1>1, <1>3, <1>5 DEF ReceiverTypes
<1>7. RepliesFirst' /\ RepliesAre' /\ JoinComes' /\ ReceiverTold' /\ SetTogether'
  BY DEF RInv, RepliesFirst, RepliesAre, JoinComes, ReceiverTold, SetTogether
<1>8. ShownInOrder'
  BY <1>3, <1>4, ShownKept
<1>9. Queued'
  <2>1. CASE r_thread = "serve"
    <3>1. /\ heard <= Len(room) /\ Len(mqueue) <= Len(room) - heard
          /\ \A k \in 1 .. Len(mqueue) : mqueue[k] = Len(room) - Len(mqueue) + k
      BY DEF RInv, Queued
    <3>2. \A k \in 1 .. Len(mqueue') : k \in 1 .. Len(mqueue) \/ k = Len(mqueue) + 1
      BY <1>4, <1>5, <2>1
    <3>3. ASSUME NEW k \in 1 .. Len(mqueue')
          PROVE  mqueue'[k] = Len(room') - Len(mqueue') + k
      <4>1. Len(room') - Len(mqueue') = Len(room) - Len(mqueue)
        <5>1. Len(room') = Len(room) + 1 /\ Len(mqueue') = Len(mqueue) + 1
          BY <1>3, <1>5, <2>1
        <5>. QED BY <1>4, <5>1
      <4>2. CASE k \in 1 .. Len(mqueue)
        BY <1>5, <2>1, <3>1, <4>1, <4>2
      <4>3. CASE k = Len(mqueue) + 1
        <5>1. mqueue'[k] = Len(room) + 1
          BY <1>5, <2>1, <4>3
        <5>2. Len(room) + 1 = Len(room) - Len(mqueue) + k
          BY <1>4, <4>3
        <5>. QED BY <4>1, <5>1, <5>2
      <4>. QED BY <3>2, <4>2, <4>3
    <3>4. heard <= Len(room') /\ Len(mqueue') <= Len(room') - heard
      BY <1>1, <1>3, <1>4, <1>5, <2>1, <3>1
    <3>. QED BY <2>1, <3>3, <3>4 DEF Queued
  <2>2. CASE r_thread # "serve"
    <3>1. Len(mqueue') = 0 /\ heard <= Len(room)
      BY <1>5, <2>2 DEF RInv, Queued
    <3>2. heard <= Len(room') /\ Len(mqueue') <= Len(room') - heard /\ 1 .. Len(mqueue') = {}
      BY <1>1, <1>3, <1>4, <3>1
    <3>. QED BY <1>5, <2>2, <3>2 DEF Queued
  <2>. QED BY <2>1, <2>2
<1>10. InOrder'
  <2>1. /\ \A k \in 1 .. Len(r_down') :
             IF r_down'[k].of = 0
             THEN shown' = <<>> /\ \A j \in 1 .. k - 1 : r_down'[j].of = 0
             ELSE RightlyComing(r_down[k], At(k - 1))'
        /\ \A k \in 0 .. Len(r_down) : At(k)' = At(k)
    BY <1>3, <1>4, ComingStays
  <2>2. Len(r_down) \in 0 .. Len(r_down)
    <3>1. r_down \in Seq(Item)
      BY <1>1 DEF ReceiverTypes
    <3>2. Len(r_down) \in Nat
      BY <3>1
    <3>. QED BY <3>2
  <2>3. At(Len(r_down))' = At(Len(r_down))
    BY <2>1, <2>2
  <2>4. r_thread = "serve" => Len(room') - Len(mqueue') = Len(room) - Len(mqueue)
    BY <1>3, <1>4, <1>5
  <2>5. r_thread' = "serve" =>
          LET last == At(Len(r_down)).of
          IN  /\ last <= Len(room') - Len(mqueue')
              /\ users.plain => last = Len(room') - Len(mqueue')
    BY <2>4 DEF RInv, InOrder
  <2>. QED BY <2>1, <2>3, <2>5 DEF InOrder
<1>. QED BY <1>6, <1>7, <1>8, <1>9, <1>10 DEF RInv

\* A delivery is written: it is the one after those that are on the connection.
LEMMA ReceiverDelivers == RInv /\ Deliver => RInv'
<1>. SUFFICES ASSUME RInv, Deliver PROVE RInv'
  OBVIOUS
<1>1. /\ r_thread = "serve" /\ mqueue # <<>> /\ mqueue' = Tail(mqueue)
      /\ UNCHANGED <<users, room, heard, r_thread, r_pc, r_status, r_up, sender, msg_text, shown>>
  BY DEF Deliver, receiver, s_side, program
<1>2. /\ ReceiverTypes /\ users \in Users /\ mqueue \in Seq(Nat) /\ heard \in Nat
      /\ r_down \in Seq(Item) /\ room \in Seq(Line)
  BY DEF RInv, ReceiverTypes
<1>3. Len(r_down) \in Nat /\ Len(room) \in Nat /\ Len(mqueue) \in Nat
  <2>1. Len(r_down) \in Nat
    BY <1>2
  <2>2. Len(room) \in Nat
    BY <1>2
  <2>3. Len(mqueue) \in Nat
    BY <1>2
  <2>. QED BY <2>1, <2>2, <2>3
<1>4. /\ Head(mqueue) = mqueue[1] /\ Len(mqueue) >= 1 /\ mqueue' \in Seq(Nat)
      /\ Len(mqueue') = Len(mqueue) - 1
      /\ \A k \in 1 .. Len(mqueue') : mqueue'[k] = mqueue[k + 1]
  BY <1>1, <1>2, Taken
<1>5. /\ heard <= Len(room) /\ Len(mqueue) <= Len(room) - heard
      /\ \A k \in 1 .. Len(mqueue) : mqueue[k] = Len(room) - Len(mqueue) + k
  BY DEF RInv, Queued
<1>6. PICK m : m = Head(mqueue)
  OBVIOUS
<1>7. m = Len(room) - Len(mqueue) + 1 /\ m \in heard + 1 .. Len(room) /\ m \in Nat /\ m # 0
  <2>1. 1 \in 1 .. Len(mqueue)
    BY <1>3, <1>4
  <2>2. m = Len(room) - Len(mqueue) + 1
    BY <1>4, <1>5, <1>6, <2>1
  <2>. QED BY <1>2, <1>3, <1>4, <1>5, <2>2
<1>8. PICK text : text = room[m].line.says
  OBVIOUS
<1>9. text \in Text
  <2>1. m \in 1 .. Len(room)
    BY <1>2, <1>3, <1>7
  <2>2. room[m] \in Line
    BY <1>2, <2>1
  <2>3. room[m].line \in UpLine
    BY <2>2 DEF Line, Numbered
  <2>. QED BY <1>8, <2>3 DEF UpLine
<1>10. PICK first, rest : first = Delivery(text) /\ rest = text.rest
  OBVIOUS
<1>11. /\ first \in DownLine /\ rest \in Seq(DownLine)
       /\ Len(rest) \in Nat
  <2>1. users.plain \in BOOLEAN
    BY <1>2, UsersAre
  <2>2. text.shows \in Shows /\ text.rest \in Seq(DownLine)
    BY <1>9 DEF Text
  <2>3. rest \in Seq(DownLine)
    BY <1>10, <2>2
  <2>4. Len(rest) \in Nat
    BY <2>3
  <2>. QED BY <1>10, <2>1, <2>2, <2>3, <2>4 DEF Delivery, DownLine, Tag
<1>12. PICK lines : lines = Lines(m, first, rest)
  OBVIOUS
<1>13. r_down' = r_down \o lines
  <2>1. r_down' = r_down \o Lines(m, Delivery(text), text.rest)
    BY <1>6, <1>8 DEF Deliver
  <2>. QED BY <1>10, <1>12, <2>1
<1>14. lines \in Seq(Item) /\ Len(lines) = Len(rest) + 1
  BY <1>7, <1>11, <1>12, LinesAre DEF Item
<1>15. \A k \in 1 .. Len(rest) + 1 :
         lines[k] = [of |-> m, nth |-> k - 1, line |-> Part(k - 1, first, rest)]
  BY <1>11, <1>12, LineOf
<1>16. /\ r_down' \in Seq(Item) /\ Len(r_down') = Len(r_down) + Len(lines)
       /\ \A k \in 1 .. Len(r_down) : r_down'[k] = r_down[k]
       /\ \A k \in 1 .. Len(lines) : r_down'[Len(r_down) + k] = lines[k]
  <2>1. PICK r : r = r_down' /\ r = r_down \o lines
    BY <1>13
  <2>2. /\ r_down \o lines \in Seq(Item) /\ Len(r_down \o lines) = Len(r_down) + Len(lines)
        /\ \A k \in 1 .. Len(r_down) : (r_down \o lines)[k] = r_down[k]
        /\ \A k \in 1 .. Len(lines) : (r_down \o lines)[Len(r_down) + k] = lines[k]
    <3>1. r_down \in Seq(Item) /\ lines \in Seq(Item)
      BY <1>2, <1>14
    <3>. QED BY <3>1, AllAdded
  <2>. QED BY <2>1, <2>2
<1>17. PICK n : n = Len(r_down)
  OBVIOUS
<1>18. /\ n \in Nat /\ Len(r_down') = n + Len(rest) + 1 /\ Len(r_down') \in Nat
       /\ \A k \in 1 .. n : r_down'[k] = r_down[k]
       /\ \A k \in 1 .. Len(rest) + 1 :
            r_down'[n + k] = [of |-> m, nth |-> k - 1, line |-> Part(k - 1, first, rest)]
  BY <1>3, <1>11, <1>14, <1>15, <1>16, <1>17
<1>19. \A k \in 1 .. Len(r_down') :
         \/ k \in 1 .. n
         \/ \E j \in 1 .. Len(rest) + 1 : k = n + j
  <2>. SUFFICES ASSUME NEW k \in 1 .. Len(r_down'), k \notin 1 .. n
                PROVE  \E j \in 1 .. Len(rest) + 1 : k = n + j
    OBVIOUS
  <2>1. k - n \in 1 .. Len(rest) + 1 /\ k = n + (k - n)
    BY <1>11, <1>18
  <2>. QED BY <2>1
<1>20. \A j \in 1 .. Len(rest) + 1 : r_down'[n + j].of = m
  <2>. TAKE j \in 1 .. Len(rest) + 1
  <2>1. r_down'[n + j] = [of |-> m, nth |-> j - 1, line |-> Part(j - 1, first, rest)]
    BY <1>18
  <2>. QED BY <2>1
<1>21. ReceiverTypes'
  BY <1>1, <1>2, <1>4, <1>16 DEF ReceiverTypes
<1>22. RepliesFirst'
  <2>1. n >= Owed(r_pc) /\ \A k \in 1 .. n : k <= Owed(r_pc) => r_down[k].of = 0
    BY <1>1, <1>17 DEF RInv, RepliesFirst
  <2>2. Owed(r_pc) \in Nat /\ Owed(r_pc') = Owed(r_pc)
    BY <1>1, OwedIs
  <2>3. Len(r_down') >= Owed(r_pc')
    BY <1>11, <1>18, <2>1, <2>2
  <2>4. ASSUME NEW k \in 1 .. Len(r_down'), k <= Owed(r_pc')
        PROVE  r_down'[k].of = 0
    <3>1. k \in 1 .. n
      BY <1>18, <2>1, <2>2, <2>4
    <3>. QED BY <1>18, <2>1, <2>2, <2>4, <3>1
  <2>. QED BY <1>1, <2>3, <2>4 DEF RepliesFirst
<1>23. RepliesAre'
  <2>1. \A k \in 1 .. Len(r_down') : r_down'[k].of = 0 => k \in 1 .. n
    BY <1>7, <1>19, <1>20
  <2>2. \A k \in 1 .. n : r_down[k].of = 0 =>
          /\ r_down[k].line.tag \in {"ok", "err", users.receiver.reply_rest}
          /\ r_down[k].line.tag = "err" =>
               users.receiver.reply_rest = "err" \/ users.receiver.rest # <<>>
    BY <1>17 DEF RInv, RepliesAre
  <2>. QED BY <1>1, <1>18, <2>1, <2>2 DEF RepliesAre
<1>24. JoinComes' /\ ReceiverTold' /\ SetTogether'
  BY <1>1 DEF RInv, JoinComes, ReceiverTold, SetTogether
<1>25. Queued'
  <2>1. ASSUME NEW k \in 1 .. Len(mqueue')
        PROVE  mqueue'[k] = Len(room') - Len(mqueue') + k
    <3>1. k + 1 \in 1 .. Len(mqueue) /\ mqueue'[k] = mqueue[k + 1]
      BY <1>3, <1>4
    <3>2. mqueue'[k] = Len(room) - Len(mqueue) + (k + 1)
      BY <1>5, <3>1
    <3>. QED BY <1>1, <1>3, <1>4, <3>2
  <2>2. Len(mqueue') <= Len(room) - heard
    BY <1>2, <1>3, <1>4, <1>5
  <2>. QED BY <1>1, <1>5, <2>1, <2>2 DEF Queued
<1>26. ShownInOrder'
  <2>1. room' = room /\ Len(room) <= Len(room')
    BY <1>1, <1>3
  <2>. QED BY <1>1, <1>2, <2>1, ShownKept
<1>27. \A k \in 0 .. n : At(k)' = At(k)
  BY <1>1, <1>18 DEF At, Printed, Start, Reply
<1>28. \A k \in 1 .. Len(rest) + 1 : At(n + k)' = r_down'[n + k]
  <2>1. \A k \in 1 .. Len(rest) + 1 : n + k # 0
    BY <1>18
  <2>. QED BY <1>7, <1>20, <2>1 DEF At
<1>29. /\ At(n).of <= Len(room) - Len(mqueue)
       /\ users.plain => At(n).of = Len(room) - Len(mqueue)
  BY <1>1, <1>17 DEF RInv, InOrder
<1>30. ASSUME NEW j \in 1 .. Len(rest) + 1
       PROVE  RightlyComing(r_down[n + j], At((n + j) - 1))'
  <2>1. PICK l, p : l = r_down'[n + j] /\ p = At((n + j) - 1)'
    OBVIOUS
  <2>2. l = [of |-> m, nth |-> j - 1, line |-> Part(j - 1, first, rest)]
    BY <1>18, <2>1
  <2>3. j - 1 \in 0 .. Len(rest)
    BY <1>11
  <2>4. Delivered(l)
    <3>1. l.of = m /\ l.nth = j - 1 /\ l.line = Part(j - 1, first, rest)
      BY <2>2
    <3>2. room[l.of].line.says = text
      BY <1>8, <3>1
    <3>3. Part(j - 1, first, rest) = Part(l.nth, Delivery(text), text.rest)
      BY <1>10, <3>1
    <3>4. l.nth \in 0 .. Len(text.rest)
      BY <1>10, <2>3, <3>1
    <3>. QED BY <1>7, <3>1, <3>2, <3>3, <3>4 DEF Delivered
  <2>5. After(p, l)
    <3>1. CASE j = 1
      <4>1. (n + j) - 1 = n /\ n \in 0 .. n
        BY <1>18, <3>1
      <4>2. p = At(n)
        BY <1>27, <2>1, <4>1
      <4>3. l.of = m /\ l.nth = 0
        BY <2>2, <3>1
      <4>4. users.plain => l.of = p.of + 1
        BY <1>3, <1>7, <1>29, <4>2, <4>3
      <4>5. ~users.plain => l.of > p.of
        <5>1. PICK o : o = p.of
          OBVIOUS
        <5>2. o \in Nat
          <6>1. At(n) = Printed \/ (n \in 1 .. Len(r_down) /\ At(n) = r_down[n])
            BY <1>17, <1>18 DEF At
          <6>2. \A k \in 1 .. Len(r_down) : r_down[k].of \in Nat
            <7>1. \A k \in 1 .. Len(r_down) : r_down[k] \in Item
              BY <1>2
            <7>. QED BY <7>1 DEF Item, Numbered
          <6>3. Printed.of \in Nat
            <7>1. CASE shown = <<>>
              BY <1>2, <7>1 DEF Printed, Start
            <7>2. CASE shown # <<>>
              <8>1. shown \in Seq([got : Item, name : Item, text : Item])
                BY <1>2 DEF ReceiverTypes
              <8>2. shown[Len(shown)] \in [got : Item, name : Item, text : Item]
                BY <7>2, <8>1, LastIs
              <8>3. shown[Len(shown)].got \in Item
                BY <8>2
              <8>. QED BY <7>2, <8>3 DEF Printed, Item, Numbered
            <7>. QED BY <7>1, <7>2
          <6>. QED BY <4>2, <5>1, <6>1, <6>2, <6>3
        <5>3. o <= Len(room) - Len(mqueue)
          BY <1>29, <4>2, <5>1
        <5>4. m > o
          BY <1>3, <1>7, <5>2, <5>3
        <5>. QED BY <4>3, <5>1, <5>4
      <4>. QED BY <4>3, <4>4, <4>5 DEF After
    <3>2. CASE j > 1
      <4>1. PICK i : i = j - 1
        OBVIOUS
      <4>2. i \in 1 .. Len(rest) + 1 /\ (n + j) - 1 = n + i /\ i \in Nat
        BY <1>11, <1>18, <3>2, <4>1
      <4>3. p = r_down'[n + i]
        BY <1>28, <2>1, <4>2
      <4>4. r_down'[n + i] = [of |-> m, nth |-> i - 1, line |-> Part(i - 1, first, rest)]
        BY <1>18, <4>2
      <4>5. p.of = m /\ p.nth = i - 1 /\ l.of = m /\ l.nth = i
        BY <2>2, <4>1, <4>3, <4>4
      <4>6. i > i - 1
        BY <4>2
      <4>. QED BY <4>5, <4>6 DEF After
    <3>. QED BY <3>1, <3>2
  <2>6. RightlyComing(l, p)
    BY <2>4, <2>5 DEF RightlyComing
  <2>7. RightlyComing(l, p)'
    <3>1. room' = room /\ Len(room) <= Len(room')
      BY <1>1, <1>3
    <3>. QED BY <1>1, <1>2, <1>3, <2>6, <3>1, ComingKept
  <2>. QED BY <2>1, <2>7
<1>31. InOrder'
  <2>1. ASSUME NEW k \in 1 .. Len(r_down')
        PROVE  IF r_down'[k].of = 0
               THEN shown' = <<>> /\ \A j \in 1 .. k - 1 : r_down'[j].of = 0
               ELSE RightlyComing(r_down[k], At(k - 1))'
    <3>1. CASE k \in 1 .. n
      <4>1. CASE r_down[k].of = 0
        <5>1. shown = <<>> /\ \A j \in 1 .. k - 1 : r_down[j].of = 0
          BY <1>17, <3>1, <4>1 DEF RInv, InOrder
        <5>2. \A j \in 1 .. k - 1 : j \in 1 .. n
          BY <1>18, <3>1
        <5>. QED BY <1>1, <1>18, <3>1, <4>1, <5>1, <5>2
      <4>2. CASE r_down[k].of # 0
        <5>1. PICK l, p : l = r_down[k] /\ p = At(k - 1)
          OBVIOUS
        <5>2. RightlyComing(l, p)
          BY <1>17, <3>1, <4>2, <5>1 DEF RInv, InOrder
        <5>3. RightlyComing(l, p)'
          <6>1. room' = room /\ Len(room) <= Len(room')
            BY <1>1, <1>3
          <6>. QED BY <1>1, <1>2, <1>3, <5>2, <6>1, ComingKept
        <5>4. k - 1 \in 0 .. n
          BY <1>18, <3>1
        <5>5. l = r_down'[k]
          BY <1>18, <3>1, <5>1
        <5>6. p = At(k - 1)'
          BY <1>27, <5>1, <5>4
        <5>7. RightlyComing(r_down[k], At(k - 1))'
          BY <5>3, <5>5, <5>6
        <5>. QED BY <1>18, <3>1, <4>2, <5>7
      <4>. QED BY <4>1, <4>2
    <3>2. CASE \E j \in 1 .. Len(rest) + 1 : k = n + j
      <4>1. PICK j \in 1 .. Len(rest) + 1 : k = n + j
        BY <3>2
      <4>2. RightlyComing(r_down[n + j], At((n + j) - 1))'
        BY <1>30
      <4>3. r_down'[k].of # 0
        BY <1>7, <1>20, <4>1
      <4>. QED BY <4>1, <4>2, <4>3
    <3>. QED BY <1>19, <3>1, <3>2
  <2>2. At(Len(r_down))'.of = m
    <3>1. PICK j : j = Len(rest) + 1
      OBVIOUS
    <3>2. j \in 1 .. Len(rest) + 1 /\ n + j = Len(r_down')
      BY <1>11, <1>18, <3>1
    <3>3. At(n + j)' = r_down'[n + j] /\ r_down'[n + j].of = m
      BY <1>20, <1>28, <3>2
    <3>. QED BY <3>2, <3>3
  <2>3. m = Len(room') - Len(mqueue')
    <3>1. Len(mqueue') = Len(mqueue) - 1 /\ room' = room
      BY <1>1, <1>4
    <3>2. m = Len(room) - Len(mqueue) + 1
      BY <1>7
    <3>. QED BY <1>3, <3>1, <3>2
  <2>4. m <= Len(room') - Len(mqueue')
    BY <1>7, <2>3
  <2>. QED BY <2>1, <2>2, <2>3, <2>4 DEF InOrder
<1>. QED BY <1>21, <1>22, <1>23, <1>24, <1>25, <1>26, <1>31 DEF RInv

LEMMA ReceiverStep == SInv /\ RInv /\ [Next]_vars => RInv'
<1>. SUFFICES ASSUME SInv, RInv, [Next]_vars PROVE RInv'
  OBVIOUS
<1>1. CASE SenderRuns
  BY <1>1, ReceiverIdle
  DEF SenderRuns, SenderConnects, SenderSaysHello, SenderLogsIn, SenderReads,
      r_side, receiver, delivering
<1>2. CASE ReceiverRuns
  BY <1>2, ReceiverStarts, ReceiverAnswered, ReceiverPrinted DEF ReceiverRuns
<1>3. CASE ThreadRuns
  <2>1. CASE ServeLogin
    BY <2>1, ReceiverIdle DEF ServeLogin, program, r_side, receiver, delivering
  <2>2. CASE SenderGone
    BY <2>2, ReceiverIdle DEF SenderGone, program, r_side, receiver, delivering
  <2>3. CASE ServeSender
    <3>1. PICK l : l = Head(up)
      OBVIOUS
    <3>2. l \in Line
      <4>1. up \in Seq(Line) /\ up # <<>>
        BY <2>3 DEF SInv, SenderTypes, ServeSender
      <4>. QED BY <3>1, <4>1
    <3>3. /\ users' = users
          /\ UNCHANGED <<heard, shown, r_down, sender, msg_text, r_pc, r_status, r_thread, r_up>>
      BY <2>3 DEF ServeSender, program, receiver
    <3>4. Say(l) \/ UNCHANGED <<room, mqueue>>
      BY <2>3, <3>1 DEF ServeSender, Handle
    <3>5. CASE Say(l)
      BY <3>2, <3>3, <3>5, ReceiverHears
    <3>6. CASE UNCHANGED <<room, mqueue>>
      BY <3>3, <3>6, ReceiverIdle
    <3>. QED BY <3>4, <3>5, <3>6
  <2>. QED BY <1>3, <2>1, <2>2, <2>3 DEF ThreadRuns
<1>4. CASE DeliveryRuns
  <2>1. CASE ReceiverGone
    BY <2>1, ReceiverIdle DEF ReceiverGone, s_side, program, receiver
  <2>. QED BY <1>4, <2>1, ReceiverLogsIn, ReceiverJoins, ReceiverDelivers DEF DeliveryRuns
<1>5. CASE Type
  BY <1>5, ReceiverIdle DEF Type, r_side, receiver, delivering
<1>6. CASE EndInput
  BY <1>6, ReceiverIdle DEF EndInput, r_side, receiver, delivering
<1>7. ASSUME NEW text \in Said, OtherSays(text) PROVE RInv'
  <2>1. PICK l : l = [of |-> Others, nth |-> 0, line |-> Says(text)]
    OBVIOUS
  <2>2. l \in Line
    <3>1. Says(text) \in UpLine /\ Others \in Nat
      BY ClientsAssumption, SaysIs DEF Others
    <3>. QED BY <2>1, <3>1 DEF Line, Numbered
  <2>3. /\ Say(l) /\ users' = users
        /\ UNCHANGED <<heard, shown, r_down, sender, msg_text, r_pc, r_status, r_thread, r_up>>
    BY <1>7, <2>1 DEF OtherSays, s_side, program, receiver
  <2>. QED BY <2>2, <2>3, ReceiverHears
<1>8. CASE ServerExits
  BY <1>8, ReceiverIdle DEF ServerExits, program, receiver
<1>9. CASE SenderIsReset
  BY <1>9, ReceiverIdle DEF SenderIsReset, program, r_side, receiver, delivering
<1>10. CASE ReceiverIsReset
  BY <1>10, ReceiverReset
<1>11. CASE UNCHANGED vars
  BY <1>11, ReceiverIdle DEF vars, s_side, program, r_side, receiver, delivering
<1>. QED BY <1>1, <1>2, <1>3, <1>4, <1>5, <1>6, <1>7, <1>8, <1>9, <1>10, <1>11 DEF Next

LEMMA ReceiverInvariant == Spec => []RInv
BY SenderInvariant, InitReceiver, ReceiverStep, PTL DEF Spec

\* All variables keep their types, for all that users type and are called.
THEOREM TypeCorrect == Spec => []TypeOK
<1>1. SInv /\ RInv => TypeOK
  BY DEF SInv, RInv, TypeOK
<1>. QED BY <1>1, SenderInvariant, ReceiverInvariant, PTL

\* sender.cpp:11-129, receiver.cpp:34-65: what the exit codes tell holds, for all
\* that users type and are called.
THEOREM StatusIsTrue == Spec => []StatusTellsWhy
<1>1. SInv /\ RInv => StatusTellsWhy
  <2>. SUFFICES ASSUME SInv, RInv PROVE StatusTellsWhy
    OBVIOUS
  <2>1. s_pc = "exit" =>
          \/ s_status = "0" /\ LastTyped("send", {"quit"}) /\ (s_thread = "closed" \/ Cut)
          \/ s_status = "abort" /\ LastTyped("abort", {})
          \/ s_status = "7" /\ users.sender.reply_rest = "other"
          \/ s_status \in {"1", "6", "8", "SIGPIPE"} /\ s_thread = "closed"
    BY DEF SInv, EndTold, QuitTyped
  <2>2. r_pc = "exit" =>
          \/ r_status = "3" /\ (users.receiver.reply_rest = "err" \/ users.receiver.rest # <<>>)
          \/ r_status = "4" /\ (users.receiver.reply_rest # "none" \/ r_thread = "closed")
          \/ r_status \in {"1", "-1", "SIGPIPE"} /\ r_thread = "closed"
    BY DEF RInv, ReceiverTold
  <2>. HIDE DEF LastTyped, Cut
  <2>3. s_pc = "exit" =>
          CASE s_status = "0" -> LastTyped("send", {"quit"}) /\ (s_thread = "closed" \/ Cut)
            [] s_status = "abort" -> LastTyped("abort", {})
            [] s_status = "7" -> users.sender.reply_rest = "other"
            [] OTHER -> s_status \in {"1", "6", "8", "SIGPIPE"} /\ s_thread = "closed"
    BY <2>1
  <2>4. r_pc = "exit" =>
          CASE r_status = "3" -> users.receiver.reply_rest = "err" \/ users.receiver.rest # <<>>
            [] r_status = "4" -> users.receiver.reply_rest # "none" \/ r_thread = "closed"
            [] OTHER -> r_status \in {"1", "-1", "SIGPIPE"} /\ r_thread = "closed"
    BY <2>2
  <2>. QED BY <2>3, <2>4 DEF StatusTellsWhy
<1>. QED BY <1>1, SenderInvariant, ReceiverInvariant, PTL

------------------------------------------------------------------------------
(* What is said *)

\* What was sent stays so.
LEMMA SentStays ==
  ASSUME SenderTypes, SenderTypes', users' = users, turn <= turn', ended => ended',
         NEW l, Sent(l)
  PROVE  Sent(l)'
<1>1. 1 .. turn \subseteq 1 .. turn'
  BY DEF SenderTypes
<1>. QED BY <1>1 DEF Sent, Blank, Says

LEMMA WordsTypes ==
  ASSUME WInv
  PROVE  /\ SenderTypes /\ up \in Seq(Line) /\ room \in Seq(Line) /\ asked \in Nat
         /\ Len(up) \in Nat /\ Len(room) \in Nat
         /\ \A k \in 1 .. Len(up) : up[k].of \in Nat /\ up[k].nth \in Nat
         /\ \A k \in 1 .. Len(room) : room[k].of \in Nat /\ room[k].nth \in Nat
<1>1. SenderTypes /\ up \in Seq(Line) /\ room \in Seq(Line) /\ asked \in Nat
  BY DEF WInv, SenderTypes, ReceiverTypes
<1>2. Len(up) \in Nat
  BY <1>1
<1>3. Len(room) \in Nat
  BY <1>1
<1>4. /\ \A k \in 1 .. Len(up) : up[k] \in Line
      /\ \A k \in 1 .. Len(room) : room[k] \in Line
  BY <1>1
<1>. QED BY <1>1, <1>2, <1>3, <1>4 DEF Line, Numbered

\* What was said stays in order while nothing more is said.
LEMMA WordsKept ==
  ASSUME WInv, SenderTypes', users' = users, turn <= turn', ended => ended',
         asked' \in Nat, asked <= asked', room' = room
  PROVE  SaidInOrder'
<1>1. SenderTypes /\ asked \in Nat /\ \A k \in 1 .. Len(room) : room[k].of \in Nat
  BY WordsTypes
<1>2. ASSUME NEW k \in 1 .. Len(room'), room'[k].of # Others
      PROVE  Sent(room[k])' /\ room'[k].of < asked'
  <2>1. PICK l : l = room[k]
    OBVIOUS
  <2>2. Sent(l) /\ l.of < asked /\ l.of \in Nat
    BY <1>1, <1>2, <2>1 DEF WInv, SaidInOrder
  <2>3. Sent(l)'
    BY <1>1, <2>2, SentStays
  <2>4. l.of < asked'
    BY <1>1, <2>2
  <2>5. l = room'[k]
    BY <2>1
  <2>. QED BY <2>3, <2>4, <2>5
<1>3. \A k, l \in 1 .. Len(room') :
        k < l /\ room'[k].of # Others /\ room'[l].of # Others => Before(room'[k], room'[l])
  BY DEF WInv, SaidInOrder
<1>. QED BY <1>2, <1>3 DEF SaidInOrder

\* What is on its way stays in order, for those of its lines that are left.
LEMMA WordsTaken ==
  ASSUME WInv, SenderTypes', ReceiverTypes', UNCHANGED <<users, turn, asked, room>>,
         ended => ended', up' = up \/ up' = <<>> \/ (up # <<>> /\ up' = Tail(up))
  PROVE  WInv'
<1>0. /\ SenderTypes /\ up \in Seq(Line) /\ asked \in Nat /\ Len(up) \in Nat
      /\ turn <= turn' /\ asked <= asked'
  <2>1. SenderTypes /\ up \in Seq(Line) /\ asked \in Nat /\ Len(up) \in Nat
    BY WordsTypes
  <2>2. turn <= turn' /\ asked <= asked'
    BY <2>1 DEF SenderTypes
  <2>. QED BY <2>1, <2>2
<1>1. SaidInOrder'
  BY <1>0, WordsKept
<1>2. PICK n \in {0, 1} :
        /\ \A k \in 1 .. Len(up') : k + n \in 1 .. Len(up) /\ up'[k] = up[k + n]
        /\ Len(up') \in Nat
  <2>1. CASE up' = up
    <3>1. \A k \in 1 .. Len(up') : k + 0 = k
      BY <1>0, <2>1
    <3>. QED BY <1>0, <2>1, <3>1
  <2>2. CASE up' = <<>>
    <3>1. Len(<<>>) = 0 /\ 1 .. 0 = {}
      OBVIOUS
    <3>. QED BY <2>2, <3>1
  <2>3. CASE up # <<>> /\ up' = Tail(up)
    <3>1. Len(up') = Len(up) - 1 /\ Len(up) >= 1 /\ \A k \in 1 .. Len(up') : up'[k] = up[k + 1]
      BY <1>0, <2>3, Taken
    <3>. QED BY <1>0, <3>1
  <2>. QED BY <2>1, <2>2, <2>3
<1>3. ASSUME NEW k \in 1 .. Len(up')
      PROVE  /\ up'[k].of < asked'
             /\ up'[k].line.tag = "sendall" => Sent(up[k])'
             /\ \A l \in 1 .. Len(room') : room'[l].of # Others => Before(room'[l], up'[k])
  <2>1. PICK l : l = up[k + n]
    OBVIOUS
  <2>2. /\ l.of < asked
        /\ l.line.tag = "sendall" => Sent(l)
        /\ \A j \in 1 .. Len(room) : room[j].of # Others => Before(room[j], l)
    BY <1>2, <2>1 DEF WInv, ToBeSaid
  <2>3. l.line.tag = "sendall" => Sent(l)'
    BY <1>0, <2>2, SentStays
  <2>4. l = up'[k]
    BY <1>2, <2>1
  <2>. QED BY <2>2, <2>3, <2>4
<1>4. ASSUME NEW k \in 1 .. Len(up'), NEW l \in 1 .. Len(up'), k < l
      PROVE  Before(up'[k], up'[l])
  <2>1. k + n < l + n /\ k + n \in 1 .. Len(up) /\ l + n \in 1 .. Len(up)
    BY <1>2, <1>4
  <2>2. Before(up[k + n], up[l + n])
    BY <2>1 DEF WInv, ToBeSaid
  <2>. QED BY <1>2, <2>2
<1>5. ToBeSaid'
  BY <1>3, <1>4 DEF ToBeSaid
<1>. QED BY <1>1, <1>5 DEF WInv

\* A message is sent: its lines come after what was sent before.
LEMMA WordsSent ==
  ASSUME WInv, SenderTypes', ReceiverTypes', users' = users, turn <= turn', ended => ended',
         room' = room, asked' = asked + 1,
         NEW a, a = asked, NEW first \in UpLine, NEW rest \in Seq(UpLine),
         up' = up \/ up' = up \o Lines(asked, first, rest),
         \A j \in 1 .. Len(rest) + 1 :
           Part(j - 1, first, rest).tag = "sendall" =>
             Sent([of |-> a, nth |-> j - 1, line |-> Part(j - 1, first, rest)])'
  PROVE  WInv'
<1>0. /\ SenderTypes /\ up \in Seq(Line) /\ asked \in Nat /\ Len(up) \in Nat
      /\ asked <= asked' /\ asked' \in Nat
      /\ \A k \in 1 .. Len(up) : up[k].of \in Nat /\ up[k].nth \in Nat
      /\ \A k \in 1 .. Len(room) : room[k].of \in Nat /\ room[k].nth \in Nat
  <2>1. asked \in Nat
    BY WordsTypes
  <2>. QED BY <2>1, WordsTypes
<1>1. SaidInOrder'
  BY <1>0, WordsKept
<1>2. \A k \in 1 .. Len(room) : room[k].of # Others => room[k].of < asked
  BY DEF WInv, SaidInOrder
<1>3. ASSUME NEW k \in 1 .. Len(up)
      PROVE  /\ up[k].of < asked'
             /\ up[k].of < asked
             /\ \E l : l = up[k] /\ (l.line.tag = "sendall" => Sent(l)')
             /\ \A l \in 1 .. Len(room) : room[l].of # Others => Before(room[l], up[k])
  <2>1. PICK l : l = up[k]
    OBVIOUS
  <2>2. /\ l.of < asked
        /\ l.line.tag = "sendall" => Sent(l)
        /\ \A j \in 1 .. Len(room) : room[j].of # Others => Before(room[j], l)
    BY <2>1 DEF WInv, ToBeSaid
  <2>3. l.line.tag = "sendall" => Sent(l)'
    BY <1>0, <2>2, SentStays
  <2>4. l.of < asked'
    BY <1>0, <2>1, <2>2
  <2>. QED BY <2>1, <2>2, <2>3, <2>4
<1>4. CASE up' = up
  <2>1. ASSUME NEW k \in 1 .. Len(up')
        PROVE  /\ up'[k].of < asked'
               /\ up'[k].line.tag = "sendall" => Sent(up[k])'
               /\ \A l \in 1 .. Len(room') : room'[l].of # Others => Before(room'[l], up'[k])
    <3>1. PICK l : l = up[k] /\ (l.line.tag = "sendall" => Sent(l)')
      BY <1>3, <1>4
    <3>2. l = up'[k]
      BY <1>4, <3>1
    <3>. QED BY <1>3, <1>4, <3>1, <3>2
  <2>2. \A k, l \in 1 .. Len(up') : k < l => Before(up'[k], up'[l])
    BY <1>4 DEF WInv, ToBeSaid
  <2>3. ToBeSaid'
    BY <2>1, <2>2 DEF ToBeSaid
  <2>. QED BY <1>1, <2>3 DEF WInv
<1>5. CASE up' = up \o Lines(asked, first, rest)
  <2>1. PICK lines : lines = Lines(asked, first, rest)
    OBVIOUS
  <2>2. Len(rest) \in Nat
    OBVIOUS
  <2>3. lines \in Seq(Line) /\ Len(lines) = Len(rest) + 1
    BY <1>0, <2>1, LinesAre DEF Line
  <2>4. \A j \in 1 .. Len(rest) + 1 :
          lines[j] = [of |-> asked, nth |-> j - 1, line |-> Part(j - 1, first, rest)]
    BY <2>1, <2>2, LineOf
  <2>5. up \in Seq(Line) /\ lines \in Seq(Line)
    BY <1>0, <2>3
  <2>6. /\ Len(up \o lines) = Len(up) + Len(lines)
        /\ \A k \in 1 .. Len(up) : (up \o lines)[k] = up[k]
        /\ \A k \in 1 .. Len(lines) : (up \o lines)[Len(up) + k] = lines[k]
    BY <2>5, AllAdded
  <2>7. PICK n : n = Len(up)
    OBVIOUS
  <2>8. /\ n \in Nat /\ Len(up') = n + Len(rest) + 1
        /\ \A k \in 1 .. n : up'[k] = up[k]
        /\ \A j \in 1 .. Len(rest) + 1 :
             up'[n + j] = [of |-> asked, nth |-> j - 1, line |-> Part(j - 1, first, rest)]
    BY <1>0, <1>5, <2>1, <2>2, <2>3, <2>4, <2>6, <2>7
  <2>9. \A k \in 1 .. Len(up') :
          k \in 1 .. n \/ (k - n \in 1 .. Len(rest) + 1 /\ k = n + (k - n))
    BY <2>2, <2>8
  <2>10. ASSUME NEW k \in 1 .. Len(up'), k \notin 1 .. n
         PROVE  /\ up'[k].of = asked /\ up'[k].nth = (k - n) - 1
                /\ up'[k].line.tag = "sendall" => Sent(up[k])'
    <3>1. PICK j : j = k - n
      OBVIOUS
    <3>2. j \in 1 .. Len(rest) + 1 /\ k = n + j
      BY <2>9, <2>10, <3>1
    <3>3. PICK l : l = [of |-> a, nth |-> j - 1, line |-> Part(j - 1, first, rest)]
      OBVIOUS
    <3>4. l = up'[k]
      BY <2>8, <3>2, <3>3
    <3>5. l.of = asked /\ l.nth = j - 1 /\ l.line = Part(j - 1, first, rest)
      BY <3>3
    <3>6. l.line.tag = "sendall" => Sent(l)'
      BY <3>2, <3>3, <3>5
    <3>. QED BY <3>1, <3>4, <3>5, <3>6
  <2>11. ASSUME NEW k \in 1 .. Len(up')
         PROVE  /\ up'[k].of < asked'
                /\ up'[k].line.tag = "sendall" => Sent(up[k])'
                /\ \A l \in 1 .. Len(room') : room'[l].of # Others => Before(room'[l], up'[k])
    <3>1. CASE k \in 1 .. n
      <4>1. k \in 1 .. Len(up)
        BY <2>7, <3>1
      <4>2. PICK l : l = up[k] /\ (l.line.tag = "sendall" => Sent(l)')
        BY <1>3, <4>1
      <4>3. l = up'[k] /\ up'[k] = up[k]
        BY <2>8, <3>1, <4>2
      <4>. QED BY <1>3, <4>1, <4>2, <4>3
    <3>2. CASE k \notin 1 .. n
      <4>1. up'[k].of = asked /\ (up'[k].line.tag = "sendall" => Sent(up[k])')
        BY <2>10, <3>2
      <4>2. \A l \in 1 .. Len(room') : room'[l].of # Others => Before(room'[l], up'[k])
        BY <1>2, <4>1 DEF Before
      <4>. QED BY <1>0, <4>1, <4>2
    <3>. QED BY <3>1, <3>2
  <2>12. ASSUME NEW k \in 1 .. Len(up'), NEW l \in 1 .. Len(up'), k < l
         PROVE  Before(up'[k], up'[l])
    <3>1. CASE l \in 1 .. n
      <4>1. k \in 1 .. n /\ k \in 1 .. Len(up) /\ l \in 1 .. Len(up)
        BY <2>7, <2>8, <2>12, <3>1
      <4>2. Before(up[k], up[l])
        BY <2>12, <4>1 DEF WInv, ToBeSaid
      <4>. QED BY <2>8, <3>1, <4>1, <4>2
    <3>2. CASE l \notin 1 .. n /\ k \in 1 .. n
      <4>1. k \in 1 .. Len(up) /\ up'[k] = up[k]
        BY <2>7, <2>8, <3>2
      <4>2. up'[k].of < asked
        BY <1>3, <4>1
      <4>3. up'[l].of = asked
        BY <2>10, <3>2
      <4>. QED BY <4>2, <4>3 DEF Before
    <3>3. CASE l \notin 1 .. n /\ k \notin 1 .. n
      <4>1. /\ up'[k].of = asked /\ up'[k].nth = (k - n) - 1
            /\ up'[l].of = asked /\ up'[l].nth = (l - n) - 1
        BY <2>10, <3>3
      <4>2. (k - n) - 1 < (l - n) - 1
        BY <2>8, <2>12
      <4>. QED BY <4>1, <4>2 DEF Before
    <3>4. l \notin 1 .. n \/ l \in 1 .. n
      OBVIOUS
    <3>. QED BY <3>1, <3>2, <3>3, <3>4
  <2>13. ToBeSaid'
    BY <2>11, <2>12 DEF ToBeSaid
  <2>. QED BY <1>1, <2>13 DEF WInv
<1>. QED BY <1>4, <1>5

LEMMA WordsHello == WInv /\ SenderTypes' /\ ReceiverTypes' /\ SenderSaysHello => WInv'
<1>. SUFFICES ASSUME WInv, SenderTypes', ReceiverTypes', SenderSaysHello PROVE WInv'
  OBVIOUS
<1>1. SenderTypes /\ users \in Users /\ asked \in Nat /\ turn \in Nat
  <2>1. SenderTypes /\ asked \in Nat
    BY WordsTypes
  <2>. QED BY <2>1 DEF SenderTypes
<1>2. PICK first, rest : first = Bare("slogin") /\ rest = users.sender.rest
  OBVIOUS
<1>3. first \in UpLine /\ first.tag = "slogin" /\ rest \in Seq(UpLine) /\ Len(rest) \in Nat
  <2>1. first \in UpLine /\ first.tag = "slogin" /\ rest \in Seq(UpLine)
    BY <1>1, <1>2, BareIs, UsersAre DEF Tag
  <2>. QED BY <2>1
<1>4. /\ asked' = asked + 1 /\ UNCHANGED <<users, turn, ended, room>>
      /\ up' = up \/ up' = up \o Lines(asked, first, rest)
  BY <1>2 DEF SenderSaysHello, SenderSends
<1>5. PICK a : a = asked
  OBVIOUS
<1>6. ASSUME NEW j \in 1 .. Len(rest) + 1, Part(j - 1, first, rest).tag = "sendall"
      PROVE  Sent([of |-> a, nth |-> j - 1, line |-> Part(j - 1, first, rest)])'
  <2>1. j # 1
    BY <1>3, <1>6 DEF Part
  <2>2. j - 1 \in 1 .. Len(rest) /\ j - 1 # 0
    BY <1>3, <2>1
  <2>3. PICK l : l = [of |-> a, nth |-> j - 1, line |-> Part(j - 1, first, rest)]
    OBVIOUS
  <2>4. l.nth \in 1 .. Len(users.sender.rest) /\ l.line = users.sender.rest[l.nth]
    BY <1>2, <2>2, <2>3 DEF Part
  <2>5. Sent(l)'
    BY <1>4, <2>4 DEF Sent
  <2>. QED BY <2>3, <2>5
<1>7. turn <= turn'
  BY <1>1, <1>4
<1>. QED BY <1>3, <1>4, <1>5, <1>6, <1>7, WordsSent

\* A line is typed.
LEMMA WordsTyped == WInv /\ SenderTypes' /\ ReceiverTypes' /\ Type => WInv'
<1>. SUFFICES ASSUME WInv, SenderTypes', ReceiverTypes', Type PROVE WInv'
  OBVIOUS
<1>0. SenderTypes /\ users \in Users /\ asked \in Nat /\ turn \in Nat
  <2>1. SenderTypes /\ asked \in Nat
    BY WordsTypes
  <2>. QED BY <2>1 DEF SenderTypes
<1>1. /\ ended \/ turn < Len(users.types)
      /\ turn' = IF ended THEN turn ELSE turn + 1
      /\ UNCHANGED <<users, ended, room>>
  BY DEF Type
<1>2. turn <= turn' /\ (ended => ended')
  BY <1>0, <1>1
<1>3. CASE Input.does \in {"abort", "nothing"}
  <2>1. UNCHANGED <<asked, up>>
    BY <1>3 DEF Type
  <2>2. SaidInOrder'
    <3>1. asked <= asked' /\ asked' \in Nat
      BY <1>0, <2>1
    <3>. QED BY <1>1, <1>2, <3>1, WordsKept
  <2>3. ASSUME NEW k \in 1 .. Len(up')
        PROVE  /\ up'[k].of < asked'
               /\ up'[k].line.tag = "sendall" => Sent(up[k])'
               /\ \A l \in 1 .. Len(room') : room'[l].of # Others => Before(room'[l], up'[k])
    <3>1. PICK l : l = up[k]
      OBVIOUS
    <3>2. /\ l.of < asked
          /\ l.line.tag = "sendall" => Sent(l)
          /\ \A j \in 1 .. Len(room) : room[j].of # Others => Before(room[j], l)
      BY <2>1, <3>1 DEF WInv, ToBeSaid
    <3>3. l.line.tag = "sendall" => Sent(l)'
      BY <1>0, <1>1, <1>2, <3>2, SentStays
    <3>4. l = up'[k]
      BY <2>1, <3>1
    <3>. QED BY <1>1, <2>1, <3>2, <3>3, <3>4
  <2>4. \A k, l \in 1 .. Len(up') : k < l => Before(up'[k], up'[l])
    BY <2>1 DEF WInv, ToBeSaid
  <2>5. ToBeSaid'
    BY <2>3, <2>4 DEF ToBeSaid
  <2>. QED BY <2>2, <2>5 DEF WInv
<1>4. CASE Input.does \notin {"abort", "nothing"}
  <2>1. Request(Input)
    BY <1>4 DEF Type
  <2>2. PICK first, rest, a : first = Input.line /\ rest = Input.rest /\ a = asked
    OBVIOUS
  <2>3. /\ Input.does = "send" /\ first \in UpLine /\ rest \in Seq(UpLine)
        /\ Len(rest) \in Nat
    <3>1. Input.does = "send" /\ first \in UpLine /\ rest \in Seq(UpLine)
      BY <1>0, <1>1, <1>4, <2>2, InputIs
    <3>. QED BY <3>1
  <2>4. /\ asked' = asked + 1
        /\ up' = up \/ up' = up \o Lines(asked, first, rest)
    BY <2>1, <2>2 DEF Request, SenderSends
  <2>5. ASSUME NEW j \in 1 .. Len(rest) + 1
        PROVE  Sent([of |-> a, nth |-> j - 1, line |-> Part(j - 1, first, rest)])'
    <3>1. PICK l : l = [of |-> a, nth |-> j - 1, line |-> Part(j - 1, first, rest)]
      OBVIOUS
    <3>2. l.nth = j - 1 /\ l.line = Part(j - 1, first, rest) /\ j - 1 \in 0 .. Len(rest)
      BY <2>3, <3>1
    <3>3. CASE ended
      <4>1. Input.line = Blank.line /\ Input.rest = <<>>
        BY <1>0, <1>1, <3>3, InputIs
      <4>2. rest = <<>> /\ first = Blank.line /\ Len(<<>>) = 0
        BY <2>2, <4>1
      <4>3. j = 1
        BY <4>2
      <4>4. l.nth = 0 /\ l.line = Blank.line
        BY <3>2, <4>2, <4>3 DEF Part
      <4>5. Blank' = Blank
        BY <1>1 DEF Blank, Says
      <4>. QED BY <1>1, <3>1, <3>3, <4>4, <4>5 DEF Sent
    <3>4. CASE ~ended
      <4>1. turn + 1 \in 1 .. Len(users.types) /\ Input = users.types[turn + 1]
        BY <1>0, <1>1, <3>4, InputIs
      <4>2. PICK i : i = turn + 1
        OBVIOUS
      <4>3. i \in 1 .. turn' /\ Input = users.types[i]
        BY <1>0, <1>1, <3>4, <4>1, <4>2
      <4>4. /\ users.types[i].does = "send"
            /\ users.types[i].line = first /\ users.types[i].rest = rest
        BY <2>2, <2>3, <4>3
      <4>5. Sent(l)'
        BY <1>1, <3>2, <4>3, <4>4 DEF Sent
      <4>. QED BY <3>1, <4>5
    <3>. QED BY <3>3, <3>4
  <2>. QED BY <1>1, <1>2, <2>2, <2>3, <2>4, <2>5, WordsSent
<1>. QED BY <1>3, <1>4

\* The sender's thread says something: it was on its way before what is left.
LEMMA WordsSaid == WInv /\ SenderTypes' /\ ReceiverTypes' /\ ServeSender => WInv'
<1>. SUFFICES ASSUME WInv, SenderTypes', ReceiverTypes', ServeSender PROVE WInv'
  OBVIOUS
<1>0. /\ SenderTypes /\ up \in Seq(Line) /\ room \in Seq(Line) /\ asked \in Nat
      /\ Len(up) \in Nat /\ Len(room) \in Nat
  BY WordsTypes
<1>1. /\ up # <<>> /\ up' = Tail(up) /\ UNCHANGED <<users, turn, ended, asked>>
      /\ \/ Head(up).line.tag = "sendall" /\ Say(Head(up))
         \/ UNCHANGED <<room, mqueue>>
  BY DEF ServeSender, Handle, program
<1>2. CASE UNCHANGED <<room, mqueue>>
  BY <1>1, <1>2, WordsTaken
<1>3. CASE Head(up).line.tag = "sendall" /\ Say(Head(up))
  <2>1. PICK e : e = up[1]
    OBVIOUS
  <2>2. /\ Head(up) = e /\ e \in Line /\ 1 \in 1 .. Len(up) /\ Len(up') = Len(up) - 1
        /\ \A k \in 1 .. Len(up') : up'[k] = up[k + 1]
    <3>1. /\ Head(up) \in Line /\ Head(up) = up[1] /\ Len(up) >= 1 /\ Len(up') = Len(up) - 1
          /\ \A k \in 1 .. Len(up') : up'[k] = up[k + 1]
      BY <1>0, <1>1, Taken
    <3>. QED BY <1>0, <2>1, <3>1
  <2>3. room' = Append(room, e)
    BY <1>3, <2>2 DEF Say
  <2>4. /\ Len(room') = Len(room) + 1 /\ \A k \in 1 .. Len(room) : room'[k] = room[k]
        /\ room'[Len(room) + 1] = e
    BY <1>0, <2>2, <2>3, Added
  <2>5. \A k \in 1 .. Len(room') : k \in 1 .. Len(room) \/ k = Len(room) + 1
    BY <1>0, <2>4
  <2>6. /\ Sent(e) /\ e.of < asked
        /\ \A l \in 1 .. Len(room) : room[l].of # Others => Before(room[l], e)
    BY <1>3, <2>1, <2>2 DEF WInv, ToBeSaid
  <2>7. turn <= turn' /\ (ended => ended')
    BY <1>0, <1>1 DEF SenderTypes
  <2>8. SaidInOrder'
    <3>1. ASSUME NEW k \in 1 .. Len(room'), room'[k].of # Others
          PROVE  Sent(room[k])' /\ room'[k].of < asked'
      <4>1. PICK l : l = room'[k]
        OBVIOUS
      <4>2. Sent(l) /\ l.of < asked
        <5>1. CASE k \in 1 .. Len(room)
          BY <2>4, <3>1, <4>1, <5>1 DEF WInv, SaidInOrder
        <5>2. CASE k = Len(room) + 1
          BY <2>4, <2>6, <4>1, <5>2
        <5>. QED BY <2>5, <5>1, <5>2
      <4>3. Sent(l)'
        BY <1>0, <1>1, <2>7, <4>2, SentStays
      <4>. QED BY <1>1, <4>1, <4>2, <4>3
    <3>2. ASSUME NEW k \in 1 .. Len(room'), NEW l \in 1 .. Len(room'), k < l,
                 room'[k].of # Others, room'[l].of # Others
          PROVE  Before(room'[k], room'[l])
      <4>1. k \in 1 .. Len(room) /\ room'[k] = room[k]
        BY <1>0, <2>4, <3>2
      <4>2. CASE l \in 1 .. Len(room)
        BY <2>4, <3>2, <4>1, <4>2 DEF WInv, SaidInOrder
      <4>3. CASE l = Len(room) + 1
        BY <2>4, <2>6, <3>2, <4>1, <4>3
      <4>. QED BY <2>5, <4>2, <4>3
    <3>. QED BY <3>1, <3>2 DEF SaidInOrder
  <2>9. \A k \in 1 .. Len(up') : k + 1 \in 1 .. Len(up) /\ 1 < k + 1
    BY <1>0, <2>2
  <2>10. ToBeSaid'
    <3>1. ASSUME NEW k \in 1 .. Len(up')
          PROVE  /\ up'[k].of < asked'
                 /\ up'[k].line.tag = "sendall" => Sent(up[k])'
                 /\ \A l \in 1 .. Len(room') : room'[l].of # Others => Before(room'[l], up'[k])
      <4>1. PICK l : l = up[k + 1]
        OBVIOUS
      <4>2. /\ l.of < asked
            /\ l.line.tag = "sendall" => Sent(l)
            /\ \A j \in 1 .. Len(room) : room[j].of # Others => Before(room[j], l)
        BY <2>9, <4>1 DEF WInv, ToBeSaid
      <4>3. l.line.tag = "sendall" => Sent(l)'
        BY <1>0, <1>1, <2>7, <4>2, SentStays
      <4>4. l = up'[k]
        BY <2>2, <4>1
      <4>5. Before(e, l)
        BY <2>1, <2>2, <2>9, <4>1 DEF WInv, ToBeSaid
      <4>6. \A j \in 1 .. Len(room') : room'[j].of # Others => Before(room'[j], l)
        BY <2>4, <2>5, <4>2, <4>5
      <4>. QED BY <1>1, <4>2, <4>3, <4>4, <4>6
    <3>2. ASSUME NEW k \in 1 .. Len(up'), NEW l \in 1 .. Len(up'), k < l
          PROVE  Before(up'[k], up'[l])
      <4>1. k + 1 < l + 1
        BY <3>2
      <4>2. Before(up[k + 1], up[l + 1])
        BY <2>9, <4>1 DEF WInv, ToBeSaid
      <4>. QED BY <2>2, <4>2
    <3>. QED BY <3>1, <3>2 DEF ToBeSaid
  <2>. QED BY <2>8, <2>10 DEF WInv
<1>. QED BY <1>1, <1>2, <1>3

\* What others say changes nothing for what our sender said.
LEMMA OthersSaid ==
  ASSUME WInv, SenderTypes', ReceiverTypes', NEW text \in Said, OtherSays(text)
  PROVE  WInv'
<1>0. /\ SenderTypes /\ up \in Seq(Line) /\ room \in Seq(Line) /\ asked \in Nat
      /\ Len(up) \in Nat /\ Len(room) \in Nat
  BY WordsTypes
<1>1. PICK e : e = [of |-> Others, nth |-> 0, line |-> Says(text)]
  OBVIOUS
<1>2. room' = Append(room, e) /\ UNCHANGED <<users, turn, ended, asked, up>>
  BY <1>1 DEF OtherSays, Say, s_side, program
<1>3. e \in Line /\ e.of = Others
  <2>1. Says(text) \in UpLine /\ Others \in Nat
    BY ClientsAssumption, SaysIs DEF Others
  <2>. QED BY <1>1, <2>1 DEF Line, Numbered
<1>4. /\ Len(room') = Len(room) + 1 /\ \A k \in 1 .. Len(room) : room'[k] = room[k]
      /\ room'[Len(room) + 1] = e
  BY <1>0, <1>2, <1>3, Added
<1>5. \A k \in 1 .. Len(room') : room'[k].of # Others => k \in 1 .. Len(room) /\ room'[k] = room[k]
  BY <1>0, <1>3, <1>4
<1>6. turn <= turn' /\ (ended => ended')
  BY <1>0, <1>2 DEF SenderTypes
<1>7. SaidInOrder'
  <2>1. ASSUME NEW k \in 1 .. Len(room'), room'[k].of # Others
        PROVE  Sent(room[k])' /\ room'[k].of < asked'
    <3>1. PICK l : l = room'[k]
      OBVIOUS
    <3>2. Sent(l) /\ l.of < asked
      BY <1>5, <2>1, <3>1 DEF WInv, SaidInOrder
    <3>3. Sent(l)'
      BY <1>0, <1>2, <1>6, <3>2, SentStays
    <3>. QED BY <1>2, <3>1, <3>2, <3>3
  <2>2. \A k, l \in 1 .. Len(room') :
          k < l /\ room'[k].of # Others /\ room'[l].of # Others => Before(room'[k], room'[l])
    BY <1>5 DEF WInv, SaidInOrder
  <2>. QED BY <2>1, <2>2 DEF SaidInOrder
<1>8. ToBeSaid'
  <2>1. ASSUME NEW k \in 1 .. Len(up')
        PROVE  /\ up'[k].of < asked'
               /\ up'[k].line.tag = "sendall" => Sent(up[k])'
               /\ \A l \in 1 .. Len(room') : room'[l].of # Others => Before(room'[l], up'[k])
    <3>1. PICK l : l = up[k]
      OBVIOUS
    <3>2. /\ l.of < asked
          /\ l.line.tag = "sendall" => Sent(l)
          /\ \A j \in 1 .. Len(room) : room[j].of # Others => Before(room[j], l)
      BY <1>2, <3>1 DEF WInv, ToBeSaid
    <3>3. l.line.tag = "sendall" => Sent(l)'
      BY <1>0, <1>2, <1>6, <3>2, SentStays
    <3>4. l = up'[k]
      BY <1>2, <3>1
    <3>. QED BY <1>2, <1>5, <3>2, <3>3, <3>4
  <2>2. \A k, l \in 1 .. Len(up') : k < l => Before(up'[k], up'[l])
    BY <1>2 DEF WInv, ToBeSaid
  <2>. QED BY <2>1, <2>2 DEF ToBeSaid
<1>. QED BY <1>7, <1>8 DEF WInv

LEMMA InitWords == Init => WInv
<1>. SUFFICES ASSUME Init PROVE WInv
  OBVIOUS
<1>1. up = <<>> /\ room = <<>>
  BY DEF Init
<1>2. Len(<<>>) = 0 /\ 1 .. 0 = {}
  OBVIOUS
<1>3. ToBeSaid /\ SaidInOrder
  BY <1>1, <1>2 DEF ToBeSaid, SaidInOrder
<1>. QED BY <1>3, InitSender, InitReceiver DEF WInv, SInv, RInv

LEMMA WordsStep == WInv /\ SenderTypes' /\ ReceiverTypes' /\ [Next]_vars => WInv'
<1>. SUFFICES ASSUME WInv, SenderTypes', ReceiverTypes', [Next]_vars PROVE WInv'
  OBVIOUS
<1>1. CASE SenderRuns
  <2>1. CASE SenderSaysHello
    BY <2>1, WordsHello
  <2>2. CASE SenderConnects \/ SenderLogsIn \/ SenderReads
    <3>1. UNCHANGED <<users, turn, ended, asked, room, up>>
      BY <2>2 DEF SenderConnects, SenderLogsIn, SenderReads
    <3>. QED BY <3>1, WordsTaken
  <2>. QED BY <1>1, <2>1, <2>2 DEF SenderRuns
<1>2. CASE ReceiverRuns
  <2>1. UNCHANGED <<s_side, room>>
    BY <1>2 DEF ReceiverRuns, ReceiverConnects, ReceiverSends, ReceiverIsAnswered,
                ReceiverPrints, ReceiverStops
  <2>. QED BY <2>1, WordsTaken DEF s_side, program
<1>3. CASE ThreadRuns
  <2>1. CASE ServeLogin
    BY <2>1, WordsTaken DEF ServeLogin, program
  <2>2. CASE SenderGone
    BY <2>2, WordsTaken DEF SenderGone, program
  <2>. QED BY <1>3, <2>1, <2>2, WordsSaid DEF ThreadRuns
<1>4. CASE DeliveryRuns
  <2>1. UNCHANGED <<s_side, room>>
    BY <1>4 DEF DeliveryRuns, ServeReceiverLogin, ServeReceiverJoin, Deliver, ReceiverGone
  <2>. QED BY <2>1, WordsTaken DEF s_side, program
<1>5. CASE Type
  BY <1>5, WordsTyped
<1>6. CASE EndInput
  BY <1>6, WordsTaken DEF EndInput
<1>7. ASSUME NEW text \in Said, OtherSays(text) PROVE WInv'
  BY <1>7, OthersSaid
<1>8. CASE ServerExits
  BY <1>8, WordsTaken DEF ServerExits, program
<1>9. CASE SenderIsReset
  BY <1>9, WordsTaken DEF SenderIsReset, program
<1>10. CASE ReceiverIsReset
  BY <1>10, WordsTaken DEF ReceiverIsReset, s_side, program
<1>11. CASE UNCHANGED vars
  BY <1>11, WordsTaken DEF vars, s_side, program
<1>. QED BY <1>1, <1>2, <1>3, <1>4, <1>5, <1>6, <1>7, <1>8, <1>9, <1>10, <1>11 DEF Next

LEMMA WordsInvariant == Spec => []WInv
<1>1. SInv => SenderTypes
  BY DEF SInv
<1>2. RInv => ReceiverTypes
  BY DEF RInv
<1>. QED BY <1>1, <1>2, SenderInvariant, ReceiverInvariant, InitWords, WordsStep, PTL DEF Spec

\* receiver.cpp:86-106, sender.cpp:44-100, server.cpp:48-67: for all that users
\* type and are called and any number of messages, the receiver prints what is
\* said in the room since its join, each once and in order, where the room's name
\* is plain, and else only what is a delivery to the room or the rest of one; and
\* what our sender is said to say it has sent, in that order.
THEOREM PrintedAsSaid == Spec => []ShownAsSaid
<1>1. RInv /\ WInv => ShownAsSaid
  <2>. SUFFICES ASSUME RInv, WInv PROVE ShownAsSaid
    OBVIOUS
  <2>1. ASSUME NEW i \in 1 .. Len(shown)
        PROVE  LET l == shown[i].got
                   name == shown[i].name
                   text == shown[i].text
               IN  /\ Delivered(l)
                   /\ l.line.tag = "delivery" /\ l.line.here
                   /\ IF i = 1 THEN users.plain => l.of = heard + 1 /\ l.nth = 0
                      ELSE After(shown[i - 1].got, l)
                   /\ name # l => l.line.shows = "no_name"
                   /\ name # text => name.line.shows = "no_text"
    <3>1. PICK s, p : s = shown[i] /\ p = IF i = 1 THEN Start ELSE shown[i - 1].got
      OBVIOUS
    <3>2. RightlyShown(s, p)
      BY <3>1 DEF RInv, ShownInOrder
    <3>3. /\ Delivered(s.got) /\ After(p, s.got)
          /\ s.got.line.tag = "delivery" /\ s.got.line.here
          /\ s.name # s.got => s.got.line.shows = "no_name"
          /\ s.name # s.text => s.name.line.shows = "no_text"
      BY <3>2 DEF RightlyShown
    <3>4. i = 1 /\ users.plain => s.got.of = heard + 1 /\ s.got.nth = 0
      <4>. SUFFICES ASSUME i = 1, users.plain PROVE s.got.of = heard + 1 /\ s.got.nth = 0
        OBVIOUS
      <4>1. PICK l : l = s.got
        OBVIOUS
      <4>2. p.of = heard /\ p.nth = 0
        BY <3>1 DEF Start
      <4>3. l.of \in heard + 1 .. Len(room) /\ heard \in Nat /\ room \in Seq(Line)
        BY <3>3, <4>1 DEF Delivered, RInv, ReceiverTypes
      <4>4. Len(room) \in Nat
        BY <4>3
      <4>5. l.of # heard
        BY <4>3, <4>4
      <4>6. After(p, l)
        BY <3>3, <4>1
      <4>. QED BY <4>1, <4>2, <4>5, <4>6 DEF After
    <3>. QED BY <3>1, <3>3, <3>4
  <2>2. /\ \A k \in 1 .. Len(room) : room[k].of # Others => Sent(room[k])
        /\ \A k, l \in 1 .. Len(room) :
             k < l /\ room[k].of # Others /\ room[l].of # Others =>
               room[k].of < room[l].of \/ (room[k].of = room[l].of /\ room[k].nth < room[l].nth)
    BY DEF WInv, SaidInOrder, Before
  <2>. QED BY <2>1, <2>2 DEF ShownAsSaid
<1>. QED BY <1>1, ReceiverInvariant, WordsInvariant, PTL

====
