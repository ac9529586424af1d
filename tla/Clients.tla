------------------------------- MODULE Clients -------------------------------
(***************************************************************************)
(* csf_assign05: the programs sender.cpp and receiver.cpp, connected to    *)
(* the threads that serve them (server.cpp), end to end: what a user types *)
(* at one is what a user reads at the other.                               *)
(*                                                                         *)
(* A line on a connection is what receive() returns at the other end.  A   *)
(* message of more than 254 characters arrives in several lines, as        *)
(* Framing shows.  The first has the message's tag; each of the rest is    *)
(* whatever the text happens to say there, which may be a message.  What   *)
(* the rests say is part of what is typed.                                 *)
(***************************************************************************)
EXTENDS Naturals, Sequences, FiniteSets

\* What a message was meant as, or a line is taken for; other: a tag that the
\* reader knows but has no use for, bad: one that receive() rejects.
Tag == {"slogin", "rlogin", "join", "sendall", "leave", "quit", "ok", "err", "delivery",
        "other", "bad"}

\* The room that a join names, or a user is in: the one that the receiver's thread
\* joins, another, none.
Place == {"here", "elsewhere", "none"}

\* What receiver.cpp finds in a delivery's first line, split at its colons: the
\* text whole, up to a colon in it, or cut off; a piece of the name, which has a
\* colon; only a name, which fills the line, or only the room.
Shows == {"whole", "colon", "cut", "name", "no_text", "no_name"}

\* A line to the receiver; here: what stands where a delivery has the room's name
\* is the receiver's room_name.
DownLine == [tag : Tag, here : BOOLEAN, shows : Shows]

\* A text: what the first line of its delivery shows, and the lines after that.
Text == [shows : Shows, rest : Seq(DownLine)]

\* A line to the server; to: where a join leads, says: what a sendall says.
UpLine == [tag : Tag, to : Place, says : Text]

\* A line that a user types: a message, "/join" alone, or an unknown command.
Command == {line \in UpLine : line.tag \in {"sendall", "join", "leave", "quit"}}

Typed ==
  [does : {"send"}, line : Command, rest : Seq(UpLine)] \cup [does : {"abort", "nothing"}]

\* A user's name: the rest of a login with it, and of the reply, "Logged in as "
\* and the name, of at most 263 characters.
Name == [rest : Seq(UpLine), reply_rest : {"none", "ok", "err", "other", "bad"}]

CONSTANTS
  Users,                   \* what the two users do: see the assumption
  Said,                    \* what other senders may say in the room
  MaxAsked,                \* bound: messages the sender sends
  MaxOthers                \* bound: texts that other senders say in the room

\* types: the lines typed at the sender; blank: an empty text said by it; sender,
\* receiver: their names; join_rest: the rest of the receiver's join; plain: the
\* room's name stands in the deliveries as the receiver was given it, that is, it
\* has no colon and fits.
ASSUME ClientsAssumption ==
  /\ Users \subseteq [types : Seq(Typed), blank : Text, sender : Name, receiver : Name,
                      join_rest : Seq(UpLine), plain : BOOLEAN]
  /\ Said \subseteq Text
  /\ MaxAsked \in Nat \ {0} /\ MaxOthers \in Nat

VARIABLES
  users,                   \* what these two users do
  s_pc, s_status,          \* sender: where it is, how it ended
  asked,                   \* sender: the messages it has sent
  quitting,                \* sender: loop_exit_case
  turn, ended,             \* its user's lines that were read; the input has ended
  up, down,                \* the lines on its connection, each way
  s_thread, room_name,     \* chat_with_sender's thread; its user's room
  room,                    \* history: the lines that said something in the receiver's room
  r_thread, heard,         \* chat_with_receiver's thread; history: Len(room) at its join
  mqueue,                  \* its User's queue, positions in room
  r_up, r_down,            \* the lines on the receiver's connection
  r_pc, r_status,          \* receiver: where it is, how it ended
  sender, msg_text,        \* receiver: the lines that set these last
  shown                    \* history: what it has printed

program == <<s_pc, s_status, asked, quitting, users, turn, ended>>
serving == <<s_thread, room_name>>
receiver == <<r_pc, r_status, sender, msg_text, shown>>
delivering == <<r_thread, heard, mqueue>>
s_side == <<program, up, down, serving>>
r_side == <<receiver, r_up, r_down, delivering>>
vars == <<s_side, room, r_side>>

\* In place of the number of the message with which our sender said something.
Others == MaxAsked

Says(text) == [tag |-> "sendall", to |-> "none", says |-> text]
Bare(tag) == [tag |-> tag, to |-> "none", says |-> users.blank]
Reply(tag) == [tag |-> tag, here |-> FALSE, shows |-> "whole"]

\* Message `of' as lines: the first, and the nth of the rest.
Part(nth, first, rest) == IF nth = 0 THEN first ELSE rest[nth]

Lines(of, first, rest) ==
  [k \in 1 .. Len(rest) + 1 |->
     [of |-> of, nth |-> k - 1, line |-> Part(k - 1, first, rest)]]

Nothing == [of |-> 0, nth |-> 0, line |-> Reply("bad")]

Init ==
  /\ users \in Users
  /\ s_pc = "connect" /\ s_status = "none"
  /\ asked = 0 /\ quitting = FALSE
  /\ turn = 0 /\ ended = FALSE
  /\ up = <<>> /\ down = <<>>
  /\ s_thread = "login" /\ room_name = "none"
  /\ room = <<>>
  /\ r_thread = "login" /\ heard = 0 /\ mqueue = <<>>
  /\ r_up = <<>> /\ r_down = <<>>
  /\ r_pc = "connect" /\ r_status = "none"
  /\ sender = Nothing /\ msg_text = Nothing /\ shown = <<>>

------------------------------------------------------------------------------
(* sender.cpp *)

SenderEnds(status) == s_pc' = "exit" /\ s_status' = status

\* conn.send: on a connection that the server has closed the first write may
\* still succeed; another fails, or ends the client, which does not ignore
\* SIGPIPE.  `failed' is what the program does when send returns false.
SenderSends(lines, next, failed) ==
  /\ asked' = asked + 1
  /\ \/ /\ up' = up \o lines
        /\ s_pc' = next
        /\ UNCHANGED s_status
     \/ /\ s_thread = "closed"
        /\ \/ SenderEnds("SIGPIPE")
           \/ failed
        /\ UNCHANGED up

\* Connection::connect ends the program when nobody listens.
SenderConnects ==
  /\ s_pc = "connect"
  /\ IF s_thread = "closed" THEN SenderEnds("1") ELSE s_pc' = "slogin" /\ UNCHANGED s_status
  /\ UNCHANGED <<asked, quitting, users, turn, ended, up, down, serving, room, r_side>>

\* Nobody looks at what this send returns.
SenderSaysHello ==
  /\ s_pc = "slogin"
  /\ SenderSends(Lines(asked, Bare("slogin"), users.sender.rest), "login",
                 s_pc' = "login" /\ UNCHANGED s_status)
  /\ UNCHANGED <<quitting, users, turn, ended, down, serving, room, r_side>>

\* A line is there to be read, or the end of the connection.
Arrives(q, thread) == q # <<>> \/ thread = "closed"
Consumed(q) == IF q = <<>> THEN q ELSE Tail(q)

\* How the sender takes the next response: its tag, or that there is none.
Response == IF down = <<>> THEN "end" ELSE Head(down).tag

\* Any response but err lets the loop start, the end of the connection too.
SenderLogsIn ==
  /\ s_pc = "login"
  /\ Arrives(down, s_thread)
  /\ down' = Consumed(down)
  /\ IF Response = "err" THEN SenderEnds("3") ELSE s_pc' = "input" /\ UNCHANGED s_status
  /\ UNCHANGED <<asked, quitting, users, turn, ended, up, serving, room, r_side>>

Blank == [does |-> "send", line |-> Says(users.blank), rest |-> <<>>]

\* What the next line of the input is; after its end every line is empty.
Input == IF ended THEN Blank ELSE users.types[turn + 1]

\* Mutant: set for another command too.
ExitsOnLeave(line) == line.tag \in {"leave", "quit"}

Exits(line) == line.tag = "quit"

Request(typed) ==
  /\ asked < MaxAsked
  /\ quitting' = Exits(typed.line)
  /\ SenderSends(Lines(asked, typed.line, typed.rest), "reply", SenderEnds("6"))

\* One turn of the loop up to the response; substr(6) of "/join" alone throws.
Type ==
  /\ s_pc = "input"
  /\ ended \/ turn < Len(users.types)
  /\ turn' = IF ended THEN turn ELSE turn + 1
  /\ CASE Input.does = "abort" -> SenderEnds("abort") /\ UNCHANGED <<asked, quitting, up>>
       [] Input.does = "nothing" -> UNCHANGED <<s_pc, s_status, asked, quitting, up>>
       [] OTHER -> Request(Input)
  /\ UNCHANGED <<users, ended, down, serving, room, r_side>>

EndInput ==
  /\ s_pc = "input" /\ ~ended
  /\ ended' = TRUE
  /\ UNCHANGED <<s_pc, s_status, asked, quitting, users, turn, up, down, serving, room, r_side>>

\* Mutant: the loop goes on after the response to a quit.
SenderReadsOn ==
  /\ s_pc = "reply"
  /\ Arrives(down, s_thread)
  /\ down' = Consumed(down)
  /\ CASE Response = "end" -> SenderEnds("8")
       [] Response \in {"ok", "err", "bad"} -> s_pc' = "input" /\ UNCHANGED s_status
       [] OTHER -> SenderEnds("7")
  /\ UNCHANGED <<asked, quitting, users, turn, ended, up, serving, room, r_side>>

\* The response, and the loop's condition; after a line that receive() rejects
\* the connection is still open, and the loop goes on as after ok and err.
SenderReads ==
  /\ s_pc = "reply"
  /\ Arrives(down, s_thread)
  /\ down' = Consumed(down)
  /\ CASE Response = "end" -> SenderEnds("8")
       [] Response \in {"ok", "err", "bad"} /\ quitting -> SenderEnds("0")
       [] Response \in {"ok", "err", "bad"} /\ ~quitting -> s_pc' = "input" /\ UNCHANGED s_status
       [] OTHER -> SenderEnds("7")
  /\ UNCHANGED <<asked, quitting, users, turn, ended, up, serving, room, r_side>>

\* Lines that a closed connection's thread has not read: what the program has not
\* read is lost to the reset.
SenderIsReset ==
  /\ s_pc # "exit" /\ s_thread = "closed" /\ up # <<>> /\ down # <<>>
  /\ down' = <<>>
  /\ UNCHANGED <<program, up, serving, room, r_side>>

------------------------------------------------------------------------------
(* server.cpp: worker and chat_with_sender for the sender's connection *)

Answered(of, tag) == down' = Append(down, [of |-> of, tag |-> tag])

\* The login is the first line; its confirmation is longer than it by 9.
ServeLogin ==
  /\ s_thread = "login" /\ up # <<>>
  /\ up' = Tail(up)
  /\ down' = down \o <<[of |-> Head(up).of, tag |-> "ok"]>>
                  \o (IF users.sender.reply_rest = "none" THEN <<>>
                      ELSE <<[of |-> Head(up).of, tag |-> users.sender.reply_rest]>>)
  /\ s_thread' = "loop"
  /\ UNCHANGED <<program, room_name, room, r_side>>

Accepted(line) ==
  \/ line.tag \in {"join", "quit"}
  \/ room_name # "none" /\ line.tag \in {"sendall", "leave"}

\* Mutant: a line that receive() rejects is answered like other bad lines.
AnswerAll(l) == Answered(l.of, IF Accepted(l.line) THEN "ok" ELSE "err")

\* Mutant: a text said outside of a room is dropped.
AnswerInRoom(l) ==
  IF l.line.tag = "bad" \/ (l.line.tag = "sendall" /\ room_name = "none") THEN UNCHANGED down
  ELSE Answered(l.of, IF Accepted(l.line) THEN "ok" ELSE "err")

\* A line with a tag that receive() rejects is consumed without an answer.
Answer(l) ==
  IF l.line.tag = "bad" THEN UNCHANGED down
  ELSE Answered(l.of, IF Accepted(l.line) THEN "ok" ELSE "err")

Say(l) ==
  /\ room' = Append(room, l)
  /\ mqueue' = IF r_thread = "serve" THEN Append(mqueue, Len(room) + 1) ELSE mqueue

\* What chat_with_sender does with a line, the rest of a message or not.
Handle(l) ==
  /\ Answer(l)
  /\ room_name' = CASE l.line.tag = "join" -> l.line.to
                    [] l.line.tag \in {"leave", "quit"} -> "none"
                    [] OTHER -> room_name
  /\ s_thread' = IF l.line.tag = "quit" THEN "closed" ELSE "loop"
  /\ IF l.line.tag = "sendall" /\ room_name = "here" THEN Say(l)
     ELSE UNCHANGED <<room, mqueue>>

ServeSender ==
  /\ s_thread = "loop" /\ up # <<>>
  /\ up' = Tail(up)
  /\ Handle(Head(up))
  /\ UNCHANGED <<program, receiver, r_up, r_down, r_thread, heard>>

\* The sender has gone: the thread reads the end of the connection, or one of
\* its sends fails before that.
SenderGone ==
  /\ s_pc = "exit" /\ s_thread # "closed"
  /\ s_thread' = "closed" /\ up' = <<>>
  /\ UNCHANGED <<program, down, room_name, room, r_side>>

\* The server process ends: see Accept in ChatServer.
ServerExits ==
  /\ s_thread # "closed" \/ r_thread # "closed"
  /\ s_thread' = "closed" /\ r_thread' = "closed"
  /\ mqueue' = <<>>
  /\ UNCHANGED <<program, up, down, room_name, room, receiver, r_up, r_down, heard>>

\* Another sender in the room says something.
OtherSays(text) ==
  /\ r_thread # "closed"
  /\ Cardinality({k \in 1 .. Len(room) : room[k].of = Others}) < MaxOthers
  /\ Say([of |-> Others, nth |-> 0, line |-> Says(text)])
  /\ UNCHANGED <<s_side, receiver, r_up, r_down, r_thread, heard>>

------------------------------------------------------------------------------
(* server.cpp: worker and chat_with_receiver for the receiver's connection *)

Replied(tag) == [of |-> 0, nth |-> 0, line |-> Reply(tag)]

ServeReceiverLogin ==
  /\ r_thread = "login" /\ r_up # <<>>
  /\ r_up' = Tail(r_up)
  /\ r_down' = r_down \o <<Replied("ok")>>
                      \o (IF users.receiver.reply_rest = "none" THEN <<>>
                          ELSE <<Replied(users.receiver.reply_rest)>>)
  /\ r_thread' = "join"
  /\ UNCHANGED <<s_side, room, receiver, heard, mqueue>>

\* The next line, the rest of a login or not, must be a join.
ServeReceiverJoin ==
  /\ r_thread = "join" /\ r_up # <<>>
  /\ r_up' = Tail(r_up)
  /\ IF Head(r_up).tag = "join"
     THEN r_down' = Append(r_down, Replied("ok")) /\ r_thread' = "serve" /\ heard' = Len(room)
     ELSE r_down' = Append(r_down, Replied("err")) /\ r_thread' = "closed" /\ UNCHANGED heard
  /\ UNCHANGED <<s_side, room, receiver, mqueue>>

\* The first line of the delivery of a text.
Delivery(text) == [tag |-> "delivery", here |-> users.plain, shows |-> text.shows]

\* dequeue, and the send of the delivery.
Deliver ==
  /\ r_thread = "serve" /\ mqueue # <<>>
  /\ mqueue' = Tail(mqueue)
  /\ LET text == room[Head(mqueue)].line.says
     IN  r_down' = r_down \o Lines(Head(mqueue), Delivery(text), text.rest)
  /\ UNCHANGED <<s_side, room, receiver, r_up, r_thread, heard>>

\* The receiver has gone: the thread reads the end of the connection, or its next
\* send fails.
ReceiverGone ==
  /\ r_pc = "exit"
  /\ r_thread \in {"login", "join"} \/ mqueue # <<>>
  /\ r_thread' = "closed" /\ r_up' = <<>> /\ mqueue' = <<>>
  /\ UNCHANGED <<s_side, room, receiver, r_down, heard>>

------------------------------------------------------------------------------
(* receiver.cpp *)

ReceiverEnds(status) == r_pc' = "exit" /\ r_status' = status

ReceiverConnects ==
  /\ r_pc = "connect"
  /\ IF r_thread = "closed" THEN ReceiverEnds("1") ELSE r_pc' = "rlogin" /\ UNCHANGED r_status
  /\ UNCHANGED <<s_side, room, sender, msg_text, shown, r_up, r_down, delivering>>

\* The login, then the join.  Neither send is looked at; a write may end the
\* program, see SenderSends.
ReceiverSends ==
  /\ r_pc \in {"rlogin", "join"}
  /\ \/ /\ IF r_pc = "rlogin"
           THEN r_pc' = "login_reply" /\ r_up' = r_up \o <<Bare("rlogin")>> \o users.receiver.rest
           ELSE r_pc' = "join_reply" /\ r_up' = r_up \o <<Bare("join")>> \o users.join_rest
        /\ UNCHANGED r_status
     \/ /\ r_thread = "closed"
        /\ ReceiverEnds("SIGPIPE")
        /\ UNCHANGED r_up
  /\ UNCHANGED <<s_side, room, sender, msg_text, shown, r_down, delivering>>

\* The response to the login or the join must be ok.
ReceiverIsAnswered ==
  /\ r_pc \in {"login_reply", "join_reply"}
  /\ Arrives(r_down, r_thread)
  /\ r_down' = Consumed(r_down)
  /\ CASE r_down # <<>> /\ Head(r_down).line.tag = "ok" ->
            r_pc' = (IF r_pc = "login_reply" THEN "join" ELSE "loop") /\ UNCHANGED r_status
       [] r_down # <<>> /\ Head(r_down).line.tag = "err" -> ReceiverEnds("3")
       [] OTHER -> ReceiverEnds("4")
  /\ UNCHANGED <<s_side, room, sender, msg_text, shown, r_up, delivering>>

\* What receiver.cpp does with a line that it takes for a delivery: its parts are
\* split off at the colons, and getline leaves a variable alone when nothing is
\* left for it.
Show(l) ==
  /\ sender' = IF l.line.shows = "no_name" THEN sender ELSE l
  /\ msg_text' = IF l.line.shows \in {"no_name", "no_text"} THEN msg_text ELSE l
  /\ shown' = IF l.line.here THEN Append(shown, [got |-> l, name |-> sender', text |-> msg_text'])
              ELSE shown

\* Mutant: a rest that is no delivery is printed like one.
ReceiverPrintsAll ==
  /\ r_pc = "loop" /\ r_down # <<>>
  /\ r_down' = Tail(r_down)
  /\ IF Head(r_down).line.tag = "delivery" \/ Head(r_down).nth > 0
     THEN Show(Head(r_down)) ELSE UNCHANGED <<sender, msg_text, shown>>
  /\ UNCHANGED <<s_side, room, r_up, r_pc, r_status, delivering>>

ReceiverPrints ==
  /\ r_pc = "loop" /\ r_down # <<>>
  /\ r_down' = Tail(r_down)
  /\ IF Head(r_down).line.tag = "delivery"
     THEN Show(Head(r_down)) ELSE UNCHANGED <<sender, msg_text, shown>>
  /\ UNCHANGED <<s_side, room, r_up, r_pc, r_status, delivering>>

ReceiverStops ==
  /\ r_pc = "loop"
  /\ r_down = <<>> /\ r_thread = "closed"
  /\ ReceiverEnds("-1")
  /\ UNCHANGED <<s_side, room, sender, msg_text, shown, r_up, r_down, delivering>>

\* See SenderIsReset.
ReceiverIsReset ==
  /\ r_pc # "exit" /\ r_thread = "closed" /\ r_up # <<>> /\ r_down # <<>>
  /\ r_down' = <<>>
  /\ UNCHANGED <<s_side, room, receiver, r_up, delivering>>

------------------------------------------------------------------------------
SenderRuns == SenderConnects \/ SenderSaysHello \/ SenderLogsIn \/ SenderReads
ReceiverRuns ==
  ReceiverConnects \/ ReceiverSends \/ ReceiverIsAnswered \/ ReceiverPrints \/ ReceiverStops
ThreadRuns == ServeLogin \/ ServeSender \/ SenderGone
DeliveryRuns == ServeReceiverLogin \/ ServeReceiverJoin \/ Deliver \/ ReceiverGone

Next ==
  \/ SenderRuns \/ ReceiverRuns \/ ThreadRuns \/ DeliveryRuns
  \/ Type
  \/ EndInput
  \/ \E text \in Said : OtherSays(text)
  \/ ServerExits \/ SenderIsReset \/ ReceiverIsReset

\* Each program and thread runs when it can; a user need not type, the server
\* need not exit, and a reset need not come before a line is read.
Fairness ==
  WF_vars(SenderRuns) /\ WF_vars(ReceiverRuns) /\ WF_vars(ThreadRuns) /\ WF_vars(DeliveryRuns)

Spec == Init /\ [][Next]_vars /\ Fairness

------------------------------------------------------------------------------
(* Properties *)

\* Among the lines left over from a message there is one that the server answers.
SaysMore(rest) == \E k \in 1 .. Len(rest) : rest[k].tag # "bad"

\* A line was cut off that the server answered, or that is part of an answer.
Cut ==
  \/ users.sender.reply_rest # "none" \/ SaysMore(users.sender.rest)
  \/ \E i \in 1 .. turn : users.types[i].does = "send" /\ SaysMore(users.types[i].rest)

\* The response that the sender takes for the one to its last message is that
\* one (sender.cpp:101-127), unless its name is so long that the confirmation of
\* its login is cut, or the rest of a line that was too long made the server
\* answer once more: from then on they may be out of step.
RepliesInStep ==
  /\ s_pc \in {"login", "reply"} /\ down # <<>> => Head(down).of = asked - 1 \/ Cut
  /\ s_pc = "input" /\ down # <<>> => Cut

\* The sender never waits for a response while its thread waits for a line
\* (sender.cpp:103, server.cpp:35): no message it sends is consumed unanswered.
NoMutualWait ==
  ~(/\ s_pc \in {"login", "reply"} /\ down = <<>>
    /\ s_thread \in {"login", "loop"} /\ up = <<>>)

LastTyped(does, tags) ==
  /\ turn > 0 /\ users.types[turn].does = does
  /\ does = "send" => users.types[turn].line.tag \in tags

\* What the exit codes mean.  Of the sender (sender.cpp:11-129): 0 is a quit,
\* which the server has served if they are in step, "/join" alone aborts, 7 is the
\* rest of the confirmation of its login, and the others are a lost connection;
\* the end of the input is no reason to end.  Of the receiver
\* (receiver.cpp:34-65): 3 and 4 are a lost connection unless its name is too
\* long, the others a lost connection.
StatusTellsWhy ==
  /\ s_pc = "exit" =>
       CASE s_status = "0" -> LastTyped("send", {"quit"}) /\ (s_thread = "closed" \/ Cut)
         [] s_status = "abort" -> LastTyped("abort", {})
         [] s_status = "7" -> users.sender.reply_rest = "other"
         [] OTHER -> s_status \in {"1", "6", "8", "SIGPIPE"} /\ s_thread = "closed"
  /\ r_pc = "exit" =>
       CASE r_status = "3" -> users.receiver.reply_rest = "err" \/ users.receiver.rest # <<>>
         [] r_status = "4" -> users.receiver.reply_rest # "none" \/ r_thread = "closed"
         [] OTHER -> r_status \in {"1", "-1", "SIGPIPE"} /\ r_thread = "closed"

\* One of the lines in which what was said since the join is delivered.
Delivered(l) ==
  /\ l.of \in heard + 1 .. Len(room)
  /\ LET text == room[l.of].line.says
     IN  /\ l.nth \in 0 .. Len(text.rest)
         /\ l.line = Part(l.nth, Delivery(text), text.rest)

\* The line after p among those printed: a later one of the same delivery, or one
\* of a later delivery, which is the first line of the very next if the room's
\* name is plain.
After(p, l) ==
  \/ l.of = p.of /\ l.nth > p.nth
  \/ IF users.plain THEN l.of = p.of + 1 /\ l.nth = 0 ELSE l.of > p.of

\* Our sender sent this line: it is a line it typed or the rest of one, the rest
\* of its login, or an empty one after the end of its input.
Sent(l) ==
  \/ \E i \in 1 .. turn :
       /\ users.types[i].does = "send"
       /\ l.nth \in 0 .. Len(users.types[i].rest)
       /\ l.line = Part(l.nth, users.types[i].line, users.types[i].rest)
  \/ l.nth \in 1 .. Len(users.sender.rest) /\ l.line = users.sender.rest[l.nth]
  \/ ended /\ l.nth = 0 /\ l.line = Blank.line

\* The receiver prints what is said in the room since its join, each once and
\* in the order in which it was said, provided the room's name has no colon and
\* fits (receiver.cpp:86-106).  Any other line it prints is the rest of a
\* delivery that was too long, and stands after that delivery.  Name and text are
\* those of the line, unless the room or the name fills it: then the ones before
\* are printed again.  Our sender's part of what is said it has sent, in that
\* order and each line once (sender.cpp:44-100, server.cpp:48-67).
ShownAsSaid ==
  /\ \A i \in 1 .. Len(shown) :
       LET l == shown[i].got
           name == shown[i].name
           text == shown[i].text
       IN  /\ Delivered(l)
           /\ l.line.tag = "delivery" /\ l.line.here
           /\ IF i = 1 THEN users.plain => l.of = heard + 1 /\ l.nth = 0
              ELSE After(shown[i - 1].got, l)
           /\ name # l => l.line.shows = "no_name"
           /\ name # text => name.line.shows = "no_text"
  /\ \A k \in 1 .. Len(room) : room[k].of # Others => Sent(room[k])
  /\ \A k, l \in 1 .. Len(room) :
       k < l /\ room[k].of # Others /\ room[l].of # Others =>
         room[k].of < room[l].of \/ (room[k].of = room[l].of /\ room[k].nth < room[l].nth)

\* A quit ends the sender (sender.cpp:82), and a receiver whose server is gone
\* ends (receiver.cpp:75-78).
ClientsEnd ==
  /\ quitting ~> s_pc = "exit"
  /\ r_thread = "closed" ~> r_pc = "exit"

==============================================================================
