----------------------------- MODULE ChatServer -----------------------------
(***************************************************************************)
(* csf_assign05/server.cpp: the accept loop and the thread it starts for   *)
(* each connection (worker, chat_with_sender, chat_with_receiver), with    *)
(* the part of connection.cpp they rely on: what send() and receive()      *)
(* return and leave in m_last_result, while the peer may close at any      *)
(* time.                                                                   *)
(*                                                                         *)
(* A thread's step is one call that another thread or the client can       *)
(* observe: a receive with the handling that follows it up to the next     *)
(* call, a Room operation (atomic here, see Rooms), a send.  A line is a   *)
(* record with its tag and argument; "bad" is a line whose tag receive()   *)
(* rejects, "other" one whose tag is legal and has no handler.             *)
(***************************************************************************)
EXTENDS Integers, Sequences, FiniteSets

CONSTANTS
  Conns,                   \* the connections clients make, each accepted once
  Names,                   \* room names
  NoName,                  \* the empty string
  Messages,                \* texts
  Setups,                  \* what the clients may write, under which limits
  Nowhere                  \* the room of a user that is in none, see RoomLog

AllNames == Names \cup {NoName}

Line == [tag : {"slogin", "rlogin", "sendall"}, arg : Messages]
          \cup [tag : {"join"}, arg : AllNames]
          \cup [tag : {"leave", "quit", "other", "bad"}, arg : {NoName}]

ASSUME SetupAssumption ==
  \A s \in Setups : s.wire \in [Conns -> Seq(Line)] /\ s.fds \in Nat /\ s.threads \in Nat

ASSUME NowhereAssumption == Nowhere \notin AllNames

VARIABLES
  up,                      \* the server process runs
  limits,                  \* the descriptors and threads it may have for clients
  wire,                    \* the lines a client writes that are not read yet
  net,                     \* the connection, see Net
  pc,                      \* where the connection's thread is
  last,                    \* Connection: m_last_result
  request,                 \* client_msg
  reply,                   \* server_msg, or the Message dequeued
  user_room,               \* User: its room_name
  mqueue,                  \* User: the deliveries queued
  members,                 \* Room: the receivers in it, by the room's name
  out,                     \* what the server has written to each client
  lines,                   \* history: legal lines read by chat_with_sender
  log,                     \* history: the deliveries broadcast to each room
  confirmed                \* history: its length when the join was confirmed

process == <<up, limits>>
world == <<process, net>>
threads == <<pc, last, request, reply>>
state == <<user_room, mqueue, members>>
history == <<lines, log, confirmed>>
vars == <<up, limits, wire, net, pc, last, request, reply, user_room, mqueue,
          members, out, lines, log, confirmed>>

\* new: not connected; closed: the client has closed; doomed: and the server
\* has written to it since, so a reset is on its way; reset: it has come.
Net == {"new", "open", "closed", "doomed", "reset"}

PC == {"none", "orphan", "login", "refuse", "slogin", "rlogin",
       "sender", "broadcast", "answer", "answerLast",
       "join", "joinReply", "loop", "deliver", "remove", "close", "done"}

NoLine == [tag |-> "empty", arg |-> NoName]

Ok(x) == [tag |-> "ok", data |-> <<x>>]
Err(x) == [tag |-> "err", data |-> <<x>>]
Delivery(n, c, m) == [tag |-> "delivery", data |-> <<n, c, m>>]
NoReply == [tag |-> "empty", data |-> <<>>]

Init ==
  /\ up = TRUE
  /\ \E s \in Setups : wire = s.wire /\ limits = [fds |-> s.fds, threads |-> s.threads]
  /\ net = [c \in Conns |-> "new"]
  /\ pc = [c \in Conns |-> "none"]
  /\ last = [c \in Conns |-> "SUCCESS"]
  /\ request = [c \in Conns |-> NoLine]
  /\ reply = [c \in Conns |-> NoReply]
  /\ user_room = [c \in Conns |-> NoName]
  /\ mqueue = [c \in Conns |-> <<>>]
  /\ members = [n \in AllNames |-> {}]
  /\ out = [c \in Conns |-> <<>>]
  /\ lines = [c \in Conns |-> 0]
  /\ log = [n \in AllNames |-> <<>>]
  /\ confirmed = [c \in Conns |-> -1]

Goto(c, l) == pc' = [pc EXCEPT ![c] = l]
Reply(c, m) == reply' = [reply EXCEPT ![c] = m]

------------------------------------------------------------------------------
(* The clients and the network.  A client may be any program: it writes      *)
(* without waiting for replies and closes when it likes.  A line is on the   *)
(* wire from the start: that it is written later is that it is read later.   *)

\* A client whose script is empty stays away.
Connect(c) ==
  /\ up
  /\ net[c] = "new"
  /\ wire[c] # <<>>
  /\ net' = [net EXCEPT ![c] = "open"]
  /\ UNCHANGED <<process, wire, threads, state, out, history>>

\* What it had still to write when it closes is never written.
ClientClose(c) ==
  /\ up
  /\ net[c] = "open"
  /\ net' = [net EXCEPT ![c] = "closed"]
  /\ \E k \in 0..Len(wire[c]) : wire' = [wire EXCEPT ![c] = SubSeq(@, 1, k)]
  /\ UNCHANGED <<process, threads, state, out, history>>

\* The answer to data for a closed socket; it also comes by itself when the
\* client had not read everything.
Reset(c) ==
  /\ up
  /\ net[c] \in {"closed", "doomed"}
  /\ net' = [net EXCEPT ![c] = "reset"]
  /\ UNCHANGED <<process, wire, threads, state, out, history>>

------------------------------------------------------------------------------
(* Connection::receive and Connection::send *)

Got(c, line, result) ==
  /\ request' = [request EXCEPT ![c] = line]
  /\ last' = [last EXCEPT ![c] = result]

Arrived(c) == Head(wire[c])
LegalTags == {"slogin", "rlogin", "join", "sendall", "leave", "quit", "other"}

\* receive() returns true, with a line that has one of these tags
Received(c, tags) ==
  /\ wire[c] # <<>>
  /\ Arrived(c).tag \in tags
  /\ wire' = [wire EXCEPT ![c] = Tail(@)]
  /\ Got(c, Arrived(c), "SUCCESS")

\* Mutant: end of file is taken for a malformed line.
EofIsInvalid(c) ==
  \/ /\ wire[c] # <<>>
     /\ Arrived(c).tag \notin LegalTags
     /\ wire' = [wire EXCEPT ![c] = Tail(@)]
     /\ Got(c, Arrived(c), "INVALID_MSG")
  \/ /\ \/ net[c] \in {"closed", "doomed"} /\ wire[c] = <<>>
        \/ net[c] = "reset"
     /\ Got(c, NoLine, "INVALID_MSG")
     /\ UNCHANGED wire

\* receive() returns false: a tag it does not know, end of file, an error
NotReceived(c) ==
  \/ /\ wire[c] # <<>>
     /\ Arrived(c).tag \notin LegalTags
     /\ wire' = [wire EXCEPT ![c] = Tail(@)]
     /\ Got(c, Arrived(c), "INVALID_MSG")
  \/ /\ \/ net[c] \in {"closed", "doomed"} /\ wire[c] = <<>>
        \/ net[c] = "reset"
     /\ Got(c, NoLine, "EOF_OR_ERROR")
     /\ UNCHANGED wire

\* send() returns true
SendOk(c) ==
  /\ net[c] # "reset"
  /\ net' = [net EXCEPT ![c] = IF @ = "closed" THEN "doomed" ELSE @]
  /\ out' = [out EXCEPT ![c] = Append(@, reply[c])]
  /\ last' = [last EXCEPT ![c] = "SUCCESS"]

\* send() returns false: SIGPIPE is ignored (server_main.cpp)
SendFail(c) ==
  /\ net[c] = "reset"
  /\ last' = [last EXCEPT ![c] = "EOF_OR_ERROR"]
  /\ UNCHANGED <<net, out>>

Send(c) == SendOk(c) \/ SendFail(c)

IsOpen(c) == last[c] # "EOF_OR_ERROR"

------------------------------------------------------------------------------
(* Server::handle_client_requests *)

OpenFds == {c \in Conns : pc[c] \notin {"none", "done"}}
Running == OpenFds \ {c \in Conns : pc[c] = "orphan"}

\* pthread_create may fail: the connection is then nobody's.
Accept(c) ==
  /\ up
  /\ net[c] # "new"
  /\ pc[c] = "none"
  /\ Cardinality(OpenFds) < limits.fds
  /\ Goto(c, IF Cardinality(Running) < limits.threads THEN "login" ELSE "orphan")
  /\ UNCHANGED <<world, wire, last, request, reply, state, out, history>>

\* csapp.c's Accept does not return -1: it prints and exits the process.
AcceptFails(c) ==
  /\ up
  /\ net[c] # "new"
  /\ pc[c] = "none"
  /\ Cardinality(OpenFds) >= limits.fds
  /\ up' = FALSE
  /\ UNCHANGED <<limits, net, wire, threads, state, out, history>>

------------------------------------------------------------------------------
(* worker *)

Login(c) ==
  /\ pc[c] = "login"
  /\ \/ /\ Received(c, {"slogin", "rlogin"})
        /\ Goto(c, Arrived(c).tag)
        /\ Reply(c, Ok("login"))
     \/ /\ Received(c, LegalTags \ {"slogin", "rlogin"})
        /\ Goto(c, "refuse")
        /\ Reply(c, Err("login"))
  /\ UNCHANGED <<world, state, out, history>>

LoginFailed(c) ==
  /\ pc[c] = "login"
  /\ NotReceived(c)
  /\ Goto(c, "refuse")
  /\ Reply(c, Err("nothing"))
  /\ UNCHANGED <<world, state, out, history>>

Refuse(c) ==
  /\ pc[c] = "refuse"
  /\ Send(c)
  /\ Goto(c, "close")
  /\ UNCHANGED <<process, wire, request, reply, state, history>>

\* The result of sending the confirmation is not looked at.
LoginReplied(c) ==
  /\ pc[c] \in {"slogin", "rlogin"}
  /\ Send(c)
  /\ Goto(c, IF pc[c] = "slogin" THEN "sender" ELSE "join")
  /\ UNCHANGED <<process, wire, request, reply, state, history>>

CloseFd(c) ==
  /\ pc[c] = "close"
  /\ Goto(c, "done")
  /\ UNCHANGED <<world, wire, last, request, reply, state, out, history>>

------------------------------------------------------------------------------
(* chat_with_sender *)

SenderEnds(c) ==
  /\ pc[c] = "sender"
  /\ ~IsOpen(c)
  /\ Goto(c, "close")
  /\ UNCHANGED <<world, wire, last, request, reply, state, out, history>>

\* receive() failed: the loop's condition is all that is looked at.
SenderSkips(c) ==
  /\ pc[c] = "sender"
  /\ IsOpen(c)
  /\ NotReceived(c)
  /\ UNCHANGED <<world, pc, reply, state, out, history>>

SenderReceives(c, tags) ==
  /\ pc[c] = "sender"
  /\ IsOpen(c)
  /\ Received(c, tags)
  /\ lines' = [lines EXCEPT ![c] = @ + 1]
  /\ UNCHANGED <<world, mqueue, members, out, log, confirmed>>

HandleJoin(c) ==
  /\ SenderReceives(c, {"join"})
  /\ user_room' = [user_room EXCEPT ![c] = Arrived(c).arg]
  /\ Reply(c, Ok("joined"))
  /\ Goto(c, "answer")

HandleSendall(c) ==
  /\ SenderReceives(c, {"sendall"})
  /\ \/ /\ user_room[c] = NoName
        /\ Reply(c, Err("sendall"))
        /\ Goto(c, "answer")
     \/ /\ user_room[c] # NoName
        /\ Goto(c, "broadcast")
        /\ UNCHANGED reply
  /\ UNCHANGED user_room

HandleLeave(c) ==
  /\ SenderReceives(c, {"leave"})
  /\ Reply(c, IF user_room[c] = NoName THEN Err("leave") ELSE Ok("left"))
  /\ user_room' = [user_room EXCEPT ![c] = NoName]
  /\ Goto(c, "answer")

HandleQuit(c) ==
  /\ SenderReceives(c, {"quit"})
  /\ user_room' = [user_room EXCEPT ![c] = NoName]
  /\ Reply(c, Ok("bye"))
  /\ Goto(c, "answerLast")

\* Mutant: an unknown request is ignored.
HandleOtherSilently(c) ==
  /\ SenderReceives(c, {"slogin", "rlogin", "other"})
  /\ UNCHANGED <<pc, reply, user_room>>

HandleOther(c) ==
  /\ SenderReceives(c, {"slogin", "rlogin", "other"})
  /\ Reply(c, Err("invalid"))
  /\ Goto(c, "answer")
  /\ UNCHANGED user_room

\* Mutant: a room without members is not told.
BroadcastToMembers(c) ==
  /\ pc[c] = "broadcast"
  /\ LET n == user_room[c]
         d == Delivery(n, c, request[c].arg)
     IN  /\ mqueue' = [u \in Conns |-> IF u \in members[n]
                                       THEN Append(mqueue[u], d) ELSE mqueue[u]]
         /\ log' = IF members[n] = {} THEN log
                    ELSE [log EXCEPT ![n] = Append(@, d)]
  /\ Reply(c, Ok("sent"))
  /\ Goto(c, "answer")
  /\ UNCHANGED <<world, wire, last, request, user_room, members, out, lines, confirmed>>

\* Room::broadcast_message, then the reply
Broadcast(c) ==
  /\ pc[c] = "broadcast"
  /\ LET n == user_room[c]
         d == Delivery(n, c, request[c].arg)
     IN  /\ mqueue' = [u \in Conns |-> IF u \in members[n]
                                       THEN Append(mqueue[u], d) ELSE mqueue[u]]
         /\ log' = [log EXCEPT ![n] = Append(@, d)]
  /\ Reply(c, Ok("sent"))
  /\ Goto(c, "answer")
  /\ UNCHANGED <<world, wire, last, request, user_room, members, out, lines, confirmed>>

Answer(c) ==
  /\ pc[c] \in {"answer", "answerLast"}
  /\ \/ SendOk(c) /\ Goto(c, IF pc[c] = "answer" THEN "sender" ELSE "close")
     \/ SendFail(c) /\ Goto(c, "close")
  /\ UNCHANGED <<process, wire, request, reply, state, history>>

------------------------------------------------------------------------------
(* chat_with_receiver *)

\* client_msg->data still ends with the newline, unless the client closed before it:
\* only then is it "" for a join without a name.
JoinCutOff(c) == Len(wire[c]) = 1 /\ Arrived(c).arg = NoName /\ net[c] \in {"closed", "doomed"}

JoinRefused(c) ==
  /\ pc[c] = "join"
  /\ \/ NotReceived(c)
     \/ Received(c, LegalTags \ {"join"})
     \/ JoinCutOff(c) /\ Received(c, {"join"})
  /\ Reply(c, Err("join"))
  /\ Goto(c, "refuse")
  /\ UNCHANGED <<world, state, out, history>>

JoinRoom(c) ==
  /\ pc[c] = "join"
  /\ Received(c, {"join"})
  /\ members' = [members EXCEPT ![Arrived(c).arg] = @ \cup {c}]
  /\ user_room' = [user_room EXCEPT ![c] = Arrived(c).arg]
  /\ Reply(c, Ok("welcome"))
  /\ Goto(c, "joinReply")
  /\ UNCHANGED <<world, mqueue, out, history>>

JoinReplied(c) ==
  /\ pc[c] = "joinReply"
  /\ \/ /\ SendOk(c)
        /\ confirmed' = [confirmed EXCEPT ![c] = Len(log[user_room[c]])]
     \/ SendFail(c) /\ UNCHANGED confirmed
  /\ Goto(c, "loop")
  /\ UNCHANGED <<process, wire, request, reply, state, lines, log>>

\* Mutant: return instead of break.
LoopReturns(c) ==
  /\ pc[c] = "loop"
  /\ ~IsOpen(c)
  /\ Goto(c, "close")
  /\ UNCHANGED <<world, wire, last, request, reply, state, out, history>>

LoopEnds(c) ==
  /\ pc[c] = "loop"
  /\ ~IsOpen(c)
  /\ Goto(c, "remove")
  /\ UNCHANGED <<world, wire, last, request, reply, state, out, history>>

\* Mutant: the queue is emptied for one delivery.
DequeueAll(c) ==
  /\ pc[c] = "loop"
  /\ IsOpen(c)
  /\ mqueue[c] # <<>>
  /\ Reply(c, Head(mqueue[c]))
  /\ mqueue' = [mqueue EXCEPT ![c] = <<>>]
  /\ Goto(c, "deliver")
  /\ UNCHANGED <<world, wire, last, request, user_room, members, out, history>>

\* Mutant: break instead of continue when the dequeue times out.
DequeueOrLeave(c) ==
  /\ pc[c] = "loop"
  /\ IsOpen(c)
  /\ IF mqueue[c] = <<>>
     THEN Goto(c, "remove") /\ UNCHANGED <<reply, mqueue>>
     ELSE /\ Reply(c, Head(mqueue[c]))
          /\ mqueue' = [mqueue EXCEPT ![c] = Tail(@)]
          /\ Goto(c, "deliver")
  /\ UNCHANGED <<world, wire, last, request, user_room, members, out, history>>

\* A dequeue that times out changes nothing.
Dequeue(c) ==
  /\ pc[c] = "loop"
  /\ IsOpen(c)
  /\ mqueue[c] # <<>>
  /\ Reply(c, Head(mqueue[c]))
  /\ mqueue' = [mqueue EXCEPT ![c] = Tail(@)]
  /\ Goto(c, "deliver")
  /\ UNCHANGED <<world, wire, last, request, user_room, members, out, history>>

\* Mutant: a failed write goes unnoticed.
DeliverUnchecked(c) ==
  /\ pc[c] = "deliver"
  /\ \/ SendOk(c)
     \/ net[c] = "reset" /\ UNCHANGED <<net, out, last>>
  /\ Goto(c, "loop")
  /\ UNCHANGED <<process, wire, request, reply, state, history>>

Deliver(c) ==
  /\ pc[c] = "deliver"
  /\ \/ SendOk(c) /\ Goto(c, "loop")
     \/ SendFail(c) /\ Goto(c, "remove")
  /\ UNCHANGED <<process, wire, request, reply, state, history>>

\* `room' is the one it joined, whose name is still the user's room_name.
RemoveMember(c) ==
  /\ pc[c] = "remove"
  /\ members' = [members EXCEPT ![user_room[c]] = @ \ {c}]
  /\ user_room' = [user_room EXCEPT ![c] = NoName]
  /\ Goto(c, "close")
  /\ UNCHANGED <<world, wire, last, request, reply, mqueue, out, history>>

------------------------------------------------------------------------------
Thread(c) ==
  /\ up
  /\ \/ Login(c) \/ LoginFailed(c) \/ Refuse(c) \/ LoginReplied(c) \/ CloseFd(c)
     \/ SenderEnds(c) \/ SenderSkips(c)
     \/ HandleJoin(c) \/ HandleSendall(c) \/ HandleLeave(c) \/ HandleQuit(c)
     \/ HandleOther(c) \/ Broadcast(c) \/ Answer(c)
     \/ JoinRefused(c) \/ JoinRoom(c) \/ JoinReplied(c)
     \/ LoopEnds(c) \/ Dequeue(c) \/ Deliver(c) \/ RemoveMember(c)

Client(c) == Connect(c) \/ ClientClose(c) \/ Reset(c)

Next ==
  \E c \in Conns : Client(c) \/ Accept(c) \/ AcceptFails(c) \/ Thread(c)

SafeSpec == Init /\ [][Next]_vars

\* Threads run, their sends end because the clients read (Rooms does without
\* this), the accept loop runs, and data for a closed socket is answered with
\* a reset.  No client has to close.
Fairness ==
  \A c \in Conns :
    /\ WF_vars(Thread(c))
    /\ WF_vars(Accept(c) \/ AcceptFails(c))
    /\ WF_vars(net[c] = "doomed" /\ Reset(c))

Spec == SafeSpec /\ Fairness

------------------------------------------------------------------------------
(* Properties *)

\* However a receiver's thread comes to its end - a refused join, a failed
\* reply, a failed delivery - it leaves its room first: a room's members are
\* the threads between add_member and remove_member.
MembersAreThreads ==
  \A n \in AllNames :
    members[n] = {c \in Conns : /\ pc[c] \in {"joinReply", "loop", "deliver", "remove"}
                                /\ user_room[c] = n}

\* What a receiver is sent after the replies to its login and to its join.
Deliveries(c) == SubSeq(out[c], 3, Len(out[c]))
Pending(c) == IF pc[c] = "deliver" THEN <<reply[c]>> ELSE <<>>

\* A receiver that has been told it is in the room is sent everything
\* broadcast to the room from then on, and nothing that was not: add_member
\* comes before the reply (server.cpp:129-134).
ConfirmedMissesNothing ==
  \A c \in Conns :
    pc[c] \in {"loop", "deliver"} /\ confirmed[c] >= 0 =>
      LET l == log[user_room[c]]
          held == Deliveries(c) \o Pending(c) \o mqueue[c]
      IN  /\ Len(l) - Len(held) \in 0..confirmed[c]
          /\ held = SubSeq(l, Len(l) - Len(held) + 1, Len(l))

\* The log of RoomLog in which a receiver is from add_member until its thread
\* finds out that the client is gone: what it was sent, what it is being sent
\* and what is queued for it are the log from the place where it entered.
Inside(c) == pc[c] \in {"joinReply", "loop", "deliver"}
Told(c) == IF confirmed[c] >= 0 THEN Deliveries(c) ELSE <<>>

where == [c \in Conns |-> IF Inside(c) THEN user_room[c] ELSE Nowhere]
got == [c \in Conns |-> Told(c)]
start ==
  [c \in Conns |->
     IF Inside(c)
     THEN Len(log[user_room[c]]) - (Len(Told(c)) + Len(Pending(c)) + Len(mqueue[c]))
     ELSE 0]

Deliverables == {Delivery(n, c, m) : n \in AllNames, c \in Conns, m \in Messages}

Log == INSTANCE RoomLog WITH Names <- AllNames, Receivers <- Conns, Messages <- Deliverables

\* The threads implement one log per room, whichever of their sends fail: also
\* a receiver whose reply to the join fails, or whose last delivery is lost.
ImplementsRoomLog == Log!Spec

\* Each legal line a sender's thread reads is answered by exactly one reply,
\* before the next line is read.
AnsweredOnce ==
  \A c \in Conns :
    /\ pc[c] = "sender" /\ IsOpen(c) => Len(out[c]) = 1 + lines[c]
    /\ pc[c] \in {"broadcast", "answer", "answerLast"} => Len(out[c]) = lines[c]

Acks(c) == Cardinality({i \in DOMAIN out[c] : out[c][i] = Ok("sent")})
Broadcasts(c) ==
  Cardinality(UNION {{<<n, i>> : i \in {j \in DOMAIN log[n] : log[n][j].data[2] = c}}
                       : n \in AllNames})

\* "Message sent!" is never said of a message no room was given; when the
\* sender's thread reads its next line, nothing was broadcast unsaid.  The room
\* that a join without a name enters (server.cpp:114) is given nothing at all.
AckedWasBroadcast ==
  /\ \A c \in Conns :
       /\ Acks(c) <= Broadcasts(c)
       /\ pc[c] = "sender" /\ IsOpen(c) => Acks(c) = Broadcasts(c)
  /\ log[NoName] = <<>>

Idle(c) == pc[c] = "loop" /\ IsOpen(c) /\ mqueue[c] = <<>>

\* A connection whose client is gone is given up - the thread ends and closes
\* the descriptor - unless it is a receiver with nothing to deliver, a
\* connection without a thread, or the process has exited.
ClosedConnectionEnds ==
  \A c \in Conns :
    net[c] \in {"closed", "doomed", "reset"}
      ~> pc[c] \in {"done", "orphan"} \/ Idle(c) \/ ~up

\* What reaches the queue of a receiver whose client is gone ends its thread.
DeliveryEndsGoneReceiver ==
  \A c \in Conns :
    pc[c] = "loop" /\ net[c] = "reset" /\ mqueue[c] # <<>> ~> pc[c] = "done"

\* What is queued for a receiver that stays connected is delivered.
QueuedIsDelivered ==
  \A c \in Conns : mqueue[c] # <<>> ~> mqueue[c] = <<>> \/ net[c] # "open"

==============================================================================
