--------------------------- MODULE ChatServerProofs ---------------------------
(***************************************************************************)
(* What the server says to its clients, for any number of connections,     *)
(* names and texts and whatever the clients write: the invariant ties what *)
(* has been written to a client to where its thread is.                    *)
(***************************************************************************)
EXTENDS ChatServer, FiniteSetTheorems, SequenceTheorems, TLAPS

Texts == {"login", "nothing", "joined", "sendall", "leave", "left", "bye", "invalid",
          "sent", "join", "welcome"}
Answers == {NoReply} \cup {Ok(x) : x \in Texts} \cup {Err(x) : x \in Texts}
Replies == Answers \cup Deliverables

Results == {"SUCCESS", "INVALID_MSG", "EOF_OR_ERROR"}

\* The variables of one thread and its connection, and those of the rooms.
TypeOK ==
  /\ wire \in [Conns -> Seq(Line)]
  /\ net \in [Conns -> Net]
  /\ pc \in [Conns -> PC]
  /\ last \in [Conns -> Results]
  /\ request \in [Conns -> Line \cup {NoLine}]
  /\ reply \in [Conns -> Replies]
  /\ user_room \in [Conns -> AllNames]
  /\ mqueue \in [Conns -> Seq(Deliverables)]
  /\ members \in [AllNames -> SUBSET Conns]
  /\ out \in [Conns -> Seq(Replies)]
  /\ lines \in [Conns -> Nat]
  /\ log \in [AllNames -> Seq(Deliverables)]
  /\ confirmed \in [Conns -> Int]

\* A thread that broadcasts has a text and a room, one that replies an answer,
\* one that delivers a delivery; only a sendall is answered with "sent".
ReadyAt(c) ==
  /\ pc[c] = "broadcast" => request[c].arg \in Messages /\ user_room[c] # NoName
  /\ pc[c] = "deliver" => reply[c] \in Deliverables
  /\ pc[c] \in {"refuse", "slogin", "rlogin", "answer", "answerLast", "joinReply"}
       => reply[c] \in Answers
  /\ pc[c] \in {"refuse", "slogin", "rlogin", "answerLast", "joinReply"}
       => reply[c] # Ok("sent")

\* Nothing is written to a client before its login is answered.
SilentAt(c) ==
  /\ pc[c] \in {"none", "orphan", "login", "slogin", "rlogin"} => out[c] = <<>>
  /\ pc[c] \in {"none", "orphan", "login", "slogin"} => lines[c] = 0

\* A receiver's join is confirmed as the second thing it is told, or never:
\* a connection that was reset stays so.
WelcomedAt(c) ==
  /\ pc[c] \in {"join", "joinReply"} /\ net[c] # "reset" => Len(out[c]) = 1
  /\ pc[c] \notin {"loop", "deliver", "remove", "close", "done"} => confirmed[c] = -1
  /\ pc[c] \in {"loop", "deliver"} /\ confirmed[c] >= 0 => Len(out[c]) >= 2
  /\ pc[c] \notin {"joinReply", "loop", "deliver", "remove", "close", "done"}
       => mqueue[c] = <<>>

AnsweredAt(c) ==
  /\ pc[c] = "sender" /\ IsOpen(c) => Len(out[c]) = 1 + lines[c]
  /\ pc[c] \in {"broadcast", "answer", "answerLast"} => Len(out[c]) = lines[c]

Ready == \A c \in Conns : ReadyAt(c)

Talks == \A c \in Conns : ReadyAt(c) /\ SilentAt(c) /\ WelcomedAt(c) /\ AnsweredAt(c)

\* s is the end of l.
Ends(s, l) == Len(s) <= Len(l) /\ s = SubSeq(l, Len(l) - Len(s) + 1, Len(l))

\* What is queued for a receiver before its join is answered ends its room's log.
Waiting == \A c \in Conns : pc[c] = "joinReply" => Ends(mqueue[c], log[user_room[c]])

CInv == TypeOK /\ Talks /\ Waiting /\ MembersAreThreads /\ ConfirmedMissesNothing

------------------------------------------------------------------------------

LEMMA AnswerTypes ==
  /\ NoReply \in Answers
  /\ \A x \in Texts : Ok(x) \in Answers /\ Err(x) \in Answers
BY DEF Answers

\* What a line carries depends on its tag.
LEMMA LineArguments ==
  \A l \in Line : /\ l.tag = "join" => l.arg \in AllNames
                  /\ l.tag = "sendall" => l.arg \in Messages
BY DEF Line

\* receive() takes the first line, if any.
LEMMA ReceiveTypes ==
  ASSUME TypeOK, NEW c \in Conns, NEW tags, Received(c, tags) \/ NotReceived(c)
  PROVE  /\ wire' \in [Conns -> Seq(Line)]
         /\ request' \in [Conns -> Line \cup {NoLine}]
         /\ last' \in [Conns -> Results]
         /\ Received(c, tags) => /\ Arrived(c) \in Line /\ Arrived(c).tag \in tags
                                 /\ request'[c] = Arrived(c)
<1>1. wire[c] # <<>> => Head(wire[c]) \in Line /\ Tail(wire[c]) \in Seq(Line)
  BY HeadTailProperties DEF TypeOK
<1>2. Received(c, tags) => /\ Arrived(c) \in Line /\ Arrived(c).tag \in tags
                           /\ request'[c] = Arrived(c)
  BY <1>1 DEF Received, Arrived, Got, TypeOK
<1>3. CASE Received(c, tags)
  BY <1>1, <1>2, <1>3 DEF Received, Arrived, Got, TypeOK, Results
<1>4. CASE NotReceived(c)
  <2>1. \/ /\ wire[c] # <<>> /\ wire' = [wire EXCEPT ![c] = Tail(@)]
           /\ Got(c, Head(wire[c]), "INVALID_MSG")
        \/ wire' = wire /\ Got(c, NoLine, "EOF_OR_ERROR")
    BY <1>4 DEF NotReceived, Arrived
  <2>2. wire' \in [Conns -> Seq(Line)]
    BY <1>1, <2>1 DEF TypeOK
  <2>3. request' \in [Conns -> Line \cup {NoLine}]
    BY <1>1, <2>1 DEF Got, TypeOK
  <2>4. last' \in [Conns -> Results]
    BY <2>1 DEF Got, TypeOK, Results
  <2>. QED BY <1>2, <2>2, <2>3, <2>4
<1>. QED BY <1>3, <1>4

LEMMA SendTypes ==
  ASSUME TypeOK, NEW c \in Conns, Send(c)
  PROVE  /\ net' \in [Conns -> Net]
         /\ out' \in [Conns -> Seq(Replies)]
         /\ last' \in [Conns -> Results]
<1>1. Append(out[c], reply[c]) \in Seq(Replies)
  <2>1. out[c] \in Seq(Replies) /\ reply[c] \in Replies
    BY DEF TypeOK
  <2>. QED BY <2>1, AppendProperties
<1>2. CASE SendOk(c)
  BY <1>1, <1>2 DEF SendOk, TypeOK, Net, Results
<1>3. CASE SendFail(c)
  BY <1>3 DEF SendFail, TypeOK, Results
<1>. QED BY <1>2, <1>3 DEF Send

LEMMA InitTypes == Init => TypeOK
<1>. SUFFICES ASSUME Init PROVE TypeOK
  OBVIOUS
<1>1. wire \in [Conns -> Seq(Line)]
  BY SetupAssumption DEF Init
<1>2. reply \in [Conns -> Replies]
  BY AnswerTypes DEF Texts, Init, Replies
<1>3. /\ net \in [Conns -> Net] /\ pc \in [Conns -> PC] /\ last \in [Conns -> Results]
      /\ request \in [Conns -> Line \cup {NoLine}]
      /\ user_room \in [Conns -> AllNames] /\ members \in [AllNames -> SUBSET Conns]
      /\ lines \in [Conns -> Nat] /\ confirmed \in [Conns -> Int]
  BY DEF Init, Net, PC, Results, AllNames
<1>4. /\ mqueue \in [Conns -> Seq(Deliverables)] /\ out \in [Conns -> Seq(Replies)]
      /\ log \in [AllNames -> Seq(Deliverables)]
  <2>1. <<>> \in Seq(Deliverables) /\ <<>> \in Seq(Replies)
    OBVIOUS
  <2>. QED BY <2>1 DEF Init
<1>. QED BY <1>1, <1>2, <1>3, <1>4 DEF TypeOK

\* Every step keeps every variable's type.
LEMMA TypeStep == TypeOK /\ Ready /\ [Next]_vars => TypeOK'
<1>. SUFFICES ASSUME TypeOK, Ready, [Next]_vars PROVE TypeOK'
  OBVIOUS
<1>. USE DEF Goto, Reply, process, world, threads, state, history
<1>1. ASSUME NEW c \in Conns, Client(c) PROVE TypeOK'
  <2>1. CASE Connect(c) \/ Reset(c)
    BY <2>1 DEF Connect, Reset, TypeOK, Net
  <2>2. CASE ClientClose(c)
    <3>1. \A k \in 0 .. Len(wire[c]) : SubSeq(wire[c], 1, k) \in Seq(Line)
      <4>1. wire[c] \in Seq(Line)
        BY DEF TypeOK
      <4>. QED BY <4>1, SubSeqProperties
    <3>. QED BY <2>2, <3>1 DEF ClientClose, TypeOK, Net
  <2>. QED BY <1>1, <2>1, <2>2 DEF Client
<1>2. ASSUME NEW c \in Conns, Accept(c) \/ AcceptFails(c) PROVE TypeOK'
  BY <1>2 DEF Accept, AcceptFails, TypeOK, PC
<1>3. ASSUME NEW c \in Conns, Login(c) \/ LoginFailed(c) PROVE TypeOK'
  <2>1. /\ Received(c, {"slogin", "rlogin"}) \/ Received(c, LegalTags \ {"slogin", "rlogin"})
           \/ NotReceived(c)
        /\ UNCHANGED <<world, state, out, history>>
    BY <1>3 DEF Login, LoginFailed
  <2>2. \E l \in PC, r \in Replies : Goto(c, l) /\ Reply(c, r)
    BY <1>3, AnswerTypes DEF Texts, Login, LoginFailed, Received, PC, Replies
  <2>3. pc' \in [Conns -> PC] /\ reply' \in [Conns -> Replies]
    BY <2>2 DEF TypeOK
  <2>. QED BY <2>1, <2>3, ReceiveTypes DEF TypeOK
<1>4. ASSUME NEW c \in Conns, Refuse(c) \/ LoginReplied(c) \/ Answer(c) \/ Deliver(c)
      PROVE  TypeOK'
  <2>1. /\ Send(c) /\ UNCHANGED <<process, wire, request, reply, state, history>>
        /\ \E l \in PC : Goto(c, l)
    BY <1>4 DEF Refuse, LoginReplied, Answer, Deliver, Send, PC
  <2>. QED BY <2>1, SendTypes DEF TypeOK
<1>5. ASSUME NEW c \in Conns, CloseFd(c) \/ SenderEnds(c) \/ LoopEnds(c) PROVE TypeOK'
  BY <1>5 DEF CloseFd, SenderEnds, LoopEnds, TypeOK, PC
<1>6. ASSUME NEW c \in Conns, SenderSkips(c) PROVE TypeOK'
  <2>1. NotReceived(c) /\ UNCHANGED <<world, pc, reply, state, out, history>>
    BY <1>6 DEF SenderSkips
  <2>. QED BY <2>1, ReceiveTypes DEF TypeOK
<1>7. ASSUME NEW c \in Conns,
             \/ HandleJoin(c) \/ HandleSendall(c) \/ HandleLeave(c) \/ HandleQuit(c)
             \/ HandleOther(c)
      PROVE  TypeOK'
  <2>1. PICK tags : SenderReceives(c, tags) /\ (HandleJoin(c) => tags = {"join"})
    BY <1>7 DEF HandleJoin, HandleSendall, HandleLeave, HandleQuit, HandleOther
  <2>2. /\ Received(c, tags) /\ lines' = [lines EXCEPT ![c] = @ + 1]
        /\ UNCHANGED <<world, mqueue, members, out, log, confirmed>>
    BY <2>1 DEF SenderReceives
  <2>3. pc' \in [Conns -> PC]
    BY <1>7 DEF TypeOK, HandleJoin, HandleSendall, HandleLeave, HandleQuit, HandleOther, PC
  <2>4. reply' \in [Conns -> Replies]
    <3>1. UNCHANGED reply \/ \E r \in Answers : Reply(c, r)
      BY <1>7, AnswerTypes
      DEF Texts, HandleJoin, HandleSendall, HandleLeave, HandleQuit, HandleOther
    <3>. QED BY <3>1 DEF TypeOK, Replies
  <2>5. user_room' \in [Conns -> AllNames]
    <3>1. HandleJoin(c) => Arrived(c).arg \in AllNames
      BY <2>1, <2>2, ReceiveTypes, LineArguments
    <3>. QED BY <1>7, <3>1
         DEF HandleJoin, HandleSendall, HandleLeave, HandleQuit, HandleOther, TypeOK, AllNames
  <2>6. /\ wire' \in [Conns -> Seq(Line)] /\ request' \in [Conns -> Line \cup {NoLine}]
        /\ last' \in [Conns -> Results]
    BY <2>2, ReceiveTypes
  <2>7. lines' \in [Conns -> Nat]
    BY <2>2 DEF TypeOK
  <2>. QED BY <2>2, <2>3, <2>4, <2>5, <2>6, <2>7 DEF TypeOK
<1>8. ASSUME NEW c \in Conns, Broadcast(c) PROVE TypeOK'
  <2>. DEFINE n == user_room[c]
              d == Delivery(n, c, request[c].arg)
  <2>1. n \in AllNames /\ d \in Deliverables
    BY <1>8 DEF Broadcast, Ready, ReadyAt, TypeOK, Deliverables
  <2>. HIDE DEF d
  <2>2. \A s \in Seq(Deliverables) : Append(s, d) \in Seq(Deliverables)
    BY <2>1, AppendProperties
  <2>3. /\ mqueue' = [u \in Conns |-> IF u \in members[n] THEN Append(mqueue[u], d)
                                                          ELSE mqueue[u]]
        /\ log' = [log EXCEPT ![n] = Append(log[n], d)]
    BY <1>8 DEF Broadcast, d
  <2>4. mqueue' \in [Conns -> Seq(Deliverables)]
    BY <2>2, <2>3 DEF TypeOK
  <2>5. log' \in [AllNames -> Seq(Deliverables)]
    BY <2>1, <2>2, <2>3 DEF TypeOK
  <2>6. reply' \in [Conns -> Replies] /\ pc' \in [Conns -> PC]
    BY <1>8, AnswerTypes DEF Texts, Broadcast, TypeOK, Replies, PC
  <2>7. UNCHANGED <<wire, net, last, request, user_room, members, out, lines, confirmed>>
    BY <1>8 DEF Broadcast
  <2>. QED BY <2>4, <2>5, <2>6, <2>7 DEF TypeOK
<1>9. ASSUME NEW c \in Conns, JoinRefused(c) PROVE TypeOK'
  <2>1. /\ NotReceived(c) \/ Received(c, LegalTags \ {"join"}) \/ Received(c, {"join"})
        /\ UNCHANGED <<world, state, out, history>>
        /\ Goto(c, "refuse") /\ Reply(c, Err("join"))
    BY <1>9 DEF JoinRefused
  <2>2. pc' \in [Conns -> PC] /\ reply' \in [Conns -> Replies]
    BY <2>1, AnswerTypes DEF Texts, TypeOK, PC, Replies
  <2>. QED BY <2>1, <2>2, ReceiveTypes DEF TypeOK
<1>10. ASSUME NEW c \in Conns, JoinRoom(c) PROVE TypeOK'
  <2>1. Received(c, {"join"}) /\ UNCHANGED <<world, mqueue, out, history>>
    BY <1>10 DEF JoinRoom
  <2>2. Arrived(c).arg \in AllNames
    BY <2>1, ReceiveTypes, LineArguments
  <2>3. /\ pc' \in [Conns -> PC] /\ reply' \in [Conns -> Replies]
        /\ members' \in [AllNames -> SUBSET Conns] /\ user_room' \in [Conns -> AllNames]
    BY <1>10, <2>2, AnswerTypes DEF Texts, JoinRoom, TypeOK, PC, Replies
  <2>. QED BY <2>1, <2>3, ReceiveTypes DEF TypeOK
<1>11. ASSUME NEW c \in Conns, JoinReplied(c) PROVE TypeOK'
  <2>1. confirmed' \in [Conns -> Int]
    <3>1. Len(log[user_room[c]]) \in Int
      BY LenProperties DEF TypeOK
    <3>. QED BY <1>11, <3>1 DEF JoinReplied, TypeOK
  <2>2. pc' \in [Conns -> PC] /\ Send(c)
    BY <1>11 DEF JoinReplied, Send, TypeOK, PC
  <2>3. UNCHANGED <<process, wire, request, reply, state, lines, log>>
    BY <1>11 DEF JoinReplied
  <2>. QED BY <2>1, <2>2, <2>3, SendTypes DEF TypeOK
<1>12. ASSUME NEW c \in Conns, Dequeue(c) PROVE TypeOK'
  <2>1. Head(mqueue[c]) \in Deliverables /\ Tail(mqueue[c]) \in Seq(Deliverables)
    BY <1>12, HeadTailProperties DEF Dequeue, TypeOK
  <2>. QED BY <1>12, <2>1 DEF Dequeue, TypeOK, PC, Replies
<1>13. ASSUME NEW c \in Conns, RemoveMember(c) PROVE TypeOK'
  BY <1>13 DEF RemoveMember, TypeOK, AllNames, PC
<1>14. CASE UNCHANGED vars
  BY <1>14 DEF vars, TypeOK
<1>. QED
  BY <1>1, <1>2, <1>3, <1>4, <1>5, <1>6, <1>7, <1>8, <1>9, <1>10, <1>11, <1>12,
     <1>13, <1>14
  DEF Next, Thread

Step(c) == Client(c) \/ Accept(c) \/ AcceptFails(c) \/ Thread(c)

\* A step of one thread or client changes no other's variables, but what a
\* broadcast queues.
LEMMA OthersStay ==
  ASSUME TypeOK, NEW c \in Conns, Step(c), NEW d \in Conns, d # c
  PROVE  /\ pc'[d] = pc[d] /\ net'[d] = net[d] /\ last'[d] = last[d]
         /\ request'[d] = request[d] /\ reply'[d] = reply[d]
         /\ user_room'[d] = user_room[d] /\ out'[d] = out[d] /\ lines'[d] = lines[d]
         /\ confirmed'[d] = confirmed[d]
         /\ ~Broadcast(c) => mqueue'[d] = mqueue[d]
<1>. USE DEF Goto, Reply, Got, process, world, threads, state, history, TypeOK
<1>1. CASE Client(c) \/ Accept(c) \/ AcceptFails(c)
  BY <1>1 DEF Client, Connect, ClientClose, Reset, Accept, AcceptFails
<1>2. CASE Login(c) \/ LoginFailed(c)
  BY <1>2 DEF Login, LoginFailed, Received, NotReceived
<1>3. CASE Refuse(c) \/ LoginReplied(c) \/ Answer(c) \/ Deliver(c) \/ JoinReplied(c)
  BY <1>3 DEF Refuse, LoginReplied, Answer, Deliver, JoinReplied, Send, SendOk, SendFail
<1>4. CASE CloseFd(c) \/ SenderEnds(c) \/ SenderSkips(c) \/ LoopEnds(c)
  BY <1>4 DEF CloseFd, SenderEnds, SenderSkips, LoopEnds, NotReceived
<1>5. CASE HandleJoin(c) \/ HandleSendall(c) \/ HandleLeave(c) \/ HandleQuit(c) \/ HandleOther(c)
  <2>. USE DEF SenderReceives, Received
  <2>1. CASE HandleJoin(c)
    BY <2>1 DEF HandleJoin
  <2>2. CASE HandleSendall(c)
    BY <2>2 DEF HandleSendall
  <2>3. CASE HandleLeave(c)
    BY <2>3 DEF HandleLeave
  <2>4. CASE HandleQuit(c) \/ HandleOther(c)
    BY <2>4 DEF HandleQuit, HandleOther
  <2>. QED BY <1>5, <2>1, <2>2, <2>3, <2>4
<1>6. CASE Broadcast(c)
  BY <1>6 DEF Broadcast
<1>7. CASE JoinRefused(c) \/ JoinRoom(c)
  BY <1>7 DEF JoinRefused, JoinRoom, Received, NotReceived
<1>8. CASE Dequeue(c) \/ RemoveMember(c)
  BY <1>8 DEF Dequeue, RemoveMember
<1>. QED BY <1>1, <1>2, <1>3, <1>4, <1>5, <1>6, <1>7, <1>8 DEF Step, Thread

\* The steps in which no log changes.
LEMMA LogStays ==
  ASSUME NEW c \in Conns, Step(c), ~Broadcast(c)
  PROVE  log' = log
BY DEF Step, Thread, Client, Connect, ClientClose, Reset, Accept, AcceptFails,
       Login, LoginFailed, Refuse, LoginReplied, CloseFd, SenderEnds, SenderSkips,
       HandleJoin, HandleSendall, HandleLeave, HandleQuit, HandleOther,
       SenderReceives, Answer, JoinRefused, JoinRoom, JoinReplied, LoopEnds,
       Dequeue, Deliver, RemoveMember, history

TalkAt(c) == ReadyAt(c) /\ SilentAt(c) /\ WelcomedAt(c) /\ AnsweredAt(c)

\* A write adds one reply to what the client was told, unless the connection
\* was reset.
LEMMA SendTells ==
  ASSUME TypeOK, NEW c \in Conns, Send(c)
  PROVE  \/ /\ SendOk(c) /\ net[c] # "reset" /\ out'[c] = Append(out[c], reply[c])
            /\ Len(out'[c]) = Len(out[c]) + 1 /\ last'[c] = "SUCCESS"
         \/ /\ SendFail(c) /\ net[c] = "reset" /\ net'[c] = "reset" /\ out' = out
            /\ last'[c] = "EOF_OR_ERROR"
<1>1. out[c] \in Seq(Replies) /\ reply[c] \in Replies
  BY DEF TypeOK
<1>2. Len(Append(out[c], reply[c])) = Len(out[c]) + 1
  BY <1>1, AppendProperties
<1>. QED BY <1>2 DEF Send, SendOk, SendFail, TypeOK

\* A thread's own steps keep its account of what it has told its client.
LEMMA OwnTalk ==
  ASSUME TypeOK, MembersAreThreads, NEW c \in Conns, TalkAt(c), Step(c)
  PROVE  TalkAt(c)'
<1>. USE DEF Goto, Reply, process, world, threads, state, history,
             TalkAt, ReadyAt, SilentAt, WelcomedAt, AnsweredAt, IsOpen
<1>0. /\ pc \in [Conns -> PC] /\ net \in [Conns -> Net] /\ last \in [Conns -> Results]
      /\ request \in [Conns -> Line \cup {NoLine}] /\ reply \in [Conns -> Replies]
      /\ user_room \in [Conns -> AllNames] /\ mqueue \in [Conns -> Seq(Deliverables)]
      /\ out \in [Conns -> Seq(Replies)] /\ lines \in [Conns -> Nat]
      /\ confirmed \in [Conns -> Int] /\ Len(out[c]) \in Nat /\ Len(<<>>) = 0
  BY LenProperties DEF TypeOK
<1>1. CASE Client(c)
  BY <1>0, <1>1 DEF Client, Connect, ClientClose, Reset
<1>2. CASE Accept(c) \/ AcceptFails(c)
  BY <1>0, <1>2 DEF Accept, AcceptFails
<1>3. CASE Login(c) \/ LoginFailed(c)
  <2>1. /\ pc[c] = "login" /\ UNCHANGED <<net, user_room, mqueue, out, lines, confirmed>>
        /\ \/ /\ pc'[c] \in {"slogin", "rlogin"} /\ reply'[c] = Ok("login")
           \/ pc'[c] = "refuse" /\ \E x \in {"login", "nothing"} : reply'[c] = Err(x)
    BY <1>0, <1>3 DEF Login, LoginFailed, Received
  <2>2. /\ Ok("login") \in Answers /\ Ok("login") # Ok("sent")
        /\ \A x \in {"login", "nothing"} : Err(x) \in Answers /\ Err(x) # Ok("sent")
    BY AnswerTypes DEF Texts, Ok, Err
  <2>. QED BY <1>0, <2>1, <2>2
<1>4. CASE Refuse(c)
  BY <1>0, <1>4, SendTells DEF Refuse
<1>5. CASE LoginReplied(c)
  <2>1. /\ pc[c] \in {"slogin", "rlogin"} /\ Send(c)
        /\ pc'[c] = IF pc[c] = "slogin" THEN "sender" ELSE "join"
        /\ UNCHANGED <<mqueue, lines, confirmed>>
    BY <1>0, <1>5 DEF LoginReplied
  <2>2. /\ pc'[c] \in {"sender", "join"} /\ mqueue'[c] = <<>> /\ confirmed'[c] = -1
        /\ pc'[c] = "sender" => lines'[c] = 0
    BY <2>1
  <2>3. Len(out[c]) = 0
    BY <1>0, <2>1
  <2>4. \/ Len(out'[c]) = 1 /\ last'[c] = "SUCCESS"
        \/ net'[c] = "reset" /\ last'[c] = "EOF_OR_ERROR"
    <3>1. \/ Len(out'[c]) = Len(out[c]) + 1 /\ last'[c] = "SUCCESS"
          \/ net'[c] = "reset" /\ last'[c] = "EOF_OR_ERROR"
      BY <2>1, SendTells, Zenon
    <3>. QED BY <2>3, <3>1
  <2>5. ReadyAt(c)' /\ SilentAt(c)'
    BY <2>2
  <2>6. WelcomedAt(c)'
    BY <2>2, <2>4
  <2>7. AnsweredAt(c)'
    <3>. SUFFICES ASSUME pc'[c] = "sender", last'[c] # "EOF_OR_ERROR"
                  PROVE  Len(out'[c]) = 1 + lines'[c]
      BY <2>2
    <3>1. Len(out'[c]) = 1
      BY <2>4
    <3>2. lines'[c] = 0
      BY <2>2
    <3>. QED BY <3>1, <3>2
  <2>. QED BY <2>5, <2>6, <2>7
<1>6. CASE CloseFd(c) \/ SenderEnds(c) \/ LoopEnds(c)
  BY <1>0, <1>6 DEF CloseFd, SenderEnds, LoopEnds
<1>7. CASE SenderSkips(c)
  <2>1. /\ pc[c] = "sender" /\ last[c] # "EOF_OR_ERROR"
        /\ UNCHANGED <<net, pc, reply, user_room, mqueue, out, lines, confirmed>>
    BY <1>7 DEF SenderSkips
  <2>. QED BY <1>0, <2>1
<1>8. CASE HandleJoin(c) \/ HandleLeave(c) \/ HandleQuit(c) \/ HandleOther(c)
  <2>1. /\ pc[c] = "sender" /\ last[c] # "EOF_OR_ERROR" /\ lines'[c] = lines[c] + 1
        /\ UNCHANGED <<net, mqueue, out, confirmed>>
    BY <1>0, <1>8 DEF HandleJoin, HandleLeave, HandleQuit, HandleOther, SenderReceives
  <2>2. /\ pc'[c] \in {"answer", "answerLast"} /\ reply'[c] \in Answers
        /\ pc'[c] = "answerLast" => reply'[c] = Ok("bye")
    BY <1>0, <1>8, AnswerTypes DEF Texts, HandleJoin, HandleLeave, HandleQuit, HandleOther
  <2>3. Ok("bye") # Ok("sent")
    BY DEF Ok
  <2>. QED BY <1>0, <2>1, <2>2, <2>3
<1>9. CASE HandleSendall(c)
  <2>1. /\ pc[c] = "sender" /\ last[c] # "EOF_OR_ERROR" /\ lines'[c] = lines[c] + 1
        /\ UNCHANGED <<net, mqueue, out, confirmed, user_room>>
    BY <1>0, <1>9 DEF HandleSendall, SenderReceives
  <2>2. request'[c].arg \in Messages
    <3>1. Received(c, {"sendall"})
      BY <1>9 DEF HandleSendall, SenderReceives
    <3>. QED BY <3>1, ReceiveTypes, LineArguments
  <2>3. \/ pc'[c] = "answer" /\ reply'[c] \in Answers
        \/ pc'[c] = "broadcast" /\ user_room[c] # NoName
    BY <1>0, <1>9, AnswerTypes DEF Texts, HandleSendall
  <2>. QED BY <1>0, <2>1, <2>2, <2>3
<1>10. CASE Broadcast(c)
  <2>1. /\ pc[c] = "broadcast" /\ pc'[c] = "answer" /\ reply'[c] = Ok("sent")
        /\ UNCHANGED <<net, out, lines, confirmed>>
    BY <1>0, <1>10 DEF Broadcast
  <2>2. mqueue'[c] = <<>> /\ Ok("sent") \in Answers
    <3>1. c \notin members[user_room[c]]
      BY <1>0, <2>1 DEF MembersAreThreads
    <3>. QED BY <1>10, <2>1, <3>1, AnswerTypes DEF Broadcast, Texts
  <2>. QED BY <1>0, <2>1, <2>2
<1>11. CASE Answer(c)
  <2>1. /\ pc[c] \in {"answer", "answerLast"} /\ Send(c)
        /\ pc'[c] \in {"sender", "close"}
        /\ pc'[c] = "sender" => pc[c] = "answer" /\ SendOk(c)
        /\ UNCHANGED <<mqueue, lines, confirmed>>
    BY <1>0, <1>11 DEF Answer, Send
  <2>. QED BY <1>0, <2>1, SendTells DEF SendOk
<1>12. CASE JoinRefused(c)
  <2>1. /\ pc[c] = "join" /\ pc'[c] = "refuse" /\ reply'[c] = Err("join")
        /\ UNCHANGED <<net, mqueue, out, lines, confirmed>>
    BY <1>0, <1>12 DEF JoinRefused
  <2>2. Err("join") \in Answers /\ Err("join") # Ok("sent")
    BY AnswerTypes DEF Texts, Ok, Err
  <2>. QED BY <1>0, <2>1, <2>2
<1>13. CASE JoinRoom(c)
  <2>1. /\ pc[c] = "join" /\ pc'[c] = "joinReply" /\ reply'[c] = Ok("welcome")
        /\ UNCHANGED <<net, mqueue, out, lines, confirmed>>
    BY <1>0, <1>13 DEF JoinRoom
  <2>2. Ok("welcome") \in Answers /\ Ok("welcome") # Ok("sent")
    BY AnswerTypes DEF Texts, Ok
  <2>. QED BY <1>0, <2>1, <2>2
<1>14. CASE JoinReplied(c)
  <2>1. /\ pc[c] = "joinReply" /\ Send(c) /\ pc'[c] = "loop"
        /\ SendFail(c) => confirmed' = confirmed
    BY <1>0, <1>14 DEF JoinReplied, Send, SendOk, SendFail
  <2>. QED BY <1>0, <2>1, SendTells
<1>15. CASE Dequeue(c)
  <2>1. /\ pc[c] = "loop" /\ pc'[c] = "deliver" /\ mqueue[c] # <<>>
        /\ reply'[c] = Head(mqueue[c])
        /\ UNCHANGED <<net, out, lines, confirmed>>
    BY <1>0, <1>15 DEF Dequeue
  <2>2. reply'[c] \in Deliverables
    BY <1>0, <2>1, HeadTailProperties
  <2>. QED BY <1>0, <2>1, <2>2
<1>16. CASE Deliver(c)
  <2>1. /\ pc[c] = "deliver" /\ Send(c) /\ pc'[c] \in {"loop", "remove"}
        /\ UNCHANGED <<mqueue, lines, confirmed>>
    BY <1>0, <1>16 DEF Deliver, Send
  <2>. QED BY <1>0, <2>1, SendTells
<1>17. CASE RemoveMember(c)
  <2>1. pc[c] = "remove" /\ pc'[c] = "close"
    BY <1>0, <1>17 DEF RemoveMember
  <2>. QED BY <1>0, <2>1
<1>. QED
  BY <1>1, <1>2, <1>3, <1>4, <1>5, <1>6, <1>7, <1>8, <1>9, <1>10, <1>11, <1>12,
     <1>13, <1>14, <1>15, <1>16, <1>17
  DEF Step, Thread

\* Others' steps keep it too: a broadcast queues only for members.
LEMMA TalksStep == TypeOK /\ Talks /\ MembersAreThreads /\ [Next]_vars => Talks'
<1>. SUFFICES ASSUME TypeOK, Talks, MembersAreThreads, [Next]_vars,
                     NEW d \in Conns
              PROVE  TalkAt(d)'
  BY DEF Talks, TalkAt
<1>1. TalkAt(d)
  BY DEF Talks, TalkAt
<1>2. CASE UNCHANGED vars
  BY <1>1, <1>2
  DEF vars, TalkAt, ReadyAt, SilentAt, WelcomedAt, AnsweredAt, IsOpen
<1>3. ASSUME NEW c \in Conns, Step(c) PROVE TalkAt(d)'
  <2>1. CASE d = c
    BY <1>1, <1>3, <2>1, OwnTalk
  <2>2. CASE d # c
    <3>1. /\ pc'[d] = pc[d] /\ net'[d] = net[d] /\ last'[d] = last[d]
          /\ request'[d] = request[d] /\ reply'[d] = reply[d]
          /\ user_room'[d] = user_room[d] /\ out'[d] = out[d] /\ lines'[d] = lines[d]
          /\ confirmed'[d] = confirmed[d]
          /\ ~Broadcast(c) => mqueue'[d] = mqueue[d]
      BY <1>3, <2>2, OthersStay
    <3>2. pc[d] \notin {"joinReply", "loop", "deliver", "remove", "close", "done"}
            => mqueue'[d] = mqueue[d]
      <4>1. CASE Broadcast(c)
        <5>1. user_room[c] \in AllNames
          BY DEF TypeOK
        <5>2. d \in members[user_room[c]]
                => pc[d] \in {"joinReply", "loop", "deliver", "remove"}
          BY <5>1 DEF MembersAreThreads
        <5>3. d \notin members[user_room[c]] => mqueue'[d] = mqueue[d]
          BY <4>1 DEF Broadcast
        <5>. QED BY <5>2, <5>3
      <4>. QED BY <3>1, <4>1
    <3>. QED BY <1>1, <3>1, <3>2
         DEF TalkAt, ReadyAt, SilentAt, WelcomedAt, AnsweredAt, IsOpen
  <2>. QED BY <2>1, <2>2
<1>. QED BY <1>2, <1>3 DEF Next, Step

\* add_member and remove_member move the thread and the room's set together.
LEMMA MembersStep ==
  TypeOK /\ MembersAreThreads /\ [Next]_vars => MembersAreThreads'
<1>. SUFFICES ASSUME TypeOK, MembersAreThreads, [Next]_vars PROVE MembersAreThreads'
  OBVIOUS
<1>. DEFINE MPC == {"joinReply", "loop", "deliver", "remove"}
<1>. USE DEF Goto, Reply, process, world, threads, state, history
<1>0. /\ pc \in [Conns -> PC] /\ user_room \in [Conns -> AllNames]
      /\ members \in [AllNames -> SUBSET Conns]
  BY DEF TypeOK
<1>1. ASSUME NEW c \in Conns, members' = members, NEW l, NEW n,
             pc' = [pc EXCEPT ![c] = l], user_room' = [user_room EXCEPT ![c] = n],
             l \in MPC <=> pc[c] \in MPC, pc[c] \in MPC => n = user_room[c]
      PROVE  MembersAreThreads'
  BY <1>0, <1>1 DEF MembersAreThreads
<1>2. ASSUME NEW c \in Conns, members' = members, user_room' = user_room, NEW l,
             pc' = [pc EXCEPT ![c] = l], l \in MPC <=> pc[c] \in MPC
      PROVE  MembersAreThreads'
  BY <1>0, <1>2 DEF MembersAreThreads
<1>3. ASSUME members' = members, user_room' = user_room, pc' = pc
      PROVE  MembersAreThreads'
  BY <1>3 DEF MembersAreThreads
<1>4. ASSUME NEW c \in Conns, Client(c) \/ AcceptFails(c) \/ SenderSkips(c)
      PROVE  MembersAreThreads'
  BY <1>3, <1>4 DEF Client, Connect, ClientClose, Reset, AcceptFails, SenderSkips
<1>5. ASSUME NEW c \in Conns, Accept(c) PROVE MembersAreThreads'
  <2>1. /\ pc[c] = "none" /\ UNCHANGED <<members, user_room>>
        /\ \E l \in {"login", "orphan"} : pc' = [pc EXCEPT ![c] = l]
    BY <1>5 DEF Accept
  <2>. QED BY <1>2, <2>1
<1>6. ASSUME NEW c \in Conns,
             \/ Login(c) \/ LoginFailed(c) \/ Refuse(c) \/ LoginReplied(c) \/ CloseFd(c)
             \/ SenderEnds(c) \/ Broadcast(c) \/ Answer(c) \/ JoinRefused(c)
      PROVE  MembersAreThreads'
  <2>1. /\ pc[c] \notin MPC /\ UNCHANGED <<members, user_room>>
        /\ \E l : l \notin MPC /\ pc' = [pc EXCEPT ![c] = l]
    <3>1. CASE Login(c) \/ LoginFailed(c) \/ Refuse(c) \/ CloseFd(c)
      BY <3>1 DEF Login, LoginFailed, Refuse, CloseFd, Received
    <3>2. CASE LoginReplied(c) \/ Answer(c)
      BY <3>2 DEF LoginReplied, Answer
    <3>3. CASE SenderEnds(c) \/ Broadcast(c) \/ JoinRefused(c)
      BY <3>3 DEF SenderEnds, Broadcast, JoinRefused
    <3>. QED BY <1>6, <3>1, <3>2, <3>3
  <2>. QED BY <1>2, <2>1
<1>7. ASSUME NEW c \in Conns,
             \/ HandleJoin(c) \/ HandleSendall(c) \/ HandleLeave(c) \/ HandleQuit(c)
             \/ HandleOther(c)
      PROVE  MembersAreThreads'
  <2>1. /\ pc[c] \notin MPC /\ members' = members
        /\ \E l \in {"answer", "answerLast", "broadcast"} : pc' = [pc EXCEPT ![c] = l]
    BY <1>7 DEF HandleJoin, HandleSendall, HandleLeave, HandleQuit, HandleOther,
                SenderReceives
  <2>2. \E n : user_room' = [user_room EXCEPT ![c] = n]
    <3>1. user_room = [user_room EXCEPT ![c] = user_room[c]]
      BY <1>0
    <3>. QED BY <1>7, <3>1
         DEF HandleJoin, HandleSendall, HandleLeave, HandleQuit, HandleOther
  <2>. QED BY <1>1, <2>1, <2>2
<1>8. ASSUME NEW c \in Conns, JoinReplied(c) \/ LoopEnds(c) \/ Dequeue(c) \/ Deliver(c)
      PROVE  MembersAreThreads'
  <2>1. /\ pc[c] \in MPC /\ UNCHANGED <<members, user_room>>
        /\ \E l \in MPC : pc' = [pc EXCEPT ![c] = l]
    BY <1>8 DEF JoinReplied, LoopEnds, Dequeue, Deliver
  <2>. QED BY <1>2, <2>1
<1>9. ASSUME NEW c \in Conns, JoinRoom(c) PROVE MembersAreThreads'
  <2>1. Received(c, {"join"})
    BY <1>9 DEF JoinRoom
  <2>2. Arrived(c).arg \in AllNames
    BY <2>1, ReceiveTypes, LineArguments
  <2>. DEFINE n == Arrived(c).arg
  <2>3. /\ pc[c] = "join" /\ pc' = [pc EXCEPT ![c] = "joinReply"] /\ n \in AllNames
        /\ members' = [members EXCEPT ![n] = members[n] \cup {c}]
        /\ user_room' = [user_room EXCEPT ![c] = n]
    BY <1>9, <2>2 DEF JoinRoom
  <2>. HIDE DEF n
  <2>. QED BY <1>0, <2>3 DEF MembersAreThreads
<1>10. ASSUME NEW c \in Conns, RemoveMember(c) PROVE MembersAreThreads'
  BY <1>0, <1>10 DEF RemoveMember, MembersAreThreads
<1>11. CASE UNCHANGED vars
  BY <1>3, <1>11 DEF vars
<1>. QED
  BY <1>4, <1>5, <1>6, <1>7, <1>8, <1>9, <1>10, <1>11 DEF Next, Thread

------------------------------------------------------------------------------
(* What a confirmed receiver gets *)

\* The end of a sequence from some place on, when an element is appended.
LEMMA EndOfAppend ==
  ASSUME NEW S, NEW s \in Seq(S), NEW e \in S, NEW k \in 0 .. Len(s)
  PROVE  SubSeq(Append(s, e), k + 1, Len(Append(s, e)))
           = Append(SubSeq(s, k + 1, Len(s)), e)
<1>1. /\ Append(s, e) \in Seq(S) /\ Len(Append(s, e)) = Len(s) + 1
      /\ \A i \in 1 .. Len(s) : Append(s, e)[i] = s[i]
      /\ Append(s, e)[Len(s) + 1] = e /\ Len(s) \in Nat
  BY AppendProperties, LenProperties
<1>2. SubSeq(Append(s, e), k + 1, Len(s) + 1) = SubSeq(Append(s, e), k + 1, Len(s)) \o <<e>>
  <2>. DEFINE a == Append(s, e)
             n == Len(s) + 1
  <2>1. a \in Seq(S) /\ k + 1 \in 1 .. Len(a) /\ n \in k + 1 .. Len(a) /\ a[n] = e
    BY <1>1
  <2>2. SubSeq(a, k + 1, n) = SubSeq(a, k + 1, n - 1) \o <<a[n]>>
    <3>. HIDE DEF a, n
    <3>. QED BY <2>1, SubSeqRecursiveSecond
  <2>3. n - 1 = Len(s)
    BY <1>1
  <2>. QED BY <2>1, <2>2, <2>3
<1>3. SubSeq(Append(s, e), k + 1, Len(s)) = SubSeq(s, k + 1, Len(s))
  BY <1>1
<1>4. SubSeq(s, k + 1, Len(s)) \in Seq(S)
  BY <1>1, SubSeqProperties
<1>5. SubSeq(s, k + 1, Len(s)) \o <<e>> = Append(SubSeq(s, k + 1, Len(s)), e)
  BY <1>4, AppendIsConcat
<1>. QED BY <1>1, <1>2, <1>3, <1>5

LEMMA EndsAppend ==
  ASSUME NEW S, NEW s \in Seq(S), NEW l \in Seq(S), NEW e \in S, Ends(s, l)
  PROVE  /\ Ends(Append(s, e), Append(l, e))
         /\ Len(Append(l, e)) - Len(Append(s, e)) = Len(l) - Len(s)
<1>1. /\ Len(s) \in Nat /\ Len(l) \in Nat
      /\ Len(Append(s, e)) = Len(s) + 1 /\ Len(Append(l, e)) = Len(l) + 1
  BY LenProperties, AppendProperties
<1>. DEFINE k == Len(l) - Len(s)
<1>2. k \in 0 .. Len(l) /\ s = SubSeq(l, k + 1, Len(l))
  BY <1>1 DEF Ends
<1>3. Len(Append(l, e)) - Len(Append(s, e)) = k
  BY <1>1
<1>. HIDE DEF k
<1>4. SubSeq(Append(l, e), k + 1, Len(Append(l, e))) = Append(s, e)
  BY <1>2, EndOfAppend
<1>5. Len(Append(s, e)) <= Len(Append(l, e))
  BY <1>1 DEF Ends
<1>. QED BY <1>3, <1>4, <1>5 DEF Ends, k

Held(c) == Deliveries(c) \o Pending(c) \o mqueue[c]

\* ConfirmedMissesNothing of one receiver.
ConfirmedAt(c) ==
  pc[c] \in {"loop", "deliver"} /\ confirmed[c] >= 0 =>
    /\ Ends(Held(c), log[user_room[c]])
    /\ Len(log[user_room[c]]) - Len(Held(c)) <= confirmed[c]

LEMMA HeldTypes ==
  ASSUME TypeOK, NEW c \in Conns
  PROVE  /\ log[user_room[c]] \in Seq(Deliverables) /\ mqueue[c] \in Seq(Deliverables)
         /\ out[c] \in Seq(Replies) /\ Len(out[c]) \in Nat
         /\ Deliveries(c) \in Seq(Replies) /\ Pending(c) \in Seq(Replies)
         /\ mqueue[c] \in Seq(Replies) /\ Held(c) \in Seq(Replies)
         /\ log[user_room[c]] \in Seq(Replies)
<1>1. /\ log[user_room[c]] \in Seq(Deliverables) /\ mqueue[c] \in Seq(Deliverables)
      /\ out[c] \in Seq(Replies)
  BY DEF TypeOK
<1>2. \A s \in Seq(Deliverables) : s \in Seq(Replies)
  BY DEF Replies
<1>3. Len(out[c]) \in Nat
  BY <1>1, LenProperties
<1>4. Deliveries(c) \in Seq(Replies)
  <2>1. \A i \in 3 .. Len(out[c]) : out[c][i] \in Replies
    BY <1>1, <1>3, ElementOfSeq
  <2>. QED BY <1>1, <1>3, <2>1, SubSeqProperties DEF Deliveries
<1>5. Pending(c) \in Seq(Replies)
  <2>1. reply[c] \in Replies
    BY DEF TypeOK
  <2>. QED BY <2>1 DEF Pending
<1>6. Held(c) \in Seq(Replies)
  BY <1>1, <1>2, <1>4, <1>5, ConcatProperties DEF Held
<1>. QED BY <1>1, <1>2, <1>3, <1>4, <1>5, <1>6

\* A delivery adds to what its receiver was sent.
LEMMA DeliveriesGrow ==
  ASSUME TypeOK, NEW c \in Conns, Len(out[c]) >= 2, out'[c] = Append(out[c], reply[c])
  PROVE  Deliveries(c)' = Append(Deliveries(c), reply[c])
<1>. DEFINE o == out[c]
            r == reply[c]
<1>1. o \in Seq(Replies) /\ r \in Replies /\ 2 \in 0 .. Len(o)
  BY HeldTypes DEF TypeOK
<1>2. SubSeq(Append(o, r), 2 + 1, Len(Append(o, r))) = Append(SubSeq(o, 2 + 1, Len(o)), r)
  <2>. HIDE DEF o, r
  <2>. QED BY <1>1, EndOfAppend
<1>. QED BY <1>2 DEF Deliveries

LEMMA ConfirmedIsEnds ==
  TypeOK => (ConfirmedMissesNothing <=> \A c \in Conns : ConfirmedAt(c))
<1>. SUFFICES ASSUME TypeOK
              PROVE  ConfirmedMissesNothing <=> \A c \in Conns : ConfirmedAt(c)
  OBVIOUS
<1>1. ASSUME NEW c \in Conns
      PROVE  LET l == log[user_room[c]]
             IN  (/\ Len(l) - Len(Held(c)) \in 0 .. confirmed[c]
                  /\ Held(c) = SubSeq(l, Len(l) - Len(Held(c)) + 1, Len(l)))
                 <=> Ends(Held(c), l) /\ Len(l) - Len(Held(c)) <= confirmed[c]
  <2>. DEFINE l == log[user_room[c]]
  <2>1. Len(l) \in Nat /\ Len(Held(c)) \in Nat /\ confirmed[c] \in Int
    BY HeldTypes, LenProperties DEF TypeOK
  <2>. HIDE DEF l
  <2>2. Len(l) - Len(Held(c)) \in 0 .. confirmed[c]
          <=> Len(Held(c)) <= Len(l) /\ Len(l) - Len(Held(c)) <= confirmed[c]
    BY <2>1
  <2>. QED BY <2>2 DEF Ends, l
<1>. QED BY <1>1 DEF ConfirmedMissesNothing, ConfirmedAt, Held

\* What Waiting and ConfirmedAt say of one receiver.
FollowsAt(c) ==
  /\ pc[c] = "joinReply" => Ends(mqueue[c], log[user_room[c]])
  /\ ConfirmedAt(c)

\* A step that touches neither what is held for c nor its room's log.
LEMMA HeldSame ==
  ASSUME NEW c \in Conns, FollowsAt(c),
         /\ pc'[c] = pc[c] /\ reply'[c] = reply[c] /\ user_room'[c] = user_room[c]
         /\ mqueue'[c] = mqueue[c] /\ out'[c] = out[c] /\ confirmed'[c] = confirmed[c],
         pc[c] \in {"joinReply", "loop", "deliver"} => log'[user_room[c]] = log[user_room[c]]
  PROVE  FollowsAt(c)'
BY DEF FollowsAt, ConfirmedAt, Held, Deliveries, Pending, Ends

\* Concatenation is associative.
Associate(s, t, u) == (s \o t) \o u = s \o (t \o u)

LEMMA Regroup ==
  ASSUME NEW T, NEW s \in Seq(T), NEW t \in Seq(T), NEW u \in Seq(T)
  PROVE  Associate(s, t, u)
BY ConcatAssociative DEF Associate

\* A broadcast to c's room adds the same text to the room's log and to c's queue.
LEMMA HeldGrows ==
  ASSUME TypeOK, NEW c \in Conns, FollowsAt(c), NEW d \in Deliverables,
         /\ pc'[c] = pc[c] /\ reply'[c] = reply[c] /\ user_room'[c] = user_room[c]
         /\ out'[c] = out[c] /\ confirmed'[c] = confirmed[c],
         mqueue'[c] = Append(mqueue[c], d),
         log'[user_room[c]] = Append(log[user_room[c]], d)
  PROVE  FollowsAt(c)'
<1>. DEFINE l == log[user_room[c]]
            q == mqueue[c]
            x == Deliveries(c) \o Pending(c)
<1>1. /\ l \in Seq(Deliverables) /\ l \in Seq(Replies) /\ q \in Seq(Deliverables)
      /\ q \in Seq(Replies) /\ x \in Seq(Replies) /\ d \in Replies
      /\ Held(c) \in Seq(Replies)
  BY HeldTypes, ConcatProperties DEF Replies
<1>2. Held(c)' = Append(Held(c), d)
  <2>1. Held(c)' = x \o Append(q, d) /\ Held(c) = x \o q
    BY DEF Held, Deliveries, Pending
  <2>. HIDE DEF x, q
  <2>2. Append(q, d) = q \o <<d>> /\ Append(x \o q, d) = (x \o q) \o <<d>>
    BY <1>1, <2>1, AppendIsConcat
  <2>3. <<d>> \in Seq(Replies)
    BY <1>1
  <2>4. Associate(x, q, <<d>>)
    BY <1>1, <2>3, Regroup
  <2>. QED BY <2>1, <2>2, <2>4 DEF Associate
<1>3. log'[user_room'[c]] = Append(l, d) /\ mqueue'[c] = Append(q, d)
  OBVIOUS
<1>. HIDE DEF l, q
<1>4. pc[c] = "joinReply" => Ends(Append(q, d), Append(l, d))
  <2>1. pc[c] = "joinReply" => Ends(q, l)
    BY DEF FollowsAt, q, l
  <2>. QED BY <1>1, <2>1, EndsAppend
<1>5. pc[c] \in {"loop", "deliver"} /\ confirmed[c] >= 0 =>
        /\ Ends(Append(Held(c), d), Append(l, d))
        /\ Len(Append(l, d)) - Len(Append(Held(c), d)) <= confirmed[c]
  <2>1. pc[c] \in {"loop", "deliver"} /\ confirmed[c] >= 0 =>
          Ends(Held(c), l) /\ Len(l) - Len(Held(c)) <= confirmed[c]
    BY DEF FollowsAt, ConfirmedAt, l
  <2>. QED BY <1>1, <2>1, EndsAppend
<1>6. pc'[c] = "joinReply" => Ends(mqueue[c], log[user_room[c]])'
  BY <1>3, <1>4 DEF Ends
<1>7. ConfirmedAt(c)'
  BY <1>2, <1>3, <1>5 DEF ConfirmedAt, Ends
<1>. QED BY <1>6, <1>7 DEF FollowsAt

\* A receiver's own steps move what is held for it along, and lose nothing.
LEMMA OwnFollows ==
  ASSUME TypeOK, NEW c \in Conns, TalkAt(c), FollowsAt(c), Step(c)
  PROVE  FollowsAt(c)'
<1>. USE DEF Goto, Reply, process, world, threads, state, history
<1>0. /\ pc \in [Conns -> PC] /\ net \in [Conns -> Net] /\ last \in [Conns -> Results]
      /\ request \in [Conns -> Line \cup {NoLine}] /\ reply \in [Conns -> Replies]
      /\ user_room \in [Conns -> AllNames] /\ mqueue \in [Conns -> Seq(Deliverables)]
      /\ out \in [Conns -> Seq(Replies)] /\ log \in [AllNames -> Seq(Deliverables)]
      /\ confirmed \in [Conns -> Int]
  BY DEF TypeOK
<1>1. CASE Client(c) \/ AcceptFails(c)
  <2>1. UNCHANGED <<pc, reply, user_room, mqueue, out, confirmed, log>>
    BY <1>1 DEF Client, Connect, ClientClose, Reset, AcceptFails
  <2>. QED BY <2>1, HeldSame
<1>2. CASE pc'[c] \notin {"joinReply", "loop", "deliver"}
  BY <1>2 DEF FollowsAt, ConfirmedAt
<1>3. CASE JoinRoom(c)
  <2>1. /\ pc[c] = "join" /\ pc'[c] = "joinReply" /\ mqueue' = mqueue /\ log' = log
        /\ user_room'[c] = Arrived(c).arg /\ Arrived(c).arg \in AllNames
    <3>1. Received(c, {"join"})
      BY <1>3 DEF JoinRoom
    <3>2. Arrived(c).arg \in AllNames
      BY <3>1, ReceiveTypes, LineArguments
    <3>. QED BY <1>0, <1>3, <3>2 DEF JoinRoom
  <2>2. mqueue[c] = <<>>
    BY <2>1 DEF TalkAt, WelcomedAt
  <2>3. \A l \in Seq(Deliverables) : Ends(<<>>, l)
    <3>. SUFFICES ASSUME NEW l \in Seq(Deliverables) PROVE Ends(<<>>, l)
      OBVIOUS
    <3>1. Len(l) \in Nat /\ Len(<<>>) = 0
      BY LenProperties
    <3>2. SubSeq(l, Len(l) + 1, Len(l)) = <<>>
      BY <3>1, SubSeqProperties
    <3>. QED BY <3>1, <3>2 DEF Ends
  <2>4. log[Arrived(c).arg] \in Seq(Deliverables)
    BY <1>0, <2>1
  <2>5. Ends(mqueue[c], log[user_room[c]])'
    BY <2>1, <2>2, <2>3, <2>4 DEF Ends
  <2>. QED BY <2>1, <2>5 DEF FollowsAt, ConfirmedAt
<1>4. CASE JoinReplied(c)
  <2>. DEFINE l == log[user_room[c]]
              q == mqueue[c]
  <2>1. /\ pc[c] = "joinReply" /\ pc'[c] = "loop" /\ Send(c)
        /\ SendOk(c) => confirmed'[c] = Len(l)
        /\ SendFail(c) => confirmed' = confirmed
        /\ UNCHANGED <<user_room, mqueue, log>>
    BY <1>0, <1>4 DEF JoinReplied, Send, SendOk, SendFail
  <2>2. CASE SendFail(c) /\ net[c] = "reset"
    <3>1. confirmed'[c] = -1
      BY <2>1, <2>2 DEF TalkAt, WelcomedAt
    <3>. QED BY <2>1, <3>1 DEF FollowsAt, ConfirmedAt
  <2>3. CASE SendOk(c) /\ net[c] # "reset" /\ Len(out'[c]) = Len(out[c]) + 1
    <3>1. Len(out[c]) = 1
      BY <2>1, <2>3 DEF TalkAt, WelcomedAt
    <3>2. Len(out'[c]) = 2 /\ out'[c] \in Seq(Replies)
      BY <2>1, <2>3, <3>1, SendTypes
    <3>3. Deliveries(c)' = <<>> /\ Pending(c)' = <<>>
      <4>1. SubSeq(out'[c], 3, 2) = <<>>
        BY <3>2, SubSeqProperties
      <4>. QED BY <2>1, <3>2, <4>1 DEF Deliveries, Pending
    <3>4. Held(c)' = q
      <4>1. q \in Seq(Deliverables) /\ mqueue'[c] = q
        BY <1>0, <2>1
      <4>2. <<>> \o <<>> \o q = q
        BY <4>1, ConcatEmptySeq
      <4>. QED BY <3>3, <4>1, <4>2 DEF Held
    <3>5. Ends(q, l) /\ Len(l) - Len(q) <= Len(l)
      <4>1. Len(q) \in Nat /\ Len(l) \in Nat
        BY <1>0, LenProperties
      <4>2. Ends(q, l)
        BY <2>1 DEF FollowsAt
      <4>. HIDE DEF l, q
      <4>. QED BY <4>1, <4>2
    <3>6. ConfirmedAt(c)'
      <4>1. log'[user_room'[c]] = l /\ confirmed'[c] = Len(l)
        BY <2>1, <2>3
      <4>. HIDE DEF l, q
      <4>. QED BY <3>4, <3>5, <4>1 DEF ConfirmedAt, Ends
    <3>. QED BY <2>1, <3>6 DEF FollowsAt
  <2>. QED BY <2>1, <2>2, <2>3, SendTells
<1>5. CASE Dequeue(c)
  <2>. DEFINE q == mqueue[c]
              h == <<Head(q)>>
              t == Tail(q)
              x == Deliveries(c)
  <2>1. /\ pc[c] = "loop" /\ pc'[c] = "deliver" /\ q # <<>>
        /\ reply'[c] = Head(q) /\ mqueue'[c] = t
        /\ UNCHANGED <<user_room, out, log, confirmed>>
    BY <1>0, <1>5 DEF Dequeue
  <2>2. /\ Head(q) \in Deliverables /\ t \in Seq(Deliverables) /\ q = h \o t
        /\ h \in Seq(Deliverables)
    BY <1>0, <2>1, HeadTailProperties
  <2>3. x \in Seq(Replies) /\ h \in Seq(Replies) /\ t \in Seq(Replies)
    BY <2>2, HeldTypes DEF Replies
  <2>4. /\ Held(c) = x \o <<>> \o q /\ Held(c)' = x \o h \o t
    BY <2>1 DEF Held, Deliveries, Pending
  <2>5. x \o <<>> = x
    BY <2>3, ConcatEmptySeq
  <2>6. \A a, b, e \in Seq(Replies) : a \o b \o e = a \o (b \o e)
    BY ConcatAssociative
  <2>. HIDE DEF x, h, t, q
  <2>7. x \o h \o t = x \o (h \o t)
    BY <2>3, <2>6, Zenon
  <2>8. Held(c)' = Held(c)
    BY <2>2, <2>4, <2>5, <2>7
  <2>. QED BY <2>1, <2>8 DEF FollowsAt, ConfirmedAt, Ends
<1>6. CASE Deliver(c)
  <2>1. /\ pc[c] = "deliver" /\ Send(c) /\ UNCHANGED <<reply, user_room, mqueue, log, confirmed>>
        /\ SendOk(c) => pc'[c] = "loop"
        /\ SendFail(c) => pc'[c] = "remove"
    BY <1>0, <1>6 DEF Deliver, Send, SendOk, SendFail
  <2>2. CASE SendFail(c)
    BY <2>1, <2>2 DEF FollowsAt, ConfirmedAt
  <2>3. CASE SendOk(c) /\ out'[c] = Append(out[c], reply[c])
    <3>. SUFFICES ASSUME confirmed[c] >= 0 PROVE FollowsAt(c)'
      BY <2>1, <2>3 DEF FollowsAt, ConfirmedAt
    <3>1. Len(out[c]) >= 2 /\ out[c] \in Seq(Replies) /\ reply[c] \in Replies
      BY <1>0, <2>1 DEF TalkAt, WelcomedAt
    <3>2. Deliveries(c)' = Append(Deliveries(c), reply[c])
      BY <2>3, <3>1, DeliveriesGrow
    <3>3. Deliveries(c) \in Seq(Replies) /\ Pending(c) = <<reply[c]>> /\ Pending(c)' = <<>>
      BY <2>1, <2>3, HeldTypes DEF Pending
    <3>4. Deliveries(c)' = Deliveries(c) \o <<reply[c]>>
      BY <3>1, <3>2, <3>3, AppendIsConcat
    <3>5. Deliveries(c)' \o <<>> = Deliveries(c)'
      <4>1. Deliveries(c)' \in Seq(Replies)
        BY <3>1, <3>2, <3>3, AppendProperties
      <4>. QED BY <4>1, ConcatEmptySeq
    <3>6. Held(c)' = Held(c)
      BY <2>1, <3>3, <3>4, <3>5 DEF Held
    <3>. QED BY <2>1, <2>3, <3>6 DEF FollowsAt, ConfirmedAt, Ends
  <2>. QED BY <2>1, <2>2, <2>3, SendTells
<1>7. CASE Accept(c) \/ Login(c) \/ LoginFailed(c) \/ Refuse(c) \/ LoginReplied(c) \/ CloseFd(c)
  <2>1. pc'[c] \in {"login", "orphan", "slogin", "rlogin", "refuse", "close", "sender", "join",
                    "done"}
    BY <1>0, <1>7 DEF Accept, Login, LoginFailed, Refuse, LoginReplied, CloseFd, Received
  <2>. QED BY <1>2, <2>1
<1>8. CASE \/ SenderEnds(c) \/ SenderSkips(c) \/ HandleJoin(c) \/ HandleSendall(c)
           \/ HandleLeave(c) \/ HandleQuit(c) \/ HandleOther(c) \/ Broadcast(c)
           \/ Answer(c) \/ JoinRefused(c) \/ LoopEnds(c) \/ RemoveMember(c)
  <2>1. pc'[c] \in {"sender", "answer", "answerLast", "broadcast", "close", "refuse", "remove"}
    BY <1>0, <1>8
    DEF SenderEnds, SenderSkips, HandleJoin, HandleSendall, HandleLeave, HandleQuit,
        HandleOther, SenderReceives, Broadcast, Answer, JoinRefused, LoopEnds, RemoveMember
  <2>. QED BY <1>2, <2>1
<1>. QED BY <1>1, <1>3, <1>4, <1>5, <1>6, <1>7, <1>8 DEF Step, Thread

\* Every step keeps what is held for a receiver the end of its room's log.
LEMMA FollowsStep ==
  /\ TypeOK /\ Talks /\ MembersAreThreads /\ [Next]_vars
  /\ \A c \in Conns : FollowsAt(c)
  => \A c \in Conns : FollowsAt(c)'
<1>. SUFFICES ASSUME TypeOK, Talks, MembersAreThreads, [Next]_vars,
                     NEW d \in Conns, FollowsAt(d)
              PROVE  FollowsAt(d)'
  OBVIOUS
<1>1. CASE UNCHANGED vars
  BY <1>1, HeldSame DEF vars
<1>2. ASSUME NEW c \in Conns, Step(c) PROVE FollowsAt(d)'
  <2>1. CASE d = c
    BY <1>2, <2>1, OwnFollows DEF Talks, TalkAt
  <2>2. CASE d # c /\ ~Broadcast(c)
    <3>1. /\ pc'[d] = pc[d] /\ reply'[d] = reply[d] /\ user_room'[d] = user_room[d]
          /\ mqueue'[d] = mqueue[d] /\ out'[d] = out[d] /\ confirmed'[d] = confirmed[d]
      BY <1>2, <2>2, OthersStay
    <3>2. log' = log
      BY <1>2, <2>2, LogStays
    <3>. QED BY <3>1, <3>2, HeldSame
  <2>3. CASE d # c /\ Broadcast(c)
    <3>. DEFINE n == user_room[c]
                m == Delivery(n, c, request[c].arg)
    <3>1. /\ pc'[d] = pc[d] /\ reply'[d] = reply[d] /\ user_room'[d] = user_room[d]
          /\ out'[d] = out[d] /\ confirmed'[d] = confirmed[d]
      BY <1>2, <2>3, OthersStay
    <3>2. n \in AllNames /\ m \in Deliverables
      BY <2>3 DEF Broadcast, Talks, ReadyAt, TypeOK, Deliverables
    <3>3. /\ mqueue'[d] = IF d \in members[n] THEN Append(mqueue[d], m) ELSE mqueue[d]
          /\ log' = [log EXCEPT ![n] = Append(log[n], m)]
      BY <2>3 DEF Broadcast
    <3>4. user_room[d] \in AllNames /\ log \in [AllNames -> Seq(Deliverables)]
      BY DEF TypeOK
    <3>. HIDE DEF n, m
    <3>5. CASE d \in members[n]
      <4>1. user_room[d] = n
        BY <3>2, <3>5 DEF MembersAreThreads
      <4>2. mqueue'[d] = Append(mqueue[d], m)
        BY <3>3, <3>5
      <4>3. log'[user_room[d]] = Append(log[user_room[d]], m)
        BY <3>3, <3>4, <4>1
      <4>. QED BY <3>1, <3>2, <4>2, <4>3, HeldGrows
    <3>6. CASE d \notin members[n]
      <4>1. pc[d] \in {"joinReply", "loop", "deliver"} => user_room[d] # n
        BY <3>2, <3>6 DEF MembersAreThreads
      <4>2. /\ mqueue'[d] = mqueue[d]
            /\ pc[d] \in {"joinReply", "loop", "deliver"}
                 => log'[user_room[d]] = log[user_room[d]]
        BY <3>3, <3>4, <3>6, <4>1
      <4>. QED BY <3>1, <4>2, HeldSame
    <3>. QED BY <3>5, <3>6
  <2>. QED BY <2>1, <2>2, <2>3
<1>. QED BY <1>1, <1>2 DEF Next, Step

LEMMA InitCInv == Init => CInv
<1>. SUFFICES ASSUME Init PROVE CInv
  OBVIOUS
<1>1. TypeOK
  BY InitTypes
<1>2. Talks /\ Waiting
  BY DEF Init, Talks, Waiting, ReadyAt, SilentAt, WelcomedAt, AnsweredAt
<1>3. MembersAreThreads /\ ConfirmedMissesNothing
  BY DEF Init, MembersAreThreads, ConfirmedMissesNothing
<1>. QED BY <1>1, <1>2, <1>3 DEF CInv

LEMMA CInvStep == CInv /\ [Next]_vars => CInv'
<1>. SUFFICES ASSUME CInv, [Next]_vars PROVE CInv'
  OBVIOUS
<1>1. TypeOK'
  BY TypeStep DEF CInv, Talks, Ready
<1>2. Talks' /\ MembersAreThreads'
  BY TalksStep, MembersStep DEF CInv
<1>3. \A c \in Conns : FollowsAt(c)
  BY ConfirmedIsEnds DEF CInv, Waiting, FollowsAt
<1>4. \A c \in Conns : FollowsAt(c)'
  BY <1>3, FollowsStep DEF CInv
<1>5. (TypeOK => (ConfirmedMissesNothing <=> \A c \in Conns : ConfirmedAt(c)))'
  BY ConfirmedIsEnds, PTL
<1>6. Waiting' /\ ConfirmedMissesNothing'
  BY <1>1, <1>4, <1>5 DEF Waiting, FollowsAt
<1>. QED BY <1>1, <1>2, <1>6 DEF CInv

LEMMA Invariant == SafeSpec => []CInv
BY InitCInv, CInvStep, PTL DEF SafeSpec

\* server.cpp:122-170: whatever way a receiver's thread ends, it leaves its room:
\* a room's members are the threads between add_member and remove_member.
THEOREM MembersExact == SafeSpec => []MembersAreThreads
<1>1. CInv => MembersAreThreads
  BY DEF CInv
<1>. QED BY Invariant, <1>1, PTL

\* server.cpp:129-167: a receiver that was told it is in the room is sent what is
\* broadcast to it from then on, and nothing else, for any number of senders.
THEOREM ConfirmedGetsAll == SafeSpec => []ConfirmedMissesNothing
<1>1. CInv => ConfirmedMissesNothing
  BY DEF CInv
<1>. QED BY Invariant, <1>1, PTL

\* server.cpp:27-107: one reply for each legal line a sender writes, before the
\* next is read.
THEOREM OneReplyPerLine == SafeSpec => []AnsweredOnce
<1>1. CInv => AnsweredOnce
  BY DEF CInv, Talks, AnsweredAt, AnsweredOnce
<1>. QED BY Invariant, <1>1, PTL

------------------------------------------------------------------------------
(* "Message sent!" *)

AckSet(c) == {i \in DOMAIN out[c] : out[c][i] = Ok("sent")}
CastSet(c) ==
  UNION {{<<n, i>> : i \in {j \in DOMAIN log[n] : log[n][j].data[2] = c}} : n \in AllNames}

Owing(c) == pc[c] = "answer" /\ reply[c] = Ok("sent")

\* A sender is told "sent" of each of its broadcasts before it does anything
\* else; only the end of its thread can leave the last one unsaid.
ToldAt(c) ==
  /\ IsFiniteSet(CastSet(c))
  /\ Owing(c) => Broadcasts(c) = Acks(c) + 1
  /\ ~Owing(c) /\ pc[c] \in {"close", "done"} => Acks(c) <= Broadcasts(c)
  /\ ~Owing(c) /\ pc[c] \notin {"close", "done"} => Acks(c) = Broadcasts(c)

AInv == CInv /\ (\A c \in Conns : ToldAt(c)) /\ log[NoName] = <<>>

LEMMA AcksFinite ==
  ASSUME TypeOK, NEW c \in Conns
  PROVE  IsFiniteSet(AckSet(c)) /\ Acks(c) \in Nat /\ Acks(c) = Cardinality(AckSet(c))
<1>1. out[c] \in Seq(Replies)
  BY DEF TypeOK
<1>2. DOMAIN out[c] = 1 .. Len(out[c]) /\ Len(out[c]) \in Nat
  BY <1>1, LenProperties
<1>3. AckSet(c) \subseteq 1 .. Len(out[c])
  BY <1>2 DEF AckSet
<1>4. IsFiniteSet(AckSet(c))
  <2>1. IsFiniteSet(1 .. Len(out[c]))
    BY <1>2, FS_Interval
  <2>. QED BY <1>3, <2>1, FS_Subset
<1>. QED BY <1>4, FS_CardinalityType DEF Acks, AckSet

\* A reply adds to what was acknowledged if it says "sent".
LEMMA AcksGrow ==
  ASSUME TypeOK, NEW c \in Conns, out'[c] = Append(out[c], reply[c])
  PROVE  /\ reply[c] = Ok("sent") => Acks(c)' = Acks(c) + 1
         /\ reply[c] # Ok("sent") => Acks(c)' = Acks(c)
<1>. DEFINE o == out[c]
            r == reply[c]
            k == Len(o) + 1
<1>1. o \in Seq(Replies) /\ r \in Replies
  BY DEF TypeOK
<1>2. /\ Len(o) \in Nat /\ DOMAIN o = 1 .. Len(o)
      /\ DOMAIN Append(o, r) = 1 .. k /\ Append(o, r)[k] = r
      /\ \A i \in 1 .. Len(o) : Append(o, r)[i] = o[i]
  BY <1>1, LenProperties, AppendProperties
<1>3. AckSet(c)' = {i \in 1 .. k : Append(o, r)[i] = Ok("sent")}
  BY <1>2 DEF AckSet
<1>4. AckSet(c) = {i \in 1 .. Len(o) : o[i] = Ok("sent")}
  BY <1>2 DEF AckSet
<1>5. /\ r = Ok("sent") => AckSet(c)' = AckSet(c) \cup {k}
      /\ r # Ok("sent") => AckSet(c)' = AckSet(c)
      /\ k \notin AckSet(c)
  <2>. HIDE DEF o, r
  <2>. QED BY <1>2, <1>3, <1>4
<1>6. IsFiniteSet(AckSet(c)) /\ Acks(c) = Cardinality(AckSet(c)) /\ Acks(c) \in Nat
  BY AcksFinite
<1>7. Acks(c)' = Cardinality(AckSet(c)')
  BY DEF Acks, AckSet
<1>8. Cardinality(AckSet(c) \cup {k}) = Cardinality(AckSet(c)) + 1
  BY <1>5, <1>6, FS_AddElement
<1>. QED BY <1>5, <1>6, <1>7, <1>8

LEMMA CastMembers ==
  ASSUME NEW c \in Conns
  PROVE  \A p : p \in CastSet(c) <=>
           \E n \in AllNames : \E i \in DOMAIN log[n] :
             p = <<n, i>> /\ log[n][i].data[2] = c
BY DEF CastSet

\* A broadcast is one more of its sender's, and of nobody else's.
LEMMA CastsGrow ==
  ASSUME TypeOK, Talks, NEW c \in Conns, Broadcast(c), NEW d \in Conns,
         IsFiniteSet(CastSet(d))
  PROVE  /\ IsFiniteSet(CastSet(d)')
         /\ d = c => Broadcasts(d)' = Broadcasts(d) + 1
         /\ d # c => Broadcasts(d)' = Broadcasts(d)
<1>. DEFINE n == user_room[c]
            m == Delivery(n, c, request[c].arg)
            k == Len(log[n]) + 1
<1>1. n \in AllNames /\ m \in Deliverables /\ m.data[2] = c
  <2>1. n \in AllNames /\ request[c].arg \in Messages
    BY DEF Broadcast, Talks, ReadyAt, TypeOK
  <2>2. m \in Deliverables
    BY <2>1 DEF Deliverables
  <2>3. m.data[2] = c
    BY DEF Delivery
  <2>. QED BY <2>1, <2>2, <2>3
<1>2. log' = [log EXCEPT ![n] = Append(log[n], m)] /\ log \in [AllNames -> Seq(Deliverables)]
  BY DEF Broadcast, TypeOK
<1>. HIDE DEF n, m
<1>3. /\ log[n] \in Seq(Deliverables) /\ Len(log[n]) \in Nat
      /\ DOMAIN log[n] = 1 .. Len(log[n])
      /\ DOMAIN Append(log[n], m) = 1 .. k /\ Append(log[n], m)[k] = m
      /\ \A i \in 1 .. Len(log[n]) : Append(log[n], m)[i] = log[n][i]
  BY <1>1, <1>2, LenProperties, AppendProperties
<1>4. /\ \A x \in AllNames : x # n => log'[x] = log[x]
      /\ log'[n] = Append(log[n], m)
  BY <1>1, <1>2
<1>5. \A p : p \in CastSet(d)' <=>
        \E x \in AllNames : \E i \in DOMAIN log'[x] :
          p = <<x, i>> /\ log'[x][i].data[2] = d
  BY DEF CastSet
<1>6. \A p : p \in CastSet(d) <=>
        \E x \in AllNames : \E i \in DOMAIN log[x] :
          p = <<x, i>> /\ log[x][i].data[2] = d
  BY CastMembers
<1>7. k \notin DOMAIN log[n] /\ DOMAIN log'[n] = DOMAIN log[n] \cup {k}
  BY <1>3, <1>4
<1>8. /\ \A i \in DOMAIN log[n] : log'[n][i] = log[n][i]
      /\ log'[n][k] = m
  BY <1>3, <1>4
<1>. HIDE DEF k
<1>9. CASE d = c
  <2>1. CastSet(d)' = CastSet(d) \cup {<<n, k>>}
    <3>1. ASSUME NEW p \in CastSet(d)' PROVE p \in CastSet(d) \cup {<<n, k>>}
      <4>1. PICK x, i : /\ x \in AllNames /\ i \in DOMAIN log'[x]
                         /\ p = <<x, i>> /\ log'[x][i].data[2] = d
        BY <1>5, <3>1
      <4>2. CASE x = n /\ i = k
        BY <4>1, <4>2
      <4>3. CASE ~(x = n /\ i = k)
        <5>1. i \in DOMAIN log[x] /\ log'[x][i] = log[x][i]
          BY <1>4, <1>7, <1>8, <4>1, <4>3
        <5>. QED BY <1>6, <4>1, <5>1
      <4>. QED BY <4>2, <4>3
    <3>2. ASSUME NEW p \in CastSet(d) PROVE p \in CastSet(d)'
      <4>1. PICK x, i : /\ x \in AllNames /\ i \in DOMAIN log[x]
                         /\ p = <<x, i>> /\ log[x][i].data[2] = d
        BY <1>6, <3>2
      <4>2. i \in DOMAIN log'[x] /\ log'[x][i] = log[x][i]
        BY <1>4, <1>7, <1>8, <4>1
      <4>. QED BY <1>5, <4>1, <4>2
    <3>3. <<n, k>> \in CastSet(d)'
      BY <1>1, <1>5, <1>7, <1>8, <1>9
    <3>. QED BY <3>1, <3>2, <3>3
  <2>2. <<n, k>> \notin CastSet(d)
    BY <1>6, <1>7
  <2>3. /\ IsFiniteSet(CastSet(d) \cup {<<n, k>>})
        /\ Cardinality(CastSet(d) \cup {<<n, k>>}) = Cardinality(CastSet(d)) + 1
    BY <2>2, FS_AddElement
  <2>. QED BY <1>9, <2>1, <2>3 DEF Broadcasts, CastSet
<1>10. CASE d # c
  <2>1. CastSet(d)' = CastSet(d)
    <3>1. ASSUME NEW p \in CastSet(d)' PROVE p \in CastSet(d)
      <4>1. PICK x, i : /\ x \in AllNames /\ i \in DOMAIN log'[x]
                         /\ p = <<x, i>> /\ log'[x][i].data[2] = d
        BY <1>5, <3>1
      <4>2. ~(x = n /\ i = k)
        BY <1>1, <1>8, <1>10, <4>1
      <4>3. i \in DOMAIN log[x] /\ log'[x][i] = log[x][i]
        BY <1>4, <1>7, <1>8, <4>1, <4>2
      <4>. QED BY <1>6, <4>1, <4>3
    <3>2. ASSUME NEW p \in CastSet(d) PROVE p \in CastSet(d)'
      <4>1. PICK x, i : /\ x \in AllNames /\ i \in DOMAIN log[x]
                         /\ p = <<x, i>> /\ log[x][i].data[2] = d
        BY <1>6, <3>2
      <4>2. i \in DOMAIN log'[x] /\ log'[x][i] = log[x][i]
        BY <1>4, <1>7, <1>8, <4>1
      <4>. QED BY <1>5, <4>1, <4>2
    <3>. QED BY <3>1, <3>2
  <2>. QED BY <1>10, <2>1 DEF Broadcasts, CastSet
<1>. QED BY <1>9, <1>10

\* What is said of c stays so while nothing is told it or broadcast, unless its
\* thread comes to its end.
LEMMA ToldSame ==
  ASSUME TypeOK, NEW c \in Conns, ToldAt(c), out'[c] = out[c], log' = log,
         Owing(c)' <=> Owing(c),
         pc[c] \in {"close", "done"} => pc'[c] \in {"close", "done"}
  PROVE  ToldAt(c)'
<1>1. CastSet(c)' = CastSet(c) /\ Broadcasts(c)' = Broadcasts(c)
  BY DEF CastSet, Broadcasts
<1>2. Acks(c)' = Acks(c)
  BY DEF Acks
<1>3. Acks(c) \in Nat
  BY AcksFinite
<1>. QED BY <1>1, <1>2, <1>3 DEF ToldAt

\* A reply other than "sent" leaves the accounts as they are.
LEMMA ToldOther ==
  ASSUME TypeOK, NEW c \in Conns, ToldAt(c), Send(c), log' = log,
         reply[c] # Ok("sent"), reply' = reply,
         pc[c] \notin {"close", "done"}
  PROVE  ToldAt(c)'
<1>1. CastSet(c)' = CastSet(c) /\ Broadcasts(c)' = Broadcasts(c)
  BY DEF CastSet, Broadcasts
<1>2. Acks(c)' = Acks(c)
  <2>1. CASE out' = out
    BY <2>1 DEF Acks
  <2>2. CASE out'[c] = Append(out[c], reply[c])
    BY <2>2, AcksGrow
  <2>. QED BY <2>1, <2>2, SendTells
<1>3. Acks(c) \in Nat
  BY AcksFinite
<1>. QED BY <1>1, <1>2, <1>3 DEF ToldAt, Owing

LEMMA OwnTold ==
  ASSUME TypeOK, Talks, NEW c \in Conns, ToldAt(c), Step(c)
  PROVE  ToldAt(c)'
<1>. USE DEF Goto, Reply, process, world, threads, state, history
<1>0. /\ pc \in [Conns -> PC] /\ reply \in [Conns -> Replies] /\ out \in [Conns -> Seq(Replies)]
  BY DEF TypeOK
<1>1. CASE Client(c) \/ AcceptFails(c) \/ SenderSkips(c)
  <2>1. UNCHANGED <<pc, reply, out, log>>
    BY <1>1 DEF Client, Connect, ClientClose, Reset, AcceptFails, SenderSkips
  <2>. QED BY <2>1, ToldSame DEF Owing
<1>2. CASE \/ Accept(c) \/ Login(c) \/ LoginFailed(c) \/ CloseFd(c) \/ SenderEnds(c)
           \/ JoinRefused(c) \/ JoinRoom(c) \/ LoopEnds(c) \/ Dequeue(c) \/ RemoveMember(c)
  <2>1. /\ pc[c] # "answer" /\ pc'[c] # "answer" /\ pc[c] # "done"
        /\ pc[c] = "close" => pc'[c] = "done"
        /\ UNCHANGED <<out, log>>
    BY <1>0, <1>2
    DEF Accept, Login, LoginFailed, CloseFd, SenderEnds, JoinRefused, JoinRoom, LoopEnds,
        Dequeue, RemoveMember, Received
  <2>. QED BY <2>1, ToldSame DEF Owing
<1>3. CASE HandleJoin(c) \/ HandleSendall(c) \/ HandleLeave(c) \/ HandleQuit(c) \/ HandleOther(c)
  <2>1. /\ pc[c] = "sender" /\ UNCHANGED <<out, log>>
        /\ \/ pc'[c] # "answer"
           \/ \E x \in {"joined", "left", "bye"} : reply'[c] = Ok(x)
           \/ \E x \in {"sendall", "leave", "invalid"} : reply'[c] = Err(x)
    BY <1>0, <1>3
    DEF HandleJoin, HandleSendall, HandleLeave, HandleQuit, HandleOther, SenderReceives
  <2>2. /\ \A x \in {"joined", "left", "bye"} : Ok(x) # Ok("sent")
        /\ \A x \in {"sendall", "leave", "invalid"} : Err(x) # Ok("sent")
    BY DEF Ok, Err
  <2>. QED BY <2>1, <2>2, ToldSame DEF Owing
<1>4. CASE Broadcast(c)
  <2>1. /\ pc[c] = "broadcast" /\ pc'[c] = "answer" /\ reply'[c] = Ok("sent") /\ out' = out
    BY <1>0, <1>4 DEF Broadcast
  <2>2. Acks(c)' = Acks(c) /\ Acks(c) = Broadcasts(c) /\ IsFiniteSet(CastSet(c))
    BY <2>1 DEF Acks, ToldAt, Owing
  <2>3. IsFiniteSet(CastSet(c)') /\ Broadcasts(c)' = Broadcasts(c) + 1
    BY <1>4, <2>2, CastsGrow
  <2>. QED BY <2>1, <2>2, <2>3 DEF ToldAt, Owing
<1>5. CASE Refuse(c) \/ LoginReplied(c) \/ JoinReplied(c) \/ Deliver(c)
  <2>1. /\ pc[c] \in {"refuse", "slogin", "rlogin", "joinReply", "deliver"} /\ Send(c)
        /\ UNCHANGED <<log, reply>>
    BY <1>5 DEF Refuse, LoginReplied, JoinReplied, Deliver, Send
  <2>2. reply[c] # Ok("sent")
    <3>1. \A x \in Deliverables : x # Ok("sent")
      BY DEF Deliverables, Delivery, Ok
    <3>. QED BY <2>1, <3>1 DEF Talks, ReadyAt
  <2>. QED BY <2>1, <2>2, ToldOther
<1>6. CASE Answer(c)
  <2>1. /\ pc[c] \in {"answer", "answerLast"} /\ Send(c) /\ UNCHANGED <<log, reply>>
        /\ pc'[c] \in {"sender", "close"}
        /\ SendFail(c) => pc'[c] = "close"
    BY <1>0, <1>6 DEF Answer, Send, SendOk, SendFail
  <2>2. CASE reply[c] # Ok("sent")
    BY <2>1, <2>2, ToldOther
  <2>3. CASE reply[c] = Ok("sent")
    <3>1. pc[c] = "answer"
      BY <2>1, <2>3 DEF Talks, ReadyAt
    <3>2. /\ IsFiniteSet(CastSet(c)) /\ Broadcasts(c) = Acks(c) + 1 /\ Acks(c) \in Nat
          /\ CastSet(c)' = CastSet(c) /\ Broadcasts(c)' = Broadcasts(c)
      BY <2>1, <2>3, <3>1, AcksFinite DEF ToldAt, Owing, CastSet, Broadcasts
    <3>3. CASE out'[c] = Append(out[c], reply[c])
      <4>1. Acks(c)' = Acks(c) + 1
        BY <2>3, <3>3, AcksGrow
      <4>. QED BY <2>1, <3>2, <4>1 DEF ToldAt, Owing
    <3>4. CASE SendFail(c) /\ out' = out
      <4>1. Acks(c)' = Acks(c)
        BY <3>4 DEF Acks
      <4>. QED BY <2>1, <3>2, <3>4, <4>1 DEF ToldAt, Owing
    <3>. QED BY <2>1, <3>3, <3>4, SendTells
  <2>. QED BY <2>2, <2>3
<1>. QED BY <1>1, <1>2, <1>3, <1>4, <1>5, <1>6 DEF Step, Thread

LEMMA ToldStep ==
  CInv /\ (\A c \in Conns : ToldAt(c)) /\ [Next]_vars => \A c \in Conns : ToldAt(c)'
<1>. SUFFICES ASSUME CInv, \A c \in Conns : ToldAt(c), [Next]_vars, NEW d \in Conns
              PROVE  ToldAt(d)'
  OBVIOUS
<1>0. TypeOK /\ Talks /\ ToldAt(d)
  BY DEF CInv
<1>1. CASE UNCHANGED vars
  <2>1. UNCHANGED <<out, log, pc, reply>>
    BY <1>1 DEF vars
  <2>. QED BY <1>0, <2>1, ToldSame DEF Owing
<1>2. ASSUME NEW c \in Conns, Step(c) PROVE ToldAt(d)'
  <2>1. CASE d = c
    BY <1>0, <1>2, <2>1, OwnTold
  <2>2. CASE d # c
    <3>1. pc'[d] = pc[d] /\ reply'[d] = reply[d] /\ out'[d] = out[d]
      BY <1>0, <1>2, <2>2, OthersStay
    <3>2. CASE Broadcast(c)
      <4>1. IsFiniteSet(CastSet(d)') /\ Broadcasts(d)' = Broadcasts(d)
        BY <1>0, <2>2, <3>2, CastsGrow DEF ToldAt
      <4>2. Acks(d)' = Acks(d) /\ (Owing(d)' <=> Owing(d))
        BY <3>1 DEF Acks, Owing
      <4>. QED BY <1>0, <3>1, <4>1, <4>2 DEF ToldAt
    <3>3. CASE ~Broadcast(c)
      <4>1. log' = log
        BY <1>2, <3>3, LogStays
      <4>. QED BY <1>0, <3>1, <4>1, ToldSame DEF Owing
    <3>. QED BY <3>2, <3>3
  <2>. QED BY <2>1, <2>2
<1>. QED BY <1>1, <1>2 DEF Next, Step

\* The room without a name is never broadcast to.
LEMMA NamelessStep == CInv /\ log[NoName] = <<>> /\ [Next]_vars => log'[NoName] = <<>>
<1>. SUFFICES ASSUME CInv, log[NoName] = <<>>, [Next]_vars PROVE log'[NoName] = <<>>
  OBVIOUS
<1>1. ASSUME NEW c \in Conns, Broadcast(c) PROVE log'[NoName] = <<>>
  <2>1. user_room[c] # NoName
    BY <1>1 DEF Broadcast, CInv, Talks, ReadyAt
  <2>2. log' = [log EXCEPT ![user_room[c]] = Append(@, Delivery(user_room[c], c, request[c].arg))]
    BY <1>1 DEF Broadcast
  <2>3. log \in [AllNames -> Seq(Deliverables)] /\ NoName \in AllNames
    BY DEF CInv, TypeOK, AllNames
  <2>. QED BY <2>1, <2>2, <2>3
<1>2. ASSUME NEW c \in Conns, Step(c), ~Broadcast(c) PROVE log' = log
  BY <1>2, LogStays
<1>3. CASE UNCHANGED vars
  BY <1>3 DEF vars
<1>. QED BY <1>1, <1>2, <1>3 DEF Next, Step

\* server.cpp:60-66: "Message sent!" is said once of each broadcast and of nothing
\* else, and the room with the empty name is never broadcast to.
THEOREM AcksAreTrue == SafeSpec => []AckedWasBroadcast
<1>1. Init => AInv
  <2>. SUFFICES ASSUME Init PROVE AInv
    OBVIOUS
  <2>1. CInv
    BY InitCInv
  <2>2. ASSUME NEW c \in Conns PROVE ToldAt(c)
    <3>1. AckSet(c) = {} /\ CastSet(c) = {}
      BY DEF Init, AckSet, CastSet
    <3>2. Acks(c) = 0 /\ Broadcasts(c) = 0 /\ IsFiniteSet(CastSet(c))
      BY <3>1, FS_EmptySet DEF Acks, AckSet, Broadcasts, CastSet
    <3>. QED BY <3>2 DEF ToldAt, Owing, Init
  <2>3. log[NoName] = <<>>
    BY DEF Init, AllNames
  <2>. QED BY <2>1, <2>2, <2>3 DEF AInv
<1>2. AInv /\ [Next]_vars => AInv'
  BY CInvStep, ToldStep, NamelessStep DEF AInv
<1>3. AInv => AckedWasBroadcast
  <2>. SUFFICES ASSUME AInv, NEW c \in Conns
                PROVE  /\ Acks(c) <= Broadcasts(c)
                       /\ pc[c] = "sender" /\ IsOpen(c) => Acks(c) = Broadcasts(c)
    BY DEF AInv, AckedWasBroadcast
  <2>1. Acks(c) \in Nat
    BY AcksFinite DEF AInv, CInv
  <2>2. ToldAt(c)
    BY DEF AInv
  <2>. QED BY <2>1, <2>2 DEF ToldAt, Owing
<1>. QED BY <1>1, <1>2, <1>3, PTL DEF SafeSpec

------------------------------------------------------------------------------
(* The threads implement one log per room (RoomLog) *)

\* A receiver whose reply to the join failed is sent nothing more.
LeftAt(c) ==
  pc[c] \in {"loop", "deliver"} /\ confirmed[c] < 0 => pc[c] = "loop" /\ ~IsOpen(c)

LInv == CInv /\ \A c \in Conns : LeftAt(c)

LEMMA LeftStep == LInv /\ [Next]_vars => \A d \in Conns : LeftAt(d)'
<1>. SUFFICES ASSUME LInv, [Next]_vars, NEW d \in Conns PROVE LeftAt(d)'
  OBVIOUS
<1>. USE DEF Goto, Reply, process, world, threads, state, history, LeftAt, IsOpen
<1>0. TypeOK /\ LeftAt(d) /\ pc \in [Conns -> PC] /\ confirmed \in [Conns -> Int]
  BY DEF LInv, CInv, TypeOK
<1>1. CASE UNCHANGED vars
  BY <1>0, <1>1 DEF vars
<1>2. ASSUME NEW c \in Conns, Step(c), d # c PROVE LeftAt(d)'
  <2>1. pc'[d] = pc[d] /\ last'[d] = last[d] /\ confirmed'[d] = confirmed[d]
    BY <1>0, <1>2, OthersStay
  <2>. QED BY <1>0, <2>1
<1>3. ASSUME Step(d) PROVE LeftAt(d)'
  <2>1. CASE pc'[d] \notin {"loop", "deliver"}
    BY <2>1
  <2>2. CASE Client(d) \/ AcceptFails(d)
    <3>1. UNCHANGED <<pc, last, confirmed>>
      BY <2>2 DEF Client, Connect, ClientClose, Reset, AcceptFails
    <3>. QED BY <1>0, <3>1
  <2>3. CASE JoinReplied(d)
    <3>1. /\ pc'[d] = "loop" /\ Send(d)
          /\ SendOk(d) => confirmed'[d] = Len(log[user_room[d]])
      BY <1>0, <2>3 DEF JoinReplied, Send, SendOk, SendFail
    <3>2. Len(log[user_room[d]]) \in Nat
      BY <1>0, HeldTypes, LenProperties
    <3>3. SendFail(d) => last'[d] = "EOF_OR_ERROR"
      BY <1>0 DEF SendFail, TypeOK
    <3>. QED BY <3>1, <3>2, <3>3 DEF Send
  <2>4. CASE Dequeue(d) \/ Deliver(d)
    <3>1. confirmed[d] >= 0 /\ confirmed' = confirmed
      BY <1>0, <2>4 DEF Dequeue, Deliver
    <3>. QED BY <1>0, <3>1
  <2>5. CASE \/ Accept(d) \/ Login(d) \/ LoginFailed(d) \/ Refuse(d) \/ LoginReplied(d)
             \/ CloseFd(d) \/ SenderEnds(d) \/ SenderSkips(d) \/ HandleJoin(d)
             \/ HandleSendall(d) \/ HandleLeave(d) \/ HandleQuit(d) \/ HandleOther(d)
             \/ Broadcast(d) \/ Answer(d) \/ JoinRefused(d) \/ JoinRoom(d) \/ LoopEnds(d)
             \/ RemoveMember(d)
    <3>1. pc'[d] \notin {"loop", "deliver"}
      BY <1>0, <2>5
      DEF Accept, Login, LoginFailed, Refuse, LoginReplied, CloseFd, SenderEnds, SenderSkips,
          HandleJoin, HandleSendall, HandleLeave, HandleQuit, HandleOther, SenderReceives,
          Broadcast, Answer, JoinRefused, JoinRoom, LoopEnds, RemoveMember, Received
    <3>. QED BY <2>1, <3>1
  <2>. QED BY <1>3, <2>2, <2>3, <2>4, <2>5 DEF Step, Thread
<1>. QED BY <1>1, <1>2, <1>3 DEF Next, Step

Begin(c) == Len(log[user_room[c]]) - (Len(Told(c)) + Len(Pending(c)) + Len(mqueue[c]))

\* What RoomLog sees of one connection does not change.
SameAt(c) ==
  /\ Inside(c)' <=> Inside(c)
  /\ Inside(c) => user_room'[c] = user_room[c] /\ Begin(c)' = Begin(c)
  /\ Told(c)' = Told(c)

LEMMA SameIsSame ==
  ASSUME \A c \in Conns : SameAt(c)
  PROVE  where' = where /\ start' = start /\ got' = got
BY DEF SameAt, where, start, got, Begin

LEMMA OneChanges ==
  ASSUME NEW c \in Conns, \A d \in Conns \ {c} : SameAt(d)
  PROVE  /\ where' = [where EXCEPT ![c] = where'[c]]
         /\ start' = [start EXCEPT ![c] = start'[c]]
         /\ got' = [got EXCEPT ![c] = got'[c]]
<1>1. \A d \in Conns \ {c} : where'[d] = where[d] /\ start'[d] = start[d] /\ got'[d] = got[d]
  BY DEF SameAt, where, start, got, Begin
<1>. QED BY <1>1 DEF where, start, got

LEMMA OthersSame ==
  ASSUME TypeOK, NEW c \in Conns, Step(c), ~Broadcast(c), NEW d \in Conns, d # c
  PROVE  SameAt(d)
<1>1. /\ pc'[d] = pc[d] /\ reply'[d] = reply[d] /\ user_room'[d] = user_room[d]
      /\ out'[d] = out[d] /\ confirmed'[d] = confirmed[d] /\ mqueue'[d] = mqueue[d]
  BY OthersStay
<1>2. log' = log
  BY LogStays
<1>. QED BY <1>1, <1>2 DEF SameAt, Inside, Told, Deliveries, Begin, Pending

\* The text that is being delivered is the next of the room's log.
LEMMA PendingIsNext ==
  ASSUME TypeOK, NEW c \in Conns, pc[c] = "deliver", confirmed[c] >= 0, ConfirmedAt(c)
  PROVE  LET k == Begin(c) + Len(Told(c)) + 1
             l == log[user_room[c]]
         IN  k <= Len(l) /\ l[k] = reply[c]
<1>. DEFINE l == log[user_room[c]]
            s == Deliveries(c)
            r == reply[c]
            q == mqueue[c]
            h == s \o <<r>> \o q
            a == Len(l) - Len(h)
<1>1. /\ l \in Seq(Replies) /\ s \in Seq(Replies) /\ r \in Replies /\ q \in Seq(Replies)
      /\ <<r>> \in Seq(Replies) /\ Len(<<r>>) = 1 /\ <<r>>[1] = r
  BY HeldTypes DEF TypeOK
<1>2. Ends(h, l) /\ Told(c) = s /\ Len(Pending(c)) = 1
  BY DEF ConfirmedAt, Held, Pending, Told
<1>3. Begin(c) = Len(l) - (Len(s) + 1 + Len(q))
  BY <1>2 DEF Begin
<1>. HIDE DEF l, s, r, q
<1>4. Len(l) \in Nat /\ Len(s) \in Nat /\ Len(q) \in Nat
  BY <1>1, LenProperties
<1>5. s \o <<r>> \in Seq(Replies) /\ Len(s \o <<r>>) = Len(s) + 1 /\ (s \o <<r>>)[Len(s) + 1] = r
  BY <1>1, <1>4, ConcatProperties
<1>6. h \in Seq(Replies) /\ Len(h) = Len(s) + 1 + Len(q) /\ h[Len(s) + 1] = r
  <2>. DEFINE b == s \o <<r>>
  <2>1. b \in Seq(Replies) /\ Len(b) = Len(s) + 1 /\ b[Len(s) + 1] = r
    BY <1>5
  <2>. HIDE DEF b
  <2>2. /\ b \o q \in Seq(Replies) /\ Len(b \o q) = Len(b) + Len(q)
        /\ \A i \in 1 .. Len(b) + Len(q) :
             (b \o q)[i] = IF i <= Len(b) THEN b[i] ELSE q[i - Len(b)]
    <3>1. \A x, y \in Seq(Replies) :
            /\ x \o y \in Seq(Replies) /\ Len(x \o y) = Len(x) + Len(y)
            /\ \A i \in 1 .. Len(x) + Len(y) :
                 (x \o y)[i] = IF i <= Len(x) THEN x[i] ELSE y[i - Len(x)]
      BY ConcatProperties
    <3>. QED BY <1>1, <2>1, <3>1, Zenon
  <2>3. Len(s) + 1 \in 1 .. Len(b) + Len(q) /\ Len(s) + 1 <= Len(b)
    BY <1>4, <2>1
  <2>. QED BY <2>1, <2>2, <2>3 DEF b
<1>. HIDE DEF h
<1>7. a \in 0 .. Len(l) /\ h = SubSeq(l, a + 1, Len(l)) /\ Begin(c) = a
  BY <1>2, <1>3, <1>4, <1>6 DEF Ends
<1>. HIDE DEF a
<1>8. Len(s) + 1 \in 1 .. Len(l) - a
  BY <1>3, <1>4, <1>7
<1>9. SubSeq(l, a + 1, Len(l))[Len(s) + 1] = l[a + (Len(s) + 1)]
  BY <1>1, <1>4, <1>7, <1>8
<1>10. l[a + (Len(s) + 1)] = r
  BY <1>6, <1>7, <1>9, Zenon
<1>11. Begin(c) + Len(Told(c)) + 1 = a + (Len(s) + 1) /\ a + (Len(s) + 1) <= Len(l)
  BY <1>2, <1>4, <1>7, <1>8
<1>. QED BY <1>10, <1>11, Zenon DEF l, r

\* A broadcast is published in the room's log, for whoever is inside.
LEMMA BroadcastPublishes ==
  ASSUME LInv, NEW c \in Conns, Step(c), Broadcast(c)
  PROVE  Log!Next
<1>. DEFINE n == user_room[c]
            m == Delivery(n, c, request[c].arg)
<1>0. TypeOK /\ Talks /\ MembersAreThreads
  BY DEF LInv, CInv
<1>1. n \in AllNames /\ m \in Deliverables
  BY <1>0 DEF Broadcast, Talks, ReadyAt, TypeOK, Deliverables
<1>2. /\ log' = [log EXCEPT ![n] = Append(log[n], m)]
      /\ mqueue' = [u \in Conns |-> IF u \in members[n] THEN Append(mqueue[u], m)
                                                        ELSE mqueue[u]]
      /\ pc[c] = "broadcast" /\ pc'[c] = "answer" /\ UNCHANGED <<out, confirmed>>
  BY <1>0 DEF Broadcast, Goto, TypeOK
<1>. HIDE DEF n, m
<1>3. ASSUME NEW d \in Conns PROVE SameAt(d)
  <2>1. CASE d = c
    BY <1>2, <2>1 DEF SameAt, Inside, Told, Deliveries
  <2>2. CASE d # c
    <3>1. /\ pc'[d] = pc[d] /\ reply'[d] = reply[d] /\ user_room'[d] = user_room[d]
          /\ out'[d] = out[d] /\ confirmed'[d] = confirmed[d]
      BY <1>0, <2>2, OthersStay
    <3>2. Told(d)' = Told(d) /\ Pending(d)' = Pending(d) /\ (Inside(d)' <=> Inside(d))
      BY <3>1 DEF Told, Deliveries, Pending, Inside
    <3>3. ASSUME Inside(d) PROVE Begin(d)' = Begin(d)
      <4>1. /\ user_room[d] \in AllNames /\ log \in [AllNames -> Seq(Deliverables)]
            /\ mqueue[d] \in Seq(Deliverables) /\ log[user_room[d]] \in Seq(Deliverables)
            /\ Len(Told(d)) \in Nat /\ Len(Pending(d)) \in Nat
            /\ Len(mqueue[d]) \in Nat /\ Len(log[user_room[d]]) \in Nat
        BY <1>0, HeldTypes, LenProperties DEF TypeOK, Told
      <4>2. d \in members[n] <=> user_room[d] = n
        BY <1>0, <1>1, <3>3 DEF MembersAreThreads, Inside
      <4>3. CASE user_room[d] = n
        <5>1. mqueue'[d] = Append(mqueue[d], m) /\ log'[user_room'[d]] = Append(log[user_room[d]], m)
          BY <1>2, <3>1, <4>1, <4>2, <4>3
        <5>2. /\ Len(Append(mqueue[d], m)) = Len(mqueue[d]) + 1
              /\ Len(Append(log[user_room[d]], m)) = Len(log[user_room[d]]) + 1
          BY <1>1, <4>1, AppendProperties
        <5>. QED BY <3>2, <4>1, <5>1, <5>2 DEF Begin
      <4>4. CASE user_room[d] # n
        <5>1. mqueue'[d] = mqueue[d] /\ log'[user_room'[d]] = log[user_room[d]]
          BY <1>1, <1>2, <3>1, <4>1, <4>2, <4>4
        <5>. QED BY <3>2, <5>1 DEF Begin
      <4>. QED BY <4>3, <4>4
    <3>. QED BY <3>1, <3>2, <3>3 DEF SameAt
  <2>. QED BY <2>1, <2>2
<1>4. Log!Publish(n, m)
  BY <1>2, <1>3, SameIsSame DEF Log!Publish
<1>. QED BY <1>1, <1>4 DEF Log!Next

\* Nobody else's place in a log changes, so that a receiver's own step is one of
\* RoomLog's.
LEMMA JoinEnters ==
  ASSUME LInv, NEW c \in Conns, Step(c), JoinRoom(c)
  PROVE  Log!Next
<1>0. TypeOK /\ Talks /\ pc \in [Conns -> PC] /\ user_room \in [Conns -> AllNames]
  BY DEF LInv, CInv, TypeOK
<1>. DEFINE n == Arrived(c).arg
<1>1. /\ pc[c] = "join" /\ pc'[c] = "joinReply" /\ user_room'[c] = n
      /\ UNCHANGED <<mqueue, log, out, confirmed>>
  BY <1>0 DEF JoinRoom, Goto, world, history
<1>2. n \in AllNames
  <2>1. Received(c, {"join"})
    BY DEF JoinRoom
  <2>. QED BY <1>0, <2>1, ReceiveTypes, LineArguments
<1>3. mqueue[c] = <<>> /\ confirmed[c] = -1
  BY <1>0, <1>1 DEF Talks, WelcomedAt
<1>4. /\ where[c] = Nowhere /\ where'[c] = n
      /\ got[c] = <<>> /\ got'[c] = <<>>
  BY <1>1, <1>3 DEF where, got, Inside, Told
<1>5. start'[c] = Len(log[n])
  <2>1. Len(log[n]) \in Nat
    <3>1. log[n] \in Seq(Deliverables)
      BY <1>0, <1>2 DEF TypeOK
    <3>. QED BY <3>1, LenProperties
  <2>2. Told(c)' = <<>> /\ Pending(c)' = <<>> /\ mqueue'[c] = <<>> /\ Inside(c)'
    BY <1>1, <1>3 DEF Told, Pending, Inside
  <2>3. start'[c] = Len(log[n]) - (Len(<<>>) + Len(<<>>) + Len(<<>>))
    BY <1>1, <2>2 DEF start
  <2>. QED BY <2>1, <2>3
<1>6. \A d \in Conns \ {c} : SameAt(d)
  <2>1. ~Broadcast(c)
    BY <1>1 DEF Broadcast
  <2>. QED BY <1>0, <2>1, OthersSame
<1>. HIDE DEF n
<1>7. got' = got
  <2>1. got'[c] = got[c]
    BY <1>4
  <2>. QED BY <1>6, <2>1 DEF got, SameAt
<1>8. Log!Enter(c, n)
  BY <1>1, <1>4, <1>5, <1>6, <1>7, OneChanges DEF Log!Enter
<1>. QED BY <1>2, <1>8 DEF Log!Next

LEMMA DeliverDelivers ==
  ASSUME LInv, NEW c \in Conns, Step(c), Deliver(c), SendOk(c)
  PROVE  Log!Next
<1>0. /\ TypeOK /\ Talks /\ ConfirmedAt(c) /\ LeftAt(c)
      /\ pc \in [Conns -> PC] /\ user_room \in [Conns -> AllNames]
      /\ confirmed \in [Conns -> Int]
  BY ConfirmedIsEnds DEF LInv, CInv, TypeOK
<1>1. /\ pc[c] = "deliver" /\ pc'[c] = "loop" /\ out'[c] = Append(out[c], reply[c])
      /\ UNCHANGED <<user_room, mqueue, log, confirmed, reply>>
  <2>1. ~SendFail(c)
    BY DEF SendOk, SendFail
  <2>. QED BY <1>0, <2>1 DEF Deliver, Goto, SendOk, TypeOK, state, history
<1>2. confirmed[c] >= 0 /\ Len(out[c]) >= 2
  BY <1>0, <1>1 DEF LeftAt, Talks, WelcomedAt
<1>3. Told(c) = Deliveries(c) /\ Told(c)' = Append(Told(c), reply[c])
  BY <1>0, <1>1, <1>2, DeliveriesGrow DEF Told
<1>4. /\ Told(c) \in Seq(Replies) /\ reply[c] \in Replies /\ mqueue[c] \in Seq(Replies)
      /\ log[user_room[c]] \in Seq(Replies)
  BY <1>0, <1>3, HeldTypes DEF TypeOK
<1>5. /\ Len(Told(c)') = Len(Told(c)) + 1 /\ Len(Told(c)) \in Nat
      /\ Len(mqueue[c]) \in Nat /\ Len(log[user_room[c]]) \in Nat
  BY <1>3, <1>4, AppendProperties, LenProperties
<1>6. Len(Pending(c)) = 1 /\ Len(Pending(c)') = 0
  BY <1>1 DEF Pending
<1>7. Begin(c)' = Begin(c)
  BY <1>1, <1>5, <1>6 DEF Begin
<1>8. /\ where[c] = user_room[c] /\ where'[c] = where[c] /\ where[c] # Nowhere
      /\ start[c] = Begin(c) /\ start'[c] = start[c]
      /\ got[c] = Told(c) /\ got'[c] = Append(got[c], reply[c])
  BY <1>0, <1>1, <1>3, <1>7, NowhereAssumption DEF where, start, got, Inside, Begin
<1>9. \A d \in Conns \ {c} : SameAt(d)
  <2>1. ~Broadcast(c)
    BY <1>1 DEF Broadcast
  <2>. QED BY <1>0, <2>1, OthersSame
<1>10. where' = where /\ start' = start
  BY <1>8, <1>9 DEF where, start, SameAt, Begin
<1>11. got' = [got EXCEPT ![c] = Append(got[c], reply[c])]
  BY <1>8, <1>9, OneChanges
<1>12. LET k == start[c] + Len(got[c]) + 1
       IN  k <= Len(log[where[c]]) /\ log[where[c]][k] = reply[c]
  BY <1>0, <1>1, <1>2, <1>8, PendingIsNext
<1>13. Log!Deliver(c)
  BY <1>1, <1>8, <1>10, <1>11, <1>12 DEF Log!Deliver
<1>. QED BY <1>13 DEF Log!Next

\* A receiver that finds its client gone leaves the log, though not yet its room.
LEMMA GoneExits ==
  ASSUME LInv, NEW c \in Conns, Step(c), LoopEnds(c) \/ (Deliver(c) /\ ~SendOk(c))
  PROVE  Log!Next
<1>0. /\ TypeOK /\ pc \in [Conns -> PC] /\ user_room \in [Conns -> AllNames]
  BY DEF LInv, CInv, TypeOK
<1>1. /\ pc[c] \in {"loop", "deliver"} /\ pc'[c] = "remove"
      /\ UNCHANGED <<log, out, confirmed>>
  BY <1>0 DEF LoopEnds, Deliver, Goto, SendFail, history
<1>2. /\ where[c] # Nowhere /\ where'[c] = Nowhere /\ start'[c] = 0
  BY <1>0, <1>1, NowhereAssumption DEF where, start, Inside
<1>3. Told(c)' = Told(c)
  BY <1>1 DEF Told, Deliveries
<1>4. \A d \in Conns \ {c} : SameAt(d)
  <2>1. ~Broadcast(c)
    BY <1>1 DEF Broadcast
  <2>. QED BY <1>0, <2>1, OthersSame
<1>5. got' = got
  BY <1>3, <1>4 DEF got, SameAt
<1>6. Log!Exit(c)
  BY <1>1, <1>2, <1>4, <1>5, OneChanges DEF Log!Exit
<1>. QED BY <1>6 DEF Log!Next

\* No other step of a thread is seen in a log.
LEMMA OwnUnseen ==
  ASSUME LInv, NEW c \in Conns, Step(c),
         ~Broadcast(c), ~JoinRoom(c), ~Deliver(c), ~LoopEnds(c)
  PROVE  SameAt(c)
<1>. USE DEF Goto, Reply, process, world, threads, state, history
<1>0. /\ TypeOK /\ TalkAt(c) /\ LeftAt(c)
      /\ pc \in [Conns -> PC] /\ confirmed \in [Conns -> Int]
      /\ user_room \in [Conns -> AllNames] /\ mqueue \in [Conns -> Seq(Deliverables)]
      /\ reply \in [Conns -> Replies] /\ out \in [Conns -> Seq(Replies)]
  BY DEF LInv, CInv, TypeOK, Talks, TalkAt
<1>1. log' = log
  BY LogStays
<1>2. CASE Client(c) \/ AcceptFails(c)
  <2>1. UNCHANGED <<pc, reply, user_room, mqueue, out, confirmed, log>>
    BY <1>2 DEF Client, Connect, ClientClose, Reset, AcceptFails
  <2>. QED BY <2>1 DEF SameAt, Inside, Begin, Told, Deliveries, Pending
<1>3. CASE \/ Accept(c) \/ Login(c) \/ LoginFailed(c) \/ CloseFd(c) \/ SenderEnds(c)
           \/ SenderSkips(c) \/ HandleJoin(c) \/ HandleSendall(c) \/ HandleLeave(c)
           \/ HandleQuit(c) \/ HandleOther(c) \/ JoinRefused(c) \/ RemoveMember(c)
  <2>1. ~Inside(c) /\ ~Inside(c)' /\ UNCHANGED <<out, confirmed>>
    BY <1>0, <1>3
    DEF Inside, Accept, Login, LoginFailed, CloseFd, SenderEnds, SenderSkips, HandleJoin,
        HandleSendall, HandleLeave, HandleQuit, HandleOther, SenderReceives, JoinRefused,
        RemoveMember, Received
  <2>. QED BY <2>1 DEF SameAt, Told, Deliveries
<1>4. CASE Refuse(c) \/ LoginReplied(c) \/ Answer(c)
  <2>1. ~Inside(c) /\ ~Inside(c)' /\ confirmed' = confirmed
        /\ pc[c] \notin {"loop", "deliver", "remove", "close", "done"}
    BY <1>0, <1>4 DEF Inside, Refuse, LoginReplied, Answer
  <2>2. confirmed[c] = -1
    BY <1>0, <2>1 DEF TalkAt, WelcomedAt
  <2>. QED BY <2>1, <2>2 DEF SameAt, Told
<1>5. CASE JoinReplied(c)
  <2>1. /\ pc[c] = "joinReply" /\ pc'[c] = "loop" /\ Send(c)
        /\ SendFail(c) => confirmed' = confirmed
        /\ UNCHANGED <<user_room, mqueue>>
    BY <1>0, <1>5 DEF JoinReplied, Send, SendOk, SendFail
  <2>2. confirmed[c] = -1 /\ Told(c) = <<>>
    BY <1>0, <2>1 DEF TalkAt, WelcomedAt, Told
  <2>3. Told(c)' = <<>>
    <3>1. CASE SendFail(c)
      BY <2>1, <2>2, <3>1 DEF Told
    <3>2. CASE net[c] # "reset" /\ Len(out'[c]) = Len(out[c]) + 1
      <4>1. Len(out'[c]) = 2 /\ out'[c] \in Seq(Replies)
        <5>1. Len(out[c]) = 1
          BY <1>0, <2>1, <3>2 DEF TalkAt, WelcomedAt
        <5>. QED BY <1>0, <2>1, <3>2, <5>1, SendTypes
      <4>2. SubSeq(out'[c], 3, 2) = <<>>
        BY <4>1, SubSeqProperties
      <4>. QED BY <4>1, <4>2 DEF Told, Deliveries
    <3>. QED BY <1>0, <2>1, <3>1, <3>2, SendTells
  <2>4. Pending(c) = <<>> /\ Pending(c)' = <<>>
    BY <2>1 DEF Pending
  <2>. QED BY <1>1, <2>1, <2>2, <2>3, <2>4 DEF SameAt, Inside, Begin
<1>6. CASE Dequeue(c)
  <2>1. /\ pc[c] = "loop" /\ pc'[c] = "deliver" /\ mqueue[c] # <<>>
        /\ mqueue'[c] = Tail(mqueue[c]) /\ UNCHANGED <<user_room, out, confirmed>>
    BY <1>0, <1>6 DEF Dequeue
  <2>2. Told(c)' = Told(c) /\ Len(Told(c)) \in Nat
    BY <1>0, <2>1, HeldTypes, LenProperties DEF Told, Deliveries
  <2>3. Len(Pending(c)) = 0 /\ Len(Pending(c)') = 1
    BY <2>1 DEF Pending
  <2>4. mqueue[c] \in Seq(Deliverables) /\ Len(mqueue[c]) \in Nat
        /\ Len(mqueue'[c]) = Len(mqueue[c]) - 1
    BY <1>0, <2>1, HeadTailProperties, LenProperties
  <2>5. Len(log[user_room[c]]) \in Nat
    BY <1>0, HeldTypes, LenProperties
  <2>6. Begin(c)' = Begin(c)
    <3>1. /\ Begin(c) = Len(log[user_room[c]])
                        - (Len(Told(c)) + Len(Pending(c)) + Len(mqueue[c]))
          /\ Begin(c)' = Len(log[user_room[c]])
                         - (Len(Told(c)) + Len(Pending(c)') + Len(mqueue'[c]))
      BY <1>1, <2>1, <2>2 DEF Begin
    <3>. QED BY <2>2, <2>3, <2>4, <2>5, <3>1
  <2>. QED BY <2>1, <2>2, <2>6 DEF SameAt, Inside
<1>. QED BY <1>2, <1>3, <1>4, <1>5, <1>6 DEF Step, Thread

LEMMA LogStep == LInv /\ [Next]_vars => [Log!Next]_Log!vars
<1>. SUFFICES ASSUME LInv, [Next]_vars PROVE Log!Next \/ UNCHANGED Log!vars
  OBVIOUS
<1>1. ASSUME NEW c \in Conns, Step(c), ~Broadcast(c), ~JoinRoom(c), ~Deliver(c), ~LoopEnds(c)
      PROVE  UNCHANGED Log!vars
  <2>1. \A d \in Conns : SameAt(d)
    <3>1. TypeOK
      BY DEF LInv, CInv
    <3>. QED BY <1>1, <3>1, OthersSame, OwnUnseen
  <2>2. log' = log
    BY <1>1, LogStays
  <2>. QED BY <2>1, <2>2, SameIsSame DEF Log!vars
<1>2. CASE UNCHANGED vars
  BY <1>2
  DEF vars, Log!vars, where, start, got, Inside, Told, Deliveries, Pending
<1>. QED BY <1>1, <1>2, BroadcastPublishes, JoinEnters, DeliverDelivers, GoneExits
         DEF Next, Step

\* server.cpp:110-170: for any number of connections, the threads implement one log
\* per room, which a receiver reads on from where it joined: each step of a thread is
\* a step of a log or is not seen there, whichever calls fail.
THEOREM ThreadsAreLogs == SafeSpec => ImplementsRoomLog
<1>1. Init => LInv
  BY InitCInv DEF LInv, LeftAt, Init
<1>2. LInv /\ [Next]_vars => LInv'
  BY CInvStep, LeftStep DEF LInv
<1>3. Init => Log!Init
  BY DEF Init, Log!Init, where, start, got, Inside, Told
<1>. QED BY <1>1, <1>2, <1>3, LogStep, PTL DEF SafeSpec, ImplementsRoomLog, Log!Spec

\* Every variable keeps its type, for any number of connections, names and texts and
\* whatever the clients write.
THEOREM TypeCorrect == SafeSpec => []TypeOK
<1>1. CInv => TypeOK
  BY DEF CInv
<1>. QED BY Invariant, <1>1, PTL

==============================================================================
