-------------------------------- MODULE Rooms --------------------------------
(***************************************************************************)
(* csf_assign05: the rooms' registry (Server::find_or_create_room) and the *)
(* Room objects (room.cpp), shared by the threads that serve the clients.  *)
(*                                                                         *)
(* A sender's thread joins rooms and broadcasts; a receiver's thread joins *)
(* one room, then takes the messages queued for it and sends them until a  *)
(* send fails.  Every step another thread can observe is one action.  The  *)
(* queue's two operations are atomic here: MessageQueue is shown to        *)
(* implement FifoQueue.  What a client says and when is left open; the     *)
(* loops that read it are in ChatServer.                                   *)
(***************************************************************************)
EXTENDS Integers, Sequences, FiniteSets

CONSTANTS
  Senders,                 \* threads in chat_with_sender
  Receivers,               \* threads in chat_with_receiver; also their Users
  Names,                   \* the room names clients ask for
  NoName,                  \* the empty string: "in no room"; may be asked for
  RoomIds,                 \* the addresses a Room may be allocated at
  NoRoom,                  \* nullptr
  Messages,                \* the texts to broadcast, each sent once
  NoMessage,               \* nullptr
  NoThread,                \* a free mutex
  Nowhere,                 \* a receiver that is not a member of any room
  MaxJoins                 \* bound: join and leave commands of all senders

Threads == Senders \cup Receivers
AllNames == Names \cup {NoName}

ASSUME ThreadAssumption ==
  /\ Senders \cap Receivers = {}
  /\ NoThread \notin Threads

ASSUME ValueAssumption ==
  /\ NoRoom \notin RoomIds
  /\ NoMessage \notin Messages
  /\ Nowhere \notin AllNames
  /\ MaxJoins \in Nat

VARIABLES
  m_rooms,                 \* Server: name -> Room, NoRoom when absent
  m_lock,                  \* Server: the thread that holds its mutex
  room_name,               \* Room: its name; Nowhere while not allocated
  lock,                    \* Room: the thread that holds its mutex
  members,                 \* Room: the set of Users
  mqueue,                  \* User: the Messages queued for a receiver
  user_room,               \* User: its room_name
  pc,                      \* where each thread is
  name,                    \* the name passed to find_or_create_room
  room,                    \* the Room pointer a thread works on
  seen,                    \* what a thread read when it took a mutex
  it, sent,                \* broadcast's iterator, and the members behind it
  msg,                     \* the text to broadcast, the message to send
  unsent, joins,           \* the clients' remaining commands
  log, start, got          \* history, see RoomLog

server == <<m_rooms, m_lock>>
objects == <<room_name, lock, members>>
users == <<mqueue, user_room>>
locals == <<name, room, seen, it, sent, msg>>
commands == <<unsent, joins>>
history == <<log, start, got>>
vars == <<server, objects, users, pc, locals, commands, history>>

Init ==
  /\ m_rooms = [n \in AllNames |-> NoRoom]
  /\ m_lock = NoThread
  /\ room_name = [r \in RoomIds |-> Nowhere]
  /\ lock = [r \in RoomIds |-> NoThread]
  /\ members = [r \in RoomIds |-> {}]
  /\ mqueue = [u \in Receivers |-> <<>>]
  /\ user_room = [t \in Threads |-> NoName]
  /\ pc = [t \in Threads |-> "idle"]
  /\ name = [t \in Threads |-> NoName]
  /\ room = [t \in Threads |-> NoRoom]
  /\ seen = [t \in Threads |-> NoRoom]
  /\ it = [s \in Senders |-> NoThread]
  /\ sent = [s \in Senders |-> {}]
  /\ msg = [t \in Threads |-> NoMessage]
  /\ unsent = Messages
  /\ joins = 0
  /\ log = [n \in AllNames |-> <<>>]
  /\ start = [u \in Receivers |-> 0]
  /\ got = [u \in Receivers |-> <<>>]

Goto(t, l) == pc' = [pc EXCEPT ![t] = l]

------------------------------------------------------------------------------
(* The commands that reach this component *)

\* chat_with_sender, TAG_JOIN
CallJoin(s, n) ==
  /\ pc[s] = "idle"
  /\ joins < MaxJoins
  /\ joins' = joins + 1
  /\ name' = [name EXCEPT ![s] = n]
  /\ Goto(s, "findLock")
  /\ UNCHANGED <<server, objects, users, room, seen, it, sent, msg, unsent, history>>

\* chat_with_sender, TAG_SENDALL of a user that is in a room
CallSendall(s, m) ==
  /\ pc[s] = "idle"
  /\ user_room[s] # NoName
  /\ m \in unsent
  /\ unsent' = unsent \ {m}
  /\ msg' = [msg EXCEPT ![s] = m]
  /\ name' = [name EXCEPT ![s] = user_room[s]]
  /\ Goto(s, "findLock")
  /\ UNCHANGED <<server, objects, users, room, seen, it, sent, joins, history>>

\* chat_with_sender, TAG_LEAVE
LeaveRoom(s) ==
  /\ pc[s] = "idle"
  /\ user_room[s] # NoName
  /\ joins < MaxJoins
  /\ joins' = joins + 1
  /\ user_room' = [user_room EXCEPT ![s] = NoName]
  /\ UNCHANGED <<server, objects, mqueue, pc, locals, unsent, history>>

\* chat_with_receiver, up to find_or_create_room
CallReceive(u, n) ==
  /\ pc[u] = "idle"
  /\ name' = [name EXCEPT ![u] = n]
  /\ Goto(u, "findLock")
  /\ UNCHANGED <<server, objects, users, room, seen, it, sent, msg, commands, history>>

------------------------------------------------------------------------------
(* Server::find_or_create_room *)

\* Mutant: the registry is read without its mutex.
FindWithoutLock(t) ==
  /\ pc[t] = "findLock"
  /\ m_lock' = t
  /\ seen' = [seen EXCEPT ![t] = m_rooms[name[t]]]
  /\ Goto(t, "find")
  /\ UNCHANGED <<m_rooms, objects, users, name, room, it, sent, msg, commands, history>>

FindLock(t) ==
  /\ pc[t] = "findLock"
  /\ m_lock = NoThread
  /\ m_lock' = t
  /\ seen' = [seen EXCEPT ![t] = m_rooms[name[t]]]
  /\ Goto(t, "find")
  /\ UNCHANGED <<m_rooms, objects, users, name, room, it, sent, msg, commands, history>>

\* Where the caller goes with the room, and what it notes of it.
Found(t, r) ==
  /\ room' = [room EXCEPT ![t] = r]
  /\ Goto(t, IF t \in Receivers THEN "addLock"
             ELSE IF msg[t] # NoMessage THEN "castLock" ELSE "idle")
  /\ user_room' = IF t \in Senders THEN [user_room EXCEPT ![t] = name[t]]
                                   ELSE user_room

\* Mutant: the early return leaves the mutex locked.
FindExistingLocked(t) ==
  /\ pc[t] = "find"
  /\ seen[t] # NoRoom
  /\ Found(t, seen[t])
  /\ seen' = [seen EXCEPT ![t] = NoRoom]
  /\ UNCHANGED <<server, objects, mqueue, name, it, sent, msg, commands, history>>

FindExisting(t) ==
  /\ pc[t] = "find"
  /\ seen[t] # NoRoom
  /\ Found(t, seen[t])
  /\ m_lock' = NoThread
  /\ seen' = [seen EXCEPT ![t] = NoRoom]
  /\ UNCHANGED <<m_rooms, objects, mqueue, name, it, sent, msg, commands, history>>

\* map::insert leaves an entry that is already there.
CreateRoom(t) ==
  /\ pc[t] = "find"
  /\ seen[t] = NoRoom
  /\ \E r \in RoomIds :
       /\ room_name[r] = Nowhere
       /\ room_name' = [room_name EXCEPT ![r] = name[t]]
       /\ m_rooms' = [m_rooms EXCEPT ![name[t]] = IF @ = NoRoom THEN r ELSE @]
       /\ Found(t, r)
  /\ m_lock' = NoThread
  /\ UNCHANGED <<lock, members, mqueue, name, seen, it, sent, msg, commands, history>>

FindRoom(t) == FindLock(t) \/ FindExisting(t) \/ CreateRoom(t)

------------------------------------------------------------------------------
(* guard.h on Room::lock *)

Guard(t) ==
  /\ lock[room[t]] = NoThread
  /\ lock' = [lock EXCEPT ![room[t]] = t]

Unguard(t) == lock' = [lock EXCEPT ![room[t]] = NoThread]

------------------------------------------------------------------------------
(* Room::broadcast_message *)

BroadcastLock(s) ==
  /\ pc[s] = "castLock"
  /\ Guard(s)
  /\ log' = [log EXCEPT ![name[s]] = Append(@, msg[s])]
  /\ Goto(s, "cast")
  /\ UNCHANGED <<server, room_name, members, users, locals, commands, start, got>>

\* The set is ordered by address: any order is possible.
NextMember(s) ==
  /\ pc[s] = "cast"
  /\ \E u \in members[room[s]] \ sent[s] : it' = [it EXCEPT ![s] = u]
  /\ Goto(s, "enqueue")
  /\ UNCHANGED <<server, objects, users, name, room, seen, sent, msg, commands, history>>

EnqueueTo(s) ==
  /\ pc[s] = "enqueue"
  /\ mqueue' = [mqueue EXCEPT ![it[s]] = Append(@, msg[s])]
  /\ sent' = [sent EXCEPT ![s] = @ \cup {it[s]}]
  /\ it' = [it EXCEPT ![s] = NoThread]
  /\ Goto(s, "cast")
  /\ UNCHANGED <<server, objects, user_room, name, room, seen, msg, commands, history>>

BroadcastDone(s) ==
  /\ pc[s] = "cast"
  /\ members[room[s]] \subseteq sent[s]
  /\ Unguard(s)
  /\ sent' = [sent EXCEPT ![s] = {}]
  /\ msg' = [msg EXCEPT ![s] = NoMessage]
  /\ Goto(s, "idle")
  /\ UNCHANGED <<server, room_name, members, users, name, room, seen, it, commands, history>>

Broadcast(s) ==
  BroadcastLock(s) \/ NextMember(s) \/ EnqueueTo(s) \/ BroadcastDone(s)

------------------------------------------------------------------------------
(* Room::add_member, Room::remove_member *)

\* Mutant: add_member without the guard.
AddWithoutLock(u) ==
  /\ pc[u] = "addLock"
  /\ Goto(u, "add")
  /\ UNCHANGED <<server, objects, users, locals, commands, history>>

AddLock(u) ==
  /\ pc[u] = "addLock"
  /\ Guard(u)
  /\ Goto(u, "add")
  /\ UNCHANGED <<server, room_name, members, users, locals, commands, history>>

\* insert, the User's room_name, and the caller's own assignment of the same
AddMember(u) ==
  /\ pc[u] = "add"
  /\ members' = [members EXCEPT ![room[u]] = @ \cup {u}]
  /\ user_room' = [user_room EXCEPT ![u] = room_name[room[u]]]
  /\ start' = [start EXCEPT ![u] = Len(log[name[u]])]
  /\ Unguard(u)
  /\ Goto(u, "joinOk")
  /\ UNCHANGED <<server, room_name, mqueue, locals, commands, log, got>>

\* Mutant: remove_member without the guard.
RemoveWithoutLock(u) ==
  /\ pc[u] = "removeLock"
  /\ Goto(u, "remove")
  /\ UNCHANGED <<server, objects, users, locals, commands, history>>

RemoveLock(u) ==
  /\ pc[u] = "removeLock"
  /\ Guard(u)
  /\ Goto(u, "remove")
  /\ UNCHANGED <<server, room_name, members, users, locals, commands, history>>

\* Mutant: the user is not erased.
RemoveOnlyName(u) ==
  /\ pc[u] = "remove"
  /\ user_room' = [user_room EXCEPT ![u] = NoName]
  /\ Unguard(u)
  /\ Goto(u, "gone")
  /\ UNCHANGED <<server, room_name, members, mqueue, locals, commands, history>>

RemoveMember(u) ==
  /\ pc[u] = "remove"
  /\ members' = [members EXCEPT ![room[u]] = @ \ {u}]
  /\ user_room' = [user_room EXCEPT ![u] = NoName]
  /\ Unguard(u)
  /\ Goto(u, "gone")
  /\ UNCHANGED <<server, room_name, mqueue, locals, commands, history>>

------------------------------------------------------------------------------
(* chat_with_receiver's loop: no mutex is held while it sends *)

\* The reply to the join; its failure shows in is_open().
JoinReplied(u) ==
  /\ pc[u] = "joinOk"
  /\ \/ Goto(u, "loop")
     \/ Goto(u, "removeLock")
  /\ UNCHANGED <<server, objects, users, locals, commands, history>>

\* Mutant: the newest message first.
DequeueBack(u) ==
  /\ pc[u] = "loop"
  /\ mqueue[u] # <<>>
  /\ LET k == Len(mqueue[u])
     IN  /\ msg' = [msg EXCEPT ![u] = mqueue[u][k]]
         /\ mqueue' = [mqueue EXCEPT ![u] = SubSeq(@, 1, k - 1)]
  /\ Goto(u, "send")
  /\ UNCHANGED <<server, objects, user_room, name, room, seen, it, sent, commands, history>>

Dequeue(u) ==
  /\ pc[u] = "loop"
  /\ mqueue[u] # <<>>
  /\ msg' = [msg EXCEPT ![u] = Head(mqueue[u])]
  /\ mqueue' = [mqueue EXCEPT ![u] = Tail(@)]
  /\ Goto(u, "send")
  /\ UNCHANGED <<server, objects, user_room, name, room, seen, it, sent, commands, history>>

Sent(u) ==
  /\ pc[u] = "send"
  /\ got' = [got EXCEPT ![u] = Append(@, msg[u])]
  /\ msg' = [msg EXCEPT ![u] = NoMessage]
  /\ Goto(u, "loop")
  /\ UNCHANGED <<server, objects, users, name, room, seen, it, sent, commands, log, start>>

\* Mutant: the failed send returns past remove_member.
SendFailedReturns(u) ==
  /\ pc[u] = "send"
  /\ msg' = [msg EXCEPT ![u] = NoMessage]
  /\ Goto(u, "gone")
  /\ UNCHANGED <<server, objects, users, name, room, seen, it, sent, commands, history>>

SendFailed(u) ==
  /\ pc[u] = "send"
  /\ msg' = [msg EXCEPT ![u] = NoMessage]
  /\ Goto(u, "removeLock")
  /\ UNCHANGED <<server, objects, users, name, room, seen, it, sent, commands, history>>

------------------------------------------------------------------------------
Sender(s) ==
  \/ \E n \in Names : CallJoin(s, n)
  \/ \E m \in Messages : CallSendall(s, m)
  \/ LeaveRoom(s)
  \/ FindRoom(s)
  \/ Broadcast(s)

Receiver(u) ==
  \/ \E n \in Names : CallReceive(u, n)
  \/ FindRoom(u)
  \/ AddLock(u) \/ AddMember(u)
  \/ JoinReplied(u) \/ Dequeue(u) \/ Sent(u) \/ SendFailed(u)
  \/ RemoveLock(u) \/ RemoveMember(u)

Next ==
  \/ \E s \in Senders : Sender(s)
  \/ \E u \in Receivers : Receiver(u)

SafeSpec == Init /\ [][Next]_vars

\* A thread inside the component runs on; no client has to send a command,
\* and no client has to read what it is sent (JoinReplied, Sent, SendFailed).
Fairness ==
  /\ \A s \in Senders : WF_vars(FindRoom(s) \/ Broadcast(s))
  /\ \A u \in Receivers :
       WF_vars(\/ FindRoom(u) \/ AddLock(u) \/ AddMember(u) \/ Dequeue(u)
               \/ RemoveLock(u) \/ RemoveMember(u))

Spec == SafeSpec /\ Fairness

------------------------------------------------------------------------------
(* Properties *)

PC == {"idle", "findLock", "find", "castLock", "cast", "enqueue",
       "addLock", "add", "joinOk", "loop", "send", "removeLock", "remove", "gone"}

\* Every variable keeps its C++ type.
TypeOK ==
  /\ m_rooms \in [AllNames -> RoomIds \cup {NoRoom}]
  /\ m_lock \in Threads \cup {NoThread}
  /\ room_name \in [RoomIds -> AllNames \cup {Nowhere}]
  /\ lock \in [RoomIds -> Threads \cup {NoThread}]
  /\ members \in [RoomIds -> SUBSET Receivers]
  /\ mqueue \in [Receivers -> Seq(Messages)]
  /\ user_room \in [Threads -> AllNames]
  /\ pc \in [Threads -> PC]
  /\ name \in [Threads -> AllNames]
  /\ room \in [Threads -> RoomIds \cup {NoRoom}]
  /\ seen \in [Threads -> RoomIds \cup {NoRoom}]
  /\ it \in [Senders -> Receivers \cup {NoThread}]
  /\ sent \in [Senders -> SUBSET Receivers]
  /\ msg \in [Threads -> Messages \cup {NoMessage}]
  /\ unsent \subseteq Messages
  /\ joins \in 0..MaxJoins
  /\ log \in [AllNames -> Seq(Messages)]
  /\ start \in [Receivers -> Nat]
  /\ got \in [Receivers -> Seq(Messages)]

\* server.cpp:294-295: the Room for a name is unique.  Two threads that ask
\* for a new name at once get the same object, and every pointer a thread
\* holds is still the registered one: nobody is left in a Room no sender finds.
UniqueRoom ==
  \A t \in Threads :
    pc[t] \in {"castLock", "cast", "enqueue", "addLock", "add", "joinOk",
               "loop", "send", "removeLock", "remove"}
      => m_rooms[name[t]] = room[t] /\ room_name[room[t]] = name[t]

\* README.txt:16-23: while a broadcast walks the members nobody changes them,
\* so the iterator it dereferences still points to a member.
IteratorValid ==
  \A s \in Senders : pc[s] = "enqueue" => it[s] \in members[room[s]]

MemberPC == {"joinOk", "loop", "send", "removeLock", "remove"}

\* A thread is in its room's set from add_member to remove_member and in no
\* other: a thread that is gone is in none.
MembersAreServed ==
  \A r \in RoomIds :
    members[r] = {u \in Receivers : room[u] = r /\ pc[u] \in MemberPC}

Pending(u) == IF pc[u] = "send" THEN <<msg[u]>> ELSE <<>>

\* The message a broadcast in progress has still to queue for u.
Owed(u) ==
  LET S == {s \in Senders : /\ pc[s] \in {"cast", "enqueue"}
                            /\ room[s] = room[u]
                            /\ u \notin sent[s]}
  IN  IF S = {} THEN <<>> ELSE <<msg[CHOOSE s \in S : TRUE]>>

\* What a member of a room was sent, is being sent and has queued is, with
\* the broadcast in progress, exactly what was broadcast to the room since it
\* joined, in the one order every member sees, each message once.  (Nothing
\* here is claimed once a send has failed: that message is dropped.)
NothingMissedOrDoubled ==
  \A u \in Receivers :
    pc[u] \in {"joinOk", "loop", "send"} =>
      got[u] \o Pending(u) \o mqueue[u] \o Owed(u)
        = SubSeq(log[name[u]], start[u] + 1, Len(log[name[u]]))

\* Once remove_member has returned, no broadcast adds to the user's queue.
GoneGetsNothing ==
  [][\A u \in Receivers : pc[u] = "gone" => mqueue'[u] = mqueue[u]]_vars

where == [u \in Receivers |->
            IF pc[u] \in MemberPC THEN name[u] ELSE Nowhere]

entered == [u \in Receivers |-> IF pc[u] \in MemberPC THEN start[u] ELSE 0]

Log == INSTANCE RoomLog WITH Names <- AllNames, start <- entered

\* The threads, mutexes and queues together implement one log per room.
ImplementsRoomLog == Log!Spec

\* README.txt:27-32: no deadlock.  A join or a broadcast returns although any
\* receiver's send may stall for ever, as broadcast waits for no client; and a
\* receiver whose send failed leaves its room.
NobodyIsStuck ==
  /\ \A s \in Senders : pc[s] # "idle" ~> pc[s] = "idle"
  /\ \A u \in Receivers : pc[u] = "removeLock" ~> pc[u] = "gone"

==============================================================================
