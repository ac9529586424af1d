----------------------------- MODULE RoomsProofs -----------------------------
(***************************************************************************)
(* Rooms' safety for any number of threads, names and Room addresses.  The *)
(* inductive invariant says what each mutex protects: the server's, that   *)
(* what a thread looked up is still so when it inserts; a room's, that its *)
(* members stay put while its holder works on them.                        *)
(***************************************************************************)
EXTENDS Rooms, SequenceTheorems, TLAPS

Holding == {"castLock", "cast", "enqueue", "addLock", "add", "joinOk",
            "loop", "send", "removeLock", "remove"}
Inside == {"cast", "enqueue", "add", "remove"}

\* Each kind of thread runs its own functions.
Roles ==
  /\ \A s \in Senders :
       pc[s] \in {"idle", "findLock", "find", "castLock", "cast", "enqueue"}
  /\ \A u \in Receivers :
       pc[u] \in {"idle", "findLock", "find", "addLock", "add", "joinOk",
                  "loop", "send", "removeLock", "remove", "gone"}

\* A thread that broadcasts or sends has something to send.
Texts ==
  /\ \A s \in Senders : pc[s] \in {"castLock", "cast", "enqueue"} => msg[s] \in Messages
  /\ \A u \in Receivers : pc[u] = "send" => msg[u] \in Messages

\* A registered Room has the name it is registered under.
Registered ==
  \A n \in AllNames : m_rooms[n] # NoRoom => room_name[m_rooms[n]] = n

\* What a thread found in the registry is still there: it holds the mutex.
Finding ==
  \A t \in Threads : pc[t] = "find" => m_lock = t /\ seen[t] = m_rooms[name[t]]

\* A thread past find_or_create_room has a Room, the registered one.
Pointers ==
  \A t \in Threads :
    pc[t] \in Holding =>
      /\ room[t] \in RoomIds
      /\ m_rooms[name[t]] = room[t]
      /\ room_name[room[t]] = name[t]

\* A thread inside one of Room's methods holds that Room's mutex.
Owned == \A t \in Threads : pc[t] \in Inside => lock[room[t]] = t

IInv ==
  /\ TypeOK /\ Roles /\ Texts /\ Registered /\ Finding /\ Pointers /\ Owned
  /\ MembersAreServed /\ IteratorValid

------------------------------------------------------------------------------

\* The server starts with no room and no thread in any.
LEMMA InitInvariant == Init => IInv
<1>. SUFFICES ASSUME Init PROVE IInv
  OBVIOUS
<1>. USE ValueAssumption, ThreadAssumption
<1>1. TypeOK
  <2>1. <<>> \in Seq(Messages)
    OBVIOUS
  <2>. QED BY <2>1 DEF Init, TypeOK, Threads, AllNames, PC
<1>2. Roles /\ Texts /\ Finding /\ Pointers /\ Owned /\ IteratorValid
  BY DEF Init, Roles, Texts, Finding, Pointers, Owned, IteratorValid,
         Holding, Inside, Threads
<1>3. Registered /\ MembersAreServed
  BY DEF Init, Registered, MembersAreServed, MemberPC, Threads
<1>. QED BY <1>1, <1>2, <1>3 DEF IInv

\* Every step keeps every variable's type.
LEMMA TypeStep == IInv /\ [Next]_vars => TypeOK'
<1>. SUFFICES ASSUME IInv, [Next]_vars PROVE TypeOK'
  OBVIOUS
<1>. USE ThreadAssumption, ValueAssumption
     DEF IInv, TypeOK, PC, Goto, Guard, Unguard,
         server, objects, users, locals, commands, history
<1>0. Senders \subseteq Threads /\ Receivers \subseteq Threads
  BY DEF Threads
<1>1. ASSUME NEW s \in Senders, NEW n \in Names, CallJoin(s, n) PROVE TypeOK'
  BY <1>0, <1>1 DEF CallJoin, AllNames
<1>2. ASSUME NEW s \in Senders, NEW m \in Messages, CallSendall(s, m) PROVE TypeOK'
  BY <1>0, <1>2 DEF CallSendall
<1>3. ASSUME NEW s \in Senders, LeaveRoom(s) PROVE TypeOK'
  BY <1>0, <1>3 DEF LeaveRoom, AllNames
<1>4. ASSUME NEW u \in Receivers, NEW n \in Names, CallReceive(u, n) PROVE TypeOK'
  BY <1>0, <1>4 DEF CallReceive, AllNames
<1>5. ASSUME NEW t \in Threads, FindLock(t) PROVE TypeOK'
  BY <1>0, <1>5 DEF FindLock
<1>6. ASSUME NEW t \in Threads, FindExisting(t) PROVE TypeOK'
  BY <1>0, <1>6 DEF FindExisting, Found
<1>7. ASSUME NEW t \in Threads, CreateRoom(t) PROVE TypeOK'
  BY <1>0, <1>7 DEF CreateRoom, Found
<1>8. ASSUME NEW s \in Senders, BroadcastLock(s) PROVE TypeOK'
  <2>1. msg[s] \in Messages
    BY <1>8 DEF BroadcastLock, Texts
  <2>2. lock' \in [RoomIds -> Threads \cup {NoThread}]
    BY <1>0, <1>8 DEF BroadcastLock
  <2>3. log' \in [AllNames -> Seq(Messages)]
    <3>1. log' = [log EXCEPT ![name[s]] = Append(log[name[s]], msg[s])]
      BY <1>8 DEF BroadcastLock
    <3>2. log[name[s]] \in Seq(Messages)
      BY <1>0
    <3>3. Append(log[name[s]], msg[s]) \in Seq(Messages)
      BY <2>1, <3>2
    <3>. QED BY <3>1, <3>3
  <2>4. pc' \in [Threads -> PC]
    BY <1>0, <1>8 DEF BroadcastLock
  <2>5. UNCHANGED <<m_rooms, m_lock, room_name, members, mqueue, user_room, name,
                    room, seen, it, sent, msg, unsent, joins, start, got>>
    BY <1>8 DEF BroadcastLock
  <2>. QED BY <2>2, <2>3, <2>4, <2>5
<1>9. ASSUME NEW s \in Senders, NextMember(s) PROVE TypeOK'
  <2>1. room[s] \in RoomIds
    BY <1>0, <1>9 DEF NextMember, Pointers, Holding
  <2>2. members[room[s]] \subseteq Receivers
    BY <2>1
  <2>. QED BY <1>0, <1>9, <2>2 DEF NextMember
<1>10. ASSUME NEW s \in Senders, EnqueueTo(s) PROVE TypeOK'
  <2>1. msg[s] \in Messages /\ room[s] \in RoomIds
    BY <1>0, <1>10 DEF EnqueueTo, Texts, Pointers, Holding
  <2>2. it[s] \in Receivers
    BY <1>10, <2>1 DEF EnqueueTo, IteratorValid
  <2>. QED BY <1>0, <1>10, <2>1, <2>2 DEF EnqueueTo
<1>11. ASSUME NEW s \in Senders, BroadcastDone(s) PROVE TypeOK'
  BY <1>0, <1>11 DEF BroadcastDone
<1>12. ASSUME NEW u \in Receivers, AddLock(u) \/ RemoveLock(u) PROVE TypeOK'
  <2>1. lock' \in [RoomIds -> Threads \cup {NoThread}]
    <3>1. lock' = [lock EXCEPT ![room[u]] = u] /\ u \in Threads
      BY <1>0, <1>12 DEF AddLock, RemoveLock
    <3>. QED BY <3>1
  <2>2. pc' \in [Threads -> PC]
    BY <1>0, <1>12 DEF AddLock, RemoveLock
  <2>3. UNCHANGED <<m_rooms, m_lock, room_name, members, mqueue, user_room, name,
                    room, seen, it, sent, msg, unsent, joins, log, start, got>>
    BY <1>12 DEF AddLock, RemoveLock
  <2>. QED BY <2>1, <2>2, <2>3
<1>13. ASSUME NEW u \in Receivers, AddMember(u) PROVE TypeOK'
  <2>1. room_name[room[u]] \in AllNames
    BY <1>0, <1>13 DEF AddMember, Pointers, Holding
  <2>2. /\ lock' \in [RoomIds -> Threads \cup {NoThread}]
        /\ members' \in [RoomIds -> SUBSET Receivers]
    <3>1. lock' \in [RoomIds -> Threads \cup {NoThread}]
      BY <1>0, <1>13 DEF AddMember
    <3>2. members' = [members EXCEPT ![room[u]] = @ \cup {u}]
      BY <1>13 DEF AddMember
    <3>3. members \in [RoomIds -> SUBSET Receivers]
      OBVIOUS
    <3>4. members' \in [RoomIds -> SUBSET Receivers]
      <4>1. \A r \in RoomIds : members'[r] \subseteq members[r] \cup {u}
        BY <3>2, <3>3
      <4>2. members' = [r \in RoomIds |-> members'[r]]
        BY <3>2, <3>3
      <4>. QED BY <3>3, <4>1, <4>2
    <3>. QED BY <3>1, <3>4
  <2>3. user_room' \in [Threads -> AllNames] /\ pc' \in [Threads -> PC]
    BY <1>0, <1>13, <2>1 DEF AddMember
  <2>4. start' \in [Receivers -> Nat]
    <3>1. Len(log[name[u]]) \in Nat
      BY <1>0, LenProperties
    <3>. QED BY <1>13, <3>1 DEF AddMember
  <2>5. UNCHANGED <<m_rooms, m_lock, room_name, mqueue, name, room, seen,
                    it, sent, msg, unsent, joins, log, got>>
    BY <1>13 DEF AddMember
  <2>. QED BY <2>2, <2>3, <2>4, <2>5
<1>14. ASSUME NEW u \in Receivers, RemoveMember(u) PROVE TypeOK'
  BY <1>0, <1>14 DEF RemoveMember, AllNames
<1>15. ASSUME NEW u \in Receivers, JoinReplied(u) PROVE TypeOK'
  BY <1>0, <1>15 DEF JoinReplied
<1>16. ASSUME NEW u \in Receivers, Dequeue(u) PROVE TypeOK'
  <2>1. Head(mqueue[u]) \in Messages /\ Tail(mqueue[u]) \in Seq(Messages)
    BY <1>16, HeadTailProperties DEF Dequeue
  <2>. QED BY <1>0, <1>16, <2>1 DEF Dequeue
<1>17. ASSUME NEW u \in Receivers, Sent(u) PROVE TypeOK'
  <2>1. msg[u] \in Messages
    BY <1>17 DEF Sent, Texts
  <2>. QED BY <1>0, <1>17, <2>1 DEF Sent
<1>18. ASSUME NEW u \in Receivers, SendFailed(u) PROVE TypeOK'
  BY <1>0, <1>18 DEF SendFailed
<1>19. CASE UNCHANGED vars
  BY <1>19 DEF vars
<1>. QED
  BY <1>0, <1>1, <1>2, <1>3, <1>4, <1>5, <1>6, <1>7, <1>8, <1>9, <1>10, <1>11,
     <1>12, <1>13, <1>14, <1>15, <1>16, <1>17, <1>18, <1>19
  DEF Next, Sender, Receiver, FindRoom, Broadcast

\* Threads stay in their own functions, with a text where one is needed.
LEMMA RolesStep == IInv /\ [Next]_vars => Roles' /\ Texts'
<1>. SUFFICES ASSUME IInv, [Next]_vars PROVE Roles' /\ Texts'
  OBVIOUS
<1>. USE ThreadAssumption, ValueAssumption DEF IInv, Roles, Texts, Goto, users, locals
<1>0. /\ Senders \subseteq Threads /\ Receivers \subseteq Threads
      /\ pc \in [Threads -> PC] /\ msg \in [Threads -> Messages \cup {NoMessage}]
  BY DEF Threads, TypeOK
<1>1. ASSUME NEW s \in Senders, NEW n \in Names, CallJoin(s, n)
      PROVE  Roles' /\ Texts'
  BY <1>0, <1>1 DEF CallJoin
<1>2. ASSUME NEW s \in Senders, NEW m \in Messages, CallSendall(s, m)
      PROVE  Roles' /\ Texts'
  BY <1>0, <1>2 DEF CallSendall
<1>3. ASSUME NEW s \in Senders, LeaveRoom(s)
      PROVE  Roles' /\ Texts'
  BY <1>0, <1>3 DEF LeaveRoom
<1>4. ASSUME NEW u \in Receivers, NEW n \in Names, CallReceive(u, n)
      PROVE  Roles' /\ Texts'
  BY <1>0, <1>4 DEF CallReceive
<1>5. ASSUME NEW t \in Threads, FindLock(t)
      PROVE  Roles' /\ Texts'
  BY <1>0, <1>5 DEF FindLock, Threads
<1>6. ASSUME NEW t \in Threads, FindExisting(t) \/ CreateRoom(t)
      PROVE  Roles' /\ Texts'
  <2>1. /\ pc[t] = "find" /\ msg' = msg
        /\ pc' = [pc EXCEPT ![t] = IF t \in Receivers THEN "addLock"
                                ELSE IF msg[t] # NoMessage THEN "castLock" ELSE "idle"]
    BY <1>6 DEF FindExisting, CreateRoom, Found
  <2>2. CASE t \in Receivers
    BY <1>0, <2>1, <2>2
  <2>3. CASE t \in Senders
    BY <1>0, <2>1, <2>3
  <2>. QED BY <2>2, <2>3 DEF Threads
<1>7. ASSUME NEW s \in Senders, Broadcast(s)
      PROVE  Roles' /\ Texts'
  <2>1. CASE BroadcastLock(s) \/ NextMember(s) \/ EnqueueTo(s)
    BY <1>0, <2>1 DEF BroadcastLock, NextMember, EnqueueTo
  <2>2. CASE BroadcastDone(s)
    BY <1>0, <2>2 DEF BroadcastDone
  <2>. QED BY <1>7, <2>1, <2>2 DEF Broadcast
<1>8. ASSUME NEW u \in Receivers,
             AddLock(u) \/ AddMember(u) \/ RemoveLock(u) \/ RemoveMember(u)
      PROVE  Roles' /\ Texts'
  BY <1>0, <1>8 DEF AddLock, AddMember, RemoveLock, RemoveMember
<1>9. ASSUME NEW u \in Receivers, JoinReplied(u)
      PROVE  Roles' /\ Texts'
  BY <1>0, <1>9 DEF JoinReplied
<1>10. ASSUME NEW u \in Receivers, Dequeue(u)
       PROVE  Roles' /\ Texts'
  <2>1. Head(mqueue[u]) \in Messages
    BY <1>10, HeadTailProperties DEF Dequeue, TypeOK
  <2>. QED BY <1>0, <1>10, <2>1 DEF Dequeue
<1>11. ASSUME NEW u \in Receivers, Sent(u) \/ SendFailed(u)
       PROVE  Roles' /\ Texts'
  BY <1>0, <1>11 DEF Sent, SendFailed
<1>12. CASE UNCHANGED vars
  BY <1>12 DEF vars
<1>. QED
  BY <1>0, <1>1, <1>2, <1>3, <1>4, <1>5, <1>6, <1>7, <1>8, <1>9, <1>10, <1>11, <1>12
  DEF Next, Sender, Receiver, FindRoom

\* The registry only changes under its mutex, by a thread that knows the name
\* is absent, and gets a Room no thread points to.
LEMMA RegistryStep == IInv /\ [Next]_vars => Registered' /\ Finding' /\ Pointers'
<1>. DEFINE Goal == Registered' /\ Finding' /\ Pointers'
<1>. SUFFICES ASSUME IInv, [Next]_vars PROVE Goal
  OBVIOUS
<1>. USE ThreadAssumption, ValueAssumption DEF IInv, Registered, Finding, Pointers, Holding
<1>0. /\ Senders \subseteq Threads /\ Receivers \subseteq Threads
      /\ pc \in [Threads -> PC] /\ name \in [Threads -> AllNames]
      /\ room \in [Threads -> RoomIds \cup {NoRoom}]
      /\ seen \in [Threads -> RoomIds \cup {NoRoom}]
      /\ m_rooms \in [AllNames -> RoomIds \cup {NoRoom}]
      /\ room_name \in [RoomIds -> AllNames \cup {Nowhere}]
  BY DEF Threads, TypeOK
\* Steps that leave the registry and the pointers alone, and do not bring a
\* thread to a point where it needs one.
<1>1. ASSUME NEW t \in Threads, NEW l, pc' = [pc EXCEPT ![t] = l],
             l \in Holding => pc[t] \in Holding, l # "find",
             UNCHANGED <<m_rooms, m_lock, room_name, room, seen, name>>
      PROVE  Goal
  BY <1>0, <1>1
<1>2. ASSUME NEW t \in Threads, FindLock(t) PROVE Goal
  <2>1. /\ pc' = [pc EXCEPT ![t] = "find"]
        /\ m_lock = NoThread /\ m_lock' = t
        /\ seen' = [seen EXCEPT ![t] = m_rooms[name[t]]]
        /\ UNCHANGED <<m_rooms, room_name, room, name>>
    BY <1>2 DEF FindLock, Goto, objects
  <2>2. NoThread \notin Threads
    OBVIOUS
  <2>. QED BY <1>0, <2>1, <2>2
<1>3. ASSUME NEW t \in Threads, FindExisting(t) PROVE Goal
  <2>1. \E l \in {"addLock", "castLock", "idle"} : pc' = [pc EXCEPT ![t] = l]
    BY <1>3 DEF FindExisting, Found, Goto
  <2>2. /\ pc[t] = "find" /\ seen[t] # NoRoom
        /\ room' = [room EXCEPT ![t] = seen[t]]
        /\ seen' = [seen EXCEPT ![t] = NoRoom]
        /\ UNCHANGED <<m_rooms, room_name, name>>
    BY <1>3 DEF FindExisting, Found, objects
  <2>3. \A u \in Threads : pc[u] = "find" => u = t
    BY <2>2
  <2>4. /\ seen[t] \in RoomIds /\ m_rooms[name[t]] = seen[t]
        /\ room_name[seen[t]] = name[t]
    BY <1>0, <2>2
  <2>5. Registered'
    BY <2>2
  <2>6. Finding'
    BY <1>0, <2>1, <2>2, <2>3
  <2>7. Pointers'
    BY <1>0, <2>1, <2>2, <2>4
  <2>. QED BY <2>5, <2>6, <2>7
<1>4. ASSUME NEW t \in Threads, CreateRoom(t) PROVE Goal
  <2>1. \E l \in {"addLock", "castLock", "idle"} : pc' = [pc EXCEPT ![t] = l]
    BY <1>4 DEF CreateRoom, Found, Goto
  <2>2. PICK r \in RoomIds :
          /\ room_name[r] = Nowhere
          /\ room_name' = [room_name EXCEPT ![r] = name[t]]
          /\ m_rooms' = [m_rooms EXCEPT ![name[t]] = IF @ = NoRoom THEN r ELSE @]
          /\ room' = [room EXCEPT ![t] = r]
    BY <1>4 DEF CreateRoom, Found
  <2>3. pc[t] = "find" /\ seen[t] = NoRoom /\ UNCHANGED <<name, seen>>
    BY <1>4 DEF CreateRoom
  <2>4. m_rooms[name[t]] = NoRoom /\ m_rooms' = [m_rooms EXCEPT ![name[t]] = r]
    BY <1>0, <2>2, <2>3
  <2>5. \A u \in Threads : pc[u] = "find" => u = t
    BY <2>3
  <2>6. \A n \in AllNames : m_rooms[n] # r
    BY <1>0, <2>2
  <2>7. Registered'
    BY <1>0, <2>2, <2>4, <2>6
  <2>8. Finding'
    BY <1>0, <2>1, <2>3, <2>5
  <2>9. Pointers'
    <3>. SUFFICES ASSUME NEW u \in Threads, pc'[u] \in Holding
                  PROVE  /\ room'[u] \in RoomIds
                         /\ m_rooms'[name'[u]] = room'[u]
                         /\ room_name'[room'[u]] = name'[u]
      BY DEF Pointers, Holding
    <3>1. CASE u = t
      BY <1>0, <2>2, <2>3, <2>4, <3>1
    <3>2. CASE u # t
      <4>1. /\ room[u] \in RoomIds /\ m_rooms[name[u]] = room[u]
            /\ room_name[room[u]] = name[u] /\ room'[u] = room[u]
        BY <1>0, <2>1, <2>2, <3>2
      <4>2. room[u] # r /\ name[u] # name[t]
        BY <1>0, <2>4, <2>6, <4>1
      <4>. QED BY <1>0, <2>2, <2>3, <2>4, <4>1, <4>2
    <3>. QED BY <3>1, <3>2
  <2>. QED BY <2>7, <2>8, <2>9
<1>. DEFINE Quiet(t, l) ==
       /\ pc' = [pc EXCEPT ![t] = l]
       /\ UNCHANGED <<m_rooms, m_lock, room_name, room, seen, name>>
<1>5. ASSUME NEW t \in Threads, NEW l, Quiet(t, l),
             l \in Holding => pc[t] \in Holding, l # "find"
      PROVE  Goal
  BY <1>1, <1>5
<1>. USE DEF server, objects, users, locals, Goto
<1>6. ASSUME NEW s \in Senders, NEW n \in Names, CallJoin(s, n) PROVE Goal
  BY <1>0, <1>6 DEF CallJoin
<1>7. ASSUME NEW s \in Senders, NEW m \in Messages, CallSendall(s, m) PROVE Goal
  BY <1>0, <1>7 DEF CallSendall
<1>8. ASSUME NEW s \in Senders, LeaveRoom(s) PROVE Goal
  BY <1>8 DEF LeaveRoom
<1>9. ASSUME NEW u \in Receivers, NEW n \in Names, CallReceive(u, n) PROVE Goal
  BY <1>0, <1>9 DEF CallReceive
<1>10. ASSUME NEW s \in Senders, Broadcast(s) PROVE Goal
  <2>1. CASE BroadcastLock(s)
    <3>1. Quiet(s, "cast") /\ pc[s] = "castLock"
      BY <2>1 DEF BroadcastLock
    <3>. QED BY <1>0, <1>5, <3>1
  <2>2. CASE NextMember(s)
    <3>1. Quiet(s, "enqueue") /\ pc[s] = "cast"
      BY <2>2 DEF NextMember
    <3>. QED BY <1>0, <1>5, <3>1
  <2>3. CASE EnqueueTo(s)
    <3>1. Quiet(s, "cast") /\ pc[s] = "enqueue"
      BY <2>3 DEF EnqueueTo
    <3>. QED BY <1>0, <1>5, <3>1
  <2>4. CASE BroadcastDone(s)
    <3>1. Quiet(s, "idle")
      BY <2>4 DEF BroadcastDone
    <3>. QED BY <1>0, <1>5, <3>1
  <2>. QED BY <1>10, <2>1, <2>2, <2>3, <2>4 DEF Broadcast
<1>11. ASSUME NEW u \in Receivers,
              AddLock(u) \/ AddMember(u) \/ RemoveLock(u) \/ RemoveMember(u)
       PROVE  Goal
  <2>1. CASE AddLock(u)
    <3>1. Quiet(u, "add") /\ pc[u] = "addLock"
      BY <2>1 DEF AddLock
    <3>. QED BY <1>0, <1>5, <3>1
  <2>2. CASE AddMember(u)
    <3>1. Quiet(u, "joinOk") /\ pc[u] = "add"
      BY <2>2 DEF AddMember
    <3>. QED BY <1>0, <1>5, <3>1
  <2>3. CASE RemoveLock(u)
    <3>1. Quiet(u, "remove") /\ pc[u] = "removeLock"
      BY <2>3 DEF RemoveLock
    <3>. QED BY <1>0, <1>5, <3>1
  <2>4. CASE RemoveMember(u)
    <3>1. Quiet(u, "gone")
      BY <2>4 DEF RemoveMember
    <3>. QED BY <1>0, <1>5, <3>1
  <2>. QED BY <1>11, <2>1, <2>2, <2>3, <2>4
<1>12. ASSUME NEW u \in Receivers,
              JoinReplied(u) \/ Dequeue(u) \/ Sent(u) \/ SendFailed(u)
       PROVE  Goal
  <2>1. pc[u] \in Holding /\ \E l \in {"loop", "removeLock", "send"} : Quiet(u, l)
    BY <1>12 DEF JoinReplied, Dequeue, Sent, SendFailed
  <2>. QED BY <1>0, <1>5, <2>1
<1>13. CASE UNCHANGED vars
  BY <1>13 DEF vars
<1>14. ASSUME NEW s \in Senders, Sender(s) PROVE Goal
  <2>1. s \in Threads
    BY <1>0
  <2>. QED
    BY <2>1, <1>2, <1>3, <1>4, <1>5, <1>6, <1>7, <1>8, <1>10, <1>14
    DEF Sender, FindRoom
<1>15. ASSUME NEW u \in Receivers, Receiver(u) PROVE Goal
  <2>1. u \in Threads
    BY <1>0
  <2>. QED
    BY <2>1, <1>2, <1>3, <1>4, <1>5, <1>9, <1>11, <1>12, <1>15
    DEF Receiver, FindRoom
<1>. QED BY <1>13, <1>14, <1>15 DEF Next

\* A thread enters a Room's methods by taking its mutex and leaves them by
\* releasing it.
LEMMA OwnedStep == IInv /\ [Next]_vars => Owned'
<1>. SUFFICES ASSUME IInv, [Next]_vars PROVE Owned'
  OBVIOUS
<1>. USE ThreadAssumption DEF IInv, Owned, Inside, Goto, server, objects, users, locals
<1>0. /\ Senders \subseteq Threads /\ Receivers \subseteq Threads
      /\ NoThread \notin Threads
      /\ pc \in [Threads -> PC] /\ room \in [Threads -> RoomIds \cup {NoRoom}]
      /\ lock \in [RoomIds -> Threads \cup {NoThread}]
  BY DEF Threads, TypeOK
<1>1. ASSUME NEW t \in Threads, NEW l, pc' = [pc EXCEPT ![t] = l],
             l \in Inside => pc[t] \in Inside, UNCHANGED <<lock, room>>
      PROVE  Owned'
  BY <1>0, <1>1
<1>2. ASSUME NEW t \in Threads, NEW l, pc' = [pc EXCEPT ![t] = l],
             room[t] \in RoomIds, Guard(t), room' = room
      PROVE  Owned'
  BY <1>0, <1>2 DEF Guard
<1>3. ASSUME NEW t \in Threads, NEW l, pc' = [pc EXCEPT ![t] = l],
             pc[t] \in Inside, l \notin Inside, Unguard(t), room' = room
      PROVE  Owned'
  BY <1>0, <1>3 DEF Unguard
<1>4. ASSUME NEW s \in Senders, NEW n \in Names, CallJoin(s, n) PROVE Owned'
  BY <1>0, <1>1, <1>4 DEF CallJoin
<1>5. ASSUME NEW s \in Senders, NEW m \in Messages, CallSendall(s, m) PROVE Owned'
  BY <1>0, <1>1, <1>5 DEF CallSendall
<1>6. ASSUME NEW s \in Senders, LeaveRoom(s) PROVE Owned'
  BY <1>6 DEF LeaveRoom
<1>7. ASSUME NEW u \in Receivers, NEW n \in Names, CallReceive(u, n) PROVE Owned'
  BY <1>0, <1>1, <1>7 DEF CallReceive
<1>8. ASSUME NEW t \in Threads, FindLock(t) PROVE Owned'
  BY <1>0, <1>1, <1>8 DEF FindLock
<1>9. ASSUME NEW t \in Threads, FindExisting(t) \/ CreateRoom(t) PROVE Owned'
  <2>1. /\ \E l \in {"addLock", "castLock", "idle"} : pc' = [pc EXCEPT ![t] = l]
        /\ \E r : room' = [room EXCEPT ![t] = r]
        /\ lock' = lock
    BY <1>9 DEF FindExisting, CreateRoom, Found
  <2>. QED BY <1>0, <2>1
<1>10. ASSUME NEW s \in Senders, Broadcast(s) PROVE Owned'
  <2>1. CASE BroadcastLock(s)
    <3>1. room[s] \in RoomIds
      BY <1>0, <2>1 DEF BroadcastLock, Pointers, Holding
    <3>. QED BY <1>0, <1>2, <2>1, <3>1 DEF BroadcastLock
  <2>2. CASE NextMember(s) \/ EnqueueTo(s)
    BY <1>0, <1>1, <2>2 DEF NextMember, EnqueueTo
  <2>3. CASE BroadcastDone(s)
    BY <1>0, <1>3, <2>3 DEF BroadcastDone
  <2>. QED BY <1>10, <2>1, <2>2, <2>3 DEF Broadcast
<1>11. ASSUME NEW u \in Receivers, AddLock(u) \/ RemoveLock(u) PROVE Owned'
  <2>1. room[u] \in RoomIds
    BY <1>0, <1>11 DEF AddLock, RemoveLock, Pointers, Holding
  <2>. QED BY <1>0, <1>2, <1>11, <2>1 DEF AddLock, RemoveLock
<1>12. ASSUME NEW u \in Receivers, AddMember(u) \/ RemoveMember(u) PROVE Owned'
  BY <1>0, <1>3, <1>12 DEF AddMember, RemoveMember
<1>13. ASSUME NEW u \in Receivers,
              JoinReplied(u) \/ Dequeue(u) \/ Sent(u) \/ SendFailed(u)
       PROVE  Owned'
  BY <1>0, <1>1, <1>13 DEF JoinReplied, Dequeue, Sent, SendFailed
<1>14. CASE UNCHANGED vars
  BY <1>14 DEF vars
<1>. QED
  BY <1>0, <1>4, <1>5, <1>6, <1>7, <1>8, <1>9, <1>10, <1>11, <1>12, <1>13, <1>14
  DEF Next, Sender, Receiver, FindRoom

\* The members of a Room change only while nobody's iterator points to one:
\* whoever changes them and whoever walks them hold the same mutex.
LEMMA MembersStep == IInv /\ [Next]_vars => MembersAreServed' /\ IteratorValid'
<1>. DEFINE Goal == MembersAreServed' /\ IteratorValid'
<1>. SUFFICES ASSUME IInv, [Next]_vars PROVE Goal
  OBVIOUS
<1>. USE ThreadAssumption
     DEF IInv, MembersAreServed, IteratorValid, MemberPC, Goto,
         server, objects, users, locals
<1>0. /\ Senders \subseteq Threads /\ Receivers \subseteq Threads
      /\ pc \in [Threads -> PC] /\ room \in [Threads -> RoomIds \cup {NoRoom}]
      /\ members \in [RoomIds -> SUBSET Receivers]
      /\ it \in [Senders -> Receivers \cup {NoThread}]
  BY DEF Threads, TypeOK
<1>1. ASSUME NEW t \in Threads, NEW l, pc' = [pc EXCEPT ![t] = l],
             t \in Receivers => (l \in MemberPC <=> pc[t] \in MemberPC),
             l # "enqueue", UNCHANGED <<members, room>>,
             \A s \in Senders : s # t => it'[s] = it[s]
      PROVE  Goal
  BY <1>0, <1>1
<1>2. ASSUME NEW s \in Senders, NEW n \in Names, CallJoin(s, n) PROVE Goal
  BY <1>0, <1>1, <1>2 DEF CallJoin
<1>3. ASSUME NEW s \in Senders, NEW m \in Messages, CallSendall(s, m) PROVE Goal
  BY <1>0, <1>1, <1>3 DEF CallSendall
<1>4. ASSUME NEW s \in Senders, LeaveRoom(s) PROVE Goal
  BY <1>4 DEF LeaveRoom
<1>5. ASSUME NEW u \in Receivers, NEW n \in Names, CallReceive(u, n) PROVE Goal
  BY <1>0, <1>1, <1>5 DEF CallReceive
<1>6. ASSUME NEW t \in Threads, FindLock(t) PROVE Goal
  BY <1>0, <1>1, <1>6 DEF FindLock
<1>7. ASSUME NEW t \in Threads, FindExisting(t) \/ CreateRoom(t) PROVE Goal
  <2>1. /\ pc[t] = "find"
        /\ \E l \in {"addLock", "castLock", "idle"} : pc' = [pc EXCEPT ![t] = l]
        /\ \E r : room' = [room EXCEPT ![t] = r]
        /\ UNCHANGED <<members, it>>
    BY <1>7 DEF FindExisting, CreateRoom, Found
  <2>. QED BY <1>0, <2>1
<1>8. ASSUME NEW s \in Senders, Broadcast(s) PROVE Goal
  <2>1. CASE NextMember(s)
    BY <1>0, <2>1 DEF NextMember
  <2>2. CASE BroadcastLock(s) \/ EnqueueTo(s) \/ BroadcastDone(s)
    BY <1>0, <1>1, <2>2 DEF BroadcastLock, EnqueueTo, BroadcastDone
  <2>. QED BY <1>8, <2>1, <2>2 DEF Broadcast
<1>9. ASSUME NEW u \in Receivers, AddLock(u) \/ RemoveLock(u) PROVE Goal
  BY <1>0, <1>1, <1>9 DEF AddLock, RemoveLock
<1>10. ASSUME NEW u \in Receivers, AddMember(u) PROVE Goal
  <2>1. /\ pc' = [pc EXCEPT ![u] = "joinOk"] /\ UNCHANGED <<room, it>>
        /\ members' = [members EXCEPT ![room[u]] = members[room[u]] \cup {u}]
    BY <1>10 DEF AddMember
  <2>2. MembersAreServed'
    BY <1>0, <2>1
  <2>3. IteratorValid'
    <3>. SUFFICES ASSUME NEW s \in Senders, pc'[s] = "enqueue"
                  PROVE  it[s] \in members'[room[s]]
      BY <2>1
    <3>1. pc[s] = "enqueue" /\ room[s] \in RoomIds
      BY <1>0, <2>1 DEF Pointers, Holding
    <3>. QED BY <1>0, <2>1, <3>1
  <2>. QED BY <2>2, <2>3
<1>11. ASSUME NEW u \in Receivers, RemoveMember(u) PROVE Goal
  <2>1. /\ pc[u] = "remove" /\ pc' = [pc EXCEPT ![u] = "gone"]
        /\ UNCHANGED <<room, it>>
        /\ members' = [members EXCEPT ![room[u]] = members[room[u]] \ {u}]
    BY <1>11 DEF RemoveMember
  <2>2. MembersAreServed'
    BY <1>0, <2>1
  <2>3. IteratorValid'
    <3>. SUFFICES ASSUME NEW s \in Senders, pc'[s] = "enqueue"
                  PROVE  it[s] \in members'[room[s]]
      BY <2>1
    <3>1. pc[s] = "enqueue" /\ room[s] \in RoomIds /\ s # u
      BY <1>0, <2>1 DEF Pointers, Holding
    <3>2. lock[room[s]] = s /\ lock[room[u]] = u
      BY <1>0, <2>1, <3>1 DEF Owned, Inside
    <3>. QED BY <1>0, <2>1, <3>1, <3>2
  <2>. QED BY <2>2, <2>3
<1>12. ASSUME NEW u \in Receivers,
              JoinReplied(u) \/ Dequeue(u) \/ Sent(u) \/ SendFailed(u)
       PROVE  Goal
  BY <1>0, <1>1, <1>12 DEF JoinReplied, Dequeue, Sent, SendFailed
<1>13. CASE UNCHANGED vars
  BY <1>13 DEF vars
<1>. QED
  BY <1>0, <1>2, <1>3, <1>4, <1>5, <1>6, <1>7, <1>8, <1>9, <1>10, <1>11, <1>12, <1>13
  DEF Next, Sender, Receiver, FindRoom

LEMMA Invariant == SafeSpec => []IInv
<1>1. IInv /\ [Next]_vars => IInv'
  BY TypeStep, RolesStep, RegistryStep, OwnedStep, MembersStep DEF IInv
<1>. QED BY InitInvariant, <1>1, PTL DEF SafeSpec

------------------------------------------------------------------------------

\* Every variable keeps its type.
THEOREM TypeCorrect == SafeSpec => []TypeOK
<1>1. IInv => TypeOK
  BY DEF IInv
<1>. QED BY Invariant, <1>1, PTL

\* server.cpp:294-295: the mutex around lookup and insertion makes the Room of
\* a name unique, and the pointer every thread holds is the registered one.
THEOREM OneRoomPerName == SafeSpec => []UniqueRoom
<1>1. IInv => UniqueRoom
  BY DEF IInv, Pointers, Holding, UniqueRoom
<1>. QED BY Invariant, <1>1, PTL

\* README.txt:16-23: no add_member or remove_member invalidates the iterator
\* of a broadcast.
THEOREM IteratorStaysValid == SafeSpec => []IteratorValid
<1>1. IInv => IteratorValid
  BY DEF IInv
<1>. QED BY Invariant, <1>1, PTL

\* room.cpp:20-46: a Room's set is exactly the Users whose threads are between
\* add_member and remove_member in that room.
THEOREM MembersExact == SafeSpec => []MembersAreServed
<1>1. IInv => MembersAreServed
  BY DEF IInv
<1>. QED BY Invariant, <1>1, PTL

\* room.cpp:40-46: a broadcast that runs after remove_member leaves the queue
\* of the user that left alone.
THEOREM NothingAfterLeaving == SafeSpec => GoneGetsNothing
<1>. DEFINE Quiet == \A u \in Receivers : pc[u] = "gone" => mqueue'[u] = mqueue[u]
<1>1. IInv /\ [Next]_vars => [Quiet]_vars
  <2>. SUFFICES ASSUME IInv, [Next]_vars PROVE Quiet \/ UNCHANGED vars
    OBVIOUS
  <2>. USE DEF server, objects, users, locals
  <2>1. ASSUME NEW s \in Senders, EnqueueTo(s) PROVE Quiet
    <3>1. room[s] \in RoomIds /\ it[s] \in members[room[s]]
      BY <2>1 DEF EnqueueTo, IInv, TypeOK, Threads, IteratorValid, Pointers, Holding
    <3>2. pc[it[s]] # "gone" /\ it[s] \in Receivers
      BY <3>1 DEF IInv, MembersAreServed, MemberPC
    <3>. QED BY <2>1, <3>2 DEF EnqueueTo, IInv, TypeOK
  <2>2. ASSUME NEW u \in Receivers, Dequeue(u) PROVE Quiet
    BY <2>2 DEF Dequeue, IInv, TypeOK
  <2>3. ASSUME NEW s \in Senders, Sender(s), ~EnqueueTo(s) PROVE mqueue' = mqueue
    BY <2>3 DEF Sender, CallJoin, CallSendall, LeaveRoom, FindRoom, FindLock,
                FindExisting, CreateRoom, Broadcast, BroadcastLock, NextMember,
                BroadcastDone
  <2>4. ASSUME NEW u \in Receivers, Receiver(u), ~Dequeue(u) PROVE mqueue' = mqueue
    BY <2>4 DEF Receiver, CallReceive, FindRoom, FindLock, FindExisting, CreateRoom,
                AddLock, AddMember, JoinReplied, Sent, SendFailed, RemoveLock,
                RemoveMember
  <2>. QED BY <2>1, <2>2, <2>3, <2>4 DEF Next
<1>. QED BY Invariant, <1>1, PTL DEF SafeSpec, GoneGetsNothing

------------------------------------------------------------------------------
(* What is sent to a receiver *)

Following == {"joinOk", "loop", "send"}

\* s is broadcasting to u's Room and has not come to u yet.
Casting(s, u) ==
  pc[s] \in {"cast", "enqueue"} /\ room[s] = room[u] /\ u \notin sent[s]

\* A broadcast starts with nobody behind its iterator, and comes to nobody twice.
Behind ==
  \A s \in Senders :
    /\ pc[s] \notin {"cast", "enqueue"} => sent[s] = {}
    /\ pc[s] = "enqueue" => it[s] \notin sent[s]

\* Nothing is queued for a receiver or sent to it before it is a member.
Fresh ==
  \A u \in Receivers :
    pc[u] \in {"idle", "findLock", "find", "addLock", "add"}
      => got[u] = <<>> /\ mqueue[u] = <<>>

\* A log only grows.
Started ==
  \A u \in Receivers : pc[u] \in Following => start[u] <= Len(log[name[u]])

OInv == IInv /\ Behind /\ Fresh /\ Started /\ NothingMissedOrDoubled

\* At most one broadcast runs in a Room: what a member is owed is its text.
OwedIsOne ==
  \A u \in Receivers :
    /\ (\A s \in Senders : ~Casting(s, u)) => Owed(u) = <<>>
    /\ \A s \in Senders : Casting(s, u) => Owed(u) = <<msg[s]>>

LEMMA OneBroadcast == Owned => OwedIsOne
<1>. SUFFICES ASSUME Owned, NEW u \in Receivers
              PROVE  /\ (\A s \in Senders : ~Casting(s, u)) => Owed(u) = <<>>
                     /\ \A s \in Senders : Casting(s, u) => Owed(u) = <<msg[s]>>
  BY DEF OwedIsOne
<1>. DEFINE S == {s \in Senders : Casting(s, u)}
<1>1. Owed(u) = IF S = {} THEN <<>> ELSE <<msg[CHOOSE s \in S : TRUE]>>
  BY DEF Owed, Casting
<1>2. ASSUME NEW s \in S PROVE S = {s}
  BY <1>2 DEF Owned, Inside, Casting, Threads
<1>. QED BY <1>1, <1>2

LEMMA OneBroadcastNext == Owned' => OwedIsOne'
BY OneBroadcast, PTL

\* The end of a sequence from some place on, when an element is appended.
LEMMA EndOfAppend ==
  ASSUME NEW S, NEW s \in Seq(S), NEW e \in S, NEW k \in 0 .. Len(s)
  PROVE  SubSeq(Append(s, e), k + 1, Len(Append(s, e))) = SubSeq(s, k + 1, Len(s)) \o <<e>>
<1>1. /\ Append(s, e) \in Seq(S) /\ Len(Append(s, e)) = Len(s) + 1
      /\ \A i \in 1 .. Len(s) : Append(s, e)[i] = s[i]
      /\ Append(s, e)[Len(s) + 1] = e /\ Len(s) \in Nat
  BY AppendProperties, LenProperties
<1>2. SubSeq(Append(s, e), k + 1, Len(s) + 1) = SubSeq(Append(s, e), k + 1, Len(s)) \o <<e>>
  <2>. DEFINE a == Append(s, e)
             n == Len(s) + 1
  <2>1. a \in Seq(S) /\ k + 1 \in 1 .. Len(a) /\ n \in k + 1 .. Len(a) /\ a[n] = e
    BY <1>1
  <2>2. SubSeq(a, k + 1, n) = SubSeq(a, k + 1, n - 1) \o <<a[n]>>
    <3>. HIDE DEF a, n
    <3>. QED BY <2>1, SubSeqRecursiveSecond
  <2>3. n - 1 = Len(s)
    BY <1>1
  <2>. QED BY <2>1, <2>2, <2>3
<1>3. SubSeq(Append(s, e), k + 1, Len(s)) = SubSeq(s, k + 1, Len(s))
  BY <1>1
<1>. QED BY <1>1, <1>2, <1>3

\* What follows `messages of a member' in NothingMissedOrDoubled is a sequence
\* of Messages.
LEMMA PartsAreSequences ==
  ASSUME TypeOK, Texts, OwedIsOne, NEW u \in Receivers
  PROVE  /\ got[u] \in Seq(Messages) /\ Pending(u) \in Seq(Messages)
         /\ mqueue[u] \in Seq(Messages) /\ Owed(u) \in Seq(Messages)
<1>1. got[u] \in Seq(Messages) /\ mqueue[u] \in Seq(Messages)
  BY DEF TypeOK
<1>2. Pending(u) \in Seq(Messages)
  BY DEF Pending, Texts
<1>3. Owed(u) \in Seq(Messages)
  <2>1. CASE \A s \in Senders : ~Casting(s, u)
    <3>1. Owed(u) = <<>>
      BY <2>1, Zenon DEF OwedIsOne
    <3>. QED BY <3>1
  <2>2. CASE \E s \in Senders : Casting(s, u)
    <3>1. PICK s \in Senders : Casting(s, u)
      BY <2>2
    <3>2. Owed(u) = <<msg[s]>>
      BY <3>1, Zenon DEF OwedIsOne
    <3>3. msg[s] \in Messages
      BY <3>1 DEF Casting, Texts
    <3>. QED BY <3>2, <3>3
  <2>. QED BY <2>1, <2>2
<1>. QED BY <1>1, <1>2, <1>3

\* A broadcast marks who is behind its iterator, and forgets it at its end.
LEMMA BehindStep == IInv /\ Behind /\ [Next]_vars => Behind'
<1>. SUFFICES ASSUME IInv, Behind, [Next]_vars PROVE Behind'
  OBVIOUS
<1>. USE DEF Behind, Goto, server, objects, users, locals
<1>0. /\ Senders \subseteq Threads /\ pc \in [Threads -> PC]
      /\ it \in [Senders -> Receivers \cup {NoThread}]
      /\ sent \in [Senders -> SUBSET Receivers]
      /\ Senders \cap Receivers = {}
  BY ThreadAssumption DEF Threads, IInv, TypeOK
<1>1. ASSUME NEW t \in Threads, NEW l, l \notin {"cast", "enqueue"},
             pc[t] \notin {"cast", "enqueue"},
             pc' = [pc EXCEPT ![t] = l], UNCHANGED <<it, sent>>
      PROVE  Behind'
  BY <1>0, <1>1
<1>2. ASSUME NEW s \in Senders, Broadcast(s) PROVE Behind'
  <2>1. CASE BroadcastLock(s)
    BY <1>0, <2>1 DEF BroadcastLock
  <2>2. CASE NextMember(s)
    BY <1>0, <2>2 DEF NextMember
  <2>3. CASE EnqueueTo(s)
    <3>1. it[s] \in Receivers /\ room[s] \in RoomIds
      BY <1>0, <2>3
      DEF EnqueueTo, IInv, TypeOK, IteratorValid, Pointers, Holding
    <3>. QED BY <1>0, <2>3, <3>1 DEF EnqueueTo
  <2>4. CASE BroadcastDone(s)
    BY <1>0, <2>4 DEF BroadcastDone
  <2>. QED BY <1>2, <2>1, <2>2, <2>3, <2>4 DEF Broadcast
<1>3. ASSUME NEW t \in Threads, FindRoom(t) PROVE Behind'
  <2>1. /\ pc[t] \in {"find", "findLock"} /\ UNCHANGED <<it, sent>>
        /\ \E l \in {"find", "addLock", "castLock", "idle"} : pc' = [pc EXCEPT ![t] = l]
    BY <1>3 DEF FindRoom, FindLock, FindExisting, CreateRoom, Found
  <2>. QED BY <1>1, <2>1
<1>4. ASSUME NEW s \in Senders, Sender(s), ~Broadcast(s), ~FindRoom(s) PROVE Behind'
  BY <1>0, <1>1, <1>4 DEF Sender, CallJoin, CallSendall, LeaveRoom
<1>5. ASSUME NEW u \in Receivers, Receiver(u), ~FindRoom(u) PROVE Behind'
  <2>1. /\ u \in Threads /\ u \notin Senders /\ UNCHANGED <<it, sent>>
        /\ \E l : pc' = [pc EXCEPT ![u] = l]
    BY <1>0, <1>5
    DEF Threads, Receiver, CallReceive, AddLock, AddMember, JoinReplied, Dequeue, Sent,
        SendFailed, RemoveLock, RemoveMember
  <2>. QED BY <1>0, <2>1
<1>6. CASE UNCHANGED vars
  BY <1>6 DEF vars
<1>. QED BY <1>0, <1>2, <1>3, <1>4, <1>5, <1>6 DEF Next, Sender, Receiver, Threads

\* Only members are queued messages, and only members are sent any.
LEMMA FreshStep == IInv /\ Fresh /\ [Next]_vars => Fresh'
<1>. SUFFICES ASSUME IInv, Fresh, [Next]_vars PROVE Fresh'
  OBVIOUS
<1>. USE DEF Fresh, Goto, server, objects, users, locals, history
<1>0. /\ Receivers \subseteq Threads /\ Senders \subseteq Threads /\ pc \in [Threads -> PC]
      /\ mqueue \in [Receivers -> Seq(Messages)] /\ got \in [Receivers -> Seq(Messages)]
      /\ Senders \cap Receivers = {}
  BY ThreadAssumption DEF Threads, IInv, TypeOK
<1>1. ASSUME NEW s \in Senders, EnqueueTo(s) PROVE Fresh'
  <2>1. room[s] \in RoomIds /\ it[s] \in members[room[s]]
    BY <1>0, <1>1 DEF EnqueueTo, IInv, TypeOK, IteratorValid, Pointers, Holding
  <2>2. it[s] \in Receivers /\ pc[it[s]] \in MemberPC
    BY <2>1 DEF IInv, MembersAreServed
  <2>. QED BY <1>0, <1>1, <2>2 DEF EnqueueTo, MemberPC
<1>2. ASSUME NEW s \in Senders, Sender(s), ~EnqueueTo(s) PROVE Fresh'
  <2>1. UNCHANGED <<mqueue, got>> /\ \A u \in Receivers : pc'[u] = pc[u]
    BY <1>0, <1>2
    DEF Sender, CallJoin, CallSendall, LeaveRoom, FindRoom, FindLock, FindExisting,
        CreateRoom, Found, Broadcast, BroadcastLock, NextMember, BroadcastDone
  <2>. QED BY <2>1
<1>3. ASSUME NEW u \in Receivers,
             (\E n \in Names : CallReceive(u, n)) \/ FindRoom(u) \/ AddLock(u)
      PROVE  Fresh'
  <2>1. /\ pc[u] \in {"idle", "findLock", "find", "addLock"}
        /\ UNCHANGED <<mqueue, got>> /\ \E l : pc' = [pc EXCEPT ![u] = l]
    BY <1>3 DEF CallReceive, FindRoom, FindLock, FindExisting, CreateRoom, Found, AddLock
  <2>. QED BY <1>0, <2>1
<1>4. ASSUME NEW u \in Receivers,
             \/ AddMember(u) \/ JoinReplied(u) \/ Dequeue(u) \/ Sent(u) \/ SendFailed(u)
             \/ RemoveLock(u) \/ RemoveMember(u)
      PROVE  Fresh'
  <2>1. /\ \E l \in {"joinOk", "loop", "removeLock", "send", "remove", "gone"} :
             pc' = [pc EXCEPT ![u] = l]
        /\ \A v \in Receivers : v # u => mqueue'[v] = mqueue[v] /\ got'[v] = got[v]
    BY <1>0, <1>4
    DEF AddMember, JoinReplied, Dequeue, Sent, SendFailed, RemoveLock, RemoveMember
  <2>. QED BY <1>0, <2>1
<1>5. CASE UNCHANGED vars
  BY <1>5 DEF vars
<1>. QED BY <1>1, <1>2, <1>3, <1>4, <1>5 DEF Next, Receiver

\* A receiver starts at the end of its room's log, and the log only grows.
LEMMA StartedStep == IInv /\ Started /\ [Next]_vars => Started'
<1>. SUFFICES ASSUME IInv, Started, [Next]_vars PROVE Started'
  OBVIOUS
<1>. USE DEF Started, Goto, server, objects, users, locals, history, Following
<1>0. /\ Receivers \subseteq Threads /\ Senders \subseteq Threads /\ pc \in [Threads -> PC]
      /\ Senders \cap Receivers = {} /\ name \in [Threads -> AllNames]
      /\ start \in [Receivers -> Nat]
      /\ \A n \in AllNames : log[n] \in Seq(Messages) /\ Len(log[n]) \in Nat
  BY ThreadAssumption, LenProperties DEF Threads, IInv, TypeOK
<1>1. ASSUME NEW s \in Senders, BroadcastLock(s) PROVE Started'
  <2>1. msg[s] \in Messages
    BY <1>1 DEF BroadcastLock, IInv, Texts
  <2>2. log \in [AllNames -> Seq(Messages)] /\ name[s] \in AllNames
    BY <1>0 DEF IInv, TypeOK
  <2>3. Len(Append(log[name[s]], msg[s])) = Len(log[name[s]]) + 1
    BY <2>1, <2>2, <1>0, AppendProperties
  <2>4. log' = [log EXCEPT ![name[s]] = Append(log[name[s]], msg[s])]
    BY <1>1 DEF BroadcastLock
  <2>5. \A n \in AllNames : Len(log'[n]) >= Len(log[n]) /\ Len(log'[n]) \in Nat
    BY <1>0, <2>2, <2>3, <2>4
  <2>6. UNCHANGED <<start, name>> /\ \A u \in Receivers : pc'[u] = pc[u]
    BY <1>0, <1>1 DEF BroadcastLock
  <2>. QED BY <1>0, <2>5, <2>6
<1>2. ASSUME NEW s \in Senders, Sender(s), ~BroadcastLock(s) PROVE Started'
  <2>1. UNCHANGED <<log, start>> /\ \A u \in Receivers : pc'[u] = pc[u] /\ name'[u] = name[u]
    BY <1>0, <1>2
    DEF Sender, CallJoin, CallSendall, LeaveRoom, FindRoom, FindLock, FindExisting,
        CreateRoom, Found, Broadcast, NextMember, EnqueueTo, BroadcastDone
  <2>. QED BY <2>1
<1>3. ASSUME NEW u \in Receivers, AddMember(u) PROVE Started'
  BY <1>0, <1>3 DEF AddMember
<1>4. ASSUME NEW u \in Receivers, JoinReplied(u) \/ Dequeue(u) \/ Sent(u) PROVE Started'
  <2>1. pc[u] \in Following /\ \E l : pc' = [pc EXCEPT ![u] = l]
    BY <1>4 DEF JoinReplied, Dequeue, Sent
  <2>2. UNCHANGED <<log, start, name>>
    BY <1>4 DEF JoinReplied, Dequeue, Sent
  <2>. QED BY <1>0, <2>1, <2>2
<1>5. ASSUME NEW u \in Receivers,
             \/ \E n \in Names : CallReceive(u, n)
             \/ FindRoom(u) \/ AddLock(u) \/ SendFailed(u) \/ RemoveLock(u) \/ RemoveMember(u)
      PROVE  Started'
  <2>1. /\ UNCHANGED <<log, start>> /\ \A v \in Receivers : v # u => name'[v] = name[v]
        /\ \E l \in {"findLock", "find", "addLock", "castLock", "idle", "add",
                     "removeLock", "remove", "gone"} : pc' = [pc EXCEPT ![u] = l]
    BY <1>0, <1>5
    DEF CallReceive, FindRoom, FindLock, FindExisting, CreateRoom, Found,
        AddLock, SendFailed, RemoveLock, RemoveMember
  <2>. QED BY <1>0, <2>1
<1>6. CASE UNCHANGED vars
  BY <1>6 DEF vars
<1>. QED BY <1>1, <1>2, <1>3, <1>4, <1>5, <1>6 DEF Next, Receiver

\* What u is owed stays what it is while the same broadcast owes it.
LEMMA OwedSame ==
  ASSUME OwedIsOne, OwedIsOne', NEW u \in Receivers,
         \A s \in Senders : /\ Casting(s, u)' <=> Casting(s, u)
                            /\ Casting(s, u) => msg'[s] = msg[s]
  PROVE  Owed(u)' = Owed(u)
<1>1. CASE \A s \in Senders : ~Casting(s, u)
  <2>1. \A s \in Senders : ~Casting(s, u)'
    BY <1>1
  <2>2. Owed(u) = <<>> /\ Owed(u)' = <<>>
    BY <1>1, <2>1, Zenon DEF OwedIsOne
  <2>. QED BY <2>2
<1>2. CASE \E s \in Senders : Casting(s, u)
  <2>1. PICK s \in Senders : Casting(s, u)
    BY <1>2
  <2>2. Casting(s, u)' /\ msg'[s] = msg[s]
    BY <2>1
  <2>3. Owed(u) = <<msg[s]>> /\ Owed(u)' = <<msg'[s]>>
    BY <2>1, <2>2, Zenon DEF OwedIsOne
  <2>. QED BY <2>2, <2>3
<1>. QED BY <1>1, <1>2

\* Concatenation is associative.
Associate(s, t, u) == (s \o t) \o u = s \o (t \o u)

LEMMA Regroup ==
  ASSUME NEW T, NEW s \in Seq(T), NEW t \in Seq(T), NEW u \in Seq(T)
  PROVE  Associate(s, t, u)
BY ConcatAssociative DEF Associate

\* u was sent, is being sent, has queued and is owed its room's log since it joined.
Exact(u) ==
  got[u] \o Pending(u) \o mqueue[u] \o Owed(u)
    = SubSeq(log[name[u]], start[u] + 1, Len(log[name[u]]))

\* A step that changes none of what Exact says of u.
Untouched(u) ==
  /\ pc'[u] = pc[u] /\ name'[u] = name[u] /\ start'[u] = start[u]
  /\ got'[u] = got[u] /\ mqueue'[u] = mqueue[u]
  /\ pc[u] = "send" => msg'[u] = msg[u]
  /\ log'[name[u]] = log[name[u]]
  /\ \A s \in Senders : /\ Casting(s, u)' <=> Casting(s, u)
                        /\ Casting(s, u) => msg'[s] = msg[s]

LEMMA ExactUntouched ==
  ASSUME OwedIsOne, OwedIsOne', NEW u \in Receivers, Exact(u), Untouched(u)
  PROVE  Exact(u)'
<1>1. Owed(u)' = Owed(u)
  BY OwedSame DEF Untouched
<1>2. Pending(u)' = Pending(u)
  BY DEF Untouched, Pending
<1>. QED BY <1>1, <1>2 DEF Exact, Untouched

\* A sender that is not broadcasting, or goes on with a broadcast, touches nobody.
LEMMA SenderUntouched ==
  ASSUME OInv, NEW s \in Senders, Sender(s), NEW u \in Receivers, pc[u] \in Following,
         ~BroadcastLock(s), ~EnqueueTo(s), ~BroadcastDone(s)
  PROVE  Untouched(u)
<1>. USE DEF OInv, IInv, Goto, server, objects, users, locals, history, Following
<1>0. /\ Receivers \subseteq Threads /\ Senders \subseteq Threads /\ pc \in [Threads -> PC]
      /\ Senders \cap Receivers = {} /\ room \in [Threads -> RoomIds \cup {NoRoom}]
      /\ msg \in [Threads -> Messages \cup {NoMessage}] /\ name \in [Threads -> AllNames]
  BY ThreadAssumption DEF Threads, TypeOK
<1>1. /\ UNCHANGED <<log, start, got, mqueue, sent>>
      /\ \A t \in Threads : t # s => /\ pc'[t] = pc[t] /\ name'[t] = name[t]
                                     /\ room'[t] = room[t] /\ msg'[t] = msg[t]
  BY <1>0 DEF Sender, CallJoin, CallSendall, LeaveRoom, FindRoom, FindLock,
              FindExisting, CreateRoom, Found, Broadcast, NextMember
<1>2. \/ pc[s] \notin {"cast", "enqueue"} /\ pc'[s] \notin {"cast", "enqueue"}
      \/ /\ pc[s] \in {"cast", "enqueue"} /\ pc'[s] \in {"cast", "enqueue"}
         /\ UNCHANGED <<room, msg>>
  <2>1. CASE LeaveRoom(s)
    BY <1>0, <2>1 DEF LeaveRoom
  <2>2. CASE NextMember(s)
    BY <1>0, <2>2 DEF NextMember
  <2>3. CASE FindRoom(s)
    <3>1. /\ pc[s] \in {"findLock", "find"}
          /\ \E l \in {"find", "addLock", "castLock", "idle"} : pc' = [pc EXCEPT ![s] = l]
      BY <2>3 DEF FindRoom, FindLock, FindExisting, CreateRoom, Found
    <3>. QED BY <1>0, <3>1
  <2>4. CASE (\E n \in Names : CallJoin(s, n)) \/ (\E m \in Messages : CallSendall(s, m))
    BY <1>0, <2>4 DEF CallJoin, CallSendall
  <2>. QED BY <2>1, <2>2, <2>3, <2>4 DEF Sender, Broadcast
<1>3. \A v \in Senders : /\ Casting(v, u)' <=> Casting(v, u)
                         /\ Casting(v, u) => msg'[v] = msg[v]
  <2>. SUFFICES ASSUME NEW v \in Senders
                PROVE  /\ Casting(v, u)' <=> Casting(v, u)
                       /\ Casting(v, u) => msg'[v] = msg[v]
    OBVIOUS
  <2>1. CASE v = s
    BY <1>0, <1>1, <1>2, <2>1 DEF Casting
  <2>2. CASE v # s
    BY <1>0, <1>1, <2>2 DEF Casting
  <2>. QED BY <2>1, <2>2
<1>. QED BY <1>0, <1>1, <1>3 DEF Untouched

\* A receiver touches no other receiver.
LEMMA ReceiverUntouched ==
  ASSUME OInv, NEW v \in Receivers, Receiver(v), NEW u \in Receivers, u # v
  PROVE  Untouched(u)
<1>. USE DEF OInv, IInv, Goto, server, objects, users, locals, history
<1>0. /\ Receivers \subseteq Threads /\ Senders \subseteq Threads /\ pc \in [Threads -> PC]
      /\ Senders \cap Receivers = {} /\ room \in [Threads -> RoomIds \cup {NoRoom}]
      /\ msg \in [Threads -> Messages \cup {NoMessage}] /\ name \in [Threads -> AllNames]
      /\ got \in [Receivers -> Seq(Messages)] /\ mqueue \in [Receivers -> Seq(Messages)]
      /\ start \in [Receivers -> Nat]
  BY ThreadAssumption DEF Threads, TypeOK
<1>. DEFINE Only == /\ UNCHANGED <<log, sent>>
                    /\ \A t \in Threads : t # v => /\ pc'[t] = pc[t] /\ name'[t] = name[t]
                                                   /\ room'[t] = room[t] /\ msg'[t] = msg[t]
                    /\ \A w \in Receivers : w # v => /\ start'[w] = start[w] /\ got'[w] = got[w]
                                                     /\ mqueue'[w] = mqueue[w]
<1>1. CASE \E n \in Names : CallReceive(v, n)
  <2>1. Only
    BY <1>0, <1>1 DEF CallReceive
  <2>. QED BY <1>0, <2>1 DEF Untouched, Casting
<1>2. CASE FindRoom(v)
  <2>1. Only
    BY <1>0, <1>2 DEF FindRoom, FindLock, FindExisting, CreateRoom, Found
  <2>. QED BY <1>0, <2>1 DEF Untouched, Casting
<1>3. CASE AddLock(v) \/ AddMember(v) \/ RemoveLock(v) \/ RemoveMember(v)
  <2>1. Only
    BY <1>0, <1>3 DEF AddLock, AddMember, RemoveLock, RemoveMember
  <2>. QED BY <1>0, <2>1 DEF Untouched, Casting
<1>4. CASE JoinReplied(v) \/ Dequeue(v) \/ Sent(v) \/ SendFailed(v)
  <2>1. Only
    BY <1>0, <1>4 DEF JoinReplied, Dequeue, Sent, SendFailed
  <2>. QED BY <1>0, <2>1 DEF Untouched, Casting
<1>. QED BY <1>1, <1>2, <1>3, <1>4 DEF Receiver

\* A broadcast begins: the log grows by its text, and every member is owed it.
LEMMA LockExact ==
  ASSUME OInv, OwedIsOne, OwedIsOne', NEW s \in Senders, BroadcastLock(s),
         NEW u \in Receivers, pc[u] \in Following
  PROVE  Exact(u)'
<1>. USE DEF OInv, IInv, Goto, server, objects, users, locals, history, Following
<1>0. /\ Receivers \subseteq Threads /\ Senders \subseteq Threads /\ pc \in [Threads -> PC]
      /\ Senders \cap Receivers = {} /\ NoThread \notin Threads
      /\ name \in [Threads -> AllNames]
      /\ log \in [AllNames -> Seq(Messages)] /\ start \in [Receivers -> Nat]
  BY ThreadAssumption DEF Threads, TypeOK
<1>1. /\ pc[s] = "castLock" /\ pc' = [pc EXCEPT ![s] = "cast"]
      /\ lock[room[s]] = NoThread
      /\ log' = [log EXCEPT ![name[s]] = Append(log[name[s]], msg[s])]
      /\ UNCHANGED <<name, room, sent, msg, mqueue, start, got>>
  BY DEF BroadcastLock, Guard
<1>2. /\ m_rooms[name[s]] = room[s] /\ room_name[room[s]] = name[s]
      /\ m_rooms[name[u]] = room[u] /\ room_name[room[u]] = name[u]
  BY <1>0, <1>1 DEF Pointers, Holding
<1>3. CASE room[u] = room[s]
  <2>1. name[u] = name[s] /\ name[s] \in AllNames
    BY <1>0, <1>2, <1>3
  <2>2. \A v \in Senders : ~Casting(v, u)
    BY <1>0, <1>1, <1>3 DEF Owned, Inside, Casting
  <2>3. Owed(u) = <<>>
    BY <2>2, Zenon DEF OwedIsOne
  <2>4. Casting(s, u)'
    BY <1>0, <1>1, <1>3 DEF Behind, Casting
  <2>5. Owed(u)' = <<msg[s]>>
    <3>1. Owed(u)' = <<msg'[s]>>
      BY <2>4, Zenon DEF OwedIsOne
    <3>. QED BY <1>1, <3>1
  <2>6. msg[s] \in Messages
    BY <1>1 DEF Texts
  <2>. DEFINE L == log[name[s]]
              X == got[u] \o Pending(u) \o mqueue[u]
  <2>7. L \in Seq(Messages) /\ log'[name[u]] = Append(L, msg[s])
    BY <1>0, <1>1, <2>1
  <2>8. start[u] \in 0 .. Len(L)
    <3>1. start[u] <= Len(L) /\ Len(L) \in Nat /\ start[u] \in Nat
      BY <1>0, <2>1, <2>7, LenProperties DEF Started
    <3>. QED BY <3>1
  <2>9. X \in Seq(Messages)
    BY PartsAreSequences, ConcatProperties
  <2>10. X = SubSeq(L, start[u] + 1, Len(L))
    <3>1. X \o <<>> = SubSeq(L, start[u] + 1, Len(L))
      BY <2>1, <2>3 DEF NothingMissedOrDoubled
    <3>. QED BY <2>9, <3>1, ConcatEmptySeq
  <2>11. SubSeq(Append(L, msg[s]), start[u] + 1, Len(Append(L, msg[s]))) = X \o <<msg[s]>>
    <3>. HIDE DEF L
    <3>. QED BY <2>6, <2>7, <2>8, <2>10, EndOfAppend
  <2>12. (got[u] \o Pending(u) \o mqueue[u])' = X
    <3>1. Pending(u)' = Pending(u)
      BY <1>0, <1>1 DEF Pending
    <3>. QED BY <1>1, <3>1
  <2>13. name'[u] = name[u] /\ start'[u] = start[u]
    BY <1>1
  <2>. QED BY <2>5, <2>7, <2>11, <2>12, <2>13 DEF Exact
<1>4. CASE room[u] # room[s]
  <2>1. name[u] # name[s] /\ name[u] \in AllNames
    BY <1>0, <1>2, <1>4
  <2>2. Untouched(u)
    BY <1>0, <1>1, <1>4, <2>1 DEF Untouched, Casting
  <2>3. Exact(u)
    BY DEF NothingMissedOrDoubled, Exact
  <2>. QED BY <2>2, <2>3, ExactUntouched
<1>. QED BY <1>3, <1>4

\* What the member under the iterator is owed moves to the end of its queue.
LEMMA EnqueueExact ==
  ASSUME OInv, OwedIsOne, OwedIsOne', NEW s \in Senders, EnqueueTo(s),
         NEW u \in Receivers, pc[u] \in Following
  PROVE  Exact(u)'
<1>. USE DEF OInv, IInv, Goto, server, objects, users, locals, history, Following
<1>0. /\ Receivers \subseteq Threads /\ Senders \subseteq Threads /\ pc \in [Threads -> PC]
      /\ Senders \cap Receivers = {} /\ mqueue \in [Receivers -> Seq(Messages)]
      /\ sent \in [Senders -> SUBSET Receivers]
  BY ThreadAssumption DEF Threads, TypeOK
<1>1. /\ pc[s] = "enqueue" /\ pc' = [pc EXCEPT ![s] = "cast"]
      /\ mqueue' = [mqueue EXCEPT ![it[s]] = Append(mqueue[it[s]], msg[s])]
      /\ sent' = [sent EXCEPT ![s] = sent[s] \cup {it[s]}]
      /\ UNCHANGED <<name, room, msg, log, start, got>>
  BY DEF EnqueueTo
<1>2. Exact(u)
  BY DEF NothingMissedOrDoubled, Exact
<1>3. CASE u = it[s]
  <2>1. room[s] \in RoomIds /\ u \in members[room[s]]
    BY <1>0, <1>1, <1>3 DEF IteratorValid, Pointers, Holding
  <2>2. Casting(s, u)
    BY <1>1, <1>3, <2>1 DEF MembersAreServed, Behind, Casting
  <2>3. \A v \in Senders : v # s => ~Casting(v, u)
    BY <1>0, <2>2 DEF Owned, Inside, Casting
  <2>4. \A v \in Senders : ~Casting(v, u)'
    <3>1. ~Casting(s, u)'
      BY <1>0, <1>1, <1>3 DEF Casting
    <3>2. ASSUME NEW v \in Senders, v # s PROVE ~Casting(v, u)'
      BY <1>0, <1>1, <2>3, <3>2 DEF Casting
    <3>. QED BY <3>1, <3>2
  <2>5. Owed(u) = <<msg[s]>> /\ Owed(u)' = <<>>
    BY <2>2, <2>4, Zenon DEF OwedIsOne
  <2>6. msg[s] \in Messages
    BY <1>1 DEF Texts
  <2>7. mqueue'[u] = mqueue[u] \o <<msg[s]>>
    <3>1. mqueue'[u] = Append(mqueue[u], msg[s])
      BY <1>0, <1>1, <1>3
    <3>. QED BY <1>0, <2>6, <3>1, AppendIsConcat
  <2>8. Pending(u)' = Pending(u)
    BY <1>0, <1>1 DEF Pending
  <2>. DEFINE X == got[u] \o Pending(u)
              q == mqueue[u]
              e == <<msg[s]>>
  <2>9. X \in Seq(Messages) /\ q \in Seq(Messages) /\ e \in Seq(Messages)
    BY <2>6, PartsAreSequences, ConcatProperties
  <2>10. X \o (q \o e) \o <<>> = X \o q \o e
    <3>. HIDE DEF X, q, e
    <3>1. Associate(X, q, e)
      BY <2>9, Regroup
    <3>2. X \o q \in Seq(Messages)
      BY <2>9, ConcatProperties
    <3>3. X \o q \o e \in Seq(Messages)
      BY <2>9, <3>2, ConcatProperties
    <3>4. X \o q \o e \o <<>> = X \o q \o e
      BY <3>3, ConcatEmptySeq
    <3>. QED BY <3>1, <3>4 DEF Associate
  <2>. QED BY <1>1, <1>2, <2>5, <2>7, <2>8, <2>10 DEF Exact
<1>4. CASE u # it[s]
  <2>1. Untouched(u)
    BY <1>0, <1>1, <1>4 DEF Untouched, Casting
  <2>. QED BY <1>2, <2>1, ExactUntouched
<1>. QED BY <1>3, <1>4

\* A broadcast ends when it owes nobody anything.
LEMMA DoneExact ==
  ASSUME OInv, OwedIsOne, OwedIsOne', NEW s \in Senders, BroadcastDone(s),
         NEW u \in Receivers, pc[u] \in Following
  PROVE  Exact(u)'
<1>. USE DEF OInv, IInv, Goto, server, objects, users, locals, history, Following
<1>0. /\ Receivers \subseteq Threads /\ Senders \subseteq Threads /\ pc \in [Threads -> PC]
      /\ Senders \cap Receivers = {} /\ sent \in [Senders -> SUBSET Receivers]
      /\ msg \in [Threads -> Messages \cup {NoMessage}]
  BY ThreadAssumption DEF Threads, TypeOK
<1>1. /\ pc[s] = "cast" /\ pc' = [pc EXCEPT ![s] = "idle"]
      /\ members[room[s]] \subseteq sent[s]
      /\ sent' = [sent EXCEPT ![s] = {}] /\ msg' = [msg EXCEPT ![s] = NoMessage]
      /\ UNCHANGED <<name, room, log, mqueue, start, got>>
  BY DEF BroadcastDone
<1>2. ~Casting(s, u)
  <2>1. room[s] \in RoomIds
    BY <1>0, <1>1 DEF Pointers, Holding
  <2>. QED BY <1>1, <2>1 DEF Casting, MembersAreServed, MemberPC
<1>3. Untouched(u)
  BY <1>0, <1>1, <1>2 DEF Untouched, Casting
<1>4. Exact(u)
  BY DEF NothingMissedOrDoubled, Exact
<1>. QED BY <1>3, <1>4, ExactUntouched

\* A receiver's own steps: it joins with nothing behind, and moves what it is
\* sent from its queue's head to what it was sent.
LEMMA ReceiverExact ==
  ASSUME OInv, OwedIsOne, OwedIsOne', NEW u \in Receivers, Receiver(u),
         pc'[u] \in Following
  PROVE  Exact(u)'
<1>. USE DEF OInv, IInv, Goto, server, objects, users, locals, history, Following
<1>0. /\ Receivers \subseteq Threads /\ Senders \subseteq Threads /\ pc \in [Threads -> PC]
      /\ Senders \cap Receivers = {} /\ mqueue \in [Receivers -> Seq(Messages)]
      /\ got \in [Receivers -> Seq(Messages)] /\ start \in [Receivers -> Nat]
      /\ log \in [AllNames -> Seq(Messages)] /\ name \in [Threads -> AllNames]
      /\ msg \in [Threads -> Messages \cup {NoMessage}]
  BY ThreadAssumption DEF Threads, TypeOK
<1>1. CASE AddMember(u)
  <2>1. /\ pc[u] = "add" /\ pc' = [pc EXCEPT ![u] = "joinOk"]
        /\ start' = [start EXCEPT ![u] = Len(log[name[u]])]
        /\ UNCHANGED <<name, room, sent, msg, log, mqueue, got>>
    BY <1>1 DEF AddMember
  <2>2. got[u] = <<>> /\ mqueue[u] = <<>> /\ Pending(u)' = <<>>
    BY <1>0, <2>1 DEF Fresh, Pending
  <2>3. \A v \in Senders : ~Casting(v, u)'
    BY <1>0, <2>1 DEF Owned, Inside, Casting
  <2>4. Owed(u)' = <<>>
    BY <2>3, Zenon DEF OwedIsOne
  <2>5. SubSeq(log[name[u]], Len(log[name[u]]) + 1, Len(log[name[u]])) = <<>>
    <3>1. log[name[u]] \in Seq(Messages) /\ Len(log[name[u]]) \in Nat
      BY <1>0, LenProperties
    <3>. QED BY <3>1, SubSeqProperties
  <2>6. <<>> \o <<>> \o <<>> \o <<>> = <<>>
    OBVIOUS
  <2>7. name'[u] = name[u] /\ start'[u] = Len(log[name[u]])
    BY <1>0, <2>1
  <2>. QED BY <2>1, <2>2, <2>4, <2>5, <2>6, <2>7 DEF Exact
<1>2. CASE JoinReplied(u)
  <2>1. /\ pc[u] = "joinOk" /\ pc' = [pc EXCEPT ![u] = "loop"]
        /\ UNCHANGED <<name, room, sent, msg, log, mqueue, start, got>>
    BY <1>0, <1>2 DEF JoinReplied
  <2>2. Owed(u)' = Owed(u)
    <3>1. \A s \in Senders : /\ Casting(s, u)' <=> Casting(s, u)
                             /\ Casting(s, u) => msg'[s] = msg[s]
      BY <1>0, <2>1 DEF Casting
    <3>. QED BY <3>1, OwedSame
  <2>3. Pending(u)' = Pending(u)
    BY <1>0, <2>1 DEF Pending
  <2>4. Exact(u)
    BY <2>1 DEF NothingMissedOrDoubled, Exact
  <2>. QED BY <2>1, <2>2, <2>3, <2>4 DEF Exact
<1>3. CASE Dequeue(u)
  <2>1. /\ pc[u] = "loop" /\ pc' = [pc EXCEPT ![u] = "send"] /\ mqueue[u] # <<>>
        /\ msg' = [msg EXCEPT ![u] = Head(mqueue[u])]
        /\ mqueue' = [mqueue EXCEPT ![u] = Tail(mqueue[u])]
        /\ UNCHANGED <<name, room, sent, log, start, got>>
    BY <1>3 DEF Dequeue
  <2>2. Owed(u)' = Owed(u)
    <3>1. \A s \in Senders : /\ Casting(s, u)' <=> Casting(s, u)
                             /\ Casting(s, u) => msg'[s] = msg[s]
      BY <1>0, <2>1 DEF Casting
    <3>. QED BY <3>1, OwedSame
  <2>. DEFINE q == mqueue[u]
              h == <<Head(q)>>
  <2>3. /\ Head(q) \in Messages /\ Tail(q) \in Seq(Messages) /\ q = h \o Tail(q)
        /\ h \in Seq(Messages)
    BY <1>0, <2>1, HeadTailProperties
  <2>4. Pending(u) = <<>> /\ Pending(u)' = h /\ mqueue'[u] = Tail(q)
    BY <1>0, <2>1 DEF Pending
  <2>5. got[u] \in Seq(Messages) /\ got[u] \o <<>> = got[u]
    BY <1>0, ConcatEmptySeq
  <2>6. got[u] \o h \o Tail(q) = got[u] \o q
    <3>. DEFINE t == Tail(q)
    <3>1. q = h \o t /\ h \in Seq(Messages) /\ t \in Seq(Messages)
      BY <2>3
    <3>. HIDE DEF h, q, t
    <3>2. Associate(got[u], h, t)
      BY <2>5, <3>1, Regroup
    <3>. QED BY <3>1, <3>2 DEF t, Associate
  <2>7. Exact(u)
    BY <2>1 DEF NothingMissedOrDoubled, Exact
  <2>. QED BY <2>1, <2>2, <2>4, <2>5, <2>6, <2>7 DEF Exact
<1>4. CASE Sent(u)
  <2>1. /\ pc[u] = "send" /\ pc' = [pc EXCEPT ![u] = "loop"]
        /\ got' = [got EXCEPT ![u] = Append(got[u], msg[u])]
        /\ msg' = [msg EXCEPT ![u] = NoMessage]
        /\ UNCHANGED <<name, room, sent, log, start, mqueue>>
    BY <1>4 DEF Sent
  <2>2. Owed(u)' = Owed(u)
    <3>1. \A s \in Senders : /\ Casting(s, u)' <=> Casting(s, u)
                             /\ Casting(s, u) => msg'[s] = msg[s]
      BY <1>0, <2>1 DEF Casting
    <3>. QED BY <3>1, OwedSame
  <2>3. msg[u] \in Messages
    BY <2>1 DEF Texts
  <2>4. Pending(u) = <<msg[u]>> /\ Pending(u)' = <<>>
    BY <1>0, <2>1 DEF Pending
  <2>5. got'[u] \o <<>> = got[u] \o <<msg[u]>>
    <3>1. got'[u] = got[u] \o <<msg[u]>> /\ got'[u] \in Seq(Messages)
      BY <1>0, <2>1, <2>3, AppendIsConcat, AppendProperties
    <3>. QED BY <3>1, ConcatEmptySeq
  <2>6. Exact(u)
    BY <2>1 DEF NothingMissedOrDoubled, Exact
  <2>. QED BY <2>1, <2>2, <2>4, <2>5, <2>6 DEF Exact
<1>5. CASE ~(AddMember(u) \/ JoinReplied(u) \/ Dequeue(u) \/ Sent(u))
  <2>1. \E l \in {"findLock", "find", "addLock", "castLock", "idle", "add",
                  "removeLock", "remove", "gone"} : pc' = [pc EXCEPT ![u] = l]
    BY <1>5
    DEF Receiver, CallReceive, FindRoom, FindLock, FindExisting, CreateRoom, Found,
        AddLock, SendFailed, RemoveLock, RemoveMember
  <2>. QED BY <1>0, <2>1
<1>. QED BY <1>1, <1>2, <1>3, <1>4, <1>5

\* Every step keeps every member's account exact.
LEMMA ExactStep == OInv /\ [Next]_vars /\ IInv' => NothingMissedOrDoubled'
<1>. SUFFICES ASSUME OInv, [Next]_vars, IInv', NEW u \in Receivers, pc'[u] \in Following
              PROVE  Exact(u)'
  BY DEF NothingMissedOrDoubled, Exact, Following
<1>1. OwedIsOne /\ OwedIsOne'
  BY OneBroadcast, OneBroadcastNext DEF OInv, IInv
<1>2. pc[u] \in Following => Exact(u)
  BY DEF OInv, NothingMissedOrDoubled, Exact, Following
<1>3. ASSUME NEW s \in Senders, Sender(s) PROVE Exact(u)'
  <2>0. u \in Threads /\ u # s /\ pc \in [Threads -> PC]
    <3>1. u \in Threads /\ u # s
      BY ThreadAssumption DEF Threads
    <3>. QED BY <3>1 DEF OInv, IInv, TypeOK
  <2>1. pc'[u] = pc[u]
    BY <1>3, <2>0
    DEF Goto, Sender, CallJoin, CallSendall, LeaveRoom,
        FindRoom, FindLock, FindExisting, CreateRoom, Found, Broadcast, BroadcastLock,
        NextMember, EnqueueTo, BroadcastDone
  <2>. QED
    BY <1>1, <1>2, <1>3, <2>1, SenderUntouched, ExactUntouched, LockExact,
       EnqueueExact, DoneExact
<1>4. ASSUME NEW v \in Receivers, Receiver(v) PROVE Exact(u)'
  <2>1. CASE u = v
    BY <1>1, <1>4, <2>1, ReceiverExact
  <2>2. CASE u # v
    <3>1. Untouched(u)
      BY <1>4, <2>2, ReceiverUntouched
    <3>. QED BY <1>1, <1>2, <3>1, ExactUntouched DEF Untouched
  <2>. QED BY <2>1, <2>2
<1>5. CASE UNCHANGED vars
  BY <1>2, <1>5
  DEF vars, server, objects, users, locals, history, Exact, Pending, Owed, Following
<1>. QED BY <1>3, <1>4, <1>5 DEF Next

LEMMA OrderInvariant == SafeSpec => []OInv
<1>1. Init => OInv
  <2>1. Init => Behind /\ Fresh /\ Started /\ NothingMissedOrDoubled
    BY ThreadAssumption
    DEF Init, Threads, Behind, Fresh, Started, NothingMissedOrDoubled, Following
  <2>. QED BY <2>1, InitInvariant DEF OInv
<1>2. IInv /\ [Next]_vars => IInv'
  BY TypeStep, RolesStep, RegistryStep, OwnedStep, MembersStep DEF IInv
<1>3. OInv /\ [Next]_vars => OInv'
  BY <1>2, BehindStep, FreshStep, StartedStep, ExactStep DEF OInv
<1>. QED BY <1>1, <1>3, PTL DEF SafeSpec

\* chat_with_receiver and broadcast_message: what a member was sent and has still
\* to be sent is what was broadcast to its room since it joined, in that order,
\* nothing missed and nothing twice.
THEOREM NothingLost == SafeSpec => []NothingMissedOrDoubled
<1>1. OInv => NothingMissedOrDoubled
  BY DEF OInv
<1>. QED BY OrderInvariant, <1>1, PTL

------------------------------------------------------------------------------
(* The rooms implement one log per room (RoomLog) *)

\* The message being sent is the next of the room's log.
LEMMA SentIsNext ==
  ASSUME OInv, NEW u \in Receivers, pc[u] = "send"
  PROVE  LET k == start[u] + Len(got[u]) + 1
         IN  k <= Len(log[name[u]]) /\ log[name[u]][k] = msg[u]
<1>. DEFINE L == log[name[u]]
            a == start[u]
            g == got[u]
            m == msg[u]
            q == mqueue[u]
            o == Owed(u)
<1>1. /\ L \in Seq(Messages) /\ g \in Seq(Messages) /\ m \in Messages
      /\ q \in Seq(Messages) /\ o \in Seq(Messages)
      /\ a \in Nat /\ a <= Len(L)
  <2>1. name[u] \in AllNames
    BY DEF OInv, IInv, TypeOK, Threads
  <2>2. L \in Seq(Messages) /\ a \in Nat
    BY <2>1 DEF OInv, IInv, TypeOK
  <2>3. m \in Messages /\ a <= Len(L)
    BY DEF OInv, IInv, Texts, Started, Following
  <2>4. OwedIsOne
    BY OneBroadcast DEF OInv, IInv
  <2>5. g \in Seq(Messages) /\ q \in Seq(Messages) /\ o \in Seq(Messages)
    BY <2>4, PartsAreSequences DEF OInv, IInv
  <2>. QED BY <2>2, <2>3, <2>5
<1>2. g \o <<m>> \o q \o o = SubSeq(L, a + 1, Len(L))
  BY DEF OInv, NothingMissedOrDoubled, Pending
<1>. HIDE DEF L, a, g, m, q, o
<1>3. /\ Len(L) \in Nat /\ Len(g) \in Nat /\ Len(q) \in Nat /\ Len(o) \in Nat
  BY <1>1, LenProperties
<1>4. <<m>> \in Seq(Messages) /\ Len(<<m>>) = 1 /\ <<m>>[1] = m
  BY <1>1
<1>. DEFINE b == g \o <<m>>
            c == b \o q
<1>5. b \in Seq(Messages) /\ Len(b) = Len(g) + 1 /\ b[Len(g) + 1] = m
  BY <1>1, <1>3, <1>4, ConcatProperties
<1>. HIDE DEF b
<1>6. c \in Seq(Messages) /\ Len(c) = Len(b) + Len(q) /\ c[Len(g) + 1] = m
  <2>1. Len(g) + 1 \in 1 .. Len(b) + Len(q) /\ Len(g) + 1 <= Len(b)
    BY <1>3, <1>5
  <2>2. /\ b \o q \in Seq(Messages) /\ Len(b \o q) = Len(b) + Len(q)
        /\ \A i \in 1 .. Len(b) + Len(q) :
             (b \o q)[i] = IF i <= Len(b) THEN b[i] ELSE q[i - Len(b)]
    BY <1>1, <1>5, ConcatProperties
  <2>. QED BY <1>5, <2>1, <2>2
<1>. HIDE DEF c
<1>7. Len(c \o o) = Len(c) + Len(o) /\ (c \o o)[Len(g) + 1] = m
  <2>1. Len(g) + 1 \in 1 .. Len(c) + Len(o) /\ Len(g) + 1 <= Len(c)
    BY <1>3, <1>5, <1>6
  <2>2. /\ Len(c \o o) = Len(c) + Len(o)
        /\ \A i \in 1 .. Len(c) + Len(o) :
             (c \o o)[i] = IF i <= Len(c) THEN c[i] ELSE o[i - Len(c)]
    <3>1. \A x, y \in Seq(Messages) :
            /\ Len(x \o y) = Len(x) + Len(y)
            /\ \A i \in 1 .. Len(x) + Len(y) :
                 (x \o y)[i] = IF i <= Len(x) THEN x[i] ELSE y[i - Len(x)]
      BY ConcatProperties
    <3>. QED BY <1>1, <1>6, <3>1, Zenon
  <2>. QED BY <1>6, <2>1, <2>2
<1>8. /\ Len(SubSeq(L, a + 1, Len(L))) = Len(L) - a
      /\ \A i \in 1 .. Len(L) - a : SubSeq(L, a + 1, Len(L))[i] = L[a + i]
  <2>1. CASE a + 1 \in 1 .. Len(L) + 1 /\ Len(L) \in a .. Len(L)
    BY <1>1, <1>3, <2>1, SubSeqProperties
  <2>. QED BY <1>1, <1>3, <2>1
<1>9. c \o o = SubSeq(L, a + 1, Len(L))
  BY <1>2 DEF c, b
<1>10. Len(g) + 1 \in 1 .. Len(L) - a
  <2>1. Len(c \o o) = Len(L) - a
    BY <1>8, <1>9, Zenon
  <2>2. Len(L) - a = Len(g) + 1 + Len(q) + Len(o)
    BY <1>5, <1>6, <1>7, <2>1
  <2>. QED BY <1>1, <1>3, <2>2
<1>11. a + Len(g) + 1 = a + (Len(g) + 1) /\ a + Len(g) + 1 <= Len(L)
  BY <1>1, <1>3, <1>10
<1>12. L[a + Len(g) + 1] = m
  <2>1. SubSeq(L, a + 1, Len(L))[Len(g) + 1] = m
    BY <1>7, <1>9, Zenon
  <2>2. SubSeq(L, a + 1, Len(L))[Len(g) + 1] = L[a + (Len(g) + 1)]
    BY <1>8, <1>10, Zenon
  <2>. QED BY <1>11, <2>1, <2>2, Zenon
<1>. QED BY <1>11, <1>12 DEF L, a, g, m

\* The steps that a room's log does not see.
LEMMA LogUnseen ==
  ASSUME UNCHANGED <<log, start, got>>,
         \A u \in Receivers : /\ pc'[u] \in MemberPC <=> pc[u] \in MemberPC
                              /\ pc[u] \in MemberPC => name'[u] = name[u]
  PROVE  UNCHANGED Log!vars
<1>1. where' = where /\ entered' = entered
  BY DEF where, entered
<1>. QED BY <1>1 DEF Log!vars

LEMMA LogStep == OInv /\ [Next]_vars => [Log!Next]_Log!vars
<1>. SUFFICES ASSUME OInv, [Next]_vars PROVE Log!Next \/ UNCHANGED Log!vars
  OBVIOUS
<1>. USE DEF Goto, server, objects, users, locals, history, MemberPC
<1>0. /\ Receivers \subseteq Threads /\ Senders \subseteq Threads /\ pc \in [Threads -> PC]
      /\ Senders \cap Receivers = {} /\ name \in [Threads -> AllNames]
      /\ Nowhere \notin AllNames
  BY ThreadAssumption, ValueAssumption DEF Threads, OInv, IInv, TypeOK
<1>1. ASSUME NEW s \in Senders, BroadcastLock(s) PROVE Log!Next
  <2>1. msg[s] \in Messages /\ name[s] \in AllNames
    BY <1>0, <1>1 DEF BroadcastLock, OInv, IInv, Texts
  <2>2. where' = where /\ entered' = entered
    BY <1>0, <1>1 DEF BroadcastLock, where, entered
  <2>3. Log!Publish(name[s], msg[s])
    BY <1>1, <2>2 DEF BroadcastLock, Log!Publish
  <2>. QED BY <2>1, <2>3 DEF Log!Next
<1>2. ASSUME NEW s \in Senders, Sender(s), ~BroadcastLock(s) PROVE UNCHANGED Log!vars
  <2>1. /\ UNCHANGED <<log, start, got>>
        /\ \A u \in Receivers : pc'[u] = pc[u] /\ name'[u] = name[u]
    BY <1>0, <1>2
    DEF Sender, CallJoin, CallSendall, LeaveRoom, FindRoom, FindLock, FindExisting,
        CreateRoom, Found, Broadcast, NextMember, EnqueueTo, BroadcastDone
  <2>. QED BY <2>1, LogUnseen
<1>3. ASSUME NEW u \in Receivers, AddMember(u) PROVE Log!Next
  <2>1. /\ pc[u] = "add" /\ pc' = [pc EXCEPT ![u] = "joinOk"] /\ name[u] \in AllNames
        /\ start' = [start EXCEPT ![u] = Len(log[name[u]])]
        /\ UNCHANGED <<log, got, name>>
    BY <1>0, <1>3 DEF AddMember
  <2>2. where[u] = Nowhere /\ got[u] = <<>>
    BY <2>1 DEF where, OInv, Fresh
  <2>3. where' = [where EXCEPT ![u] = name[u]]
    BY <1>0, <2>1 DEF where
  <2>5. entered' = [entered EXCEPT ![u] = Len(log[name[u]])]
    <3>1. start \in [Receivers -> Nat] /\ pc'[u] \in MemberPC
      BY <1>0, <2>1 DEF OInv, IInv, TypeOK
    <3>2. entered'[u] = Len(log[name[u]])
      BY <2>1, <3>1 DEF entered
    <3>3. \A v \in Receivers : v # u => entered'[v] = entered[v]
      BY <1>0, <2>1 DEF entered
    <3>. QED BY <3>2, <3>3 DEF entered
  <2>4. Log!Enter(u, name[u])
    BY <2>1, <2>2, <2>3, <2>5 DEF Log!Enter
  <2>. QED BY <2>1, <2>4 DEF Log!Next
<1>4. ASSUME NEW u \in Receivers, Sent(u) PROVE Log!Next
  <2>1. /\ pc[u] = "send" /\ pc' = [pc EXCEPT ![u] = "loop"]
        /\ got' = [got EXCEPT ![u] = Append(got[u], msg[u])]
        /\ UNCHANGED <<log, start, name>>
    BY <1>4 DEF Sent
  <2>2. where[u] = name[u] /\ name[u] # Nowhere /\ entered[u] = start[u]
    BY <1>0, <2>1 DEF where, entered
  <2>3. where' = where /\ entered' = entered
    BY <1>0, <2>1 DEF where, entered
  <2>. DEFINE k == start[u] + Len(got[u]) + 1
  <2>4. k <= Len(log[name[u]]) /\ log[name[u]][k] = msg[u]
    BY <2>1, SentIsNext
  <2>5. Log!Deliver(u)
    BY <2>1, <2>2, <2>3, <2>4 DEF Log!Deliver
  <2>. QED BY <2>5 DEF Log!Next
<1>5. ASSUME NEW u \in Receivers, RemoveMember(u) PROVE Log!Next
  <2>1. /\ pc[u] = "remove" /\ pc' = [pc EXCEPT ![u] = "gone"]
        /\ UNCHANGED <<log, start, got, name>>
    BY <1>5 DEF RemoveMember
  <2>2. /\ where[u] # Nowhere /\ where' = [where EXCEPT ![u] = Nowhere]
        /\ entered' = [entered EXCEPT ![u] = 0]
    BY <1>0, <2>1 DEF where, entered
  <2>3. Log!Exit(u)
    BY <2>1, <2>2 DEF Log!Exit
  <2>. QED BY <2>3 DEF Log!Next
<1>6. ASSUME NEW u \in Receivers, Receiver(u), ~AddMember(u), ~Sent(u), ~RemoveMember(u)
      PROVE  UNCHANGED Log!vars
  <2>1. /\ UNCHANGED <<log, start, got>>
        /\ \A v \in Receivers : v # u => pc'[v] = pc[v] /\ name'[v] = name[v]
        /\ \/ pc[u] \notin MemberPC /\ pc'[u] \notin MemberPC
           \/ pc[u] \in MemberPC /\ pc'[u] \in MemberPC /\ name' = name
    <3>1. CASE (\E n \in Names : CallReceive(u, n)) \/ AddLock(u)
      BY <1>0, <3>1 DEF CallReceive, AddLock
    <3>2. CASE FindRoom(u)
      <4>1. /\ pc[u] \in {"findLock", "find"} /\ UNCHANGED <<log, start, got, name>>
            /\ \E l \in {"find", "addLock", "castLock", "idle"} : pc' = [pc EXCEPT ![u] = l]
        BY <3>2 DEF FindRoom, FindLock, FindExisting, CreateRoom, Found
      <4>. QED BY <1>0, <4>1
    <3>3. CASE JoinReplied(u) \/ Dequeue(u) \/ SendFailed(u) \/ RemoveLock(u)
      <4>1. /\ pc[u] \in MemberPC /\ UNCHANGED <<log, start, got, name>>
            /\ \E l \in {"loop", "removeLock", "send", "remove"} : pc' = [pc EXCEPT ![u] = l]
        BY <3>3 DEF JoinReplied, Dequeue, SendFailed, RemoveLock
      <4>. QED BY <1>0, <4>1
    <3>. QED BY <1>6, <3>1, <3>2, <3>3 DEF Receiver
  <2>2. \A v \in Receivers : /\ pc'[v] \in MemberPC <=> pc[v] \in MemberPC
                             /\ pc[v] \in MemberPC => name'[v] = name[v]
    BY <2>1
  <2>. QED BY <2>1, <2>2, LogUnseen
<1>7. CASE UNCHANGED vars
  BY <1>7, LogUnseen DEF vars
<1>. QED BY <1>1, <1>2, <1>3, <1>4, <1>5, <1>6, <1>7 DEF Next

\* server.cpp and room.cpp together: threads, mutexes and queues behave as one log
\* per room, which every receiver reads on from where it joined and skips nothing.
THEOREM RoomsAreLogs == SafeSpec => ImplementsRoomLog
<1>1. Init => Log!Init
  BY ThreadAssumption, ValueAssumption DEF Init, Log!Init, where, entered, MemberPC, Threads
<1>. QED BY <1>1, OrderInvariant, LogStep, PTL
         DEF SafeSpec, ImplementsRoomLog, Log!Spec

==============================================================================
