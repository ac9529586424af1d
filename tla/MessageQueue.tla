---------------------------- MODULE MessageQueue ----------------------------
(***************************************************************************)
(* csf_assign05/message_queue.cpp with the mutex guard of guard.h: a deque *)
(* of Message pointers, a mutex for the deque and a counting semaphore     *)
(* that lets dequeue() wait at most one second.                            *)
(*                                                                         *)
(* One action is one step another thread can observe.  A critical section  *)
(* is two steps, Guard() and the access that ends with ~Guard(), and the   *)
(* access works on what the thread read when it entered (view), so that an *)
(* access made without the mutex loses the other thread's update instead   *)
(* of being atomic by decree.                                              *)
(*                                                                         *)
(* Producers are threads inside Room::broadcast_message, Consumers are     *)
(* threads inside chat_with_receiver's loop.  Every Message is a fresh     *)
(* heap object, enqueued once: Messages bounds the enqueues.               *)
(***************************************************************************)
EXTENDS Integers, Sequences, FiniteSets

CONSTANTS
  Producers,               \* threads that call enqueue
  Consumers,               \* threads that call dequeue
  Messages,                \* the Message objects; bounds the calls of enqueue
  NoThread,                \* the mutex is free
  NoMessage                \* nullptr

ASSUME ThreadAssumption ==
  /\ IsFiniteSet(Producers)
  /\ IsFiniteSet(Consumers)
  /\ Producers \cap Consumers = {}
  /\ NoThread \notin Producers \cup Consumers

ASSUME MessageAssumption == NoMessage \notin Messages

Threads == Producers \cup Consumers

VARIABLES
  m_messages,              \* the deque, front first
  m_avail,                 \* the semaphore's value
  m_lock,                  \* the thread that holds the mutex, or NoThread
  pc,                      \* where each thread is
  view,                    \* the deque as the thread read it under its guard
  msg,                     \* enqueue's argument, dequeue's result
  unsent,                  \* messages not yet allocated
  got                      \* history: the messages popped, in order

vars == <<m_messages, m_avail, m_lock, pc, view, msg, unsent, got>>

PC == {"idle", "enqLock", "push", "post",
       "try", "blocked", "deqLock", "pop"}

Init ==
  /\ m_messages = <<>>
  /\ m_avail = 0
  /\ m_lock = NoThread
  /\ pc = [t \in Threads |-> "idle"]
  /\ view = [t \in Threads |-> <<>>]
  /\ msg = [t \in Threads |-> NoMessage]
  /\ unsent = Messages
  /\ got = <<>>

Goto(t, l) == pc' = [pc EXCEPT ![t] = l]

------------------------------------------------------------------------------
(* guard.h: the constructor locks, the destructor unlocks *)

\* Mutant: no mutex.
GuardWithoutLock(t) ==
  /\ m_lock' = t
  /\ view' = [view EXCEPT ![t] = m_messages]

Guard(t) ==
  /\ m_lock = NoThread
  /\ m_lock' = t
  /\ view' = [view EXCEPT ![t] = m_messages]

Unguard == m_lock' = NoThread

------------------------------------------------------------------------------
(* MessageQueue::enqueue *)

CallEnqueue(p) ==
  /\ pc[p] = "idle"
  /\ \E m \in unsent :
       /\ unsent' = unsent \ {m}
       /\ msg' = [msg EXCEPT ![p] = m]
  /\ Goto(p, "enqLock")
  /\ UNCHANGED <<m_messages, m_avail, m_lock, view, got>>

EnqueueLock(p) ==
  /\ pc[p] = "enqLock"
  /\ Guard(p)
  /\ Goto(p, "push")
  /\ UNCHANGED <<m_messages, m_avail, msg, unsent, got>>

PushBack(p) ==
  /\ pc[p] = "push"
  /\ m_messages' = Append(view[p], msg[p])
  /\ Unguard
  /\ Goto(p, "post")
  /\ UNCHANGED <<m_avail, view, msg, unsent, got>>

\* Mutant: the semaphore as a flag, posted only when it is down.
SemPostAsFlag(p) ==
  /\ pc[p] = "post"
  /\ m_avail' = 1
  /\ msg' = [msg EXCEPT ![p] = NoMessage]
  /\ Goto(p, "idle")
  /\ UNCHANGED <<m_messages, m_lock, view, unsent, got>>

SemPost(p) ==
  /\ pc[p] = "post"
  /\ m_avail' = m_avail + 1
  /\ msg' = [msg EXCEPT ![p] = NoMessage]
  /\ Goto(p, "idle")
  /\ UNCHANGED <<m_messages, m_lock, view, unsent, got>>

------------------------------------------------------------------------------
(* MessageQueue::dequeue.  sem_timedwait decrements at once when it can and  *)
(* fails with a timeout only after it has blocked; a post that comes between *)
(* the timer's expiry and the return finds the call failing all the same.    *)

CallDequeue(c) ==
  /\ pc[c] = "idle"
  /\ msg' = [msg EXCEPT ![c] = NoMessage]
  /\ Goto(c, "try")
  /\ UNCHANGED <<m_messages, m_avail, m_lock, view, unsent, got>>

SemTake(c) ==
  /\ pc[c] \in {"try", "blocked"}
  /\ m_avail > 0
  /\ m_avail' = m_avail - 1
  /\ Goto(c, "deqLock")
  /\ UNCHANGED <<m_messages, m_lock, view, msg, unsent, got>>

SemBlock(c) ==
  /\ pc[c] = "try"
  /\ m_avail = 0
  /\ Goto(c, "blocked")
  /\ UNCHANGED <<m_messages, m_avail, m_lock, view, msg, unsent, got>>

\* Mutant: sem_timedwait's -1 is not looked at.
SemTimeoutIgnored(c) ==
  /\ pc[c] = "blocked"
  /\ Goto(c, "deqLock")
  /\ UNCHANGED <<m_messages, m_avail, m_lock, view, msg, unsent, got>>

SemTimeout(c) ==
  /\ pc[c] = "blocked"
  /\ Goto(c, "idle")
  /\ UNCHANGED <<m_messages, m_avail, m_lock, view, msg, unsent, got>>

DequeueLock(c) ==
  /\ pc[c] = "deqLock"
  /\ Guard(c)
  /\ Goto(c, "pop")
  /\ UNCHANGED <<m_messages, m_avail, msg, unsent, got>>

\* Mutant: the mutex is still held when dequeue returns.
PopFrontUnreleased(c) ==
  /\ pc[c] = "pop"
  /\ view[c] # <<>>
  /\ msg' = [msg EXCEPT ![c] = Head(view[c])]
  /\ m_messages' = Tail(view[c])
  /\ got' = Append(got, Head(view[c]))
  /\ Goto(c, "idle")
  /\ UNCHANGED <<m_avail, m_lock, view, unsent>>

\* front() of an empty deque is undefined; FrontIsDefined says it never happens.
PopFront(c) ==
  /\ pc[c] = "pop"
  /\ view[c] # <<>>
  /\ msg' = [msg EXCEPT ![c] = Head(view[c])]
  /\ m_messages' = Tail(view[c])
  /\ got' = Append(got, Head(view[c]))
  /\ Unguard
  /\ Goto(c, "idle")
  /\ UNCHANGED <<m_avail, view, unsent>>

------------------------------------------------------------------------------
Enqueue(p) ==
  CallEnqueue(p) \/ EnqueueLock(p) \/ PushBack(p) \/ SemPost(p)

Dequeue(c) ==
  \/ CallDequeue(c) \/ SemTake(c) \/ SemBlock(c) \/ SemTimeout(c)
  \/ DequeueLock(c) \/ PopFront(c)

Next ==
  \/ \E p \in Producers : Enqueue(p)
  \/ \E c \in Consumers : Dequeue(c)

SafeSpec == Init /\ [][Next]_vars

\* Every thread keeps being scheduled, a blocked sem_timedwait returns, and
\* the receiver's loop calls dequeue again (server.cpp:137-159).
Fairness ==
  /\ \A p \in Producers : WF_vars(Enqueue(p))
  /\ \A c \in Consumers : WF_vars(Dequeue(c))

Spec == SafeSpec /\ Fairness

------------------------------------------------------------------------------
(* Properties *)

\* Every variable keeps its C++ type: the semaphore never goes negative, the
\* mutex has at most one owner, the deque holds Messages.
TypeOK ==
  /\ m_messages \in Seq(Messages)
  /\ m_avail \in Nat
  /\ m_lock \in Threads \cup {NoThread}
  /\ pc \in [Threads -> PC]
  /\ \A p \in Producers : pc[p] \in {"idle", "enqLock", "push", "post"}
  /\ \A c \in Consumers : pc[c] \in {"idle", "try", "blocked", "deqLock", "pop"}
  /\ view \in [Threads -> Seq(Messages)]
  /\ msg \in [Threads -> Messages \cup {NoMessage}]
  /\ unsent \subseteq Messages
  /\ got \in Seq(Messages)

InSection(t) == pc[t] \in {"push", "pop"}

\* README.txt:27-29: only one thread may be accessing the deque at a time,
\* whichever of the two methods it is in.
MutualExclusion ==
  \A t, u \in Threads : InSection(t) /\ InSection(u) => t = u

Granted == {c \in Consumers : pc[c] \in {"deqLock", "pop"}}
Unposted == {p \in Producers : pc[p] = "post"}

\* message_queue.h:25-26 says the semaphore counts the messages in the queue.
\* It lags: a pushed message not yet posted is in the queue and not in the
\* count, and a message a consumer was granted is still in the queue.
SemaphoreCountsMessages ==
  Len(m_messages) = m_avail + Cardinality(Granted) + Cardinality(Unposted)

\* A consumer that sem_timedwait let through finds a message at the front
\* when it reaches m_messages.front(), however many threads raced it there.
FrontIsDefined ==
  \A c \in Consumers : pc[c] = "pop" => view[c] # <<>>

\* The queue is the abstract FIFO: a push is its Put, a pop its Take, every
\* other step invisible, and what is put is eventually taken.
Fifo == INSTANCE FifoQueue WITH items <- m_messages, taken <- got

ImplementsFifo == Fifo!Spec

\* message_queue.h:16, "will not block": enqueue returns without any help from
\* a consumer that waits for it.  message_queue.h:17, "blocks for at most a
\* finite amount of time": so does dequeue when nothing comes.
OperationsReturn ==
  \A t \in Threads : pc[t] # "idle" ~> pc[t] = "idle"

==============================================================================
