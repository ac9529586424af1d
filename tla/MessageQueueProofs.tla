------------------------- MODULE MessageQueueProofs -------------------------
(***************************************************************************)
(* MessageQueue's safety for any number of threads and messages.  The     *)
(* inductive invariant adds to the type invariant and the semaphore        *)
(* equation what the mutex is for: a thread in its critical section owns   *)
(* the mutex, and the deque it works on is the current one.                *)
(***************************************************************************)
EXTENDS MessageQueue, FiniteSetTheorems, SequenceTheorems, TLAPS

\* What a thread between Guard() and ~Guard() may rely on.
SectionOwned ==
  \A t \in Threads : InSection(t) => m_lock = t /\ view[t] = m_messages

\* enqueue's argument is a Message until it has been pushed.
ArgumentHeld ==
  \A p \in Producers : pc[p] \in {"enqLock", "push"} => msg[p] \in Messages

IInv == TypeOK /\ SectionOwned /\ ArgumentHeld /\ SemaphoreCountsMessages

------------------------------------------------------------------------------
(* Adding one element to, or taking one from, the two sets the equation     *)
(* counts.                                                                  *)

\* The sets of threads the semaphore equation counts are finite.
LEMMA CountedFinite ==
  /\ IsFiniteSet(Granted)
  /\ IsFiniteSet(Unposted)
<1>1. Granted \subseteq Consumers /\ Unposted \subseteq Producers
  BY DEF Granted, Unposted
<1>. QED BY <1>1, FS_Subset, ThreadAssumption

\* One more element in a finite set is one more in its cardinality.
LEMMA CountIn ==
  ASSUME NEW S, IsFiniteSet(S), NEW x, x \notin S
  PROVE  Cardinality(S \cup {x}) = Cardinality(S) + 1
BY FS_AddElement

\* One element fewer in a finite set is one fewer in its cardinality.
LEMMA CountOut ==
  ASSUME NEW S, IsFiniteSet(S), NEW x \in S
  PROVE  /\ Cardinality(S \ {x}) = Cardinality(S) - 1
         /\ Cardinality(S) \in Nat
         /\ Cardinality(S) > 0
<1>1. Cardinality(S) \in Nat /\ Cardinality(S \ {x}) = Cardinality(S) - 1
  BY FS_CardinalityType, FS_RemoveElement
<1>2. IsFiniteSet(S \ {x})
  BY FS_RemoveElement
<1>3. Cardinality(S \ {x}) \in Nat
  BY <1>2, FS_CardinalityType
<1>. QED BY <1>1, <1>3

------------------------------------------------------------------------------

\* The constructor leaves an empty queue nobody is in: IInv holds.
LEMMA InitInvariant == Init => IInv
<1>. SUFFICES ASSUME Init PROVE IInv
  OBVIOUS
<1>1. TypeOK
  <2>1. <<>> \in Seq(Messages)
    OBVIOUS
  <2>. QED BY <2>1 DEF Init, TypeOK, Threads, PC
<1>2. SectionOwned /\ ArgumentHeld
  BY DEF Init, SectionOwned, ArgumentHeld, InSection, Threads
<1>3. SemaphoreCountsMessages
  <2>1. Granted = {} /\ Unposted = {}
    BY DEF Init, Granted, Unposted, Threads
  <2>. QED BY <2>1, FS_EmptySet DEF Init, SemaphoreCountsMessages
<1>. QED BY <1>1, <1>2, <1>3 DEF IInv

\* Every step of enqueue or dequeue keeps the variables' types.
LEMMA TypeStep == IInv /\ [Next]_vars => TypeOK'
<1>. SUFFICES ASSUME IInv, [Next]_vars PROVE TypeOK'
  OBVIOUS
<1>. USE ThreadAssumption, MessageAssumption DEF IInv, TypeOK, Threads, PC, Goto
<1>1. ASSUME NEW p \in Producers, CallEnqueue(p) PROVE TypeOK'
  BY <1>1 DEF CallEnqueue
<1>2. ASSUME NEW p \in Producers, EnqueueLock(p) PROVE TypeOK'
  BY <1>2 DEF EnqueueLock, Guard
<1>3. ASSUME NEW p \in Producers, PushBack(p) PROVE TypeOK'
  <2>1. msg[p] \in Messages
    BY <1>3 DEF PushBack, ArgumentHeld
  <2>. QED BY <1>3, <2>1 DEF PushBack, Unguard
<1>4. ASSUME NEW p \in Producers, SemPost(p) PROVE TypeOK'
  BY <1>4 DEF SemPost
<1>5. ASSUME NEW c \in Consumers, CallDequeue(c) PROVE TypeOK'
  BY <1>5 DEF CallDequeue
<1>6. ASSUME NEW c \in Consumers, SemTake(c) PROVE TypeOK'
  BY <1>6 DEF SemTake
<1>7. ASSUME NEW c \in Consumers, SemBlock(c) \/ SemTimeout(c) PROVE TypeOK'
  BY <1>7 DEF SemBlock, SemTimeout
<1>8. ASSUME NEW c \in Consumers, DequeueLock(c) PROVE TypeOK'
  BY <1>8 DEF DequeueLock, Guard
<1>9. ASSUME NEW c \in Consumers, PopFront(c) PROVE TypeOK'
  <2>1. view[c] \in Seq(Messages) /\ view[c] # <<>>
    BY <1>9 DEF PopFront
  <2>2. Head(view[c]) \in Messages /\ Tail(view[c]) \in Seq(Messages)
    BY <2>1, HeadTailProperties
  <2>. QED BY <1>9, <2>2 DEF PopFront, Unguard
<1>10. CASE UNCHANGED vars
  BY <1>10 DEF vars
<1>. QED
  BY <1>1, <1>2, <1>3, <1>4, <1>5, <1>6, <1>7, <1>8, <1>9, <1>10
  DEF Next, Enqueue, Dequeue

\* The mutex keeps every section's view current: nobody else writes m_messages.
LEMMA SectionStep == IInv /\ [Next]_vars => SectionOwned' /\ ArgumentHeld'
<1>. SUFFICES ASSUME IInv, [Next]_vars PROVE SectionOwned' /\ ArgumentHeld'
  OBVIOUS
<1>. USE ThreadAssumption
     DEF IInv, TypeOK, Threads, PC, Goto, SectionOwned, ArgumentHeld, InSection
<1>1. ASSUME NEW p \in Producers, CallEnqueue(p)
      PROVE  SectionOwned' /\ ArgumentHeld'
  BY <1>1 DEF CallEnqueue
<1>2. ASSUME NEW p \in Producers, EnqueueLock(p)
      PROVE  SectionOwned' /\ ArgumentHeld'
  BY <1>2 DEF EnqueueLock, Guard
<1>3. ASSUME NEW p \in Producers, PushBack(p)
      PROVE  SectionOwned' /\ ArgumentHeld'
  BY <1>3 DEF PushBack, Unguard
<1>4. ASSUME NEW p \in Producers, SemPost(p)
      PROVE  SectionOwned' /\ ArgumentHeld'
  BY <1>4 DEF SemPost
<1>5. ASSUME NEW c \in Consumers, CallDequeue(c)
      PROVE  SectionOwned' /\ ArgumentHeld'
  BY <1>5 DEF CallDequeue
<1>6. ASSUME NEW c \in Consumers, SemTake(c) \/ SemBlock(c) \/ SemTimeout(c)
      PROVE  SectionOwned' /\ ArgumentHeld'
  BY <1>6 DEF SemTake, SemBlock, SemTimeout
<1>7. ASSUME NEW c \in Consumers, DequeueLock(c)
      PROVE  SectionOwned' /\ ArgumentHeld'
  BY <1>7 DEF DequeueLock, Guard
<1>8. ASSUME NEW c \in Consumers, PopFront(c)
      PROVE  SectionOwned' /\ ArgumentHeld'
  BY <1>8 DEF PopFront, Unguard
<1>9. CASE UNCHANGED vars
  BY <1>9 DEF vars
<1>. QED
  BY <1>1, <1>2, <1>3, <1>4, <1>5, <1>6, <1>7, <1>8, <1>9
  DEF Next, Enqueue, Dequeue

\* Only four steps touch the semaphore equation, and each keeps it: a push
\* adds a message and an unposted producer, a post moves that producer into
\* the count, a take moves one from the count to the granted consumers, a pop
\* removes a message and a granted consumer.
LEMMA SemaphoreStep == IInv /\ [Next]_vars => SemaphoreCountsMessages'
<1>. SUFFICES ASSUME IInv, [Next]_vars PROVE SemaphoreCountsMessages'
  OBVIOUS
<1>. USE ThreadAssumption DEF IInv, TypeOK, Threads, PC, Goto
<1>0. /\ Len(m_messages) \in Nat /\ m_avail \in Nat
      /\ Cardinality(Granted) \in Nat /\ Cardinality(Unposted) \in Nat
      /\ Len(m_messages) = m_avail + Cardinality(Granted) + Cardinality(Unposted)
  BY CountedFinite, FS_CardinalityType DEF SemaphoreCountsMessages
<1>1. ASSUME Granted' = Granted, Unposted' = Unposted,
             m_messages' = m_messages, m_avail' = m_avail
      PROVE  SemaphoreCountsMessages'
  BY <1>0, <1>1 DEF SemaphoreCountsMessages
<1>2. ASSUME NEW p \in Producers, CallEnqueue(p) \/ EnqueueLock(p)
      PROVE  SemaphoreCountsMessages'
  <2>1. Granted' = Granted /\ Unposted' = Unposted
    BY <1>2 DEF CallEnqueue, EnqueueLock, Granted, Unposted
  <2>. QED BY <1>1, <1>2, <2>1 DEF CallEnqueue, EnqueueLock
<1>3. ASSUME NEW p \in Producers, PushBack(p)
      PROVE  SemaphoreCountsMessages'
  <2>1. Granted' = Granted /\ Unposted' = Unposted \cup {p} /\ p \notin Unposted
    BY <1>3 DEF PushBack, Granted, Unposted
  <2>2. Cardinality(Unposted') = Cardinality(Unposted) + 1
    BY <2>1, CountedFinite, CountIn
  <2>3. m_messages' = Append(m_messages, msg[p]) /\ msg[p] \in Messages
    BY <1>3 DEF PushBack, SectionOwned, InSection, ArgumentHeld
  <2>4. Len(m_messages') = Len(m_messages) + 1
    BY <2>3, AppendProperties
  <2>5. m_avail' = m_avail
    BY <1>3 DEF PushBack
  <2>. QED BY <1>0, <2>1, <2>2, <2>4, <2>5 DEF SemaphoreCountsMessages
<1>4. ASSUME NEW p \in Producers, SemPost(p)
      PROVE  SemaphoreCountsMessages'
  <2>1. Granted' = Granted /\ Unposted' = Unposted \ {p} /\ p \in Unposted
    BY <1>4 DEF SemPost, Granted, Unposted
  <2>2. Cardinality(Unposted') = Cardinality(Unposted) - 1
    BY <2>1, CountedFinite, CountOut
  <2>3. m_avail' = m_avail + 1 /\ m_messages' = m_messages
    BY <1>4 DEF SemPost
  <2>. QED BY <1>0, <2>1, <2>2, <2>3 DEF SemaphoreCountsMessages
<1>5. ASSUME NEW c \in Consumers,
             CallDequeue(c) \/ SemBlock(c) \/ SemTimeout(c) \/ DequeueLock(c)
      PROVE  SemaphoreCountsMessages'
  <2>1. Granted' = Granted /\ Unposted' = Unposted
    BY <1>5 DEF CallDequeue, SemBlock, SemTimeout, DequeueLock, Granted, Unposted
  <2>. QED
    BY <1>1, <1>5, <2>1 DEF CallDequeue, SemBlock, SemTimeout, DequeueLock
<1>6. ASSUME NEW c \in Consumers, SemTake(c)
      PROVE  SemaphoreCountsMessages'
  <2>1. Granted' = Granted \cup {c} /\ c \notin Granted /\ Unposted' = Unposted
    BY <1>6 DEF SemTake, Granted, Unposted
  <2>2. Cardinality(Granted') = Cardinality(Granted) + 1
    BY <2>1, CountedFinite, CountIn
  <2>3. m_avail' = m_avail - 1 /\ m_messages' = m_messages
    BY <1>6 DEF SemTake
  <2>. QED BY <1>0, <2>1, <2>2, <2>3 DEF SemaphoreCountsMessages
<1>7. ASSUME NEW c \in Consumers, PopFront(c)
      PROVE  SemaphoreCountsMessages'
  <2>1. Granted' = Granted \ {c} /\ c \in Granted /\ Unposted' = Unposted
    BY <1>7 DEF PopFront, Granted, Unposted
  <2>2. Cardinality(Granted') = Cardinality(Granted) - 1
    BY <2>1, CountedFinite, CountOut
  <2>3. m_messages' = Tail(m_messages) /\ m_messages # <<>>
    BY <1>7 DEF PopFront, SectionOwned, InSection
  <2>4. Len(m_messages') = Len(m_messages) - 1
    BY <2>3, HeadTailProperties
  <2>5. m_avail' = m_avail
    BY <1>7 DEF PopFront
  <2>. QED BY <1>0, <2>1, <2>2, <2>4, <2>5 DEF SemaphoreCountsMessages
<1>8. CASE UNCHANGED vars
  BY <1>1, <1>8 DEF vars, Granted, Unposted
<1>. QED
  BY <1>2, <1>3, <1>4, <1>5, <1>6, <1>7, <1>8 DEF Next, Enqueue, Dequeue

\* The conjunction is inductive.
LEMMA Invariant == SafeSpec => []IInv
<1>1. Init => IInv
  BY InitInvariant
<1>2. IInv /\ [Next]_vars => IInv'
  BY TypeStep, SectionStep, SemaphoreStep DEF IInv
<1>. QED BY <1>1, <1>2, PTL DEF SafeSpec

------------------------------------------------------------------------------

\* Every variable of enqueue and dequeue keeps its type; in particular the
\* semaphore never goes below zero (message_queue.cpp:41, 60).
THEOREM TypeCorrect == Spec => []TypeOK
<1>1. IInv => TypeOK
  BY DEF IInv
<1>. QED BY <1>1, Invariant, PTL DEF Spec

\* However many threads share the queue, at most one is between Guard() and
\* ~Guard() (message_queue.cpp:35-37, 70-74).
THEOREM OneThreadInside == Spec => []MutualExclusion
<1>1. IInv => MutualExclusion
  BY DEF IInv, SectionOwned, MutualExclusion
<1>. QED BY <1>1, Invariant, PTL DEF Spec

\* The semaphore lags the deque by exactly the threads caught between the
\* deque and the semaphore (message_queue.cpp:36-41, 60-73).
THEOREM SemaphoreAccounts == Spec => []SemaphoreCountsMessages
<1>1. IInv => SemaphoreCountsMessages
  BY DEF IInv
<1>. QED BY <1>1, Invariant, PTL DEF Spec

\* m_messages.front() is never called on an empty deque
\* (message_queue.cpp:72): the mutex alone does not give this, the semaphore
\* equation does.
THEOREM FrontDefined == Spec => []FrontIsDefined
<1>1. IInv => FrontIsDefined
  <2>. SUFFICES ASSUME IInv, NEW c \in Consumers, pc[c] = "pop"
                PROVE  view[c] # <<>>
    BY DEF FrontIsDefined
  <2>1. view[c] = m_messages
    BY DEF IInv, SectionOwned, InSection, Threads
  <2>2. c \in Granted
    BY DEF Granted
  <2>3. Cardinality(Granted) > 0 /\ Cardinality(Granted) \in Nat
    BY <2>2, CountedFinite, CountOut
  <2>4. Cardinality(Unposted) \in Nat
    BY CountedFinite, FS_CardinalityType
  <2>5. Len(m_messages) > 0
    BY <2>3, <2>4 DEF IInv, TypeOK, SemaphoreCountsMessages
  <2>. QED BY <2>1, <2>5
<1>. QED BY <1>1, Invariant, PTL DEF Spec

\* The queue is a FIFO whatever the interleaving: each step of a thread is a
\* Put, a Take or invisible (message_queue.cpp:30-76).
THEOREM QueueIsFifo == Spec => Fifo!SafeSpec
<1>1. Init => Fifo!Init
  BY DEF Init, Fifo!Init
<1>2. IInv /\ [Next]_vars => [Fifo!Next]_(Fifo!vars)
  <2>. SUFFICES ASSUME IInv, [Next]_vars PROVE [Fifo!Next]_(Fifo!vars)
    OBVIOUS
  <2>. USE DEF Fifo!vars
  <2>1. ASSUME NEW p \in Producers, PushBack(p) PROVE Fifo!Next
    <3>1. view[p] = m_messages /\ msg[p] \in Messages
      BY <2>1 DEF PushBack, IInv, SectionOwned, ArgumentHeld, InSection, Threads
    <3>2. Fifo!Put(msg[p])
      BY <2>1, <3>1 DEF PushBack, Fifo!Put
    <3>. QED BY <3>1, <3>2 DEF Fifo!Next
  <2>2. ASSUME NEW c \in Consumers, PopFront(c) PROVE Fifo!Next
    <3>1. view[c] = m_messages
      BY <2>2 DEF PopFront, IInv, SectionOwned, InSection, Threads
    <3>. QED BY <2>2, <3>1 DEF PopFront, Fifo!Take, Fifo!Next
  <2>3. ASSUME NEW p \in Producers,
               CallEnqueue(p) \/ EnqueueLock(p) \/ SemPost(p)
        PROVE  UNCHANGED <<m_messages, got>>
    BY <2>3 DEF CallEnqueue, EnqueueLock, SemPost
  <2>4. ASSUME NEW c \in Consumers,
               \/ CallDequeue(c) \/ SemTake(c) \/ SemBlock(c)
               \/ SemTimeout(c) \/ DequeueLock(c)
        PROVE  UNCHANGED <<m_messages, got>>
    BY <2>4 DEF CallDequeue, SemTake, SemBlock, SemTimeout, DequeueLock
  <2>5. CASE UNCHANGED vars
    BY <2>5 DEF vars
  <2>. QED BY <2>1, <2>2, <2>3, <2>4, <2>5 DEF Next, Enqueue, Dequeue
<1>. QED BY <1>1, <1>2, Invariant, PTL DEF SafeSpec, Spec, Fifo!SafeSpec

==============================================================================
