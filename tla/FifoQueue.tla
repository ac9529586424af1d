------------------------------ MODULE FifoQueue ------------------------------
(***************************************************************************)
(* What csf_assign05/message_queue.h promises of a MessageQueue, with no   *)
(* lock, no semaphore and no thread in sight: messages go in at one end,   *)
(* come out at the other in the same order, each one once, and a message   *)
(* that is in the queue is eventually taken out.                           *)
(***************************************************************************)
EXTENDS Sequences

CONSTANT Messages          \* the Message objects that may be enqueued

VARIABLES
  items,                   \* the messages waiting, oldest first
  taken                    \* the messages handed out, in order

vars == <<items, taken>>

Init ==
  /\ items = <<>>
  /\ taken = <<>>

Put(m) ==
  /\ items' = Append(items, m)
  /\ UNCHANGED taken

Take ==
  /\ items # <<>>
  /\ taken' = Append(taken, Head(items))
  /\ items' = Tail(items)

Next == (\E m \in Messages : Put(m)) \/ Take

SafeSpec == Init /\ [][Next]_vars

Spec == SafeSpec /\ WF_vars(Take)

==============================================================================
