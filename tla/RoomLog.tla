------------------------------- MODULE RoomLog -------------------------------
(***************************************************************************)
(* What the chat server of csf_assign05 promises its receivers, with no    *)
(* thread, lock, Room object or queue in sight: a room is a log, whoever   *)
(* sends to the room appends to it, and a receiver reads on from where the *)
(* log ended when it entered, one message at a time and skipping none.     *)
(***************************************************************************)
EXTENDS Naturals, Sequences

CONSTANTS
  Names,                   \* the room names
  Receivers,               \* the users that receive
  Messages,                \* the messages that may be broadcast
  Nowhere                  \* the room of a user that is in none

VARIABLES
  log,                     \* for each room, everything broadcast to it
  where,                   \* the room each receiver is in
  start,                   \* how long that room's log was when it entered; 0 outside
  got                      \* what each receiver has been sent

vars == <<log, where, start, got>>

Init ==
  /\ log = [n \in Names |-> <<>>]
  /\ where = [u \in Receivers |-> Nowhere]
  /\ start = [u \in Receivers |-> 0]
  /\ got = [u \in Receivers |-> <<>>]

Publish(n, m) ==
  /\ log' = [log EXCEPT ![n] = Append(@, m)]
  /\ UNCHANGED <<where, start, got>>

Enter(u, n) ==
  /\ where[u] = Nowhere
  /\ got[u] = <<>>
  /\ where' = [where EXCEPT ![u] = n]
  /\ start' = [start EXCEPT ![u] = Len(log[n])]
  /\ UNCHANGED <<log, got>>

Deliver(u) ==
  /\ where[u] # Nowhere
  /\ LET k == start[u] + Len(got[u]) + 1
         n == where[u]
     IN  /\ k <= Len(log[n])
         /\ got' = [got EXCEPT ![u] = Append(@, log[n][k])]
  /\ UNCHANGED <<log, where, start>>

Exit(u) ==
  /\ where[u] # Nowhere
  /\ where' = [where EXCEPT ![u] = Nowhere]
  /\ start' = [start EXCEPT ![u] = 0]
  /\ UNCHANGED <<log, got>>

Next ==
  \/ \E n \in Names, m \in Messages : Publish(n, m)
  \/ \E u \in Receivers, n \in Names : Enter(u, n)
  \/ \E u \in Receivers : Deliver(u) \/ Exit(u)

Spec == Init /\ [][Next]_vars

==============================================================================
