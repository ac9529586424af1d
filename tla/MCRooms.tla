------------------------------- MODULE MCRooms -------------------------------
(* Two senders and two receivers.  There are as many Room addresses as names *)
(* so that a second Room for a name has where to go.  The sets are symmetric *)
(* in the safety run only: the liveness run declares no symmetry.            *)
EXTENDS Rooms, TLC

Symmetry ==
  Permutations(Senders) \cup Permutations(Receivers)
    \cup Permutations(RoomIds) \cup Permutations(Messages)
==============================================================================
