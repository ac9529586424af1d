--------------------------- MODULE MCMessageQueue ---------------------------
(* Two producers and two consumers on one queue, three messages. *)
EXTENDS MessageQueue
==============================================================================
