------------------------------ MODULE MCParSort ------------------------------
(* Files of a few elements with repetitions, on a system of five processes. *)
EXTENDS ParSort

Processes == 1..5
TwoValues == {-1, 2}

==============================================================================
