------------------------------ MODULE MCPlayer ------------------------------
(* Player with a small fifo; the .cfg files give the constants. *)
EXTENDS Player
=============================================================================
