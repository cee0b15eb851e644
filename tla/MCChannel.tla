----------------------------- MODULE MCChannel -----------------------------
(* Channel with the dial of the board; the .cfg gives the constants. *)
EXTENDS Channel
=============================================================================
