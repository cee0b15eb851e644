------------------------------ MODULE MCRadio ------------------------------
(* Radio with a short dial; the .cfg files give the constants. *)
EXTENDS Radio
=============================================================================
