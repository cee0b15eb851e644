----------------------------- MODULE MCSettings -----------------------------
(* Settings with few requests; the .cfg files give the constants. *)
EXTENDS Settings
=============================================================================
