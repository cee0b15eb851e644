------------------------------ MODULE MCI2sDma ------------------------------
(* I2sDma with a small ring; the .cfg files give the constants. *)
EXTENDS I2sDma
=============================================================================
