------------------------------ MODULE MCDecoder ------------------------------
(* Decoder with a small readBuf; the .cfg gives the constants. *)
EXTENDS Decoder
=============================================================================
