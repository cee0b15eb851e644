---------------------------- MODULE MCSpiRamFifo ----------------------------
(* SpiRamFifo on small rings; the .cfg files give the constants. *)
EXTENDS SpiRamFifo
=============================================================================
