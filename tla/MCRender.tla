------------------------------- MODULE MCRender -------------------------------
(* Render with small blocks; the .cfg gives the constants. *)
EXTENDS Render
=============================================================================
