------------------------------ MODULE MCResize ------------------------------
(***************************************************************************)
(* Model-checking instances of Resize.                                     *)
(***************************************************************************)
EXTENDS Resize
=============================================================================
