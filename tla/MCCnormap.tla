------------------------------ MODULE MCCnormap ------------------------------
(***************************************************************************)
(* Instance of Cnormap for TLC.                                            *)
(***************************************************************************)
EXTENDS Cnormap

===============================================================================
