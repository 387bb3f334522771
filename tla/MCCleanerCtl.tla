---------------------------- MODULE MCCleanerCtl ----------------------------
(***************************************************************************)
(* Model-checking instances of CleanerCtl.                                 *)
(***************************************************************************)
EXTENDS CleanerCtl

CONSTANTS c1, c2

\* A client that calls again, beside one that comes between.
MCCalls == [c \in {c1, c2} |-> IF c = c1 THEN 2 ELSE 1]
=============================================================================
