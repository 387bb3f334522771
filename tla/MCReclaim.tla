------------------------------ MODULE MCReclaim ------------------------------
(***************************************************************************)
(* Instances of Reclaim for TLC.                                           *)
(***************************************************************************)
EXTENDS Reclaim, TLC

CONSTANTS f1, f2, f3, m1, m2, d1, d2

MCKind == [b \in Blocks |-> CASE b \in {f1, f2, f3} -> "file"
                              [] b \in {m1, m2} -> "meta"
                              [] OTHER -> "dat"]

PlainUse  == {"plain"}
DeferUse  == {"deferring"}
DryUses   == {"assess", "plain"}

NoFaults    == {}
KillFaults   == {"kill"}
SignalFaults == {"signal"}
AllFaults   == {"signal", "lock", "io", "enomem", "enotty"}

Symmetry == Permutations(Segs) \cup Permutations(Cleaners)
=============================================================================
