----------------------------- MODULE MCCleanerd -----------------------------
(***************************************************************************)
(* Instances of Cleanerd for TLC.                                          *)
(***************************************************************************)
EXTENDS Cleanerd, TLC

\* Pause above 2 clean segments, resume below 1 (the reserve being 0) ...
Limited    == [min |-> 1, max |-> 1, nsegs |-> 2, mc_nsegs |-> 4]
\* ... or clean continuously.
Continuous == [min |-> 0, max |-> 0, nsegs |-> 1, mc_nsegs |-> 4]

MCConfigs == {Limited, Continuous}

NoFaults   == {}
AllFaults  == {"io", "enomem", "freeze", "thaw", "sighup", "sigterm"}
MemFaults  == {"enomem", "sighup"}
TermFaults == {"sigterm"}

Symmetry == Permutations(Segs)
=============================================================================
