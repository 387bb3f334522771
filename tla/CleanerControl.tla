--------------------------- MODULE CleanerControl ---------------------------
(***************************************************************************)
(* What the cleaner daemon promises its user: the mode it is in, and       *)
(* whether it is working on segments.  Only a command lifts a suspension,  *)
(* no pass is made in a suspended or idle daemon, and the mode does not    *)
(* change under a pass: a command waits until it is over.                  *)
(***************************************************************************)
VARIABLES
    mode,     \* of the daemon
    busy      \* whether a cleaning pass is going on

vars == <<mode, busy>>

Modes == {"suspended", "idle", "auto", "manual", "down"}

TypeOK == mode \in Modes /\ busy \in BOOLEAN

Init == mode \in {"idle", "auto"} /\ busy = FALSE

\* A pass begins; an idle daemon, or one whose manual run is over, starts
\* automatic cleaning by itself.
Begin ==
    /\ ~busy /\ busy' = TRUE
    /\ \/ mode \in {"idle", "auto", "manual"} /\ mode' = "auto"
       \/ mode = "manual" /\ mode' = "manual"

\* A pass ends, possibly the last one for a while.
End == busy /\ busy' = FALSE /\ mode' \in {mode, "idle"}

\* The daemon finds nothing to do before a pass begins.
Relax == ~busy /\ mode \in {"auto", "manual"} /\ mode' = "idle" /\ UNCHANGED busy

\* The commands of nilfs-clean(8) that change the mode.
Command ==
    /\ ~busy /\ mode # "down" /\ UNCHANGED busy
    /\ \/ mode' = "manual"                                  \* run
       \/ mode' = "suspended"                               \* suspend
       \/ mode = "suspended" /\ mode' = "idle"              \* resume
       \/ mode \in {"manual", "suspended"} /\ mode' = "idle" \* stop

\* Shutdown, a signal or a fatal error.
Die == mode # "down" /\ mode' = "down" /\ busy' = FALSE

Next == Begin \/ End \/ Relax \/ Command \/ Die

Spec == Init /\ [][Next]_vars
=============================================================================
