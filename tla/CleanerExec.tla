----------------------------- MODULE CleanerExec -----------------------------
(***************************************************************************)
(* The life of nilfs_cleanerd processes as the mount helpers see it:       *)
(* lib/cleaner_exec.c starts a daemon and learns its pid through a pipe,   *)
(* signals it and polls it with kill(pid, 0); sbin/cleanerd.c opens the    *)
(* command queue named after the device and unlinks it when it ends.       *)
(* Mount and MountMtab extend this module.  One device is modelled, so     *)
(* there is one queue name.                                                *)
(***************************************************************************)
EXTENDS Integers, Sequences, FiniteSets

CONSTANTS
    Pid,        \* process ids that daemons may get
    NoPid,      \* pid 0: no process
    Dir,        \* mount points
    Period,     \* protection periods that can be given with pp=
    NoPeriod    \* ULONG_MAX: no pp= option

ASSUME PidAssumption == NoPid \notin Pid
ASSUME PeriodAssumption == NoPeriod \notin Period
ASSUME DirAssumption == Dir # {}

VARIABLES
    daemon,     \* pid -> the daemon that has, or last had, this pid
    queue       \* the queue name of the device and who has it open

execVars == <<daemon, queue>>

\* "start": the pid is printed, nothing is opened; "run": the clean loop;
\* "term": SIGTERM has been delivered, the process still exists.
DaemonState == {"none", "start", "run", "term"}

ExecTypeOK ==
    /\ daemon \in [Pid -> [st : DaemonState, dir : Dir,
                           pp : Period \cup {NoPeriod}, open : BOOLEAN]]
    /\ queue \in [named : BOOLEAN, by : SUBSET Pid]

AnyDir == CHOOSE d \in Dir : TRUE

ExecInit ==
    /\ daemon = [p \in Pid |-> [st |-> "none", dir |-> AnyDir,
                                pp |-> NoPeriod, open |-> FALSE]]
    /\ queue = [named |-> FALSE, by |-> {}]

\* kill(pid, 0) == 0
process_is_alive(p) == p \in Pid /\ daemon[p].st # "none"

Running(p) == daemon[p].st \in {"start", "run"}

-----------------------------------------------------------------------------
\* stat, pipe or fork failed: -1 and no child.
LaunchRefused == UNCHANGED execVars

\* The child could not exec, or the daemon ended before it printed its pid:
\* the parent reads end of file, sets *ppid to 0 and still returns 0.
LaunchSilent == UNCHANGED execVars

\* The daemon forked twice and printed its pid, which receive_pid() returned.
\* A pid a table still names is not given out again (see the README).
LaunchStarts(p, dir, pp) ==
    /\ daemon[p].st = "none"
    /\ daemon' = [daemon EXCEPT ![p] = [st |-> "start", dir |-> dir,
                                        pp |-> pp, open |-> FALSE]]
    /\ UNCHANGED queue

\* nilfs_shutdown_cleanerd: SIGTERM; ESRCH when the process is gone.
SigTerm(p) ==
    /\ daemon' = [daemon EXCEPT ![p].st = IF @ = "none" THEN @ ELSE "term"]
    /\ UNCHANGED queue

-----------------------------------------------------------------------------
\* nilfs_cleanerd_create: nilfs_open() finds the file system mounted
\* read-write on the directory; then the queue is opened, creating the name
\* if it is free and joining the existing queue if it is not (O_CREAT
\* without O_EXCL).
DaemonOpens(p, rwDirs) ==
    /\ daemon[p].st = "start"
    /\ daemon[p].dir \in rwDirs
    /\ daemon' = [daemon EXCEPT ![p].st = "run", ![p].open = TRUE]
    /\ queue' = [named |-> TRUE,
                 by |-> {p} \cup IF queue.named THEN queue.by ELSE {}]

\* The process ends.  It unlinks the name if it had opened the queue, whoever
\* else has it open: after SIGTERM, or when the clean loop gives up.
DaemonEnds(p) ==
    /\ daemon[p].st # "none"
    /\ daemon' = [daemon EXCEPT ![p].st = "none", ![p].open = FALSE,
                               ![p].dir = AnyDir]
    /\ queue' = IF daemon[p].open THEN [named |-> FALSE, by |-> {}]
                                  ELSE [queue EXCEPT !.by = @ \ {p}]

\* A daemon ends when it was told to, when it finds nothing to clean, and, as
\* often as the bound allows, because it gives up.
DaemonStep(rwDirs, mayFail) ==
    \E p \in Pid :
        \/ DaemonOpens(p, rwDirs)
        \/ /\ \/ mayFail
              \/ daemon[p].st = "term"
              \/ daemon[p].st = "start" /\ daemon[p].dir \notin rwDirs
           /\ DaemonEnds(p)

GaveUp(rwDirs) ==
    \E p \in Pid : /\ \/ daemon[p].st = "run"
                      \/ daemon[p].st = "start" /\ daemon[p].dir \in rwDirs
                   /\ daemon'[p].st = "none"

\* A client that opens the queue by its name reaches daemon p.
Reachable(p) == queue.named /\ p \in queue.by

==============================================================================
