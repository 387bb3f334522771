------------------------------ MODULE Cleanerd ------------------------------
(***************************************************************************)
(* The cleaner daemon of sbin/cleanerd.c: the clean loop, its running      *)
(* states, its reaction to the commands of nilfs-clean(8) and to signals,  *)
(* beside the file system it cleans.                                       *)
(*                                                                         *)
(* One iteration of nilfs_cleanerd_clean_loop() is cut where the world can *)
(* change under the daemon: after the segment statistics are read, after   *)
(* the state is checked, after the selection, around the reclamation,      *)
(* between freeze and thaw, and while it sleeps.                           *)
(***************************************************************************)
EXTENDS Integers, FiniteSets

CONSTANTS
    Segs,                \* the segments of the file system
    Configs,             \* configurations a configuration file can hold
    BadFile,             \* stands for a path that is not a regular file
    RsvRatio,            \* reserved segments ratio, in percent
    NILFS_MIN_NRSVSEGS,  \* lower bound of the number of reserved segments
    Faults,              \* which failures this instance considers
    MaxWrites,           \* bound: segments written by users of the fs
    MaxCmds,             \* bound: commands and signals received
    MaxFaults,           \* bound: failures of system calls
    MaxPasses            \* bound: passes a run command may ask for

ASSUME SegsAssumption == IsFiniteSet(Segs)
ASSUME ConfigsAssumption ==
    Configs \subseteq [min : Nat, max : Nat, nsegs : Nat \ {0}, mc_nsegs : Nat \ {0}]
ASSUME BoundsAssumption ==
    /\ RsvRatio \in Nat /\ NILFS_MIN_NRSVSEGS \in Nat
    /\ MaxWrites \in Nat /\ MaxCmds \in Nat /\ MaxFaults \in Nat
    /\ MaxPasses \in Nat \ {0}
    /\ BadFile \notin Configs

VARIABLES
    \* the file system (external): state of each segment, time of the last
    \* update that was not a GC, whether it is frozen
    seg, nongc_ctime, frozen,
    \* the configuration file, and what the daemon has read of it
    conffile, config, reload_config,
    \* struct nilfs_cleanerd
    running, fallback, retry_cleaning, no_timeout, shutdown, ncleansegs,
    timeout, prev_nongc_ctime,
    mm_prev_state, mm_nrestpasses, mm_nrestsegs, mm_ncleansegs, mm_prot,
    \* locals of the clean loop, and its position in it
    sustat, chosen, oldest, ndone, pc,
    \* counters against the bounds
    nwrites, ncmds, nfaults

fsVars   == <<seg, nongc_ctime, frozen>>
confVars == <<conffile, config, reload_config>>
mmVars   == <<mm_nrestpasses, mm_nrestsegs, mm_ncleansegs, mm_prot>>
loopVars == <<sustat, chosen, oldest, ndone>>
modeVars == <<running, mm_prev_state, timeout>>
flagVars == <<fallback, retry_cleaning, no_timeout>>
bounds   == <<nwrites, ncmds, nfaults>>
vars == <<fsVars, confVars, modeVars, flagVars, shutdown, ncleansegs,
          prev_nongc_ctime, mmVars, loopVars, pc, bounds>>

-----------------------------------------------------------------------------
(***************************************************************************)
(* Segments.  A segment in use is young while its last modification lies   *)
(* within the protection period, and protected while its sequence number   *)
(* is not below ss_prot_seq, the log cursor written in the superblocks.    *)
(***************************************************************************)
SegState == {"clean", "young+prot", "young", "prot", "aged"}

Reclaimable  == {s \in Segs : seg[s] # "clean"}
Unprotected  == {s \in Segs : seg[s] \in {"young", "aged"}}
Old          == {s \in Segs : seg[s] \in {"prot", "aged"}}
NClean       == Cardinality({s \in Segs : seg[s] = "clean"})

\* What the log cursor protects no longer, and what time protects no longer.
Unprotect(st) == CASE st = "young+prot" -> "young" [] st = "prot" -> "aged"
                   [] OTHER -> st
Aged(st)      == CASE st = "young+prot" -> "prot" [] st = "young" -> "aged"
                   [] OTHER -> st
\* nilfs_set_suinfo() with the current time as modification time.
Touched(st)   == CASE st = "prot" -> "young+prot" [] st = "aged" -> "young"
                   [] OTHER -> st

\* Sleeping times: none left, the rest of the cleaning interval, the retry
\* interval, the clean check interval, or the (long) time until the oldest
\* segment leaves the protection period.
Timeouts == {"zero", "interval", "retry", "check", "idle"}

\* What the loop keeps of nilfs_get_sustat().
Statistics == [ncleansegs : Nat, nongc_ctime : Nat, unprot : SUBSET Segs]
NoStatistics == [ncleansegs |-> 0, nongc_ctime |-> 0, unprot |-> {}]

Max2(a, b) == IF a >= b THEN a ELSE b

nilfs_get_reserved_segments ==
    Max2((Cardinality(Segs) * RsvRatio + 99) \div 100, NILFS_MIN_NRSVSEGS)

automatic_suspend(c) == c.min > 0
BelowMin(c) == sustat.ncleansegs < c.min + nilfs_get_reserved_segments
AboveMax(c) == sustat.ncleansegs > c.max + nilfs_get_reserved_segments

\* A failure the instance considers happens now.
Fault(f) == f \in Faults /\ nfaults < MaxFaults /\ nfaults' = nfaults + 1
NoFault  == UNCHANGED nfaults

-----------------------------------------------------------------------------
\* nilfs_cleanerd_clean_loop() up to its loop.
Init ==
    /\ seg \in [Segs -> SegState]
    /\ nongc_ctime = 0 /\ frozen = FALSE
    /\ conffile \in Configs /\ config = conffile
    /\ reload_config = FALSE
    /\ running = IF automatic_suspend(config) THEN 0 ELSE 1
    /\ timeout = IF automatic_suspend(config) THEN "check" ELSE "zero"
    /\ fallback = FALSE /\ retry_cleaning = FALSE /\ no_timeout = FALSE
    /\ shutdown = FALSE
    /\ ncleansegs = config.nsegs
    /\ prev_nongc_ctime = 0
    /\ mm_prev_state = 0 /\ mm_nrestpasses = 0 /\ mm_nrestsegs = 0
    /\ mm_ncleansegs = 0 /\ mm_prot = "config"
    /\ sustat = NoStatistics
    /\ chosen = {} /\ oldest = FALSE /\ ndone = 0
    /\ pc = "top"
    /\ nwrites = 0 /\ ncmds = 0 /\ nfaults = 0

-----------------------------------------------------------------------------
(***************************************************************************)
(* The iteration.                                                          *)
(***************************************************************************)

\* nilfs_cleanerd_reconfig(): a path that is not a regular file changes
\* nothing; any other one, readable or not, replaces the configuration and
\* the parameters of automatic cleaning.
reconfig(file) ==
    IF file = BadFile
    THEN UNCHANGED <<config, ncleansegs>>
    ELSE config' = file /\ ncleansegs' = file.nsegs

\* The iteration goes to sleep: its locals are dead, but for ndone, which the
\* properties look at.
ToSleep == pc' = "wait" /\ sustat' = NoStatistics /\ chosen' = {} /\ oldest' = FALSE
ToSelect == pc' = "select" /\ UNCHANGED <<sustat, chosen, oldest>>

\* Mutation of Top: only a daemon that cleans looks at the reload flag.
TopReloadsIfRunning ==
    /\ pc = "top" /\ pc' = "check"
    /\ no_timeout' = FALSE
    /\ IF reload_config /\ running > 0
       THEN reconfig(conffile) /\ reload_config' = FALSE
       ELSE UNCHANGED <<config, ncleansegs, reload_config>>
    /\ sustat' = [ncleansegs |-> NClean, nongc_ctime |-> nongc_ctime,
                  unprot |-> Unprotected]
    /\ UNCHANGED <<fsVars, conffile, modeVars, fallback, retry_cleaning,
                   shutdown, prev_nongc_ctime, mmVars, chosen, oldest, ndone,
                   bounds>>

\* Block SIGHUP and SIGUSR1, nilfs_cleanerd_handle_signals(),
\* nilfs_get_sustat().
Top ==
    /\ pc = "top"
    /\ no_timeout' = FALSE
    /\ IF reload_config THEN reconfig(conffile)
                        ELSE UNCHANGED <<config, ncleansegs>>
    /\ reload_config' = FALSE
    /\ \/ /\ pc' = "check" /\ NoFault
          /\ sustat' = [ncleansegs |-> NClean, nongc_ctime |-> nongc_ctime,
                        unprot |-> Unprotected]
       \/ /\ pc' = "exit" /\ Fault("io")
          /\ UNCHANGED sustat
    /\ UNCHANGED <<fsVars, conffile, modeVars, fallback, retry_cleaning,
                   shutdown, prev_nongc_ctime, mmVars, chosen, oldest, ndone,
                   nwrites, ncmds>>

\* Mutation of Suspended: the test for a suspended daemon is missing.
SuspensionIgnored ==
    /\ running = -1 /\ ToSelect
    /\ UNCHANGED <<running, timeout, ncleansegs, prev_nongc_ctime,
                   mm_nrestpasses, mm_nrestsegs, nfaults>>

Suspended ==
    /\ running = -1
    /\ ToSleep
    /\ UNCHANGED <<running, timeout, ncleansegs, prev_nongc_ctime,
                   mm_nrestpasses, mm_nrestsegs, nfaults>>

\* nilfs_cleanerd_handle_manual_mode() when it does not end the manual run:
\* a new pass is as long as there are reclaimable segments now.
handle_manual_mode ==
    /\ running = 2
    /\ IF mm_nrestsegs = 0 /\ mm_nrestpasses > 0
       THEN /\ mm_nrestpasses' = mm_nrestpasses - 1
            /\ mm_nrestsegs' = Cardinality(Reclaimable)
       ELSE UNCHANGED <<mm_nrestpasses, mm_nrestsegs>>
    /\ NoFault
    /\ mm_nrestpasses' # 0 \/ mm_nrestsegs' # 0
    /\ ToSelect
    /\ UNCHANGED <<running, timeout, ncleansegs, prev_nongc_ctime>>

\* The manual run ends here: both counters are used up, or the segments
\* cannot be counted.
manual_mode_ends ==
    /\ running = 2 /\ mm_nrestsegs = 0
    /\ \/ /\ mm_nrestpasses = 0 /\ NoFault
       \/ /\ mm_nrestpasses = 1 /\ Reclaimable = {} /\ NoFault
       \/ /\ mm_nrestpasses > 0 /\ Fault("io")
    /\ mm_nrestpasses' = 0 /\ mm_nrestsegs' = 0

\* What precedes the automatic checks of nilfs_cleanerd_check_state(): the
\* daemon is in automatic mode, or a manual run has just ended.
AutomaticFrom(r, t) ==
    \/ /\ running \in {0, 1} /\ r = running /\ t = timeout
       /\ UNCHANGED <<mm_nrestpasses, mm_nrestsegs, nfaults>>
    \/ /\ manual_mode_ends
       /\ r = 0 /\ t = "check"

\* Mutations of handle_clean_check: a running daemon is never paused; an
\* idle one compares with the wrong limit.
never_pause(r, t) ==
    /\ automatic_suspend(config)
    /\ UNCHANGED <<prev_nongc_ctime, ncleansegs>> /\ timeout' = t
    /\ IF r = 1 \/ BelowMin(config) THEN running' = 1 /\ ToSelect
                                    ELSE running' = 0 /\ ToSleep
resume_above_max(r, t) ==
    /\ automatic_suspend(config)
    /\ UNCHANGED <<prev_nongc_ctime, ncleansegs>> /\ timeout' = "check"
    /\ IF IF r = 1 THEN ~AboveMax(config) ELSE AboveMax(config)
       THEN running' = 1 /\ ToSelect
       ELSE running' = 0 /\ ToSleep

\* nilfs_cleanerd_handle_clean_check()
handle_clean_check(r, t) ==
    /\ automatic_suspend(config)
    /\ UNCHANGED prev_nongc_ctime
    /\ \/ /\ r = 1 /\ AboveMax(config)
          /\ running' = 0 /\ timeout' = "check" /\ ToSleep
          /\ UNCHANGED ncleansegs
       \/ /\ r = 0 /\ ~BelowMin(config)
          /\ running' = 0 /\ timeout' = t /\ ToSleep
          /\ UNCHANGED ncleansegs
       \/ /\ IF r = 1 THEN ~AboveMax(config) ELSE BelowMin(config)
          /\ running' = 1 /\ timeout' = t /\ ToSelect
          /\ ncleansegs' = IF BelowMin(config) THEN config.mc_nsegs
                                               ELSE config.nsegs

\* Continuous cleaning: an idle daemon sleeps until the fs is updated.
continuous_check(r, t) ==
    /\ ~automatic_suspend(config)
    /\ timeout' = t
    /\ UNCHANGED ncleansegs
    /\ \/ /\ r = 0 /\ sustat.nongc_ctime = prev_nongc_ctime
          /\ running' = 0 /\ ToSleep
          /\ UNCHANGED prev_nongc_ctime
       \/ /\ r = 0 /\ sustat.nongc_ctime # prev_nongc_ctime
          /\ running' = 1 /\ ToSelect
          /\ prev_nongc_ctime' = sustat.nongc_ctime
       \/ /\ r = 1
          /\ running' = 1 /\ ToSelect
          /\ UNCHANGED prev_nongc_ctime

\* nilfs_cleanerd_check_state()
CheckState ==
    /\ pc = "check"
    /\ \/ Suspended
       \/ handle_manual_mode
       \/ \E r \in {0, 1}, t \in Timeouts :
             /\ AutomaticFrom(r, t)
             /\ handle_clean_check(r, t) \/ continuous_check(r, t)
    /\ UNCHANGED <<fsVars, confVars, mm_prev_state, flagVars, shutdown,
                   mm_ncleansegs, mm_prot, ndone, nwrites, ncmds>>

\* The segments the time-based protection leaves to the policy.  A manual
\* run may have set the protection period to zero.
Selectable ==
    IF running = 2 /\ mm_prot = "zero" THEN Reclaimable ELSE Old

\* nilfs_cleanerd_select_segments(): which of them are chosen is the
\* policy's business, but it chooses some if it can.
Select ==
    /\ pc = "select"
    /\ \/ /\ chosen' \in SUBSET Selectable
          /\ chosen' = {} => Old = {}
          /\ NoFault
          /\ ndone' = 0
          /\ oldest' = (Reclaimable # {})
          /\ IF chosen' = {}
             THEN pc' = "recalc" /\ retry_cleaning' = FALSE
             ELSE pc' = "clean" /\ UNCHANGED retry_cleaning
       \/ /\ Fault("io") /\ pc' = "exit"
          /\ UNCHANGED <<chosen, oldest, ndone, retry_cleaning>>
    /\ UNCHANGED <<fsVars, confVars, modeVars, fallback, no_timeout, shutdown,
                   ncleansegs, prev_nongc_ctime, mmVars, sustat, nwrites,
                   ncmds>>

\* Mutation of progress: only automatic cleaning counts.
progress_of_auto(n) ==
    mm_nrestsegs' = IF running = 1 THEN Max2(mm_nrestsegs - n, 0)
                                   ELSE mm_nrestsegs

\* nilfs_cleanerd_progress()
progress(n) ==
    mm_nrestsegs' = IF running = 2 THEN Max2(mm_nrestsegs - n, 0)
                                   ELSE mm_nrestsegs

\* Mutation of reduce_ncleansegs_for_retry: the test against one is missing.
reduce_to_zero ==
    IF running = 2
    THEN ncleansegs' = ncleansegs \div 2 /\ UNCHANGED mm_ncleansegs
    ELSE mm_ncleansegs' = mm_ncleansegs \div 2 /\ UNCHANGED ncleansegs

\* nilfs_cleanerd_reduce_ncleansegs_for_retry()
reduce_ncleansegs_for_retry ==
    IF running = 2
    THEN /\ ncleansegs' = IF ncleansegs > 1 THEN ncleansegs \div 2 ELSE ncleansegs
         /\ UNCHANGED mm_ncleansegs
    ELSE /\ mm_ncleansegs' = IF mm_ncleansegs > 1 THEN mm_ncleansegs \div 2
                                                  ELSE mm_ncleansegs
         /\ UNCHANGED ncleansegs

\* The segments nilfs_xreclaim_segment() keeps: those that were not
\* protected when the statistics were read.
Kept == chosen \cap sustat.unprot

\* The blocks in use of the kept segments move to at most as many others.
CleanedBy(new) ==
    seg' = [s \in Segs |-> CASE s \in Kept -> "clean"
                             [] s \in new  -> "young+prot"
                             [] OTHER      -> seg[s]]

\* nilfs_cleanerd_clean_segments() when nilfs_xreclaim_segment() disposes of
\* segments: it cleans them all, or defers them all by touching them.
CleanSome ==
    /\ pc = "clean" /\ Kept # {}
    /\ ~frozen                   \* the ioctl waits for a frozen fs (external)
    /\ \/ /\ \E new \in SUBSET {s \in Segs : seg[s] = "clean"} :
                Cardinality(new) <= Cardinality(Kept) /\ CleanedBy(new)
          /\ UNCHANGED no_timeout
       \/ /\ seg' = [s \in Segs |-> IF s \in Kept THEN Touched(seg[s]) ELSE seg[s]]
          /\ no_timeout' = TRUE
    /\ ndone' = Cardinality(Kept)
    /\ progress(Cardinality(Kept))
    /\ fallback' = FALSE /\ retry_cleaning' = FALSE
    /\ pc' = "recalc"
    /\ UNCHANGED <<nongc_ctime, frozen, confVars, modeVars, shutdown,
                   ncleansegs, prev_nongc_ctime, mm_nrestpasses,
                   mm_ncleansegs, mm_prot, sustat, chosen, oldest, bounds>>

\* ... when all of them are protected: try to move the log cursor, once.
\* Nobody else cleans here, so nilfs_segments_still_reclaimable() finds them so.
CleanNone ==
    /\ pc = "clean" /\ Kept = {}
    /\ ndone' = 0
    /\ IF ~retry_cleaning
       THEN pc' = "freeze" /\ UNCHANGED retry_cleaning
       ELSE pc' = "recalc" /\ retry_cleaning' = FALSE
    /\ UNCHANGED <<fsVars, confVars, modeVars, fallback, no_timeout, shutdown,
                   ncleansegs, prev_nongc_ctime, mmVars, sustat, chosen,
                   oldest, bounds>>

\* ... when it fails: a shortage of memory is retried later, the rest is
\* fatal.
CleanFails ==
    /\ pc = "clean"
    /\ \/ /\ Fault("enomem")
          /\ reduce_ncleansegs_for_retry
          /\ fallback' = TRUE /\ ndone' = 0
          /\ pc' = "recalc"
       \/ /\ Fault("io")
          /\ pc' = "exit"
          /\ UNCHANGED <<ncleansegs, mm_ncleansegs, fallback, ndone>>
    /\ UNCHANGED <<fsVars, confVars, modeVars, retry_cleaning, no_timeout,
                   shutdown, prev_nongc_ctime, mm_nrestpasses, mm_nrestsegs,
                   mm_prot, sustat, chosen, oldest, nwrites, ncmds>>

\* nilfs_shrink_protected_region(): sync and freeze ...
Freeze ==
    /\ pc = "freeze"
    /\ \/ /\ NoFault /\ frozen' = TRUE /\ pc' = "thaw"
          /\ seg' = [s \in Segs |-> Unprotect(seg[s])]
          /\ UNCHANGED retry_cleaning
       \/ /\ Fault("freeze") /\ pc' = "recalc" /\ retry_cleaning' = FALSE
          /\ UNCHANGED <<seg, frozen>>
    /\ UNCHANGED <<nongc_ctime, confVars, modeVars, fallback, no_timeout,
                   shutdown, ncleansegs, prev_nongc_ctime, mmVars, loopVars,
                   nwrites, ncmds>>

\* Mutation of Thaw: only a failed thaw is undone.
ThawForgotten ==
    /\ pc = "thaw" /\ pc' = "recalc" /\ retry_cleaning' = TRUE
    /\ UNCHANGED <<fsVars, confVars, modeVars, fallback, no_timeout, shutdown,
                   ncleansegs, prev_nongc_ctime, mmVars, loopVars, bounds>>

\* ... and thaw.
Thaw ==
    /\ pc = "thaw"
    /\ pc' = "recalc"
    /\ \/ NoFault /\ frozen' = FALSE /\ retry_cleaning' = TRUE
       \/ Fault("thaw") /\ retry_cleaning' = FALSE /\ UNCHANGED frozen
    /\ UNCHANGED <<seg, nongc_ctime, confVars, modeVars, fallback, no_timeout,
                   shutdown, ncleansegs, prev_nongc_ctime, mmVars, loopVars,
                   nwrites, ncmds>>

\* Mutation of NothingDone: a pass that chose segments but cleaned none
\* counts as work.
NothingChosen == chosen = {}

\* nilfs_cleanerd_recalc_interval()
NothingDone == chosen = {} \/ (~fallback /\ ndone = 0 /\ ~retry_cleaning)

\* Mutation of recalc_interval: the end of a manual run starts automatic
\* cleaning.
recalc_to_auto ==
    /\ running' = IF NothingDone /\ running = 2 THEN 1 ELSE running
    /\ timeout' = "idle"

recalc_interval ==
    \/ /\ NothingDone /\ running = 2              \* nilfs_cleanerd_manual_end()
       /\ running' = 0 /\ timeout' = "check"
    \/ /\ NothingDone /\ running # 2
       /\ running' = IF oldest THEN running ELSE 0
       /\ timeout' = "idle"
    \/ /\ ~NothingDone /\ fallback
       /\ timeout' = "retry" /\ UNCHANGED running
    \/ /\ ~NothingDone /\ ~fallback               \* target time already past
       /\ timeout' = "zero" /\ UNCHANGED running
    \/ /\ ~NothingDone /\ ~fallback /\ ~no_timeout
       /\ timeout' = "interval" /\ UNCHANGED running

Recalc ==
    /\ pc = "recalc"
    /\ recalc_interval
    /\ ToSleep
    /\ UNCHANGED <<fsVars, confVars, mm_prev_state, flagVars, shutdown,
                   ncleansegs, prev_nongc_ctime, mmVars, ndone, bounds>>

\* nilfs_cleanerd_wait() when the time is up, or ppoll() fails.
WaitTimeout ==
    /\ pc = "wait"
    /\ \/ pc' = "top" /\ NoFault
       \/ pc' = "exit" /\ Fault("io")
    /\ UNCHANGED <<fsVars, confVars, modeVars, flagVars, shutdown, ncleansegs,
                   prev_nongc_ctime, mmVars, loopVars, nwrites, ncmds>>

-----------------------------------------------------------------------------
(***************************************************************************)
(* Commands, nilfs_cleanerd_handle_message().  They are served only while  *)
(* the daemon waits, one per iteration, and end the wait.                  *)
(***************************************************************************)
CmdFrame ==
    /\ pc = "wait" /\ ncmds < MaxCmds /\ ncmds' = ncmds + 1
    /\ UNCHANGED <<fsVars, flagVars, prev_nongc_ctime, loopVars, nwrites, nfaults>>

Served == pc' = "top" /\ UNCHANGED shutdown

\* get-status and the refused commands tune and wait, and unknown ones.
CmdNoChange ==
    /\ CmdFrame /\ Served
    /\ UNCHANGED <<confVars, modeVars, ncleansegs, mmVars>>

\* The arguments of a run command: the protection period and the number of
\* segments per clean, given or defaulted, and the number of passes.
RunArgs == [prot : {"config", "zero"}, nsegs : {0} \cup {c.mc_nsegs : c \in Configs},
            npasses : 1..MaxPasses]

mm_ncleansegs_of(args) == IF args.nsegs = 0 THEN ncleansegs ELSE args.nsegs

CmdRun(args) ==
    /\ CmdFrame /\ Served
    /\ mm_prot' = args.prot
    /\ mm_ncleansegs' = mm_ncleansegs_of(args)
    /\ mm_nrestpasses' = args.npasses /\ mm_nrestsegs' = 0
    /\ running' = 2
    /\ UNCHANGED <<confVars, timeout, mm_prev_state, ncleansegs>>

\* A run command with an invalid argument is refused when the argument is
\* met: what precedes it has been assigned.
CmdRunInvalid(args, at) ==
    /\ CmdFrame /\ Served
    /\ mm_prot' = IF at = "argsize" THEN mm_prot ELSE args.prot
    /\ mm_ncleansegs' = IF at \in {"argsize", "nsegs"} THEN mm_ncleansegs
                                                       ELSE mm_ncleansegs_of(args)
    /\ UNCHANGED <<confVars, modeVars, ncleansegs, mm_nrestpasses, mm_nrestsegs>>

CmdSuspend ==
    /\ CmdFrame /\ Served
    /\ IF running # -1
       THEN mm_prev_state' = running /\ running' = -1 /\ timeout' = "check"
       ELSE UNCHANGED <<running, mm_prev_state, timeout>>
    /\ UNCHANGED <<confVars, ncleansegs, mmVars>>

CmdResume ==
    /\ CmdFrame /\ Served
    /\ IF running = -1
       THEN mm_prev_state' = 0 /\ running' = mm_prev_state'
       ELSE UNCHANGED <<running, mm_prev_state>>
    /\ UNCHANGED <<confVars, timeout, ncleansegs, mmVars>>

CmdReload(file) ==
    /\ CmdFrame /\ Served
    /\ reconfig(file)
    /\ UNCHANGED <<conffile, reload_config, modeVars, mmVars>>

\* Mutation of CmdStop: nilfs_cleanerd_manual_stop() sets no timeout.
CmdStopKeepsTimeout ==
    /\ CmdFrame /\ Served
    /\ running' = IF running \in {2, -1} THEN 0 ELSE running
    /\ UNCHANGED <<confVars, timeout, mm_prev_state, ncleansegs, mmVars>>

CmdStop ==
    /\ CmdFrame /\ Served
    /\ IF running \in {2, -1}
       THEN running' = 0 /\ timeout' = "check"
       ELSE UNCHANGED <<running, timeout>>
    /\ UNCHANGED <<confVars, mm_prev_state, ncleansegs, mmVars>>

CmdShutdown ==
    /\ CmdFrame
    /\ shutdown' = TRUE /\ pc' = "exit"
    /\ UNCHANGED <<confVars, modeVars, ncleansegs, mmVars>>

HandleMessage ==
    \/ CmdNoChange
    \/ \E args \in RunArgs : CmdRun(args)
    \/ \E args \in RunArgs, at \in {"argsize", "nsegs", "min_blocks", "npasses"} :
          CmdRunInvalid(args, at)
    \/ CmdSuspend \/ CmdResume \/ CmdStop \/ CmdShutdown
    \/ \E file \in Configs \cup {BadFile} : CmdReload(file)

-----------------------------------------------------------------------------
(***************************************************************************)
(* Signals.                                                                *)
(***************************************************************************)
\* SIGHUP only raises a flag.  It ends the wait if ppoll() has begun; between
\* SIG_UNBLOCK and ppoll() it does not.
Sighup ==
    /\ "sighup" \in Faults /\ pc # "exit"
    /\ ncmds < MaxCmds /\ ncmds' = ncmds + 1
    /\ conffile' \in Configs \cup {BadFile}
    /\ reload_config' = TRUE
    /\ pc' \in (IF pc = "wait" THEN {"wait", "top"} ELSE {pc})
    /\ UNCHANGED <<fsVars, config, modeVars, flagVars, shutdown, ncleansegs,
                   prev_nongc_ctime, mmVars, loopVars, nwrites, nfaults>>

\* SIGTERM and SIGINT are not blocked by the loop: the handler leaves it by
\* siglongjmp() wherever it is, and main() destroys the daemon.
Sigterm ==
    /\ pc # "exit" /\ Fault("sigterm")
    /\ pc' = "exit"
    /\ UNCHANGED <<fsVars, confVars, modeVars, flagVars, shutdown, ncleansegs,
                   prev_nongc_ctime, mmVars, loopVars, nwrites, ncmds>>

-----------------------------------------------------------------------------
(***************************************************************************)
(* The file system (external): its users fill clean segments, time passes, *)
(* and it moves its log cursor now and then.                               *)
(***************************************************************************)
FsWrite ==
    /\ nwrites < MaxWrites /\ nwrites' = nwrites + 1
    /\ ~frozen
    /\ \E s \in Segs : seg[s] = "clean" /\ seg' = [seg EXCEPT ![s] = "young+prot"]
    \* two updates of the same second have the same time
    /\ nongc_ctime' \in {Max2(nongc_ctime, 1), nongc_ctime + 1}
    /\ UNCHANGED <<frozen, confVars, modeVars, flagVars, shutdown, ncleansegs,
                   prev_nongc_ctime, mmVars, loopVars, pc, ncmds, nfaults>>

FsAge ==
    /\ \E s \in Segs : /\ Aged(seg[s]) # seg[s]
                       /\ seg' = [seg EXCEPT ![s] = Aged(seg[s])]
    /\ UNCHANGED <<nongc_ctime, frozen, confVars, modeVars, flagVars, shutdown,
                   ncleansegs, prev_nongc_ctime, mmVars, loopVars, pc, bounds>>

FsCursor ==
    /\ \E s \in Segs : /\ Unprotect(seg[s]) # seg[s]
                       /\ seg' = [seg EXCEPT ![s] = Unprotect(seg[s])]
    /\ UNCHANGED <<nongc_ctime, frozen, confVars, modeVars, flagVars, shutdown,
                   ncleansegs, prev_nongc_ctime, mmVars, loopVars, pc, bounds>>

-----------------------------------------------------------------------------
Daemon ==
    \/ Top \/ CheckState \/ Select \/ CleanSome \/ CleanNone \/ CleanFails
    \/ Freeze \/ Thaw \/ Recalc \/ WaitTimeout

Environment == HandleMessage \/ Sighup \/ Sigterm \/ FsWrite \/ FsAge \/ FsCursor

Next == Daemon \/ Environment

\* The daemon is scheduled, and every timeout it computes is finite.
Spec == Init /\ [][Next]_vars /\ WF_vars(Daemon)

-----------------------------------------------------------------------------
(***************************************************************************)
(* Properties.                                                             *)
(***************************************************************************)
Working == pc \in {"select", "clean", "freeze", "thaw", "recalc"}

\* The types, in two parts: data, and flags.
DataTypeOK ==
    /\ seg \in [Segs -> SegState] /\ nongc_ctime \in Nat
    /\ conffile \in Configs \cup {BadFile} /\ config \in Configs
    /\ running \in {-1, 0, 1, 2} /\ mm_prev_state \in {0, 1, 2}
    /\ ncleansegs \in Nat \ {0} /\ mm_ncleansegs \in Nat
    /\ timeout \in Timeouts /\ prev_nongc_ctime \in Nat
    /\ mm_nrestpasses \in Nat /\ mm_nrestsegs \in Nat
    /\ mm_prot \in {"config", "zero"}
    /\ sustat \in Statistics /\ chosen \in SUBSET Segs /\ ndone \in Nat
    /\ pc \in {"top", "check", "select", "clean", "freeze", "thaw", "recalc",
               "wait", "exit"}
    /\ nwrites \in Nat /\ ncmds \in Nat /\ nfaults \in Nat
FlagTypeOK ==
    /\ frozen \in BOOLEAN /\ reload_config \in BOOLEAN /\ fallback \in BOOLEAN
    /\ retry_cleaning \in BOOLEAN /\ no_timeout \in BOOLEAN
    /\ shutdown \in BOOLEAN /\ oldest \in BOOLEAN

\* Every variable keeps its type; for one, the number of segments per pass
\* never falls to zero, however often a shortage of memory halves it
\* (nilfs_cleanerd_reduce_ncleansegs_for_retry()).
TypeOK == DataTypeOK /\ FlagTypeOK

\* The daemon as its user sees it.
ControlMode ==
    CASE pc = "exit"  -> "down"
      [] pc # "exit" /\ running = -1 -> "suspended"
      [] pc # "exit" /\ running = 0  -> "idle"
      [] pc # "exit" /\ running = 1  -> "auto"
      [] OTHER -> "manual"

Control == INSTANCE CleanerControl WITH mode <- ControlMode, busy <- Working

\* The daemon implements CleanerControl: for one, no interleaving of reloads,
\* signals and commands lets it work while suspended, lifts a suspension
\* without a command, or changes its mode in the middle of a pass.
ImplementsControl == Control!Spec

\* While garbage collection is suspended or idle no part of a cleaning pass
\* is executed: whatever command or reload came before, the daemon enters a
\* pass only in one of the two running states and leaves them only after it
\* (nilfs_cleanerd_check_state()).
PassOnlyWhenRunning == Working => running \in {1, 2}

\* A daemon that is suspended or idle sleeps for the clean check interval or
\* longer; it never inherits the zero, cleaning or retry timeout of the pass
\* before.  nilfs_cleanerd_check_state() goes to sleep without computing a
\* timeout, and relies on whoever left the running state having set one.
IdleNeverSpins == pc = "wait" /\ running \in {-1, 0} => timeout \in {"check", "idle"}

\* The same from the moment the daemon wakes up to the end of its checks:
\* what makes the above inductive.
IdleTimeoutKept ==
    pc \in {"wait", "top", "check"} /\ running \in {-1, 0} => timeout \in {"check", "idle"}

\* A pass is repeated at once only if it disposed of segments, or if it has
\* just moved the log cursor to get at protected ones: the daemon does not
\* spin without progress (nilfs_cleanerd_recalc_interval()).
NoSpinWithoutProgress ==
    pc = "wait" /\ timeout = "zero" => ndone > 0 \/ retry_cleaning

\* With a limit on clean segments no automatic pass starts from statistics
\* that show more of them than max_clean_segments and the reserve, even
\* after reloads that changed the limits; unless they are below the minimum
\* too, for nothing keeps a configuration from having min above max
\* (nilfs_cleanerd_handle_clean_check()).
PausedAboveMax ==
    pc = "select" /\ running = 1 /\ automatic_suspend(config) =>
        ~AboveMax(config) \/ BelowMin(config)

\* As long as nothing fails and no signal kills the daemon, it holds the file
\* system frozen only inside nilfs_shrink_protected_region(): in particular
\* not while it reclaims, which would wait for the thaw, and not while it
\* sleeps.
FrozenOnlyInShrink == nfaults = 0 /\ frozen => pc = "thaw"

\* The inductive invariant.
Inv ==
    /\ TypeOK
    /\ PassOnlyWhenRunning /\ IdleTimeoutKept /\ NoSpinWithoutProgress
    /\ PausedAboveMax /\ FrozenOnlyInShrink

\* Every manual run comes to an end, even if every segment it selects is
\* only deferred or its data keeps moving to other segments: the number of
\* segments to dispose of is fixed when a pass begins.
ManualRunEnds == running = 2 ~> running # 2 \/ pc = "exit"

\* A SIGHUP is answered by a reload, whatever state the daemon is in.
ReloadServed == reload_config ~> ~reload_config \/ pc = "exit"

\* A daemon paused by the clean check never stays so while clean segments
\* are below min_clean_segments and the reserve.
LowSpaceResumes ==
    []<>(\/ running # 0 \/ pc = "exit" \/ ~automatic_suspend(config)
         \/ NClean >= config.min + nilfs_get_reserved_segments)

-----------------------------------------------------------------------------
(***************************************************************************)
(* What the documentation says and the code does not do.                   *)
(***************************************************************************)
\* nilfs_cleanerd(8): on SIGINT and SIGTERM the daemon "will exit cleanly".
\* The signals are not blocked between nilfs_freeze() and nilfs_thaw().
ExitLeavesFsThawed == pc = "exit" => ~frozen
=============================================================================
