--------------------------- MODULE CleanerdProofs ---------------------------
(***************************************************************************)
(* Safety of the clean loop of Cleanerd, for every set of segments, every  *)
(* set of configurations and all bounds.                                   *)
(***************************************************************************)
EXTENDS Cleanerd, FiniteSetTheorems, TLAPS

\* The clean segments, and those a pass keeps, are counted by a natural number.
LEMMA CountIsNat ==
    ASSUME NEW S \in SUBSET Segs
    PROVE  Cardinality(S) \in Nat
<1>1. IsFiniteSet(S)
  BY SegsAssumption, FS_Subset
<1> QED  BY <1>1, FS_CardinalityType

\* What becomes of the state of a segment is again such a state.
LEMMA SegStateClosed ==
    ASSUME NEW st \in SegState
    PROVE  Unprotect(st) \in SegState /\ Aged(st) \in SegState /\ Touched(st) \in SegState
BY DEF SegState, Unprotect, Aged, Touched

-----------------------------------------------------------------------------
\* The initial state of the loop is well typed.
LEMMA InitTypeOK == Init => TypeOK
<1> SUFFICES ASSUME Init PROVE TypeOK
  OBVIOUS
<1>1. DataTypeOK
  BY ConfigsAssumption DEF Init, DataTypeOK, Statistics, NoStatistics, Timeouts,
     automatic_suspend
<1>2. FlagTypeOK
  BY DEF Init, FlagTypeOK
<1> QED  BY <1>1, <1>2 DEF TypeOK

\* Every step of the daemon and of its environment preserves the data types.
LEMMA NextDataTypeOK == DataTypeOK /\ [Next]_vars => DataTypeOK'
<1> SUFFICES ASSUME DataTypeOK, [Next]_vars PROVE DataTypeOK'
  OBVIOUS
<1> USE ConfigsAssumption, BoundsAssumption
        DEF DataTypeOK, fsVars, confVars, mmVars, loopVars, modeVars, flagVars,
            bounds, Statistics, NoStatistics, Timeouts, Fault, NoFault
<1>1. CASE Top
  <2>1. NClean \in Nat
    BY CountIsNat DEF NClean
  <2>2. Unprotected \in SUBSET Segs
    BY DEF Unprotected
  <2> QED  BY <1>1, <2>1, <2>2 DEF Top, reconfig
<1>2. CASE CheckState
  <2>1. Cardinality(Reclaimable) \in Nat
    BY CountIsNat DEF Reclaimable
  <2> USE DEF ToSleep, ToSelect
  <2>2. CASE Suspended
    BY <1>2, <2>2 DEF CheckState, Suspended
  <2>3. CASE handle_manual_mode
    BY <1>2, <2>1, <2>3 DEF CheckState, handle_manual_mode
  <2>4. ASSUME NEW r \in {0, 1}, NEW t \in Timeouts, AutomaticFrom(r, t),
               handle_clean_check(r, t) \/ continuous_check(r, t)
        PROVE  DataTypeOK'
    <3>1. mm_nrestpasses' \in Nat /\ mm_nrestsegs' \in Nat /\ nfaults' \in Nat
      BY <2>4 DEF AutomaticFrom, manual_mode_ends
    <3>2. CASE handle_clean_check(r, t)
      BY <1>2, <2>4, <3>1, <3>2 DEF CheckState, handle_clean_check
    <3>3. CASE continuous_check(r, t)
      BY <1>2, <2>4, <3>1, <3>3 DEF CheckState, continuous_check
    <3> QED  BY <2>4, <3>2, <3>3
  <2> QED  BY <1>2, <2>2, <2>3, <2>4 DEF CheckState
<1>3. CASE Select
  BY <1>3 DEF Select, Selectable, Reclaimable, Old
<1>4. CASE CleanSome
  <2>1. Cardinality(Kept) \in Nat
    BY CountIsNat DEF Kept
  <2>2. seg' \in [Segs -> SegState]
    BY <1>4, SegStateClosed DEF CleanSome, CleanedBy, SegState
  <2>3. mm_nrestsegs' \in Nat
    BY <1>4, <2>1 DEF CleanSome, progress, Max2
  <2> QED  BY <1>4, <2>1, <2>2, <2>3 DEF CleanSome
<1>5. CASE CleanNone
  BY <1>5 DEF CleanNone
<1>6. CASE CleanFails
  <2>1. ncleansegs' \in Nat \ {0} /\ mm_ncleansegs' \in Nat
    BY <1>6 DEF CleanFails, reduce_ncleansegs_for_retry
  <2> QED  BY <1>6, <2>1 DEF CleanFails
<1>7. CASE Freeze
  BY <1>7, SegStateClosed DEF Freeze
<1>8. CASE Thaw
  BY <1>8 DEF Thaw
<1>9. CASE Recalc
  BY <1>9 DEF Recalc, recalc_interval, ToSleep
<1>10. CASE WaitTimeout
  BY <1>10 DEF WaitTimeout
<1>11. CASE HandleMessage
  <2> USE DEF CmdFrame, Served, RunArgs
  <2>1. CASE CmdNoChange
    BY <2>1 DEF CmdNoChange
  <2>2. ASSUME NEW args \in RunArgs PROVE mm_ncleansegs_of(args) \in Nat
    BY <2>2 DEF mm_ncleansegs_of
  <2>3. ASSUME NEW args \in RunArgs, CmdRun(args) PROVE DataTypeOK'
    BY <2>2, <2>3 DEF CmdRun
  <2>4. ASSUME NEW args \in RunArgs, NEW at, CmdRunInvalid(args, at)
        PROVE  DataTypeOK'
    BY <2>2, <2>4 DEF CmdRunInvalid
  <2>5. CASE CmdSuspend
    BY <2>5 DEF CmdSuspend
  <2>6. CASE CmdResume
    BY <2>6 DEF CmdResume
  <2>7. CASE CmdStop
    BY <2>7 DEF CmdStop
  <2>8. CASE CmdShutdown
    BY <2>8 DEF CmdShutdown
  <2>9. ASSUME NEW file \in Configs \cup {BadFile}, CmdReload(file)
        PROVE  DataTypeOK'
    BY <2>9 DEF CmdReload, reconfig
  <2> QED
    BY <1>11, <2>1, <2>3, <2>4, <2>5, <2>6, <2>7, <2>8, <2>9 DEF HandleMessage
<1>12. CASE Sighup
  BY <1>12 DEF Sighup
<1>13. CASE Sigterm
  BY <1>13 DEF Sigterm
<1>14. CASE FsWrite
  BY <1>14 DEF FsWrite, Max2, SegState
<1>15. CASE FsAge
  BY <1>15, SegStateClosed DEF FsAge
<1>16. CASE FsCursor
  BY <1>16, SegStateClosed DEF FsCursor
<1>17. CASE UNCHANGED vars
  BY <1>17 DEF vars
<1> QED
  BY <1>1, <1>2, <1>3, <1>4, <1>5, <1>6, <1>7, <1>8, <1>9, <1>10, <1>11,
     <1>12, <1>13, <1>14, <1>15, <1>16, <1>17 DEF Next, Daemon, Environment

\* ... and the flags stay Boolean.
LEMMA NextFlagTypeOK == FlagTypeOK /\ [Next]_vars => FlagTypeOK'
<1> SUFFICES ASSUME FlagTypeOK, [Next]_vars PROVE FlagTypeOK'
  OBVIOUS
<1> USE DEF FlagTypeOK, fsVars, confVars, mmVars, loopVars, modeVars, flagVars,
            bounds
<1>1. CASE Top
  BY <1>1 DEF Top
<1>2. CASE CheckState
  <2>1. UNCHANGED <<frozen, reload_config, fallback, retry_cleaning, no_timeout,
                    shutdown>>
    BY <1>2 DEF CheckState
  <2>2. ToSleep \/ ToSelect
    BY <1>2 DEF CheckState, Suspended, handle_manual_mode, handle_clean_check,
       continuous_check
  <2>3. oldest' = FALSE \/ oldest' = oldest
    BY <2>2 DEF ToSleep, ToSelect
  <2> QED  BY <2>1, <2>3
<1>3. CASE Select
  BY <1>3 DEF Select
<1>4. CASE CleanSome
  BY <1>4 DEF CleanSome
<1>5. CASE CleanNone
  BY <1>5 DEF CleanNone
<1>6. CASE CleanFails
  BY <1>6 DEF CleanFails
<1>7. CASE Freeze
  BY <1>7 DEF Freeze
<1>8. CASE Thaw
  BY <1>8 DEF Thaw
<1>9. CASE Recalc
  BY <1>9 DEF Recalc, ToSleep
<1>10. CASE WaitTimeout
  BY <1>10 DEF WaitTimeout
<1>11. CASE HandleMessage
  <2> USE DEF CmdFrame, Served
  <2>1. UNCHANGED <<frozen, fallback, retry_cleaning, no_timeout, oldest>>
    BY <1>11 DEF HandleMessage, CmdNoChange, CmdRun, CmdRunInvalid, CmdSuspend,
       CmdResume, CmdStop, CmdShutdown, CmdReload
  <2>2. UNCHANGED reload_config
    BY <1>11 DEF HandleMessage, CmdNoChange, CmdRun, CmdRunInvalid, CmdSuspend,
       CmdResume, CmdStop, CmdShutdown, CmdReload
  <2>3. shutdown' = TRUE \/ shutdown' = shutdown
    BY <1>11 DEF HandleMessage, CmdNoChange, CmdRun, CmdRunInvalid, CmdSuspend,
       CmdResume, CmdStop, CmdShutdown, CmdReload
  <2> QED  BY <2>1, <2>2, <2>3
<1>12. CASE Sighup
  BY <1>12 DEF Sighup
<1>13. CASE Sigterm
  BY <1>13 DEF Sigterm
<1>14. CASE FsWrite
  BY <1>14 DEF FsWrite
<1>15. CASE FsAge
  BY <1>15 DEF FsAge
<1>16. CASE FsCursor
  BY <1>16 DEF FsCursor
<1>17. CASE UNCHANGED vars
  BY <1>17 DEF vars
<1> QED
  BY <1>1, <1>2, <1>3, <1>4, <1>5, <1>6, <1>7, <1>8, <1>9, <1>10, <1>11,
     <1>12, <1>13, <1>14, <1>15, <1>16, <1>17 DEF Next, Daemon, Environment

\* The variables of the daemon and of the file system stay in their types.
THEOREM TypeCorrect == Spec => []TypeOK
<1>1. TypeOK /\ [Next]_vars => TypeOK'
  BY NextDataTypeOK, NextFlagTypeOK DEF TypeOK
<1> QED  BY InitTypeOK, <1>1, PTL DEF Spec

-----------------------------------------------------------------------------
(***************************************************************************)
(* The parts of Inv, each preserved by every step.                         *)
(***************************************************************************)
\* Init establishes the invariant.
LEMMA InitInv == Init => Inv
<1> SUFFICES ASSUME Init PROVE Inv
  OBVIOUS
<1>1. TypeOK
  BY InitTypeOK
<1>2. PassOnlyWhenRunning /\ NoSpinWithoutProgress /\ PausedAboveMax
  BY DEF Init, PassOnlyWhenRunning, Working, NoSpinWithoutProgress, PausedAboveMax
<1>3. IdleTimeoutKept
  BY DEF Init, IdleTimeoutKept
<1>4. FrozenOnlyInShrink
  BY DEF Init, FrozenOnlyInShrink
<1> QED  BY <1>1, <1>2, <1>3, <1>4 DEF Inv

\* A pass is entered by the state check alone, in a running state, and the
\* running state changes only at its end or between passes.
LEMMA NextPassOnlyWhenRunning ==
    DataTypeOK /\ PassOnlyWhenRunning /\ [Next]_vars => PassOnlyWhenRunning'
<1> SUFFICES ASSUME DataTypeOK, PassOnlyWhenRunning, [Next]_vars
             PROVE  PassOnlyWhenRunning'
  OBVIOUS
<1> USE DEF PassOnlyWhenRunning, Working, fsVars, confVars, mmVars, loopVars,
            modeVars, flagVars, bounds
<1>1. CASE Top
  BY <1>1 DEF Top
<1>2. CASE CheckState
  <2>1. CASE Suspended
    BY <2>1 DEF Suspended, ToSleep
  <2>2. CASE handle_manual_mode
    BY <2>2 DEF handle_manual_mode, ToSelect
  <2>3. ASSUME NEW r \in {0, 1}, NEW t \in Timeouts,
               handle_clean_check(r, t) \/ continuous_check(r, t)
        PROVE  PassOnlyWhenRunning'
    BY <2>3 DEF handle_clean_check, continuous_check, ToSleep, ToSelect
  <2> QED  BY <1>2, <2>1, <2>2, <2>3 DEF CheckState
<1>3. CASE Select \/ CleanSome \/ CleanNone \/ CleanFails \/ Freeze \/ Thaw
  <2>1. pc \in {"select", "clean", "freeze", "thaw"} /\ UNCHANGED running
    BY <1>3 DEF Select, CleanSome, CleanNone, CleanFails, Freeze, Thaw
  <2> QED  BY <2>1
<1>4. CASE Recalc
  BY <1>4 DEF Recalc, ToSleep
<1>5. CASE WaitTimeout \/ HandleMessage
  <2>1. pc' \in {"top", "exit"}
    BY <1>5 DEF WaitTimeout, HandleMessage, Served, CmdNoChange, CmdRun,
       CmdRunInvalid, CmdSuspend, CmdResume, CmdStop, CmdShutdown, CmdReload
  <2> QED  BY <2>1
<1>6. CASE Sighup
  BY <1>6 DEF Sighup
<1>7. CASE Sigterm
  BY <1>7 DEF Sigterm
<1>8. CASE FsWrite \/ FsAge \/ FsCursor \/ UNCHANGED vars
  <2>1. UNCHANGED <<pc, running>>
    BY <1>8 DEF FsWrite, FsAge, FsCursor, vars
  <2> QED  BY <2>1
<1> QED
  BY <1>1, <1>2, <1>3, <1>4, <1>5, <1>6, <1>7, <1>8 DEF Next, Daemon, Environment

\* Whatever makes the daemon idle or suspended sets a long timeout, and
\* nothing shortens it until the daemon runs again.
LEMMA NextIdleTimeoutKept ==
    DataTypeOK /\ PassOnlyWhenRunning /\ IdleTimeoutKept /\ [Next]_vars => IdleTimeoutKept'
<1> SUFFICES ASSUME DataTypeOK, PassOnlyWhenRunning, IdleTimeoutKept, [Next]_vars
             PROVE  IdleTimeoutKept'
  OBVIOUS
<1> USE DEF IdleTimeoutKept, DataTypeOK, fsVars, confVars, mmVars, loopVars,
            modeVars, flagVars, bounds
<1>1. CASE Top
  BY <1>1 DEF Top
<1>2. CASE CheckState
  <2>1. CASE Suspended
    BY <1>2, <2>1 DEF CheckState, Suspended, ToSleep
  <2>2. CASE handle_manual_mode
    BY <2>2 DEF handle_manual_mode, ToSelect
  <2>3. ASSUME NEW r \in {0, 1}, NEW t \in Timeouts, AutomaticFrom(r, t),
               handle_clean_check(r, t) \/ continuous_check(r, t)
        PROVE  IdleTimeoutKept'
    <3>1. r = 0 => t \in {"check", "idle"}
      BY <1>2, <2>3 DEF CheckState, AutomaticFrom, manual_mode_ends
    <3> QED
      BY <2>3, <3>1 DEF handle_clean_check, continuous_check, ToSleep, ToSelect
  <2> QED  BY <1>2, <2>1, <2>2, <2>3 DEF CheckState
<1>3. CASE Select \/ CleanSome \/ CleanNone \/ CleanFails \/ Freeze \/ Thaw
  <2>1. pc' \in {"recalc", "clean", "freeze", "thaw", "exit"}
    BY <1>3 DEF Select, CleanSome, CleanNone, CleanFails, Freeze, Thaw
  <2> QED  BY <2>1
<1>4. CASE Recalc
  <2>1. running \in {1, 2}
    BY <1>4 DEF Recalc, PassOnlyWhenRunning, Working
  <2> QED  BY <1>4, <2>1 DEF Recalc, recalc_interval
<1>5. CASE WaitTimeout
  BY <1>5 DEF WaitTimeout
<1>6. CASE HandleMessage
  <2>1. CASE CmdSuspend
    BY <2>1 DEF CmdSuspend, CmdFrame
  <2>2. CASE CmdResume
    BY <2>2 DEF CmdResume, CmdFrame
  <2>3. CASE CmdStop
    BY <2>3 DEF CmdStop, CmdFrame
  <2>4. ASSUME NEW args \in RunArgs, CmdRun(args) PROVE IdleTimeoutKept'
    BY <2>4 DEF CmdRun
  <2>5. CASE pc = "wait" /\ UNCHANGED <<running, timeout>>
    BY <2>5
  <2>6. CASE CmdNoChange \/ CmdShutdown
    BY <2>5, <2>6 DEF CmdNoChange, CmdShutdown, CmdFrame
  <2>7. ASSUME NEW args \in RunArgs, NEW at, CmdRunInvalid(args, at)
        PROVE  IdleTimeoutKept'
    BY <2>5, <2>7 DEF CmdRunInvalid, CmdFrame
  <2>8. ASSUME NEW file, CmdReload(file) PROVE IdleTimeoutKept'
    BY <2>5, <2>8 DEF CmdReload, CmdFrame
  <2> QED
    BY <1>6, <2>1, <2>2, <2>3, <2>4, <2>6, <2>7, <2>8 DEF HandleMessage
<1>7. CASE Sighup
  BY <1>7 DEF Sighup
<1>8. CASE Sigterm
  BY <1>8 DEF Sigterm
<1>9. CASE FsWrite \/ FsAge \/ FsCursor \/ UNCHANGED vars
  <2>1. UNCHANGED <<pc, running, timeout>>
    BY <1>9 DEF FsWrite, FsAge, FsCursor, vars
  <2> QED  BY <2>1
<1> QED
  BY <1>1, <1>2, <1>3, <1>4, <1>5, <1>6, <1>7, <1>8, <1>9
     DEF Next, Daemon, Environment

\* The zero timeout is chosen only after progress or a shrunk protected
\* region, and a daemon that falls asleep without a pass has a longer one.
LEMMA NextNoSpin ==
    DataTypeOK /\ IdleTimeoutKept /\ NoSpinWithoutProgress /\ [Next]_vars
        => NoSpinWithoutProgress'
<1> SUFFICES ASSUME DataTypeOK, IdleTimeoutKept, NoSpinWithoutProgress, [Next]_vars
             PROVE  NoSpinWithoutProgress'
  OBVIOUS
<1> USE DEF NoSpinWithoutProgress, fsVars, confVars, mmVars, loopVars,
            modeVars, flagVars, bounds
<1>1. CASE Top
  BY <1>1 DEF Top
<1>2. CASE CheckState
  <2>1. CASE Suspended
    BY <1>2, <2>1 DEF CheckState, Suspended, IdleTimeoutKept
  <2>2. CASE handle_manual_mode
    BY <2>2 DEF handle_manual_mode, ToSelect
  <2>3. ASSUME NEW r \in {0, 1}, NEW t \in Timeouts, AutomaticFrom(r, t),
               handle_clean_check(r, t) \/ continuous_check(r, t)
        PROVE  NoSpinWithoutProgress'
    <3>1. r = 0 => t \in {"check", "idle"}
      BY <1>2, <2>3 DEF CheckState, AutomaticFrom, manual_mode_ends, IdleTimeoutKept
    <3> QED
      BY <2>3, <3>1 DEF handle_clean_check, continuous_check, ToSelect
  <2> QED  BY <1>2, <2>1, <2>2, <2>3 DEF CheckState
<1>3. CASE Select \/ CleanSome \/ CleanNone \/ CleanFails \/ Freeze \/ Thaw
  <2>1. pc' \in {"recalc", "clean", "freeze", "thaw", "exit"}
    BY <1>3 DEF Select, CleanSome, CleanNone, CleanFails, Freeze, Thaw
  <2> QED  BY <2>1
<1>4. CASE Recalc
  <2>1. UNCHANGED <<ndone, retry_cleaning>> /\ recalc_interval
    BY <1>4 DEF Recalc
  <2>2. timeout' = "zero" => ~NothingDone /\ ~fallback
    BY <2>1 DEF recalc_interval
  <2>3. timeout' = "zero" => ndone # 0 \/ retry_cleaning
    BY <2>2 DEF NothingDone
  <2>4. ndone # 0 => ndone > 0
    BY DEF DataTypeOK
  <2> QED  BY <2>1, <2>3, <2>4
<1>5. CASE WaitTimeout \/ HandleMessage
  <2>1. pc' \in {"top", "exit"}
    BY <1>5 DEF WaitTimeout, HandleMessage, Served, CmdNoChange, CmdRun,
       CmdRunInvalid, CmdSuspend, CmdResume, CmdStop, CmdShutdown, CmdReload
  <2> QED  BY <2>1
<1>6. CASE Sighup
  BY <1>6 DEF Sighup
<1>7. CASE Sigterm
  BY <1>7 DEF Sigterm
<1>8. CASE FsWrite \/ FsAge \/ FsCursor \/ UNCHANGED vars
  <2>1. UNCHANGED <<pc, timeout, ndone, retry_cleaning>>
    BY <1>8 DEF FsWrite, FsAge, FsCursor, vars
  <2> QED  BY <2>1
<1> QED
  BY <1>1, <1>2, <1>3, <1>4, <1>5, <1>6, <1>7, <1>8 DEF Next, Daemon, Environment

\* The clean check lets an automatic pass begin only below its limits, and
\* neither the limits nor the statistics change before the selection.
LEMMA NextPausedAboveMax ==
    DataTypeOK /\ PausedAboveMax /\ [Next]_vars => PausedAboveMax'
<1> SUFFICES ASSUME DataTypeOK, PausedAboveMax, [Next]_vars PROVE PausedAboveMax'
  OBVIOUS
<1> USE DEF PausedAboveMax, AboveMax, BelowMin, automatic_suspend, fsVars,
            confVars, mmVars, loopVars, modeVars, flagVars, bounds
<1>1. CASE Top
  BY <1>1 DEF Top
<1>2. CASE CheckState
  <2>1. CASE Suspended
    BY <2>1 DEF Suspended, ToSleep
  <2>2. CASE handle_manual_mode
    BY <2>2 DEF handle_manual_mode
  <2>3. ASSUME NEW r \in {0, 1}, NEW t \in Timeouts,
               handle_clean_check(r, t) \/ continuous_check(r, t)
        PROVE  PausedAboveMax'
    <3>1. UNCHANGED config
      BY <1>2 DEF CheckState
    <3>2. CASE handle_clean_check(r, t)
      BY <3>1, <3>2 DEF handle_clean_check, ToSleep, ToSelect
    <3>3. CASE continuous_check(r, t)
      BY <3>1, <3>3 DEF continuous_check
    <3> QED  BY <2>3, <3>2, <3>3
  <2> QED  BY <1>2, <2>1, <2>2, <2>3 DEF CheckState
<1>3. CASE Select \/ CleanSome \/ CleanNone \/ CleanFails \/ Freeze \/ Thaw
  <2>1. pc' \in {"recalc", "clean", "freeze", "thaw", "exit"}
    BY <1>3 DEF Select, CleanSome, CleanNone, CleanFails, Freeze, Thaw
  <2> QED  BY <2>1
<1>4. CASE Recalc
  BY <1>4 DEF Recalc, ToSleep
<1>5. CASE WaitTimeout \/ HandleMessage
  <2>1. pc' \in {"top", "exit"}
    BY <1>5 DEF WaitTimeout, HandleMessage, Served, CmdNoChange, CmdRun,
       CmdRunInvalid, CmdSuspend, CmdResume, CmdStop, CmdShutdown, CmdReload
  <2> QED  BY <2>1
<1>6. CASE Sighup
  BY <1>6 DEF Sighup
<1>7. CASE Sigterm
  BY <1>7 DEF Sigterm
<1>8. CASE FsWrite \/ FsAge \/ FsCursor \/ UNCHANGED vars
  <2>1. UNCHANGED <<pc, running, config, sustat>>
    BY <1>8 DEF FsWrite, FsAge, FsCursor, vars
  <2> QED  BY <2>1
<1> QED
  BY <1>1, <1>2, <1>3, <1>4, <1>5, <1>6, <1>7, <1>8 DEF Next, Daemon, Environment

\* Only Freeze freezes, and only a fault or a signal keeps Thaw from undoing it.
LEMMA NextFrozenOnlyInShrink ==
    DataTypeOK /\ FrozenOnlyInShrink /\ [Next]_vars => FrozenOnlyInShrink'
<1> SUFFICES ASSUME DataTypeOK, FrozenOnlyInShrink, [Next]_vars
             PROVE  FrozenOnlyInShrink'
  OBVIOUS
<1>0. nfaults \in Nat
  BY DEF DataTypeOK
<1>1. ASSUME NEW f, Fault(f) PROVE FrozenOnlyInShrink'
  BY <1>0, <1>1 DEF Fault, FrozenOnlyInShrink
<1>2. CASE UNCHANGED nfaults /\ UNCHANGED frozen /\ pc # "thaw"
  BY <1>2 DEF FrozenOnlyInShrink
<1>3. CASE UNCHANGED <<nfaults, frozen, pc>>
  BY <1>3 DEF FrozenOnlyInShrink
<1> USE DEF NoFault, fsVars, confVars, mmVars, loopVars, modeVars, flagVars, bounds
<1>4. CASE Freeze
  <2>1. CASE pc' = "thaw"
    BY <2>1 DEF FrozenOnlyInShrink
  <2> QED  BY <1>1, <1>4, <2>1 DEF Freeze
<1>5. CASE Thaw
  <2>1. CASE frozen' = FALSE
    BY <2>1 DEF FrozenOnlyInShrink
  <2> QED  BY <1>1, <1>5, <2>1 DEF Thaw
<1>6. CASE Top
  BY <1>1, <1>2, <1>6 DEF Top
<1>7. CASE CheckState
  <2>1. pc = "check" /\ UNCHANGED frozen
    BY <1>7 DEF CheckState
  <2>2. UNCHANGED nfaults \/ Fault("io")
    BY <1>7 DEF CheckState, Suspended, handle_manual_mode, AutomaticFrom,
       manual_mode_ends
  <2> QED  BY <1>1, <1>2, <2>1, <2>2
<1>8. CASE Select
  BY <1>1, <1>2, <1>8 DEF Select
<1>9. CASE CleanSome
  BY <1>2, <1>9 DEF CleanSome
<1>10. CASE CleanNone
  BY <1>2, <1>10 DEF CleanNone
<1>11. CASE CleanFails
  BY <1>1, <1>11 DEF CleanFails
<1>12. CASE Recalc
  BY <1>2, <1>12 DEF Recalc
<1>13. CASE WaitTimeout
  BY <1>1, <1>2, <1>13 DEF WaitTimeout
<1>14. CASE HandleMessage
  <2>1. CmdFrame
    BY <1>14 DEF HandleMessage, CmdNoChange, CmdRun, CmdRunInvalid, CmdSuspend,
       CmdResume, CmdStop, CmdShutdown, CmdReload
  <2> QED  BY <1>2, <2>1 DEF CmdFrame
<1>15. CASE Sighup
  <2>1. CASE pc = "wait"
    BY <1>2, <1>15, <2>1 DEF Sighup
  <2>2. CASE pc # "wait"
    BY <1>3, <1>15, <2>2 DEF Sighup
  <2> QED  BY <2>1, <2>2
<1>16. CASE Sigterm
  BY <1>1, <1>16 DEF Sigterm
<1>17. CASE FsWrite \/ FsAge \/ FsCursor \/ UNCHANGED vars
  BY <1>3, <1>17 DEF FsWrite, FsAge, FsCursor, vars
<1> QED
  BY <1>4, <1>5, <1>6, <1>7, <1>8, <1>9, <1>10, <1>11, <1>12, <1>13, <1>14,
     <1>15, <1>16, <1>17 DEF Next, Daemon, Environment

\* Inv is an invariant of the daemon.
THEOREM InvCorrect == Spec => []Inv
<1>1. Inv /\ [Next]_vars => Inv'
  BY NextDataTypeOK, NextFlagTypeOK, NextPassOnlyWhenRunning,
     NextIdleTimeoutKept, NextNoSpin, NextPausedAboveMax, NextFrozenOnlyInShrink
     DEF Inv, TypeOK
<1> QED  BY InitInv, <1>1, PTL DEF Spec

\* No part of a pass is executed by a suspended or idle daemon
\* (nilfs_cleanerd_check_state()).
THEOREM NoPassWhileIdle == Spec => []PassOnlyWhenRunning
<1>1. Inv => PassOnlyWhenRunning
  BY DEF Inv
<1> QED  BY InvCorrect, <1>1, PTL

\* A suspended or idle daemon sleeps for the clean check interval or longer.
THEOREM NoIdleSpin == Spec => []IdleNeverSpins
<1>1. Inv => IdleNeverSpins
  BY DEF Inv, IdleTimeoutKept, IdleNeverSpins
<1> QED  BY InvCorrect, <1>1, PTL

\* A pass is repeated at once only after progress
\* (nilfs_cleanerd_recalc_interval()).
THEOREM NoSpin == Spec => []NoSpinWithoutProgress
<1>1. Inv => NoSpinWithoutProgress
  BY DEF Inv
<1> QED  BY InvCorrect, <1>1, PTL

\* No automatic pass begins above max_clean_segments, whatever the limits
\* and the reserve are (nilfs_cleanerd_handle_clean_check()).
THEOREM LimitRespected == Spec => []PausedAboveMax
<1>1. Inv => PausedAboveMax
  BY DEF Inv
<1> QED  BY InvCorrect, <1>1, PTL

\* A loop nothing failed in leaves the file system frozen nowhere but between
\* nilfs_freeze() and nilfs_thaw().
THEOREM ThawedOutsideShrink == Spec => []FrozenOnlyInShrink
<1>1. Inv => FrozenOnlyInShrink
  BY DEF Inv
<1> QED  BY InvCorrect, <1>1, PTL

-----------------------------------------------------------------------------
(***************************************************************************)
(* The daemon implements CleanerControl.                                   *)
(***************************************************************************)
\* The mode the user sees, by the position and the running state of the loop.
LEMMA ModeIs ==
    ASSUME DataTypeOK
    PROVE  /\ pc = "exit" => ControlMode = "down"
           /\ pc # "exit" => /\ running = -1 => ControlMode = "suspended"
                             /\ running = 0  => ControlMode = "idle"
                             /\ running = 1  => ControlMode = "auto"
                             /\ running = 2  => ControlMode = "manual"
BY DEF DataTypeOK, ControlMode

\* Every step of the daemon is a step of CleanerControl or leaves its
\* variables alone.
LEMMA StepImplementsControl ==
    Inv /\ [Next]_vars => [Control!Next]_(Control!vars)
<1> SUFFICES ASSUME Inv, [Next]_vars PROVE [Control!Next]_(Control!vars)
  OBVIOUS
<1>0. DataTypeOK /\ DataTypeOK' /\ PassOnlyWhenRunning
  BY NextDataTypeOK DEF Inv, TypeOK
<1>1. /\ pc = "exit" => ControlMode = "down"
      /\ pc # "exit" => /\ running = -1 => ControlMode = "suspended"
                        /\ running = 0  => ControlMode = "idle"
                        /\ running = 1  => ControlMode = "auto"
                        /\ running = 2  => ControlMode = "manual"
  BY <1>0, ModeIs
<1>2. /\ pc' = "exit" => ControlMode' = "down"
      /\ pc' # "exit" => /\ running' = -1 => ControlMode' = "suspended"
                         /\ running' = 0  => ControlMode' = "idle"
                         /\ running' = 1  => ControlMode' = "auto"
                         /\ running' = 2  => ControlMode' = "manual"
  BY <1>0 DEF DataTypeOK, ControlMode
<1>3. running \in {-1, 0, 1, 2} /\ running' \in {-1, 0, 1, 2}
  BY <1>0 DEF DataTypeOK
<1>4. Working => running \in {1, 2} /\ pc # "exit"
  BY <1>0 DEF PassOnlyWhenRunning, Working
<1> USE DEF fsVars, confVars, mmVars, loopVars, modeVars, flagVars, bounds
<1>s. ASSUME UNCHANGED running, pc # "exit", pc' # "exit", Working' = Working
      PROVE  UNCHANGED Control!vars
  <2>1. ControlMode' = ControlMode
    BY <1>1, <1>2, <1>3, <1>s
  <2> QED  BY <1>s, <2>1 DEF Control!vars
<1>d. ASSUME pc # "exit", pc' = "exit" PROVE Control!Next
  <2>1. ControlMode # "down" /\ ControlMode' = "down" /\ Working' = FALSE
    BY <1>1, <1>2, <1>3, <1>d DEF Working
  <2> QED  BY <2>1 DEF Control!Next, Control!Die
<1>5. CASE Top
  <2>1. pc = "top" /\ pc' \in {"check", "exit"} /\ UNCHANGED running
    BY <1>5 DEF Top
  <2> QED  BY <1>s, <1>d, <2>1 DEF Working
<1>6. CASE CheckState
  <2>1. pc = "check" /\ Working = FALSE
    BY <1>6 DEF CheckState, Working
  <2>2. CASE Suspended
    BY <1>s, <2>1, <2>2 DEF Suspended, ToSleep, Working
  <2>3. CASE handle_manual_mode
    <3>1. ControlMode = "manual" /\ ControlMode' = "manual" /\ Working' = TRUE
      BY <1>1, <1>2, <2>1, <2>3 DEF handle_manual_mode, ToSelect, Working
    <3> QED  BY <2>1, <3>1 DEF Control!Next, Control!Begin
  <2>4. ASSUME NEW r \in {0, 1}, NEW t \in Timeouts, AutomaticFrom(r, t),
               handle_clean_check(r, t) \/ continuous_check(r, t)
        PROVE  [Control!Next]_(Control!vars)
    <3>1. running \in {0, 1, 2}
      BY <2>4 DEF AutomaticFrom, manual_mode_ends
    <3>2. ControlMode \in {"idle", "auto", "manual"}
      BY <1>1, <2>1, <3>1
    <3>3. \/ running' = 1 /\ pc' = "select"
          \/ running' = 0 /\ pc' = "wait"
      BY <2>4 DEF handle_clean_check, continuous_check, ToSleep, ToSelect
    <3>4. CASE running' = 1 /\ pc' = "select"
      <4>1. ControlMode' = "auto" /\ Working' = TRUE
        BY <1>2, <3>4 DEF Working
      <4> QED  BY <2>1, <3>2, <4>1 DEF Control!Next, Control!Begin
    <3>5. CASE running' = 0 /\ pc' = "wait"
      <4>1. ControlMode' = "idle" /\ Working' = FALSE
        BY <1>2, <3>5 DEF Working
      <4> QED
        BY <2>1, <3>2, <4>1 DEF Control!Next, Control!Relax, Control!vars
    <3> QED  BY <3>3, <3>4, <3>5
  <2> QED  BY <1>6, <2>2, <2>3, <2>4 DEF CheckState
<1>7. CASE Select \/ CleanSome \/ CleanNone \/ CleanFails \/ Freeze \/ Thaw
  <2>1. /\ pc \in {"select", "clean", "freeze", "thaw"}
        /\ pc' \in {"recalc", "clean", "freeze", "thaw", "exit"}
        /\ UNCHANGED running
    BY <1>7 DEF Select, CleanSome, CleanNone, CleanFails, Freeze, Thaw
  <2> QED  BY <1>s, <1>d, <2>1 DEF Working
<1>8. CASE Recalc
  <2>1. pc = "recalc" /\ pc' = "wait" /\ recalc_interval
    BY <1>8 DEF Recalc, ToSleep
  <2>2. running' \in {running, 0}
    BY <2>1 DEF recalc_interval
  <2>3. Working = TRUE /\ Working' = FALSE
    BY <2>1 DEF Working
  <2>4. ControlMode' \in {ControlMode, "idle"}
    BY <1>1, <1>2, <1>3, <2>1, <2>2
  <2> QED  BY <2>3, <2>4 DEF Control!Next, Control!End
<1>9. CASE WaitTimeout
  <2>1. pc = "wait" /\ pc' \in {"top", "exit"} /\ UNCHANGED running
    BY <1>9 DEF WaitTimeout
  <2> QED  BY <1>s, <1>d, <2>1 DEF Working
<1>10. CASE HandleMessage
  <2>1. pc = "wait" /\ pc' \in {"top", "exit"}
    BY <1>10 DEF HandleMessage, CmdFrame, Served, CmdNoChange, CmdRun,
       CmdRunInvalid, CmdSuspend, CmdResume, CmdStop, CmdShutdown, CmdReload
  <2>2. Working = FALSE /\ Working' = FALSE
    BY <2>1 DEF Working
  <2>3. CASE UNCHANGED running
    BY <1>s, <1>d, <2>1, <2>2, <2>3
  <2>4. ASSUME pc' = "top",
               \/ running' = 2
               \/ running' = -1
               \/ running \in {2, -1} /\ running' = 0
        PROVE  [Control!Next]_(Control!vars)
    <3>1. ControlMode # "down"
      BY <1>1, <1>3, <2>1
    <3>2. CASE running' = 2
      <4>1. ControlMode' = "manual"
        BY <1>2, <2>4, <3>2
      <4> QED  BY <2>2, <3>1, <4>1 DEF Control!Next, Control!Command
    <3>3. CASE running' = -1
      <4>1. ControlMode' = "suspended"
        BY <1>2, <2>4, <3>3
      <4> QED  BY <2>2, <3>1, <4>1 DEF Control!Next, Control!Command
    <3>4. CASE running \in {2, -1} /\ running' = 0
      <4>1. ControlMode \in {"manual", "suspended"} /\ ControlMode' = "idle"
        BY <1>1, <1>2, <2>1, <2>4, <3>4
      <4> QED  BY <2>2, <3>1, <4>1 DEF Control!Next, Control!Command
    <3> QED  BY <2>4, <3>2, <3>3, <3>4
  <2>5. CASE CmdSuspend
    <3>1. pc' = "top" /\ (running' = -1 \/ running' = running)
      BY <2>5 DEF CmdSuspend, Served
    <3> QED  BY <2>3, <2>4, <3>1
  <2>6. CASE CmdStop \/ CmdResume
    <3>1. pc' = "top" /\ ((running \in {2, -1} /\ running' = 0) \/ running' = running)
      BY <2>6 DEF CmdStop, CmdResume, Served
    <3> QED  BY <2>3, <2>4, <3>1
  <2>7. ASSUME NEW args \in RunArgs, CmdRun(args) PROVE [Control!Next]_(Control!vars)
    BY <2>4, <2>7 DEF CmdRun, Served
  <2>8. CASE CmdNoChange \/ CmdShutdown
    BY <2>3, <2>8 DEF CmdNoChange, CmdShutdown
  <2>9. ASSUME NEW args \in RunArgs, NEW at, CmdRunInvalid(args, at)
        PROVE  [Control!Next]_(Control!vars)
    BY <2>3, <2>9 DEF CmdRunInvalid
  <2>10. ASSUME NEW file, CmdReload(file) PROVE [Control!Next]_(Control!vars)
    BY <2>3, <2>10 DEF CmdReload
  <2> QED
    BY <1>10, <2>5, <2>6, <2>7, <2>8, <2>9, <2>10 DEF HandleMessage
<1>11. CASE Sighup
  <2>1. /\ pc # "exit" /\ UNCHANGED running
        /\ pc' = pc \/ (pc = "wait" /\ pc' = "top")
    BY <1>11 DEF Sighup
  <2> QED  BY <1>s, <2>1 DEF Working
<1>12. CASE Sigterm
  BY <1>d, <1>12 DEF Sigterm
<1>13. CASE FsWrite \/ FsAge \/ FsCursor \/ UNCHANGED vars
  <2>1. UNCHANGED <<pc, running>>
    BY <1>13 DEF FsWrite, FsAge, FsCursor, vars
  <2>2. ControlMode' = ControlMode /\ Working' = Working
    BY <2>1 DEF ControlMode, Working
  <2> QED  BY <2>2 DEF Control!vars
<1> QED
  BY <1>5, <1>6, <1>7, <1>8, <1>9, <1>10, <1>11, <1>12, <1>13
     DEF Next, Daemon, Environment

\* The daemon implements CleanerControl: only a command lifts a suspension,
\* only an idle or running daemon begins a pass, and the mode never changes
\* under one.
THEOREM DaemonImplementsControl == Spec => ImplementsControl
<1>1. Init => Control!Init
  <2> SUFFICES ASSUME Init PROVE Control!Init
    OBVIOUS
  <2>1. pc = "top" /\ running \in {0, 1}
    BY DEF Init
  <2>2. ControlMode \in {"idle", "auto"} /\ Working = FALSE
    BY <2>1 DEF ControlMode, Working
  <2> QED  BY <2>2 DEF Control!Init
<1> QED
  BY <1>1, InvCorrect, StepImplementsControl, PTL
     DEF Spec, ImplementsControl, Control!Spec
=============================================================================
