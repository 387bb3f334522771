------------------------------- MODULE Reclaim -------------------------------
(***************************************************************************)
(* Segment reclamation, nilfs_xreclaim_segment() of lib/gc.c, by several   *)
(* processes on one file system that its users keep writing to: cleaner    *)
(* daemons, nilfs-resize and lssu call it; chcp, mkcp and rmcp change and  *)
(* remove the checkpoints it looks at.  All but rmcp and the users take    *)
(* the cleaner semaphore of lib/nilfs.c.                                   *)
(*                                                                         *)
(* A call is cut where it looks at the file system or changes it.  The     *)
(* kernel (external) is trusted with nothing but doing what it is told.    *)
(***************************************************************************)
EXTENDS Integers, Sequences, FiniteSets

CONSTANTS
    Cleaners,       \* processes that reclaim segments
    Tools,          \* processes that run chcp or mkcp
    Segs,           \* segments of the file system
    Blocks,         \* virtual block addresses, and DAT blocks
    Kind,           \* of each block: "file", "meta" (sufile, cpfile) or "dat"
    InitBlocks,     \* the blocks that exist at first
    CNO_MAX,        \* NILFS_CNO_MAX
    SeqMod,         \* sequence numbers are counted modulo SeqMod
    InitSeq,        \* sequence number of the oldest log
    Uses,           \* the calls of this instance, of "assess" (a dry run),
                    \* "plain" and "deferring" (with min_reclaimable_blks)
    ProtCnos,       \* checkpoint numbers they pass for the first protected one
    NSegs,          \* the number of segments they pass at most
    Faults,         \* which failures this instance considers
    MaxCno,         \* bound: checkpoints made
    MaxSeq,         \* bound: sequence numbers used
    MaxCalls,       \* bound: reclamations and tool runs
    MaxFaults       \* bound: failures and signals

ASSUME ProcsAssumption == Cleaners \cap Tools = {}
ASSUME KindAssumption ==
    Kind \in [Blocks -> {"file", "meta", "dat"}] /\ InitBlocks \subseteq Blocks
ASSUME NumbersAssumption ==
    /\ CNO_MAX \in Nat /\ MaxCno \in Nat /\ 2 <= MaxCno /\ MaxCno < CNO_MAX
    /\ SeqMod \in Nat \ {0} /\ InitSeq \in Nat /\ MaxSeq \in Nat
    /\ MaxCalls \in Nat /\ MaxFaults \in Nat
    /\ ProtCnos \subseteq Nat /\ NSegs \in Nat
\* Segment numbers are not taken for the places of blocks outside of segments.
ASSUME SegsAssumption == Segs \cap {"unused", "freed", "lost"} = {}
\* The sequence numbers in use span less than half of the range of the counter,
\* 2^63 of them in the code.
ASSUME SeqAssumption == InitSeq < MaxSeq /\ MaxSeq - InitSeq < SeqMod \div 2

Procs == Cleaners \cup Tools

VARIABLES
    \* the file system: per segment its state and the sequence number of the
    \* log in it; per block where it is and its period; checkpoints; the
    \* sequence number from which on recovery needs the logs
    seg, blk, cno, cps, snapshots, cursor,
    \* the semaphore, the signal pending at each process
    sem, pending,
    \* a call: its arguments, what it has found out, its result
    pc, args, segnums, n, i, vdescv, ends, vblocknrv, periodv, set_suinfo,
    ret, stat, target,
    \* history: the segments the last reclamation really disposed of
    done,
    \* counters against the bounds
    ncalls, nfaults

fsVars   == <<seg, blk, cno, cps, snapshots, cursor>>
findings == <<vdescv, ends, vblocknrv, periodv>>
callVars == <<args, segnums, n, i, findings, set_suinfo, ret, stat,
              target, done>>
vars == <<fsVars, sem, pending, pc, callVars, ncalls, nfaults>>

-----------------------------------------------------------------------------
(***************************************************************************)
(* The file system.                                                        *)
(***************************************************************************)
\* "scrapped" is dirty, not active and without blocks (nilfs_suinfo_empty());
\* the log of the recovery cursor's segment and its successors is protected.
SegState == {"clean", "active", "dirty", "scrapped", "error"}

nilfs_suinfo_reclaimable(s) == seg[s].st \in {"dirty", "scrapped"}

\* Mutation of cnt64_ge: the counters are compared as plain numbers.
cnt64_ge_plain(a, b) == a % SeqMod >= b % SeqMod

\* 64-bit counters compared by the sign of their difference.
cnt64_ge(a, b) == (a - b) % SeqMod < SeqMod \div 2

Unused  == [start |-> 0, end |-> 0, loc |-> "unused"]
Current == {b \in Blocks : blk[b].end = CNO_MAX}
Stored(b) == blk[b].loc \in Segs /\ seg[blk[b].loc].st # "clean"
Visible(b, c) == Kind[b] = "file" /\ blk[b].start <= c /\ c < blk[b].end

SeqNums == {seg[s].seq : s \in Segs}

Quiet == [segs |-> <<>>, protseq |-> 0, protcno |-> 0, dry |-> FALSE, min |-> FALSE]
NoTarget == [cno |-> 0, ss |-> FALSE, chcp |-> FALSE]
NoStat == [cleaned |-> 0, protected |-> 0, deferred |-> 0]

\* The first versions of the files, written with checkpoint 1, beside segments
\* in the states a mount can find.  Segments are interchangeable: which one is
\* active makes no difference.
Init ==
    /\ \E a \in {CHOOSE s \in Segs : TRUE},
          st \in [Segs -> {"clean", "dirty", "scrapped", "error"}] :
          /\ seg = [s \in Segs |-> [st |-> IF s = a THEN "active" ELSE st[s],
                                    seq |-> InitSeq + (IF s = a THEN 1 ELSE 0)]]
          /\ \E l \in [InitBlocks -> {s \in Segs : seg[s].st \in {"dirty", "active"}}] :
                blk = [b \in Blocks |->
                         IF b \in InitBlocks
                         THEN [start |-> 1, end |-> CNO_MAX, loc |-> l[b]]
                         ELSE Unused]
    /\ cno = 2 /\ cps = {1} /\ snapshots = {}
    /\ cursor \in {InitSeq, InitSeq + 1}
    /\ sem = 1 /\ pending = [p \in Procs |-> FALSE]
    /\ pc = [p \in Procs |-> "idle"]
    /\ args = [p \in Procs |-> Quiet]
    /\ segnums = [p \in Procs |-> <<>>]
    /\ n = [p \in Procs |-> 0] /\ i = [p \in Procs |-> 0]
    /\ vdescv = [p \in Procs |-> {}] /\ vblocknrv = [p \in Procs |-> {}]
    /\ ends = [p \in Procs |-> [b \in Blocks |-> 0]]
    /\ periodv = [p \in Procs |-> {}]
    /\ set_suinfo = [p \in Procs |-> TRUE]
    /\ ret = [p \in Procs |-> 0] /\ stat = [p \in Procs |-> NoStat]
    /\ target = [t \in Tools |-> NoTarget]
    /\ done = [p \in Procs |-> {}]
    /\ ncalls = 0 /\ nfaults = 0

Fault(f) == f \in Faults /\ nfaults < MaxFaults /\ nfaults' = nfaults + 1

-----------------------------------------------------------------------------
(***************************************************************************)
(* Users and the kernel (external).                                        *)
(***************************************************************************)
procVars == <<sem, pending, pc, callVars>>

\* A user rewrites a block: the old version ends with the current
\* checkpoint number, the new one goes to the active segment.
Rewrite ==
    /\ \E b \in Current, new \in Blocks, s \in Segs :
          /\ blk[new] = Unused /\ Kind[new] = Kind[b]
          /\ seg[s].st = "active"
          /\ blk' = [blk EXCEPT ![b].end = cno,
                                ![new] = [start |-> cno, end |-> CNO_MAX, loc |-> s]]
    /\ UNCHANGED <<seg, cno, cps, snapshots, cursor, procVars, ncalls, nfaults>>

\* A segment construction makes a checkpoint.
MakeCheckpoint ==
    /\ cno < MaxCno
    /\ cps' = cps \cup {cno} /\ cno' = cno + 1
    /\ UNCHANGED <<seg, blk, snapshots, cursor, procVars, ncalls, nfaults>>

\* The log goes on in a clean segment.
NextSegment ==
    /\ \E s, a \in Segs :
          /\ seg[s].st = "clean" /\ seg[a].st = "active"
          /\ seg[a].seq < MaxSeq
          /\ seg' = [seg EXCEPT ![a].st = "dirty",
                                ![s] = [st |-> "active", seq |-> seg[a].seq + 1]]
    /\ UNCHANGED <<blk, cno, cps, snapshots, cursor, procVars, ncalls, nfaults>>

\* The super blocks are written, and with them the log cursor.
MoveCursor ==
    /\ \E a \in Segs : seg[a].st = "active" /\ cursor < seg[a].seq
    /\ cursor' = cursor + 1
    /\ UNCHANGED <<seg, blk, cno, cps, snapshots, procVars, ncalls, nfaults>>

\* rmcp: the kernel refuses to remove snapshots.
RemoveCheckpoint ==
    /\ \E c \in cps \ snapshots : cps' = cps \ {c}
    /\ UNCHANGED <<seg, blk, cno, snapshots, cursor, procVars, ncalls, nfaults>>

\* SIGINT or SIGTERM: kills an idle process, stays pending while blocked.
Signal(p) ==
    /\ pc[p] # "dead" /\ ~pending[p] /\ Fault("signal")
    /\ IF pc[p] = "idle"
       THEN pc' = [pc EXCEPT ![p] = "dead"] /\ UNCHANGED pending
       ELSE pending' = [pending EXCEPT ![p] = TRUE] /\ UNCHANGED pc
    /\ UNCHANGED <<fsVars, sem, callVars, ncalls>>

\* SIGKILL: nobody posts the semaphore for the dead.
Kill(p) ==
    /\ pc[p] # "dead" /\ Fault("kill")
    /\ pc' = [pc EXCEPT ![p] = "dead"]
    /\ UNCHANGED <<fsVars, sem, pending, callVars, ncalls>>

-----------------------------------------------------------------------------
(***************************************************************************)
(* nilfs_xreclaim_segment()                                                *)
(***************************************************************************)
Goto(p, l) == pc' = [pc EXCEPT ![p] = l]
Fails(p, l, f) == Fault(f) /\ Goto(p, l) /\ ret' = [ret EXCEPT ![p] = -1]

\* The arguments are older than the call: segments that were reclaimable
\* when the caller looked, and a cursor and checkpoint number of that time.
\* SIGINT and SIGTERM are blocked from here to the return.
Call(p) ==
    /\ pc[p] = "idle" /\ ncalls < MaxCalls /\ ncalls' = ncalls + 1
    /\ Goto(p, "lock")
    /\ \E k \in 1..NSegs, use \in Uses, protcno \in ProtCnos :
          \E q \in [1..k -> {s \in Segs : nilfs_suinfo_reclaimable(s)}] :
             /\ \A x, y \in 1..k : x # y => q[x] # q[y]
             /\ protcno \in 0..cno \cup {CNO_MAX}
             /\ args' = [args EXCEPT ![p] = [segs |-> q, protseq |-> cursor,
                                            protcno |-> protcno,
                                            dry |-> use = "assess",
                                            min |-> use = "deferring"]]
             /\ segnums' = [segnums EXCEPT ![p] = q]
             /\ n' = [n EXCEPT ![p] = k]
    /\ i' = [i EXCEPT ![p] = 1]
    /\ UNCHANGED <<fsVars, sem, pending, findings, set_suinfo, ret, stat, target,
                   done, nfaults>>

\* nilfs_lock_cleaner()
Lock(p) ==
    /\ pc[p] = "lock" /\ sem > 0 /\ sem' = sem - 1
    /\ Goto(p, IF p \in Cleaners THEN "acc" ELSE "change")
    /\ UNCHANGED <<fsVars, pending, callVars, ncalls, nfaults>>

\* The locals of a call that has ended are forgotten; a signal that arrived
\* in the meantime is delivered.
Leave(p) ==
    /\ Goto(p, IF pending[p] THEN "dead" ELSE "idle")
    /\ pending' = [pending EXCEPT ![p] = FALSE]
    /\ args' = [args EXCEPT ![p] = Quiet]
    /\ segnums' = [segnums EXCEPT ![p] = <<>>]
    /\ n' = [n EXCEPT ![p] = 0] /\ i' = [i EXCEPT ![p] = 0]
    /\ vdescv' = [vdescv EXCEPT ![p] = {}]
    /\ ends' = [ends EXCEPT ![p] = [b \in Blocks |-> 0]]
    /\ vblocknrv' = [vblocknrv EXCEPT ![p] = {}]
    /\ periodv' = [periodv EXCEPT ![p] = {}]
    /\ ret' = [ret EXCEPT ![p] = 0] /\ stat' = [stat EXCEPT ![p] = NoStat]
    /\ done' = [done EXCEPT ![p] = {}]

\* Mutation of LockFails: the error path posts what was not taken.
LockFailsPosting(p) ==
    /\ pc[p] = "lock" /\ Fault("lock")
    /\ Leave(p) /\ sem' = sem + 1
    /\ UNCHANGED <<fsVars, set_suinfo, target, ncalls>>

\* sem_wait() is interrupted.
LockFails(p) ==
    /\ pc[p] = "lock" /\ Fault("lock")
    /\ Leave(p)
    /\ UNCHANGED <<fsVars, sem, set_suinfo, target, ncalls>>

\* Mutation of deselect_segment: the deselected segment is overwritten.
deselect_overwriting(q, m, k) ==
    [x \in DOMAIN q |-> IF x >= k /\ x < m THEN q[x + 1] ELSE q[x]]

\* nilfs_deselect_segment(): segment k of the first m moves to their end.
deselect_segment(q, m, k) ==
    [x \in DOMAIN q |-> IF x < k \/ x > m THEN q[x]
                        ELSE IF x = m THEN q[k] ELSE q[x + 1]]

\* Mutation of Keeps: the state of the segment is not looked at again.
KeepsUnseen(p, s) == ~cnt64_ge(seg[s].seq, args[p].protseq)

\* What nilfs_acc_blocks() keeps.
Keeps(p, s) ==
    /\ nilfs_suinfo_reclaimable(s)
    /\ seg[s].st = "scrapped" \/ ~cnt64_ge(seg[s].seq, args[p].protseq)

\* nilfs_acc_blocks_segment(): what the summaries of its logs list.
acc_blocks_segment(s) == {b \in Blocks : blk[b].loc = s}

\* Mutation of Deselect: the number of segments that are left is not taken.
DeselectUncounted(p) ==
    /\ segnums' = [segnums EXCEPT ![p] = deselect_segment(@, n[p], i[p])]
    /\ UNCHANGED n

\* A segment not to be touched leaves the first n.
Deselect(p) ==
    /\ segnums' = [segnums EXCEPT ![p] = deselect_segment(@, n[p], i[p])]
    /\ n' = [n EXCEPT ![p] = @ - 1]

\* nilfs_acc_blocks(), one segment: keep it and collect its blocks, or
\* deselect it.
AccBlocks(p) ==
    /\ pc[p] = "acc" /\ i[p] <= n[p]
    /\ LET s == segnums[p][i[p]] IN
       \/ /\ Keeps(p, s)
          /\ vdescv' = [vdescv EXCEPT ![p] = @ \cup acc_blocks_segment(s)]
          /\ i' = [i EXCEPT ![p] = @ + 1]
          /\ UNCHANGED <<segnums, n, pc, ret, nfaults>>
       \/ /\ ~Keeps(p, s)
          /\ Deselect(p)
          /\ UNCHANGED <<vdescv, i, pc, ret, nfaults>>
       \/ /\ Fails(p, "unlock", "io")
          /\ UNCHANGED <<segnums, n, i, vdescv>>
    /\ UNCHANGED <<fsVars, sem, pending, args, ends, vblocknrv, periodv,
                   set_suinfo, stat, target, done, ncalls>>

\* ... and its end.
AccBlocksDone(p) ==
    /\ pc[p] = "acc" /\ i[p] > n[p]
    /\ stat' = [stat EXCEPT ![p] = [cleaned |-> n[p], deferred |-> 0,
                                    protected |-> Len(segnums[p]) - n[p]]]
    /\ Goto(p, IF n[p] = 0 THEN "unlock" ELSE "vdesc")
    /\ UNCHANGED <<fsVars, sem, pending, args, segnums, n, i, findings,
                   set_suinfo, ret, target, done, ncalls, nfaults>>

\* nilfs_get_vdesc(): read the periods.
GetVdesc(p) ==
    /\ pc[p] = "vdesc"
    /\ \/ /\ Goto(p, "toss")
          /\ ends' = [ends EXCEPT ![p] = [b \in Blocks |->
                         IF b \in vdescv[p] /\ Kind[b] # "dat" THEN blk[b].end ELSE 0]]
          /\ UNCHANGED <<ret, nfaults>>
       \/ /\ Fails(p, "unlock", "io") /\ UNCHANGED ends
    /\ UNCHANGED <<fsVars, sem, pending, args, segnums, n, i, vdescv, vblocknrv,
                   periodv, set_suinfo, stat, target, done, ncalls>>

\* Mutations of nilfs_vdesc_is_live: the test for blocks in use is missing;
\* the protected checkpoint itself is not protected.
live_if_protected(b, end, protect, ss) ==
    IF Kind[b] = "meta" THEN end = CNO_MAX
    ELSE /\ end # blk[b].start
         /\ \/ end > protect
            \/ \E c \in ss : blk[b].start <= c /\ c < end
live_off_by_one(b, end, protect, ss) ==
    IF Kind[b] = "meta" THEN end = CNO_MAX
    ELSE /\ end # blk[b].start
         /\ \/ end = CNO_MAX \/ end > protect + 1
            \/ \E c \in ss : blk[b].start <= c /\ c < end

\* nilfs_vdesc_is_live().  The checkpoint number of a file's block (vd_cno)
\* is the one its period starts with; that of sufile and cpfile is 0.
nilfs_vdesc_is_live(b, end, protect, ss) ==
    IF Kind[b] = "meta" THEN end = CNO_MAX
    ELSE /\ end # blk[b].start
         /\ \/ end = CNO_MAX \/ end > protect
            \/ \E c \in ss : blk[b].start <= c /\ c < end

\* The list of snapshots is read in several steps, but nobody changes it who
\* does not hold the semaphore.
nilfs_get_snapshot == snapshots

\* Mutation of Periods: the checkpoints of freed blocks are not collected.
PeriodsForgotten(dead, end) == {}

\* The checkpoints in the periods of dead blocks, cpfile and sufile aside.
Periods(dead, end) ==
    UNION {blk[b].start .. end[b] - 1 : b \in {x \in dead : Kind[x] # "meta"}}

\* nilfs_toss_vdescs() and nilfs_unify_period(): read the snapshots, sort the
\* dead virtual blocks out and note the checkpoints that could see them.
TossVdescs(p) ==
    /\ pc[p] = "toss"
    /\ LET dead == {b \in vdescv[p] : /\ Kind[b] # "dat"
                                     /\ ~nilfs_vdesc_is_live(b, ends[p][b],
                                                             args[p].protcno,
                                                             nilfs_get_snapshot)} IN
       \/ /\ Goto(p, "bdesc")
          /\ vdescv' = [vdescv EXCEPT ![p] = @ \ dead]
          /\ vblocknrv' = [vblocknrv EXCEPT ![p] = dead]
          /\ periodv' = [periodv EXCEPT ![p] = Periods(dead, ends[p])]
          /\ UNCHANGED <<ret, nfaults>>
       \/ /\ Fails(p, "unlock", "io")
          /\ UNCHANGED <<vdescv, vblocknrv, periodv>>
    /\ UNCHANGED <<fsVars, sem, pending, args, segnums, n, i, ends, set_suinfo,
                   stat, target, done, ncalls>>
\* nilfs_get_bdesc(), nilfs_toss_bdescs(): only the blocks of the latest DAT
\* file are live.  A dry run ends here.
TossBdescs(p) ==
    /\ pc[p] = "bdesc"
    /\ \/ /\ Goto(p, IF args[p].dry THEN "unlock" ELSE "commit")
          /\ vdescv' = [vdescv EXCEPT ![p] = {b \in @ : Kind[b] = "dat" => b \in Current}]
          /\ UNCHANGED <<ret, nfaults>>
       \/ /\ Fails(p, "unlock", "io") /\ UNCHANGED vdescv
    /\ UNCHANGED <<fsVars, sem, pending, args, segnums, n, i, ends, vblocknrv,
                   periodv, set_suinfo, stat, target, done, ncalls>>

\* The segments kept, the first n of segnums.
Kept(p) == {segnums[p][x] : x \in 1..n[p]}

\* A signal is pending: give up, with success and the statistics as they are.
Interrupted(p) ==
    /\ pc[p] = "commit" /\ pending[p]
    /\ Goto(p, "unlock")
    /\ UNCHANGED <<fsVars, sem, pending, callVars, ncalls, nfaults>>

Committed(p) ==
    /\ pc[p] = "commit" /\ ~pending[p]
    /\ Goto(p, "clean")
    /\ UNCHANGED <<fsVars, sem, pending, callVars, ncalls, nfaults>>

\* Too few blocks would be gained: the segments are only marked as modified
\* now.  Without memory nothing is marked, but it is reported so; a kernel
\* without the ioctl is told once, and the segments are cleaned after all.
Defer(p) ==
    /\ pc[p] = "commit" /\ ~pending[p] /\ args[p].min /\ set_suinfo[p]
    /\ \/ /\ Goto(p, "unlock")
          /\ done' = [done EXCEPT ![p] = Kept(p)]
          /\ stat' = [stat EXCEPT ![p].deferred = n[p], ![p].cleaned = 0]
          /\ UNCHANGED <<set_suinfo, ret, nfaults>>
       \/ /\ Goto(p, "unlock") /\ Fault("enomem")
          /\ stat' = [stat EXCEPT ![p].deferred = n[p], ![p].cleaned = 0]
          /\ UNCHANGED <<set_suinfo, ret, done>>
       \/ /\ Fails(p, "unlock", "io")
          /\ stat' = [stat EXCEPT ![p].deferred = n[p], ![p].cleaned = 0]
          /\ UNCHANGED <<set_suinfo, done>>
       \/ /\ Goto(p, "clean") /\ Fault("enotty")
          /\ set_suinfo' = [set_suinfo EXCEPT ![p] = FALSE]
          /\ UNCHANGED <<ret, stat, done>>
    /\ UNCHANGED <<fsVars, sem, pending, args, segnums, n, i, findings, target,
                   ncalls>>

\* The ioctl NILFS_IOCTL_CLEAN_SEGMENTS (external): delete the checkpoints,
\* snapshots aside, free the dead blocks, move the live ones to the active
\* segment, and take all else in the segments for garbage.
CleanIoctl(p) ==
    /\ cps' = cps \ (periodv[p] \ snapshots)
    /\ \E a \in Segs :
          /\ seg[a].st = "active"
          /\ blk' = [b \in Blocks |->
                [blk[b] EXCEPT !.loc =
                    CASE b \in vdescv[p]    -> a
                      [] b \in vblocknrv[p] -> "freed"
                      [] b \notin vdescv[p] \cup vblocknrv[p] /\ @ \in Kept(p) -> "lost"
                      [] OTHER -> @]]
    /\ seg' = [s \in Segs |-> IF s \in Kept(p) THEN [seg[s] EXCEPT !.st = "clean"]
                                              ELSE seg[s]]

CleanSegments(p) ==
    /\ pc[p] = "clean"
    /\ \/ /\ CleanIoctl(p)
          /\ Goto(p, "unlock")
          /\ done' = [done EXCEPT ![p] = Kept(p)]
          /\ UNCHANGED <<ret, nfaults>>
       \/ /\ Fails(p, "unlock", "io")
          /\ UNCHANGED <<seg, blk, cps, done>>
    /\ UNCHANGED <<cno, snapshots, cursor, sem, pending, args, segnums, n, i,
                   findings, set_suinfo, stat, target, ncalls>>

\* Mutation of Unlock: the semaphore is posted on success only.
UnlockOnSuccess(p) ==
    /\ pc[p] = "unlock" /\ sem' = IF ret[p] = 0 THEN sem + 1 ELSE sem
    /\ Leave(p)
    /\ UNCHANGED <<fsVars, set_suinfo, target, ncalls, nfaults>>

\* nilfs_unlock_cleaner() and the return.
Unlock(p) ==
    /\ pc[p] = "unlock" /\ sem' = sem + 1
    /\ Leave(p)
    /\ UNCHANGED <<fsVars, set_suinfo, target, ncalls, nfaults>>

-----------------------------------------------------------------------------
(***************************************************************************)
(* chcp and mkcp.                                                          *)
(***************************************************************************)
\* chcp of a checkpoint, old or not yet made.
Chcp(t) ==
    /\ pc[t] = "idle" /\ ncalls < MaxCalls /\ ncalls' = ncalls + 1
    /\ Goto(t, "lock")
    /\ \E c \in 1..MaxCno, ss \in BOOLEAN :
          target' = [target EXCEPT ![t] = [cno |-> c, ss |-> ss, chcp |-> TRUE]]
    /\ UNCHANGED <<fsVars, sem, pending, args, segnums, n, i, findings, set_suinfo,
                   ret, stat, done, nfaults>>

\* mkcp -s makes a checkpoint first; until it holds the lock, anybody may
\* remove it again.
Mkcp(t) ==
    /\ pc[t] = "idle" /\ ncalls < MaxCalls /\ ncalls' = ncalls + 1
    /\ cno < MaxCno
    /\ cps' = cps \cup {cno} /\ cno' = cno + 1
    /\ target' = [target EXCEPT ![t] = [cno |-> cno, ss |-> TRUE, chcp |-> FALSE]]
    /\ Goto(t, "lock")
    /\ UNCHANGED <<seg, blk, snapshots, cursor, sem, pending, args, segnums, n, i,
                   findings, set_suinfo, ret, stat, done, nfaults>>

\* nilfs_change_cpmode(), unless chcp finds a signal pending; it fails for a
\* checkpoint that does not exist.
ChangeCpmode(t) ==
    /\ pc[t] = "change"
    /\ IF target[t].cno \in cps /\ ~(target[t].chcp /\ pending[t])
       THEN snapshots' = IF target[t].ss THEN snapshots \cup {target[t].cno}
                                         ELSE snapshots \ {target[t].cno}
       ELSE UNCHANGED snapshots
    /\ target' = [target EXCEPT ![t] = NoTarget]
    /\ Goto(t, "unlock")
    /\ UNCHANGED <<seg, blk, cno, cps, cursor, sem, pending, args, segnums, n, i,
                   findings, set_suinfo, ret, stat, done, ncalls, nfaults>>

-----------------------------------------------------------------------------
Cleaner(p) ==
    \/ Lock(p) \/ LockFails(p) \/ AccBlocks(p) \/ AccBlocksDone(p) \/ GetVdesc(p)
    \/ TossVdescs(p) \/ TossBdescs(p) \/ Interrupted(p) \/ Committed(p)
    \/ Defer(p) \/ CleanSegments(p) \/ Unlock(p)

Tool(t) == Lock(t) \/ LockFails(t) \/ ChangeCpmode(t) \/ Unlock(t)

Environment ==
    \/ Rewrite \/ MakeCheckpoint \/ NextSegment \/ MoveCursor \/ RemoveCheckpoint
    \/ \E p \in Procs : Signal(p) \/ Kill(p)

Next ==
    \/ \E p \in Cleaners : Call(p) \/ Cleaner(p)
    \/ \E t \in Tools : Chcp(t) \/ Mkcp(t) \/ Tool(t)
    \/ Environment

\* A process that can go on does so; nobody has to call.
Fairness ==
    /\ \A p \in Cleaners : WF_vars(Cleaner(p))
    /\ \A t \in Tools : WF_vars(Tool(t))

Spec == Init /\ [][Next]_vars /\ Fairness

-----------------------------------------------------------------------------
(***************************************************************************)
(* Properties.                                                             *)
(***************************************************************************)
Places == {"idle", "lock", "acc", "vdesc", "toss", "bdesc", "commit", "clean",
           "change", "unlock", "dead"}

\* Every variable keeps its type.
TypeOK ==
    /\ seg \in [Segs -> [st : SegState, seq : Nat]]
    /\ blk \in [Blocks -> [start : Nat, end : Nat,
                           loc : Segs \cup {"unused", "freed", "lost"}]]
    /\ cno \in Nat /\ cps \subseteq Nat /\ snapshots \subseteq Nat /\ cursor \in Nat
    /\ sem \in {0, 1} /\ pending \in [Procs -> BOOLEAN]
    /\ pc \in [Procs -> Places]
    /\ segnums \in [Procs -> Seq(Segs)]
    /\ n \in [Procs -> Nat] /\ i \in [Procs -> Nat]
    /\ vdescv \in [Procs -> SUBSET Blocks] /\ vblocknrv \in [Procs -> SUBSET Blocks]
    /\ periodv \in [Procs -> SUBSET Nat] /\ ret \in [Procs -> {0, -1}]

InCritical(p) == pc[p] \notin {"idle", "lock", "dead"}

\* From the moment nilfs_acc_blocks() accepts a segment until the call
\* returns it stays reclaimable, and the blocks in it are the ones collected:
\* neither a second cleaner nor the log writer gets at it.
KeptStaysReclaimable ==
    \A p \in Cleaners : pc[p] \in {"acc", "vdesc", "toss", "bdesc", "commit", "clean"} =>
        \A x \in 1..(i[p] - 1) : x <= n[p] =>
            nilfs_suinfo_reclaimable(segnums[p][x])

\* No version of a block that is in use now is ever lost, whatever cleaners,
\* users and signals do meanwhile.
CurrentDataKept == \A b \in Current : Stored(b)

\* Every checkpoint that is still listed can be read in full: reclamation
\* frees no block without deleting the checkpoints that could see it, and
\* none that a snapshot sees, even one made while it runs.
CheckpointsReadable ==
    \A c \in cps, b \in Blocks : Visible(b, c) => Stored(b)

\* A reclamation deletes no checkpoint its caller asked to protect.
ProtectedCheckpointsKept ==
    [][\A p \in Cleaners : pc[p] = "clean" /\ pc'[p] = "unlock" =>
          \A c \in cps \ cps' : c < args[p].protcno]_vars

\* A reclamation cleans no written segment recovery would start from or pass
\* through: the cursor it was called with may be old, but not too new.
RecoveryLogKept ==
    [][\A s \in Segs : seg[s].st \in {"dirty", "active"} /\ seg'[s].st = "clean" =>
          seg[s].seq < cursor]_vars

\* The caller's array is only reordered, those disposed of in front: cleanerd
\* and nilfs-resize take the first ones for them, and the rest for protected.
SegnumsReordered ==
    \A p \in Cleaners : pc[p] \notin {"idle", "dead"} =>
        /\ {segnums[p][x] : x \in DOMAIN segnums[p]} =
           {args[p].segs[x] : x \in DOMAIN args[p].segs}
        /\ done[p] # {} => done[p] = {segnums[p][x] :
                                      x \in 1..(stat[p].cleaned + stat[p].deferred)}

\* A signal never leaves the lock behind: a process that dies of SIGINT or
\* SIGTERM does not hold it, and no failure path forgets it.
LockNotLeaked ==
    "kill" \notin Faults => sem + Cardinality({p \in Procs : InCritical(p)}) = 1

\* Every call returns, as long as nobody is killed holding the lock.
CallReturns == \A p \in Procs : pc[p] = "lock" ~> pc[p] \in {"idle", "dead"}

\* What a call does with the array of its caller (nilfs_acc_blocks(),
\* nilfs_deselect_segment()): accepted segments stay as they were read, and the
\* array is only reordered.
SegnumsSound == TypeOK /\ KeptStaysReclaimable /\ SegnumsReordered

\* Neither the current state nor any checkpoint that is still listed loses a
\* block to nilfs_clean_segments().
NothingNeededLost == CurrentDataKept /\ CheckpointsReadable
=============================================================================
