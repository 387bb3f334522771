-------------------------------- MODULE CpEnum --------------------------------
(***************************************************************************)
(* Walking over the checkpoints of a mounted file system with bounded      *)
(* nilfs_get_cpinfo() calls: forward and backward as lib/cnormap.c and     *)
(* bin/lscp.c do it (one code, written twice), and along the snapshots as  *)
(* lscp -s does.  Each call sees the file system as it then is: new        *)
(* checkpoints appear and plain ones are deleted between two calls, and    *)
(* while what a call returned is handed on one by one.                     *)
(***************************************************************************)
EXTENDS Integers, SequencesExt

CONSTANTS
    NCPINFO,    \* checkpoints per call (_NCPINFO, LSCP_NCPINFO: 512)
    MINDELTA,   \* smallest step backward (_MINDELTA, LSCP_MINDELTA: 64)
    Cps,        \* checkpoints that may still exist when a walk begins
    MaxCp,      \* the number of the next one
    Snapshots,  \* sets: those that are snapshots, if they exist
    Minors,     \* sets: those that are minor
    Starts,     \* indexes and counts asked for (0: none given)
    Counts,
    MaxNewCps,  \* bound: checkpoints made during a walk
    MaxDelete   \* bound: checkpoints deleted during a walk

ASSUME CpAssumption ==
    /\ NCPINFO \in Nat \ {0} /\ MINDELTA \in Nat \ {0}
    /\ MaxCp \in Nat /\ MaxCp > 1 /\ Cps \subseteq 1 .. MaxCp - 1
    /\ Starts \subseteq Nat /\ Counts \subseteq Nat
    /\ MaxNewCps \in Nat /\ MaxDelete \in Nat

VARIABLES
    cp_live,    \* existing checkpoints
    cp_ss,      \* those that are snapshots
    cp_minor,   \* the minor ones
    next_cp,    \* number of the next checkpoint
    walk        \* the walk in progress

cpVars == <<cp_live, cp_ss, cp_minor, next_cp, walk>>

NILFS_CNO_MIN == 1
MinOf(a, b) == IF a < b THEN a ELSE b
MaxOf(a, b) == IF a > b THEN a ELSE b

\* What the callback skips (lscp without -a): minor ones, unless snapshots.
Skipped == cp_minor \ cp_ss

NoWalk == [kind |-> "none"]

\* recalc_delta
delta(rest) == MinOf(NCPINFO, MaxOf(rest, MINDELTA))

\* What lscp_forward_ssinfo and the enumerators take from nilfs_cpstat and the
\* options: opt_start (0: none) and opt_count (0: all).
NewWalk(kind, start, count) ==
    LET ss   == kind \in {"ss_forward", "ss_backward"}
        ncps == Cardinality(IF ss THEN cp_ss ELSE cp_live)
        rest == IF count # 0 /\ count < ncps THEN count ELSE ncps
        back == kind \in {"backward", "ss_backward"}
    IN [kind |-> kind, cs_cno |-> next_cp, rest |-> rest, rns |-> ncps,
        eidx |-> IF start # 0 /\ start < next_cp THEN start + 1 ELSE next_cp,
        sidx |-> IF kind = "ss_forward" THEN start ELSE MaxOf(start, NILFS_CNO_MIN),
        head |-> 0, state |-> IF kind = "ss_forward" /\ start > 0 THEN "search" ELSE "init",
        v |-> delta(rest), mincno |-> NILFS_CNO_MIN,
        buf |-> {}, done |-> FALSE, out |-> <<>>,
        \* history: what there was to find
        range |-> {c \in IF ss THEN cp_ss ELSE cp_live :
                      /\ ~ss => c \notin Skipped
                      /\ IF back THEN start # 0 => c <= start ELSE c >= start},
        limit |-> rest]

\* Any set of checkpoints a long life may have left; the newest one exists.
CpInit ==
    /\ next_cp = MaxCp
    /\ \E S \in SUBSET Cps : cp_live = S \cup {MaxCp - 1}
    /\ \E S \in Snapshots : cp_ss = cp_live \cap S
    /\ \E S \in Minors : cp_minor = cp_live \cap S
    /\ walk = NoWalk

CpOff == cp_live = {} /\ cp_ss = {} /\ cp_minor = {} /\ next_cp = 1 /\ walk = NoWalk

-----------------------------------------------------------------------------
\* The first n numbers of a set.
First(S, n) == {c \in S : Cardinality({d \in S : d < c}) < n}

From(S, lo) == {c \in S : c >= lo}

\* Mutation of get_cpinfo: the smallest number is raised by any call.
get_cpinfo_any(from, n) ==
    LET lo  == MaxOf(from, walk.mincno)
        got == First(From(cp_live, lo), n)
    IN [got |-> got, mincno |-> IF got # {} THEN Min(got) ELSE walk.mincno]

\* nilfs_get_cpinfo(): the first n checkpoints from this number on.  The
\* smallest number there is, once known, is remembered.
get_cpinfo(from, n) ==
    LET lo  == MaxOf(from, walk.mincno)
        got == First(From(cp_live, lo), n)
    IN [got |-> got,
        mincno |-> IF got # {} /\ lo = walk.mincno THEN Min(got) ELSE walk.mincno]

\* NILFS_SNAPSHOT mode: along the list of snapshots, from its head for 0.
get_ssinfo(from, n) ==
    IF from # 0 /\ from \notin cp_ss THEN {} ELSE First(From(cp_ss, from), n)

Done == walk' = [walk EXCEPT !.done = TRUE]

Fetching(kind) == walk.kind = kind /\ ~walk.done /\ walk.buf = {}

Backwards == walk.kind \in {"backward", "ss_backward"}

\* What a call returned is reported one by one, or skipped by the callback,
\* until the rest is used up.
Report ==
    LET c     == IF Backwards THEN Max(walk.buf) ELSE Min(walk.buf)
        shown == walk.kind \in {"forward", "backward"} => c \notin Skipped
        rest  == walk.rest - 1
    IN
    /\ ~walk.done /\ walk.buf # {}
    /\ walk' = IF ~shown THEN [walk EXCEPT !.buf = @ \ {c}]
               ELSE [walk EXCEPT !.buf = @ \ {c}, !.out = Append(@, c), !.rest = rest,
                                 !.rns = @ - 1, !.v = delta(rest), !.done = (rest = 0)]

\* One call of nilfs_enum_cpinfo_forward, lscp_forward_cpinfo.
EnumForward ==
    LET r == get_cpinfo(walk.sidx, MinOf(walk.rest, NCPINFO))
    IN
    /\ Fetching("forward")
    /\ IF walk.rest = 0 \/ walk.sidx >= walk.cs_cno \/ r.got = {} THEN Done
       ELSE walk' = [walk EXCEPT !.buf = r.got, !.sidx = Max(r.got) + 1, !.mincno = r.mincno]

\* Mutation of GoFurtherBack: the end stays where it was.
GoOnTheSpot(sidx, mincno) ==
    IF sidx = NILFS_CNO_MIN THEN Done
    ELSE walk' = [walk EXCEPT !.mincno = mincno,
            !.state = IF @ = "decel" THEN "normal" ELSE "accel",
            !.v = IF walk.state = "decel" THEN delta(walk.rest) ELSE 2 * @]

\* One call of nilfs_enum_cpinfo_backward: nothing before prev_head was
\* found, go further back, faster if that happens again.
GoFurtherBack(sidx, mincno) ==
    IF sidx = NILFS_CNO_MIN THEN Done
    ELSE walk' = [walk EXCEPT !.eidx = sidx, !.mincno = mincno,
            !.state = IF @ = "decel" THEN "normal" ELSE "accel",
            !.v = IF walk.state = "decel" THEN delta(walk.rest) ELSE 2 * @]

\* ... something was found by a large step: again from the same end, slower.
GoSlower(mincno) ==
    LET v == walk.v \div 2 IN
    walk' = [walk EXCEPT !.mincno = mincno,
        !.v = MaxOf(v, delta(walk.rest)),
        !.state = IF v <= delta(walk.rest) THEN "normal" ELSE "decel"]

\* Mutation of TakeBackward: what lies beyond the end is taken again.
TakeBackwardAll(got, sidx, mincno) ==
    walk' = [walk EXCEPT !.buf = got, !.state = "normal", !.head = Min(got), !.eidx = sidx,
                         !.v = delta(walk.rest), !.mincno = mincno]

\* ... the checkpoints below the end go to the callback, newest first.
TakeBackward(got, sidx, mincno) ==
    walk' = [walk EXCEPT !.buf = {c \in got : c < walk.eidx},
                         !.state = "normal", !.head = Min(got), !.eidx = sidx,
                         !.v = delta(walk.rest), !.mincno = mincno]

EnumBackward ==
    LET sidx == IF walk.eidx < NILFS_CNO_MIN + walk.v \/ walk.state = "init"
                THEN NILFS_CNO_MIN ELSE walk.eidx - walk.v
        n    == MinOf(IF walk.state = "normal" THEN walk.eidx - sidx ELSE 1, NCPINFO)
        r    == get_cpinfo(sidx, n)
    IN
    /\ Fetching("backward")
    /\ IF walk.rest = 0 \/ walk.eidx <= NILFS_CNO_MIN \/ r.got = {} THEN Done
       ELSE IF walk.state = "init"
       THEN IF Min(r.got) >= walk.eidx THEN Done
            ELSE walk' = [walk EXCEPT !.state = "normal", !.mincno = r.mincno]
       ELSE IF Min(r.got) = walk.head THEN GoFurtherBack(sidx, r.mincno)
       ELSE IF walk.state \in {"accel", "decel"} /\ Max(r.got) + 1 < walk.head
       THEN GoSlower(r.mincno)
       ELSE TakeBackward(r.got, sidx, r.mincno)

\* lscp_search_snapshot: the first snapshot from the index on, by calls that
\* advance by the number of checkpoints they returned.
SearchSnapshot ==
    LET n == IF walk.head = 0 THEN 1 ELSE MinOf(walk.cs_cno - walk.sidx, NCPINFO)
        r == get_cpinfo(walk.sidx, n)
        hits == r.got \cap cp_ss
    IN
    /\ Fetching("ss_forward") /\ walk.state = "search"
    /\ IF walk.rest = 0 \/ walk.sidx >= walk.cs_cno \/ r.got = {} THEN Done
       ELSE walk' = [walk EXCEPT !.head = 1, !.mincno = r.mincno,
               !.state = IF hits = {} THEN @ ELSE "init",
               !.sidx = IF hits = {} THEN @ + Cardinality(r.got) ELSE Min(hits)]

\* One call of lscp_forward_ssinfo, along ci_next.
SnapshotsForward ==
    LET got  == get_ssinfo(walk.sidx, MinOf(walk.rest, NCPINFO))
        more == {c \in cp_ss : c > Max(got)}
    IN
    /\ Fetching("ss_forward") /\ walk.state \in {"init", "end"}
    /\ IF walk.rest = 0 \/ walk.sidx >= walk.cs_cno \/ walk.state = "end" \/ got = {} THEN Done
       ELSE walk' = [walk EXCEPT !.buf = got,
               !.state = IF more = {} THEN "end" ELSE @,
               !.sidx = IF more = {} THEN 0 ELSE Min(more)]

\* One call of lscp_backward_ssinfo: while there are too many snapshots for
\* one call, through the checkpoints; then the snapshots that are left.
SnapshotsBackward ==
    LET few  == walk.rns <= NCPINFO \/ walk.eidx <= NILFS_CNO_MIN + NCPINFO
        sidx == walk.eidx - NCPINFO
        r    == get_cpinfo(sidx, NCPINFO)
        left == get_ssinfo(0, MinOf(walk.rns, NCPINFO))
    IN
    /\ Fetching("ss_backward")
    /\ IF \/ walk.rest = 0 \/ walk.eidx <= NILFS_CNO_MIN \/ walk.state = "end"
          \/ ~few /\ r.got = {}
       THEN Done
       ELSE walk' = IF few THEN [walk EXCEPT !.buf = {c \in left : c < walk.eidx}, !.state = "end"]
                    ELSE [walk EXCEPT !.buf = {c \in r.got : c < walk.eidx /\ c \in cp_ss},
                                      !.eidx = sidx, !.mincno = r.mincno]

-----------------------------------------------------------------------------
StartWalk ==
    /\ walk = NoWalk /\ cp_live # {}
    /\ \E k \in {"forward", "backward", "ss_forward", "ss_backward"},
          start \in Starts, count \in Counts :
          walk' = NewWalk(k, start, count)
    /\ UNCHANGED <<cp_live, cp_ss, cp_minor, next_cp>>

WalkStep ==
    /\ walk # NoWalk
    /\ \/ EnumForward \/ EnumBackward \/ SearchSnapshot \/ SnapshotsForward \/ SnapshotsBackward
       \/ Report
    /\ UNCHANGED <<cp_live, cp_ss, cp_minor, next_cp>>

\* The kernel, meanwhile.
AddCp ==
    /\ walk # NoWalk /\ ~walk.done
    /\ next_cp < MaxCp + MaxNewCps
    /\ cp_live' = cp_live \cup {next_cp}
    /\ next_cp' = next_cp + 1
    /\ UNCHANGED <<cp_ss, cp_minor, walk>>

DeleteCp ==
    /\ walk # NoWalk /\ ~walk.done
    /\ Cardinality(walk.range \ cp_live) < MaxDelete
    /\ \E c \in cp_live \ cp_ss : c < next_cp - 1 /\ cp_live' = cp_live \ {c}
    /\ UNCHANGED <<cp_ss, cp_minor, next_cp, walk>>

CpNext == StartWalk \/ WalkStep \/ AddCp \/ DeleteCp

CpSpec == CpInit /\ [][CpNext]_cpVars

CpFairness == WF_cpVars(WalkStep /\ ~walk.done)

-----------------------------------------------------------------------------
\* Everything is reported once and in order, whatever the steps taken, within
\* the range and the count asked for; checkpoints made or deleted meanwhile do
\* no harm.
WalkInOrder ==
    walk # NoWalk =>
        /\ \A i, j \in DOMAIN walk.out : i < j =>
              IF Backwards THEN walk.out[i] > walk.out[j] ELSE walk.out[i] < walk.out[j]
        /\ \A i \in DOMAIN walk.out : walk.out[i] \in walk.range \/ walk.out[i] >= walk.cs_cno
        /\ Len(walk.out) <= walk.limit

\* Nothing that exists throughout is left out: up to the last one reported,
\* and altogether if the walk ends before its count is reached.
WalkComplete ==
    walk # NoWalk /\ walk.done =>
        \A c \in walk.range \cap cp_live :
            \/ c \in ToSet(walk.out)
            \/ /\ Len(walk.out) = walk.limit
               /\ \A i \in DOMAIN walk.out : IF Backwards THEN c < walk.out[i] ELSE c > walk.out[i]

\* Speeding up and slowing down comes to an end.
WalkEnds == (walk # NoWalk) ~> (walk # NoWalk /\ walk.done)

\* A walk of lscp or of the mapper reports what there is, once and in order.
WalkExact == WalkInOrder /\ WalkComplete
===============================================================================
