------------------------------- MODULE Resize -------------------------------
(***************************************************************************)
(* The on-line shrink of sbin/nilfs-resize.c: the tool empties the segments *)
(* at the end of the file system while the file system is in use, then asks *)
(* the kernel to cut them off.                                             *)
(*                                                                         *)
(* The range [newnsegs, nsegs) is emptied by moving reclaimable segments.  *)
(* Active segments, which the log writer holds, and segments the log cursor *)
(* protects cannot be moved: they are forced out by making the log go on.  *)
(***************************************************************************)
EXTENDS Integers, FiniteSets

CONSTANTS
    N,                   \* segments before the shrink
    RsvRatio,            \* reserved segments ratio, in percent
    NILFS_MIN_NRSVSEGS,  \* lower bound of the number of reserved segments
    NSegNums,            \* NILFS_RESIZE_NSEGNUMS, size of the table of segments
    PerClean,            \* nsegments_per_clean
    Users,               \* whether others write and clean meanwhile
    Faults               \* the steps whose system calls may fail

ASSUME NAssumption == N \in Nat /\ N >= 2
ASSUME ParametersAssumption ==
    /\ RsvRatio \in Nat /\ NILFS_MIN_NRSVSEGS \in Nat
    /\ NSegNums \in Nat \ {0} /\ PerClean \in 1..2
    /\ Users \in BOOLEAN

VARIABLES
    \* the file system (external): the state of each segment, the segments
    \* the log writer holds, their number, and the allocatable range [0, alloc)
    seg, log, nsegs, alloc,
    \* the request; the segments not protected by the sequence number in the
    \* statistics read last; the loops of shrinking, evicting and sweeping
    newnsegs, unprot, pc, retry, retrycnt, segnum,
    \* nilfs_resize_move_segments(): who called it, with how many segments, the
    \* ones left, the ones moved, whether one was found to be protected
    caller, nfound, found, nmoved, reason,
    \* nilfs_resize_reclaim_nibble()
    count, unprotect, front, cursor, log_cursor_updated, prodded

fsVars     == <<seg, log, nsegs, alloc>>
moveVars   == <<caller, nfound, found, nmoved, reason>>
nibbleVars == <<count, unprotect, front, cursor, log_cursor_updated, prodded>>
vars == <<fsVars, newnsegs, unprot, pc, retry, retrycnt, segnum, moveVars, nibbleVars>>

Segs     == 0..N - 1
SegState == {"clean", "dirty", "prot", "active"}
Final    == {"done", "aborted", "unrestored", "gaveup", "killed"}

Min2(a, b)   == IF a <= b THEN a ELSE b
Max2(a, b)   == IF a >= b THEN a ELSE b
Lowest(S, n) == {s \in S : Cardinality({t \in S : t < s}) < n}
Greatest(S)  == CHOOSE s \in S : \A t \in S : t <= s

-----------------------------------------------------------------------------
(***************************************************************************)
(* The file system (external).  The log writer holds the segment it writes *)
(* and the one it will write next.  New segments are taken from the        *)
(* allocatable range as long as that has clean ones.                       *)
(***************************************************************************)
Fs(sg, lg) == [seg |-> sg, log |-> lg]

Allocatable(sg) ==
    LET clean == {s \in 0..nsegs - 1 : sg[s] = "clean"} IN
    IF clean \cap 0..alloc - 1 # {} THEN clean \cap 0..alloc - 1 ELSE clean

\* The segment written is full; the log goes on.
Advanced(fs) ==
    {Fs([fs.seg EXCEPT ![fs.log[1]] = "prot", ![s] = "active"], <<fs.log[2], s>>) :
        s \in Allocatable(fs.seg)}
Advanced2(fs) == UNION {Advanced(f) : f \in Advanced(fs)}

\* The blocks in use of the segments K are written to the log, which takes at
\* most as many new segments, and K is set free.
Reclaimed(K) ==
    {Fs([s \in Segs |-> IF s \in K THEN "clean" ELSE f.seg[s]], f.log) :
        f \in {Fs(seg, log)}
              \cup (IF K # {} THEN Advanced(Fs(seg, log)) ELSE {})
              \cup (IF Cardinality(K) > 1 THEN Advanced2(Fs(seg, log)) ELSE {})}

FsBecomes(f) == seg' = f.seg /\ log' = f.log

\* A segment the log has gone over again is protected anew, whatever the
\* statistics say: its sequence number is higher than theirs.
Forget(f) == {s \in unprot : f.seg[s] \in {"dirty", "clean"}}

Inactive(sg) == [s \in Segs |-> IF sg[s] = "prot" THEN "dirty" ELSE sg[s]]

Unprotected(sg) == {s \in Segs : sg[s] = "dirty"}
NClean(sg)      == Cardinality({s \in 0..nsegs - 1 : sg[s] = "clean"})

\* nilfs_resize_update_sustat()
update_sustat == unprot' = Unprotected(seg)

Fault(p) == p \in Faults

-----------------------------------------------------------------------------
calc_nrsvsegs(n) == Max2(NILFS_MIN_NRSVSEGS, (n * RsvRatio + 99) \div 100)

\* Mutation of check_free_space: what is cut off is not counted.
check_clean_only == NClean(seg) >= calc_nrsvsegs(newnsegs)

\* nilfs_resize_check_free_space(), always on statistics read just before.
check_free_space ==
    NClean(seg) >= nsegs - newnsegs + calc_nrsvsegs(newnsegs)

\* The area to be cut off.
Trunc == newnsegs..nsegs - 1
Busy  == {s \in Trunc : seg[s] # "clean"}
\* nilfs_resize_find_active_segments() in that area, with live information;
\* reclaimable and movable ones, the latter by the statistics read last.
Active      == {s \in Trunc : seg[s] = "active"}
Reclaimable == {s \in Segs : seg[s] \in {"dirty", "prot"}}
Movable     == Reclaimable \cap unprot

Init ==
    /\ nsegs = N /\ alloc = N
    /\ log \in {l \in Segs \X Segs : l[1] # l[2]}
    /\ seg \in {sg \in [Segs -> SegState] :
                   \A s \in Segs : sg[s] = "active" <=> s \in {log[1], log[2]}}
    /\ newnsegs \in 0..N
    /\ unprot = Unprotected(seg)
    /\ pc = "check" /\ retry = 0 /\ retrycnt = 0 /\ segnum = 0
    /\ caller = "none" /\ nfound = 0 /\ found = {} /\ nmoved = 0 /\ reason = FALSE
    /\ count = 0 /\ unprotect = FALSE /\ front = FALSE /\ cursor = 0
    /\ log_cursor_updated = FALSE /\ prodded = FALSE

-----------------------------------------------------------------------------
(***************************************************************************)
(* nilfs_shrink_online()                                                   *)
(***************************************************************************)

\* Not enough room, or the user answers no.
Check ==
    /\ pc = "check"
    /\ update_sustat
    /\ \/ check_free_space /\ pc' = "limit"
       \/ ~check_free_space /\ pc' = "aborted"
       \/ Fault("prompt") /\ pc' = "aborted"
    /\ UNCHANGED <<fsVars, newnsegs, retry, retrycnt, segnum, moveVars, nibbleVars>>

\* nilfs_set_alloc_range()
LimitAllocation ==
    /\ pc = "limit"
    /\ \/ alloc' = newnsegs /\ pc' = "range"
       \/ Fault("limit") /\ pc' = "aborted" /\ UNCHANGED alloc
    /\ UNCHANGED <<seg, log, nsegs, newnsegs, unprot, retry, retrycnt, segnum,
                   moveVars, nibbleVars>>

\* nilfs_resize_reclaim_range() begins.  Only this tool resizes.
ReclaimRange ==
    /\ pc = "range"
    /\ update_sustat
    /\ pc' = IF newnsegs = nsegs THEN "lock" ELSE "evict"
    /\ UNCHANGED <<fsVars, newnsegs, retry, retrycnt, segnum, moveVars, nibbleVars>>

\* The variables of nilfs_resize_move_segments() and of
\* nilfs_resize_reclaim_nibble() while neither runs.
MoveEnds ==
    caller' = "none" /\ nfound' = 0 /\ found' = {} /\ nmoved' = 0 /\ reason' = FALSE
NibbleEnds ==
    /\ count' = 0 /\ unprotect' = FALSE /\ front' = FALSE /\ cursor' = 0
    /\ log_cursor_updated' = FALSE /\ prodded' = FALSE

\* nilfs_resize_reclaim_nibble() is called.
CallNibble(n, unprotected, from) ==
    /\ pc' = "search" /\ caller' = from
    /\ count' = n /\ unprotect' = unprotected
    /\ front' = FALSE /\ cursor' = newnsegs
    /\ log_cursor_updated' = FALSE /\ prodded' = FALSE
    /\ nfound' = 0 /\ found' = {} /\ nmoved' = 0 /\ reason' = FALSE

\* It returns.  In the sweep nobody looks at the result.
NibbleReturns(ok) ==
    /\ pc' = IF caller = "sweep" THEN "sweep" ELSE IF ok THEN "evict" ELSE "restore"
    /\ MoveEnds /\ NibbleEnds

\* Mutation of Evict: the attempts are not limited.
EvictForever ==
    /\ pc = "evict"
    /\ update_sustat
    /\ \/ /\ Active = {} /\ pc' = "sweep" /\ segnum' = newnsegs /\ retrycnt' = 0
          /\ UNCHANGED <<moveVars, nibbleVars>>
       \/ /\ Active # {}
          /\ CallNibble(Cardinality(Active), FALSE, "evict")
          /\ retrycnt' = retrycnt + 1
          /\ UNCHANGED segnum
    /\ UNCHANGED <<fsVars, newnsegs, retry>>

\* nilfs_resize_move_out_active_segments().  An attempt is counted when it
\* begins, since one that fails is the last.
Evict ==
    /\ pc = "evict"
    /\ update_sustat
    /\ \/ /\ Active = {} /\ pc' = "sweep" /\ segnum' = newnsegs /\ retrycnt' = 0
          /\ UNCHANGED <<moveVars, nibbleVars>>
       \/ /\ Active # {} /\ retrycnt >= 6 /\ pc' = "restore"
          /\ UNCHANGED <<retrycnt, segnum, moveVars, nibbleVars>>
       \/ /\ Active # {} /\ retrycnt < 6
          /\ CallNibble(Cardinality(Active), FALSE, "evict")
          /\ retrycnt' = retrycnt + 1
          /\ UNCHANGED segnum
    /\ UNCHANGED <<fsVars, newnsegs, retry>>

\* What remains to be moved from the area is looked up, a table at a time.
Sweep ==
    /\ pc = "sweep"
    /\ LET R == Lowest({s \in Reclaimable \cap Trunc : s >= segnum}, NSegNums) IN
       \/ /\ R = {}
          /\ pc' = "lock" /\ segnum' = 0
          /\ UNCHANGED <<found, nfound>>
       \/ /\ R # {}
          /\ pc' = "move"
          /\ found' = R /\ nfound' = Cardinality(R)
          /\ segnum' = Greatest(R) + 1
    /\ UNCHANGED <<fsVars, newnsegs, unprot, retry, retrycnt, caller, nmoved, reason,
                   nibbleVars>>

\* The statistics or the segment usage cannot be read.
ReadFails ==
    /\ Fault("read")
    /\ \/ /\ pc \in {"range", "evict", "sweep"}
          /\ pc' = "restore"
          /\ UNCHANGED <<moveVars, nibbleVars>>
       \/ pc = "search" /\ NibbleReturns(FALSE)
    /\ UNCHANGED <<fsVars, newnsegs, unprot, retry, retrycnt, segnum>>

\* Mutation of Lock: a failure takes the short way out.
LockOrOut ==
    /\ pc = "lock" /\ pc' \in {"truncate", "aborted"}
    /\ UNCHANGED <<fsVars, newnsegs, unprot, retry, retrycnt, segnum, moveVars,
                   nibbleVars>>

\* nilfs_resize_lock_cleaner()
Lock ==
    /\ pc = "lock"
    /\ \/ pc' = "truncate"
       \/ Fault("lock") /\ pc' = "restore"
    /\ UNCHANGED <<fsVars, newnsegs, unprot, retry, retrycnt, segnum, moveVars,
                   nibbleVars>>

\* Mutation of Truncate: the number of attempts is not counted.
TruncateForever ==
    /\ pc = "truncate"
    /\ \/ Busy = {} /\ nsegs' = newnsegs /\ pc' = "done" /\ UNCHANGED unprot
       \/ Busy # {} /\ update_sustat /\ pc' = "range" /\ UNCHANGED nsegs
    /\ UNCHANGED <<seg, log, alloc, newnsegs, retry, retrycnt, segnum, moveVars,
                   nibbleVars>>

\* The resize ioctl, with the cleaner locked out and the signals blocked.
Truncate ==
    /\ pc = "truncate"
    /\ \/ /\ Busy = {}
          /\ nsegs' = newnsegs /\ pc' = "done"
          /\ UNCHANGED <<unprot, retry>>
       \/ /\ Busy # {}                                  \* EBUSY
          /\ update_sustat
          /\ IF check_free_space
             THEN /\ retry' = retry + 1
                  /\ pc' = IF retry' < 4 THEN "range" ELSE "gaveup"
             ELSE pc' = "restore" /\ UNCHANGED retry
          /\ UNCHANGED nsegs
       \/ /\ Fault("truncate") /\ pc' = "restore"
          /\ UNCHANGED <<nsegs, unprot, retry>>
    /\ UNCHANGED <<seg, log, alloc, newnsegs, retrycnt, segnum, moveVars,
                   nibbleVars>>

\* nilfs_resize_restore_alloc_range().  If one of its two calls fails, nobody
\* notices.
RestoreAllocRange ==
    /\ pc = "restore"
    /\ \/ update_sustat /\ alloc' = N /\ pc' = "aborted"
       \/ Fault("restore") /\ pc' = "unrestored" /\ UNCHANGED <<unprot, alloc>>
    /\ UNCHANGED <<seg, log, nsegs, newnsegs, retry, retrycnt, segnum, moveVars,
                   nibbleVars>>

-----------------------------------------------------------------------------
(***************************************************************************)
(* nilfs_resize_move_segments() and nilfs_resize_reclaim_nibble()          *)
(***************************************************************************)

\* nilfs_resize_verify_failure() for the segments C that were not moved: an
\* active or protected one is found to be so; so may be one that became
\* clean, whose old summary is read.
verify_failure(C, prot) ==
    \/ prot = (\E s \in C : seg[s] \in {"active", "prot"})
    \/ prot /\ \E s \in C : seg[s] = "clean"

\* Where the caller goes on once n segments have been moved.
SweepGoesOn(n, prot) ==
    IF n < nfound /\ prot
    THEN CallNibble(2, TRUE, "sweep")
    ELSE pc' = "sweep" /\ MoveEnds /\ UNCHANGED nibbleVars

NibbleGoesOn(n) ==
    IF n >= count /\ ~(unprotect /\ ~log_cursor_updated)
    THEN NibbleReturns(TRUE)
    ELSE /\ pc' = IF n >= count THEN "cursor" ELSE "search"
         /\ nmoved' = n /\ found' = {}
         /\ UNCHANGED <<caller, nfound, reason, nibbleVars>>

\* One round: the statistics are read, nilfs_reclaim_segment() is given the
\* next few segments and frees those it may.
Move ==
    /\ pc = "move"
    /\ LET C == Lowest(found, PerClean)
           K == {s \in C : seg[s] = "dirty"}
           n == nmoved + Cardinality(K) IN
       \E f \in Reclaimed(K), prot \in BOOLEAN :
          /\ FsBecomes(f)
          /\ unprot' = {s \in Unprotected(seg) : f.seg[s] \in {"dirty", "clean"}}
          /\ IF caller = "none" THEN verify_failure(C \ K, prot) ELSE ~prot
          /\ IF found \ C # {}
             THEN /\ found' = found \ C /\ nmoved' = n /\ reason' = (reason \/ prot)
                  /\ UNCHANGED <<pc, caller, nfound, nibbleVars>>
             ELSE IF caller = "none" THEN SweepGoesOn(n, reason \/ prot)
             ELSE NibbleGoesOn(n)
    /\ UNCHANGED <<nsegs, alloc, newnsegs, retry, retrycnt, segnum>>

\* The statistics cannot be read, or nilfs_reclaim_segment() fails.
MoveFails ==
    /\ pc = "move" /\ Fault("move")
    /\ IF caller = "none" THEN pc' = "restore" /\ MoveEnds /\ UNCHANGED nibbleVars
       ELSE NibbleReturns(FALSE)
    /\ UNCHANGED <<fsVars, newnsegs, unprot, retry, retrycnt, segnum>>

\* The search for movable segments, first in the area, then in front of it.
\* There it may look one segment too far: the last two are asked for at once.
Search ==
    /\ pc = "search"
    /\ \E last \in IF front THEN {newnsegs - 1, newnsegs} ELSE {nsegs - 1} :
       LET W == Lowest({s \in Movable : s \in cursor..last}, Min2(count - nmoved, 2)) IN
          \/ /\ W # {}
             /\ found' = W /\ cursor' = Greatest(W) + 1
             /\ pc' = "move"
             /\ UNCHANGED <<caller, nfound, nmoved, reason, count, unprotect, front,
                            log_cursor_updated, prodded>>
          \/ /\ W = {} /\ ~front
             /\ front' = TRUE /\ cursor' = 0
             /\ UNCHANGED <<pc, moveVars, count, unprotect, log_cursor_updated, prodded>>
          \/ /\ W = {} /\ front
             /\ ~log_cursor_updated \/ (~prodded /\ Active # {})
             /\ pc' = IF ~log_cursor_updated THEN "cursor" ELSE "prod"
             /\ UNCHANGED <<moveVars, nibbleVars>>
          \/ /\ W = {} /\ front
             /\ log_cursor_updated /\ (prodded \/ Active = {})
             /\ NibbleReturns(FALSE)
    /\ UNCHANGED <<fsVars, newnsegs, unprot, retry, retrycnt, segnum>>

SearchAgain == pc' = "search" /\ front' = FALSE /\ cursor' = newnsegs

\* nilfs_resize_try_update_log_cursor(): either the last thing the nibble
\* does, whatever comes of it, or what it does when nothing is movable.
UpdateLogCursor ==
    /\ pc = "cursor"
    /\ \/ seg' = Inactive(seg) /\ unprot' = Unprotected(seg')
       \/ Fault("cursor") /\ update_sustat /\ UNCHANGED seg
    /\ \/ nmoved >= count /\ NibbleReturns(TRUE)
       \/ /\ nmoved < count /\ seg' = Inactive(seg)
          /\ SearchAgain /\ log_cursor_updated' = TRUE
          /\ UNCHANGED <<moveVars, count, unprotect, prodded>>
       \/ nmoved < count /\ Fault("cursor") /\ NibbleReturns(FALSE)
    /\ UNCHANGED <<log, nsegs, alloc, newnsegs, retry, retrycnt, segnum>>

\* The file system after the balloon file has been written, which fills what
\* is left of the active segments unless there is no room for it.
Ballooned ==
    LET here == Fs(seg, log) IN
    IF Advanced2(here) # {} THEN Advanced2(here)
    ELSE IF Advanced(here) # {} THEN Advanced(here) ELSE {here}

\* nilfs_resize_prod_fs()
Prod ==
    /\ pc = "prod"
    /\ \/ /\ \E f \in Ballooned : FsBecomes(f) /\ unprot' = Unprotected(f.seg)
          /\ SearchAgain /\ log_cursor_updated' = FALSE /\ prodded' = TRUE
          /\ UNCHANGED <<moveVars, count, unprotect>>
       \/ /\ Fault("prod") /\ NibbleReturns(FALSE)
          /\ update_sustat
          /\ UNCHANGED <<seg, log>>
    /\ UNCHANGED <<nsegs, alloc, newnsegs, retry, retrycnt, segnum>>

-----------------------------------------------------------------------------
(***************************************************************************)
(* The others.                                                             *)
(***************************************************************************)
toolVars == <<nsegs, alloc, newnsegs, pc, retry, retrycnt, segnum, moveVars, nibbleVars>>

\* Somebody fills a segment.
UserWrites ==
    /\ Users /\ pc \notin Final
    /\ \E f \in Advanced(Fs(seg, log)) : FsBecomes(f) /\ unprot' = Forget(f)
    /\ UNCHANGED toolVars

\* The cleaner daemon reclaims a segment, unless it is locked out.
DaemonCleans ==
    /\ Users /\ pc \notin Final \cup {"truncate"}
    /\ \E s \in Segs : /\ seg[s] = "dirty"
                       /\ \E f \in Reclaimed({s}) : FsBecomes(f) /\ unprot' = Forget(f)
    /\ UNCHANGED toolVars

\* The kernel updates the superblocks, and with them the log cursor.
KernelUpdatesCursor ==
    /\ Users /\ pc \notin Final
    /\ seg' = Inactive(seg) /\ seg' # seg
    /\ UNCHANGED <<log, unprot, toolVars>>

\* SIGINT or SIGTERM; they are blocked while the cleaner is locked out and
\* while there is a balloon file.
Interrupted ==
    /\ Fault("signal") /\ pc \notin Final \cup {"truncate", "prod"}
    /\ pc' = "killed"
    /\ UNCHANGED <<fsVars, newnsegs, unprot, retry, retrycnt, segnum, moveVars,
                   nibbleVars>>

Tool ==
    \/ Check \/ LimitAllocation \/ ReclaimRange \/ Evict \/ Sweep \/ Lock
    \/ Truncate \/ RestoreAllocRange \/ ReadFails \/ Move \/ MoveFails \/ Search
    \/ UpdateLogCursor \/ Prod

Next == Tool \/ UserWrites \/ DaemonCleans \/ KernelUpdatesCursor \/ Interrupted

Spec == Init /\ [][Next]_vars

\* The tool is run; what the others do is up to them.
FairSpec == Spec /\ WF_vars(Tool)

-----------------------------------------------------------------------------
(***************************************************************************)
(* Properties.                                                             *)
(***************************************************************************)
TypeOK ==
    /\ seg \in [Segs -> SegState] /\ log \in Segs \X Segs
    /\ nsegs \in 0..N /\ alloc \in 0..N /\ newnsegs \in 0..N
    /\ unprot \subseteq Segs
    /\ pc \in Final \cup {"check", "limit", "range", "evict", "sweep", "lock",
                          "truncate", "restore", "move", "search", "cursor", "prod"}
    /\ retry \in 0..4 /\ retrycnt \in 0..6 /\ segnum \in 0..N
    /\ caller \in {"none", "evict", "sweep"}
    /\ nfound \in 0..NSegNums /\ found \subseteq Segs /\ nmoved \in 0..N
    /\ reason \in BOOLEAN /\ count \in 0..2 /\ unprotect \in BOOLEAN
    /\ front \in BOOLEAN /\ cursor \in 0..N + 1
    /\ log_cursor_updated \in BOOLEAN /\ prodded \in BOOLEAN

\* The range in front of the area, [0, start - 1] in unsigned arithmetic, is
\* only searched if there is one: nilfs_resize_check_free_space() has refused
\* every size for which start is zero.
FrontRangeExists == pc \in {"search", "move", "cursor", "prod"} => newnsegs > 0

\* A shrink that is called off, at whatever step one of its calls fails, does
\* not leave the file system confined to the smaller range: every "goto" of
\* nilfs_shrink_online() after nilfs_set_alloc_range() passes through
\* restore_alloc_range.  (It may fail itself; that end has another name.)
AbortRestoresAllocation == pc = "aborted" => alloc = nsegs

\* nilfs_shrink_online() ends, whatever others write meanwhile: the attempts
\* to evict, to sweep, to make segments movable and to truncate are bounded.
ShrinkEnds == <>(pc \in Final)

\* nilfs_shrink_online() never searches an empty range, makes no more attempts
\* than it is meant to, and gives the allocation range back when it gives up.
ShrinkSafe == TypeOK /\ FrontRangeExists /\ AbortRestoresAllocation
=============================================================================
