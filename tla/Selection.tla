------------------------------ MODULE Selection ------------------------------
(***************************************************************************)
(* nilfs_cleanerd_select_segments() and the cleaning policies: which       *)
(* segments a pass of the cleaner daemon chooses, and how long it sleeps   *)
(* if there are none.  The usages are read in chunks, each segment of a    *)
(* chunk is assessed afterwards, and the file system changes meanwhile.    *)
(***************************************************************************)
EXTENDS Integers, SequencesExt, FiniteSetsExt

CONSTANTS
    NSUINFO,        \* usages per call (NILFS_CLEANERD_NSUINFO: 512)
    UsageStates,    \* usages: [st, lastmod, live, seqprot]
    NUsages,        \* number of segments (ss_nsegs)
    BLOCKS,         \* blocks per segment
    Now,            \* the time
    Protection,     \* protection period
    CheckInterval,  \* clean_check_interval
    NongcTimes,     \* times of the last write that is not the cleaner's
    PerCleanMax,    \* NILFS_CLDCONFIG_NSEGMENTS_PER_CLEAN_MAX (32)
    AgeWindow,      \* age_window (4)
    MaxTouched      \* bound: segments that change during a selection

VARIABLES
    usage,          \* the segment usages
    sel             \* the selection

NULLTIME == 1000000
Policies == {"timestamp", "greedy", "cost-benefit", "segregation"}
prottime == Now - Protection

Usages == [st : {"clean", "dirty", "active"}, lastmod : Nat, live : Nat, seqprot : BOOLEAN]

ASSUME SelAssumption ==
    /\ NSUINFO \in Nat \ {0} /\ NUsages \in Nat /\ BLOCKS \in Nat \ {0} /\ UsageStates \subseteq Usages
    /\ Now \in Nat /\ Now < NULLTIME /\ Protection \in Nat /\ CheckInterval \in Nat
    /\ NongcTimes \subseteq Nat /\ PerCleanMax \in Nat /\ AgeWindow \in Nat /\ MaxTouched \in Nat

\* The policy of a reloaded configuration takes effect only at the next
\* start: it does not change during a selection.
SelInit ==
    /\ usage \in [0 .. NUsages - 1 -> UsageStates]
    /\ \E p \in Policies, t \in NongcTimes :
        sel = [pc |-> "oldest", policy |-> p, nongc_ctime |-> t, segnum |-> 0, si |-> <<>>,
               oldest |-> NULLTIME, candidates |-> <<>>, segnums |-> <<>>, timeout |-> 0,
               i |-> 1, accum |-> <<>>, touched |-> {}]

SelOff == usage = <<>> /\ sel = [pc |-> "off"]

reclaimable(si) == si.st = "dirty"
protected(si) == si.lastmod >= prottime /\ si.lastmod <= Now

\* nilfs_get_suinfo()
get_suinfo(n) ==
    [k \in 1 .. (IF NUsages - sel.segnum < n THEN NUsages - sel.segnum ELSE n) |->
        [segnum |-> sel.segnum + k - 1, si |-> usage[sel.segnum + k - 1]]]

\* The loop over the usages just read.
OldestOf(old, sis) ==
    Min({old} \cup {sis[k].si.lastmod : k \in {j \in DOMAIN sis : reclaimable(sis[j].si)}})

\* The first pass looks for the oldest reclaimable segment.
ScanOldest ==
    /\ sel.pc = "oldest"
    /\ LET sis == get_suinfo(NSUINFO)
           next == sel.segnum + Len(sis)
       IN sel' = [sel EXCEPT !.oldest = OldestOf(@, sis),
                   !.pc = IF next = NUsages THEN "read" ELSE @,
                   !.segnum = IF next = NUsages THEN 0 ELSE next]
    /\ UNCHANGED usage

\* The second pass: a chunk (one segment for the segregation policy).
ReadChunk ==
    /\ sel.pc = "read"
    /\ LET sis == get_suinfo(IF sel.policy = "segregation" THEN 1 ELSE NSUINFO)
       IN sel' = [sel EXCEPT !.si = sis, !.segnum = @ + Len(sis), !.pc = "evaluate"]
    /\ UNCHANGED usage

-----------------------------------------------------------------------------
\* The usage is read once more.
assess_segment_if_dirty(n) == usage[n].st # "clean"

\* nilfs_get_live_blk(): a segment protected by its sequence number is not
\* read, and counts as one without live blocks.
live_blocks(n) == IF usage[n].seqprot THEN 0 ELSE usage[n].live

\* timestamp_evaluate()
importance(si) == IF si.lastmod <= Now THEN si.lastmod ELSE sel.nongc_ctime - 1

\* cb_evaluate()
age(si) == IF si.lastmod <= 0 \/ si.lastmod > Now THEN 0 ELSE Now - si.lastmod

\* evaluate_segment(), with the usage that was read, and the live blocks that
\* are there now.
eligible(e) ==
    /\ assess_segment_if_dirty(e.segnum)
    /\ ~protected(e.si)
    /\ reclaimable(e.si)
    /\ sel.policy = "timestamp" => importance(e.si) < sel.nongc_ctime

Candidate(e) ==
    [segnum |-> e.segnum, imp |-> importance(e.si), lastmod |-> e.si.lastmod,
     age |-> age(e.si), live |-> live_blocks(e.segnum)]

\* The next segment of the chunk.  The assessment may fail: the segment is
\* then not eligible.
Evaluate ==
    /\ sel.pc = "evaluate"
    /\ IF sel.si = <<>>
       THEN sel' = [sel EXCEPT !.pc = IF sel.segnum = NUsages THEN "select" ELSE "read"]
       ELSE \E ok \in BOOLEAN :
            LET e == Head(sel.si) IN
            sel' = [sel EXCEPT !.si = Tail(@),
                     !.oldest = IF sel.policy = "segregation" THEN @ ELSE OldestOf(@, <<e>>),
                     !.candidates = IF ok /\ eligible(e) THEN Append(@, Candidate(e)) ELSE @,
                     !.touched = IF ok THEN @ ELSE @ \cup {e.segnum}]
    /\ UNCHANGED usage

\* greedy_compare(), cb_compare(), timestamp_compare(), age_compare_descending():
\* what goes first; scores, with the segment number as a tie break.
\* (cost-benefit: (1 - u) * age / (1 + u), with u = live / BLOCKS.)
Score(c) ==
    CASE sel.policy = "timestamp"    -> [num |-> c.imp, den |-> 1]
      [] sel.policy = "greedy"       -> [num |-> BLOCKS - c.live, den |-> 1]
      [] sel.policy = "cost-benefit" -> [num |-> (BLOCKS - c.live) * c.age, den |-> BLOCKS + c.live]
      [] sel.policy = "segregation"  -> [num |-> 0 - c.lastmod, den |-> 1]
Higher(a, b) == Score(a).num * Score(b).den > Score(b).num * Score(a).den

\* Mutation of compare: the lowest score first.
compare_lowest(a, b) == Higher(b, a) \/ (~Higher(a, b) /\ a.segnum < b.segnum)

compare(a, b) == Higher(a, b) \/ (~Higher(b, a) /\ a.segnum < b.segnum)

\* nilfs_vector_sort(), qsort(): the candidates in the order of the policy.
Sorted(v) ==
    {s \in [DOMAIN v -> ToSet(v)] : ToSet(s) = ToSet(v) /\ \A a, b \in DOMAIN s : a < b => compare(s[a], s[b])}

\* The best two (the configured number is not used); the segregation policy
\* goes on with a loop over the candidates.
SelectBest ==
    /\ sel.pc = "select"
    /\ \E s \in Sorted(sel.candidates) :
          LET n == IF Len(s) < 2 THEN Len(s) ELSE 2 IN
          sel' = IF sel.policy = "segregation" THEN [sel EXCEPT !.pc = "cluster", !.candidates = s]
                 ELSE [sel EXCEPT !.pc = "selected", !.candidates = s,
                                  !.segnums = [k \in 1 .. n |-> s[k].segnum]]
    /\ UNCHANGED usage

\* Mutation of outside_window: any age will do.
outside_no_window(seed, c) == FALSE

outside_window(seed, c) ==
    seed.lastmod - c.lastmod > AgeWindow \/ c.lastmod - seed.lastmod > AgeWindow

\* The live blocks of the segments chosen so far.
accum_blocks == IF sel.accum = <<>> THEN 0 ELSE Last(sel.accum)

\* strict_cluster_select(), a round of its last loop: segments as old as the
\* oldest one, until their live blocks fill a segment.
Cluster ==
    /\ sel.pc = "cluster"
    /\ sel' = IF sel.i > Len(sel.candidates) \/ Len(sel.segnums) >= PerCleanMax
              THEN [sel EXCEPT !.pc = "selected"]
              ELSE LET c == sel.candidates[sel.i]
                       blocks == accum_blocks + c.live
                   IN IF outside_window(sel.candidates[1], c) THEN [sel EXCEPT !.i = @ + 1]
                      ELSE [sel EXCEPT !.i = @ + 1, !.segnums = Append(@, c.segnum),
                                       !.accum = Append(@, blocks),
                                       !.pc = IF blocks >= BLOCKS THEN "selected" ELSE @]
    /\ UNCHANGED usage

\* Mutation of idle_time: a second too short.
idle_time_short ==
    LET tgt == IF sel.oldest < Now THEN sel.oldest ELSE Now
        pt  == IF sel.oldest = NULLTIME THEN Protection
               ELSE IF tgt > prottime THEN tgt - prottime ELSE 1
    IN IF pt < CheckInterval THEN CheckInterval ELSE pt

\* nilfs_cleanerd_recalc_interval(), automatic cleaning, nothing chosen.
idle_time ==
    LET tgt == IF sel.oldest < Now THEN sel.oldest ELSE Now
        pt  == IF sel.oldest = NULLTIME THEN Protection
               ELSE IF tgt > prottime THEN tgt - prottime + 1 ELSE 1
    IN IF pt < CheckInterval THEN CheckInterval ELSE pt

SleepIdle ==
    /\ sel.pc = "selected" /\ sel.segnums = <<>>
    /\ sel' = [sel EXCEPT !.pc = "sleep", !.timeout = idle_time]
    /\ UNCHANGED usage

\* A call fails: in the first pass the vector destroyed at the end does not
\* exist yet (undefined behaviour); either way the daemon ends.
SelFails ==
    /\ sel.pc \in {"oldest", "read", "evaluate"}
    /\ sel' = [sel EXCEPT !.pc = "failed"]
    /\ UNCHANGED usage

\* Meanwhile: a segment is freed by another tool, filled by the writer, or
\* loses a block.
UsageChanges ==
    /\ sel.pc \notin {"off", "failed"} /\ Cardinality(sel.touched) < MaxTouched
    /\ \E n \in DOMAIN usage :
        /\ \/ usage[n].st = "dirty" /\ usage' = [usage EXCEPT ![n].st = "clean"]
           \/ usage[n].st = "active" /\ usage' = [usage EXCEPT ![n].st = "dirty", ![n].lastmod = Now]
           \/ usage[n].st = "dirty" /\ usage[n].live > 0 /\ usage' = [usage EXCEPT ![n].live = 0]
        /\ sel' = [sel EXCEPT !.touched = @ \cup {n}]

SelNext ==
    ScanOldest \/ ReadChunk \/ Evaluate \/ SelectBest \/ Cluster \/ SleepIdle \/ SelFails \/ UsageChanges

SelSpec == SelInit /\ [][SelNext]_<<usage, sel>>

-----------------------------------------------------------------------------
Chosen == ToSet(sel.segnums)
Steady == DOMAIN usage \ sel.touched
IsCandidate(n) ==
    /\ reclaimable(usage[n])
    /\ ~(usage[n].lastmod \in prottime .. Now)
    /\ sel.policy = "timestamp" => importance(usage[n]) < sel.nongc_ctime
SelDone == sel.pc \in {"selected", "sleep"}

\* What is chosen is the policy's best, twice at most and no segment twice:
\* no segment within the protection period or in use, and none that a segment
\* left out would beat (segments that changed meanwhile excepted).
BestChosen ==
    SelDone =>
        /\ Len(sel.segnums) = Cardinality(Chosen)
        /\ \A n \in Chosen \cap Steady : IsCandidate(n)
        /\ sel.policy # "segregation" =>
             /\ Len(sel.segnums) <= 2
             /\ \A m \in Steady \ Chosen : IsCandidate(m) =>
                  /\ Len(sel.segnums) = 2
                  /\ \A n \in Chosen \cap Steady :
                       ~Higher(Candidate([segnum |-> m, si |-> usage[m]]),
                               Candidate([segnum |-> n, si |-> usage[n]]))

\* The segregation policy never mixes ages: everything chosen was modified
\* within the window behind the oldest candidate, and it goes on until their
\* live blocks, which accum adds up, fill a segment, and no longer.
AgesNotMixed ==
    SelDone /\ sel.policy = "segregation" /\ sel.touched = {} =>
        /\ Len(sel.accum) = Len(sel.segnums)
        /\ \A k \in DOMAIN sel.accum :
             /\ sel.accum[k] = live_blocks(sel.segnums[k]) + IF k = 1 THEN 0 ELSE sel.accum[k - 1]
             /\ k < Len(sel.accum) => sel.accum[k] < BLOCKS
        /\ \A n \in Chosen, m \in DOMAIN usage :
             IsCandidate(m) => usage[n].lastmod - usage[m].lastmod <= AgeWindow
        /\ \A m \in DOMAIN usage \ Chosen : IsCandidate(m) =>
             \/ accum_blocks >= BLOCKS \/ Len(sel.segnums) = PerCleanMax
             \/ \E n \in Chosen : usage[m].lastmod - usage[n].lastmod > AgeWindow

\* Sleeping because everything reclaimable is protected, the daemon wakes up
\* when the first segment is no longer, and not later than it must look at
\* the file system anyway.
WakesForOldest ==
    sel.pc = "sleep" =>
        \A n \in Steady : reclaimable(usage[n]) /\ protected(usage[n]) =>
            LET first == usage[n].lastmod + Protection + 1 - Now IN
            /\ (\A m \in DOMAIN usage : reclaimable(usage[m]) => usage[m].lastmod >= usage[n].lastmod)
               /\ sel.touched = {} => sel.timeout >= first
            /\ sel.timeout <= IF first > CheckInterval THEN first ELSE CheckInterval

\* nilfs_cleanerd_select_segments() chooses by the policy, or sleeps in time.
SelectionSound == BestChosen /\ AgesNotMixed /\ WakesForOldest
===============================================================================
