------------------------------- MODULE GcBlocks -------------------------------
(***************************************************************************)
(* How lib/gc.c sorts out dead blocks: the search for a snapshot that      *)
(* shows a block, the removal of runs of dead blocks from the vector that  *)
(* is being walked, and the merging of the periods of checkpoints the      *)
(* kernel may delete.  Reclaim uses what they promise.  Vectors are        *)
(* sequences here (lib/vector.c is in Vector); indices start at 0 as in C. *)
(***************************************************************************)
EXTENDS Integers, Sequences, FiniteSets, SequencesExt

CONSTANTS
    GcBlockKinds,   \* the descriptors [cno, ps, pe] (nilfs_vdesc) of blocks
    GcSnapshots,    \* the checkpoint numbers that may be snapshots
    GcProtects,     \* the values of protcno
    GcNBlocks,      \* the number of blocks in the segments to clean
    CNO_MAX         \* NILFS_CNO_MAX: the block is in use

\* The period of a file block starts with a checkpoint, which have numbers from
\* 1 on, and ends there at the earliest: the one the block was written in, if it
\* was overwritten in it.
ASSUME GcAssumption ==
    /\ IsFiniteSet(GcSnapshots) /\ GcSnapshots \subseteq Nat /\ GcProtects \subseteq Nat
    /\ GcNBlocks \in Nat /\ CNO_MAX \in Nat
    /\ GcBlockKinds \subseteq [cno : Nat, ps : Nat, pe : Nat]
    /\ \A d \in GcBlockKinds :
          d.cno # 0 => d.ps > 0 /\ d.ps <= d.pe /\ (d.pe = d.cno => d.ps = d.pe)

VARIABLE gcb        \* the call: inputs, vectors, last_hit, loop indices, search, place

\* The elements of a vector without those at index i .. i + n - 1.
DeleteAt(v, i, n) == SubSeq(v, 1, i) \o SubSeq(v, i + n + 1, Len(v))

InOrder(v) == \A a, b \in DOMAIN v : a < b => v[a] < v[b]

\* Nothing tossed yet; nilfs_get_snapshot() returns the snapshots in order.
GcbInit ==
    \E in \in [1 .. GcNBlocks -> GcBlockKinds], p \in GcProtects, n \in 0 .. Cardinality(GcSnapshots) :
        \E ss \in [1 .. n -> GcSnapshots] :
            /\ InOrder(ss)
            /\ gcb = [pc |-> "toss", in |-> in, ss |-> ss, protect |-> p, last_hit |-> 0, i |-> 0, j |-> 0,
                      low |-> 0, high |-> 0, vdescv |-> [k \in 1 .. GcNBlocks |-> k],
                      vblocknrv |-> <<>>, periodv |-> <<>>]
GcbOff == gcb = [pc |-> "off"]

\* nilfs_vdesc_is_live(): what is known of a block without searching a snapshot.
vdesc_is_live(d, protect, ss, last_hit) ==
    LET n == Len(ss)
    IN  IF d.cno = 0 THEN IF d.pe = CNO_MAX THEN "live" ELSE "dead"
        ELSE IF d.pe = d.cno THEN "dead"
        ELSE IF d.pe = CNO_MAX \/ d.pe > protect THEN "live"
        ELSE IF n = 0 \/ d.ps > ss[n] \/ d.pe <= ss[1] THEN "dead"
        ELSE IF last_hit >= d.ps /\ last_hit < d.pe THEN "live"
        ELSE "search"

InRun == gcb.i < Len(gcb.vdescv) /\ gcb.j < Len(gcb.vdescv)
vdesc == gcb.in[gcb.vdescv[gcb.j + 1]]
judged == vdesc_is_live(vdesc, gcb.protect, gcb.ss, gcb.last_hit)
middle == (gcb.low + gcb.high) \div 2

\* Its binary search.
StartSearch ==
    /\ gcb.pc = "toss" /\ InRun /\ judged = "search"
    /\ gcb' = [gcb EXCEPT !.pc = "search", !.low = 0, !.high = Len(gcb.ss) - 1]

SearchUp ==
    /\ gcb.pc = "search" /\ gcb.low <= gcb.high
    /\ gcb.ss[middle + 1] < vdesc.ps
    /\ gcb' = [gcb EXCEPT !.low = middle + 1]

SearchDown ==
    /\ gcb.pc = "search" /\ gcb.low <= gcb.high
    /\ gcb.ss[middle + 1] >= vdesc.ps /\ gcb.ss[middle + 1] >= vdesc.pe
    /\ gcb' = [gcb EXCEPT !.high = middle - 1]

\* One round of the inner loop of nilfs_toss_vdescs() that finds a dead block;
\* without memory for its number or its period the call fails.
TossDead ==
    /\ \/ gcb.pc = "toss" /\ InRun /\ judged = "dead"
       \/ gcb.pc = "search" /\ gcb.low > gcb.high
    /\ \/ gcb' = [gcb EXCEPT !.pc = "toss", !.j = @ + 1, !.vblocknrv = Append(@, gcb.vdescv[gcb.j + 1]),
                             !.periodv = IF vdesc.cno # 0 THEN Append(@, <<vdesc.ps, vdesc.pe>>) ELSE @]
       \/ gcb' = [gcb EXCEPT !.pc = "failed"]

\* Mutation of EndRun: the block behind the run is deleted with it.
EndRunOneMore(hit) ==
    gcb' = [gcb EXCEPT !.pc = "toss",
                       !.vdescv = IF gcb.j > gcb.i THEN DeleteAt(@, gcb.i, gcb.j - gcb.i + 1) ELSE @,
                       !.last_hit = hit, !.i = @ + 1, !.j = gcb.i + 1]

\* A live block or the end of the vector ends the inner loop: the run of dead
\* blocks is cut out, and the walk goes on behind the live one.
EndRun(hit) ==
    gcb' = [gcb EXCEPT !.pc = "toss",
                       !.vdescv = IF gcb.j > gcb.i THEN DeleteAt(@, gcb.i, gcb.j - gcb.i) ELSE @,
                       !.last_hit = hit, !.i = @ + 1, !.j = gcb.i + 1]

TossRun ==
    \/ gcb.pc = "toss" /\ InRun /\ judged = "live" /\ EndRun(gcb.last_hit)
    \/ /\ gcb.pc = "search" /\ gcb.low <= gcb.high
       /\ gcb.ss[middle + 1] \in vdesc.ps .. vdesc.pe - 1
       /\ EndRun(gcb.ss[middle + 1])
    \/ /\ gcb.pc = "toss" /\ gcb.i < Len(gcb.vdescv) /\ gcb.j >= Len(gcb.vdescv)
       /\ EndRun(gcb.last_hit)

\* nilfs_unify_period() starts: qsort() by the start only, so that periods with
\* the same start may come in any order.
UnifySort ==
    /\ gcb.pc = "toss" /\ gcb.i >= Len(gcb.vdescv)
    /\ \E perm \in Bijection(DOMAIN gcb.periodv, DOMAIN gcb.periodv) :
          LET v == [k \in DOMAIN gcb.periodv |-> gcb.periodv[perm[k]]]
          IN  /\ \A a, b \in DOMAIN v : a < b => v[a][1] <= v[b][1]
              /\ gcb' = [gcb EXCEPT !.pc = "unify", !.periodv = v, !.i = 0, !.j = 1]

\* Mutation of merged: the end of the later period is taken over as it is.
merged_last(base, target) == target[2]

\* The end of the base period when a target reaches it.
merged(base, target) == IF base[2] < target[2] THEN target[2] ELSE base[2]

InUnify == gcb.pc = "unify" /\ gcb.i < Len(gcb.periodv)
Reaches == gcb.j < Len(gcb.periodv) /\ gcb.periodv[gcb.i + 1][2] >= gcb.periodv[gcb.j + 1][1]

UnifyMerge ==
    /\ InUnify /\ Reaches
    /\ gcb' = [gcb EXCEPT !.j = @ + 1,
                          !.periodv[gcb.i + 1] = <<@[1], merged(@, gcb.periodv[gcb.j + 1])>>]

UnifyCut ==
    /\ InUnify /\ ~Reaches
    /\ gcb' = [gcb EXCEPT !.periodv = IF gcb.j > gcb.i + 1 THEN DeleteAt(@, gcb.i + 1, gcb.j - gcb.i - 1) ELSE @,
                          !.i = @ + 1, !.j = gcb.i + 2]

UnifyEnd ==
    /\ gcb.pc = "unify" /\ gcb.i >= Len(gcb.periodv)
    /\ gcb' = [gcb EXCEPT !.pc = "done"]

GcbNext ==
    \/ StartSearch \/ SearchUp \/ SearchDown \/ TossDead \/ TossRun
    \/ UnifySort \/ UnifyMerge \/ UnifyCut \/ UnifyEnd

GcbSpec == GcbInit /\ [][GcbNext]_gcb

---------------------------------------------------------------------------
\* What makes a block live: it is in use, or a checkpoint under protection or a
\* snapshot shows it.  One overwritten in its own checkpoint is in none.
Shown(d, protect, ss) ==
    IF d.cno = 0 THEN d.pe = CNO_MAX
    ELSE d.pe # d.cno /\ (\/ d.pe = CNO_MAX \/ d.pe > protect
                         \/ \E s \in Range(ss) : s \in d.ps .. d.pe - 1)

\* However many dead blocks follow each other and whatever the last snapshot
\* hit was, nilfs_toss_vdescs() leaves exactly the live blocks in the vector, in
\* order, and puts exactly the dead ones on the list of numbers to free.
TossExact ==
    LET live == {k \in 1 .. GcNBlocks : Shown(gcb.in[k], gcb.protect, gcb.ss)}
    IN  gcb.pc \in {"unify", "done"} =>
            /\ InOrder(gcb.vdescv) /\ Range(gcb.vdescv) = live
            /\ InOrder(gcb.vblocknrv) /\ Range(gcb.vblocknrv) = (1 .. GcNBlocks) \ live

Covered(v) == UNION {v[k][1] .. v[k][2] - 1 : k \in DOMAIN v}

\* The checkpoints in the periods of the file blocks among those to free.
Given(in, nrs) == UNION {in[k].ps .. in[k].pe - 1 : k \in {n \in Range(nrs) : in[n].cno # 0}}

\* The periods nilfs_unify_period() leaves, whose checkpoints the kernel then
\* deletes, cover what the periods of the dead file blocks did, one by one
\* without touching, and hold no snapshot and no protected checkpoint.
UnifyExact ==
    gcb.pc = "done" =>
        /\ Covered(gcb.periodv) = Given(gcb.in, gcb.vblocknrv)
        /\ \A k \in 1 .. Len(gcb.periodv) - 1 : gcb.periodv[k][2] < gcb.periodv[k + 1][1]
        /\ \A c \in Covered(gcb.periodv) : c < gcb.protect /\ c \notin Range(gcb.ss)

\* The lists lib/gc.c hands to the kernel are the ones that it means to free.
ListsExact == gcb.pc # "off" => TossExact /\ UnifyExact
===============================================================================
