---------------------------- MODULE ReclaimProofs ----------------------------
(***************************************************************************)
(* Safety of segment reclamation, for any number of cleaners, tools,       *)
(* segments, blocks and checkpoints, all faults and all bounds.            *)
(***************************************************************************)
EXTENDS Reclaim, SequenceTheorems, FiniteSetTheorems, TLAPS

Working == {"acc", "vdesc", "toss", "bdesc", "commit", "clean"}
Calling(p) == pc[p] \notin {"idle", "dead"}

SegRecord == [st : SegState, seq : Nat]
BlkRecord == [start : Nat, end : Nat, loc : Segs \cup {"unused", "freed", "lost"}]
ArgRecord == [segs : Seq(Segs), protseq : Nat, protcno : Nat, dry : BOOLEAN, min : BOOLEAN]
TargetRecord == [cno : Nat, ss : BOOLEAN, chcp : BOOLEAN]
StatRecord == [cleaned : Int, protected : Int, deferred : Int]

\* TypeOK in parts, with the variables it leaves out.
FsTypes ==
    /\ seg \in [Segs -> SegRecord] /\ blk \in [Blocks -> BlkRecord]
    /\ cno \in Nat /\ cps \subseteq Nat /\ snapshots \subseteq Nat /\ cursor \in Nat

ProcTypes ==
    /\ sem \in {0, 1} /\ pending \in [Procs -> BOOLEAN] /\ pc \in [Procs -> Places]
    /\ target \in [Tools -> TargetRecord] /\ set_suinfo \in [Procs -> BOOLEAN]

ArrayTypes ==
    /\ args \in [Procs -> ArgRecord] /\ segnums \in [Procs -> Seq(Segs)]
    /\ n \in [Procs -> Nat] /\ i \in [Procs -> Nat]
    /\ ret \in [Procs -> {0, -1}] /\ stat \in [Procs -> StatRecord]
    /\ done \in [Procs -> SUBSET Segs]

FoundTypes ==
    /\ vdescv \in [Procs -> SUBSET Blocks] /\ vblocknrv \in [Procs -> SUBSET Blocks]
    /\ ends \in [Procs -> [Blocks -> Nat]] /\ periodv \in [Procs -> SUBSET Nat]

Types == FsTypes /\ ProcTypes /\ ArrayTypes /\ FoundTypes

\* Who has passed nilfs_lock_cleaner() is alone there, and holds the semaphore;
\* only the death of its holder can leave it taken.
LockInv ==
    /\ \A p, q \in Procs : InCritical(p) /\ InCritical(q) => p = q
    /\ \A p \in Procs : InCritical(p) => sem = 0
    /\ "kill" \notin Faults => (sem = 0 => \E p \in Procs : InCritical(p))

\* The elements of an array, and the first m of them.
Elems(q) == {q[x] : x \in DOMAIN q}
Firsts(q, m) == {q[x] : x \in 1..m}

\* The array of a call and the indices into it.
ArrayInv(p) ==
    /\ Calling(p) => /\ n[p] <= Len(segnums[p])
                     /\ Elems(segnums[p]) = Elems(args[p].segs)
    /\ pc[p] = "lock" => i[p] = 1
    /\ pc[p] = "acc" => i[p] >= 1
    /\ pc[p] \in Working \ {"acc"} =>
          /\ i[p] > n[p]
          /\ stat[p].cleaned = n[p] /\ stat[p].deferred = 0
    /\ pc[p] \notin {"unlock", "dead"} => done[p] = {}
    /\ pc[p] = "unlock" /\ done[p] # {} =>
          done[p] = Firsts(segnums[p], stat[p].cleaned + stat[p].deferred)

\* The segments nilfs_acc_blocks() has accepted so far.
Accepted(p) == {segnums[p][x] : x \in {y \in 1..(i[p] - 1) : y <= n[p]}}

\* They stay reclaimable, and out of the reach of recovery.
AcceptedInv(p) ==
    pc[p] \in Working =>
        \A s \in Accepted(p) :
            /\ nilfs_suinfo_reclaimable(s)
            /\ seg[s].st = "scrapped" \/ seg[s].seq < args[p].protseq

\* The log cursor only moves on, so that the one a call was given is old.
SeqInv ==
    /\ \A s \in Segs : InitSeq <= seg[s].seq /\ seg[s].seq <= MaxSeq
    /\ InitSeq <= cursor /\ cursor <= MaxSeq
    /\ \A p \in Cleaners : Calling(p) => /\ InitSeq <= args[p].protseq
                                         /\ args[p].protseq <= cursor

\* The periods of blocks: a block is in use, or its period has ended.
BlockInv ==
    /\ 2 <= cno /\ cno <= MaxCno
    /\ \A b \in Blocks :
          /\ blk[b].start <= cno
          /\ blk[b].end = CNO_MAX \/ blk[b].end <= cno
          /\ blk[b].loc \in Segs => blk[b].start >= 1

\* A block out of use that cannot come into use again.
Ended(b) == blk[b].start >= 1 /\ blk[b].end # CNO_MAX

\* Nothing in the accepted segments is overlooked: a block in one of them is
\* in a list of the call, or one of an old DAT.
FoundInv(p) ==
    /\ pc[p] \in {"idle", "lock"} => vdescv[p] = {}
    /\ \A b \in vdescv[p] : pc[p] \in Working => blk[b].start >= 1
    /\ pc[p] \in Working =>
          \A b \in Blocks : blk[b].loc \in Accepted(p) =>
              \/ b \in vdescv[p]
              \/ pc[p] \in {"bdesc", "commit", "clean"} /\ b \in vblocknrv[p]
              \/ pc[p] \in {"commit", "clean"} /\ Kind[b] = "dat" /\ Ended(b)

\* The ends of periods that were read are still right, unless the block went
\* out of use meanwhile.
EndsInv(p) ==
    pc[p] = "toss" =>
        \A b \in vdescv[p] : Kind[b] # "dat" =>
            ends[p][b] = CNO_MAX \/ ends[p][b] = blk[b].end

\* The blocks to be freed are out of use, no snapshot sees them, and all
\* checkpoints that do are to be deleted, none of them protected.
DeadInv(p) ==
    pc[p] \in {"bdesc", "commit", "clean"} =>
        /\ \A b \in vblocknrv[p] :
              /\ Ended(b) /\ b \notin vdescv[p]
              /\ Kind[b] = "file" =>
                    \A c \in blk[b].start .. blk[b].end - 1 :
                        c \in periodv[p] /\ c \notin snapshots
        /\ \A c \in periodv[p] : c < args[p].protcno

CallInv(p) == AcceptedInv(p) /\ FoundInv(p) /\ EndsInv(p) /\ DeadInv(p)

\* The inductive invariant.
IInv ==
    /\ Types /\ LockInv /\ SeqInv /\ BlockInv
    /\ \A p \in Cleaners : ArrayInv(p) /\ CallInv(p)
    /\ NothingNeededLost

-----------------------------------------------------------------------------
(***************************************************************************)
(* The operators.                                                          *)
(***************************************************************************)
\* nilfs_deselect_segment() only reorders the array, behind the segments
\* accepted before.
LEMMA DeselectReorders ==
    ASSUME NEW q \in Seq(Segs), NEW m \in Nat, NEW k \in Nat,
           1 <= k, k <= m, m <= Len(q)
    PROVE  LET r == deselect_segment(q, m, k)
           IN  /\ r \in Seq(Segs) /\ Len(r) = Len(q)
               /\ Elems(r) = Elems(q)
               /\ \A x \in 1 .. k - 1 : r[x] = q[x]
<1> DEFINE r == deselect_segment(q, m, k)
<1>1. DOMAIN q = 1 .. Len(q) /\ Len(q) \in Nat /\ \A x \in 1 .. Len(q) : q[x] \in Segs
  OBVIOUS
<1>2. r = [x \in 1 .. Len(q) |-> IF x < k \/ x > m THEN q[x]
                                  ELSE IF x = m THEN q[k] ELSE q[x + 1]]
  BY <1>1 DEF deselect_segment
<1>3. r \in [1 .. Len(q) -> Segs]
  BY <1>1, <1>2
<1>4. r \in Seq(Segs) /\ Len(r) = Len(q) /\ DOMAIN r = 1 .. Len(q)
  BY <1>1, <1>3
<1>5. \A x \in 1 .. k - 1 : r[x] = q[x]
  BY <1>1, <1>2
<1>6. ASSUME NEW x \in 1 .. Len(q) PROVE \E y \in 1 .. Len(q) : r[x] = q[y]
  BY <1>1, <1>2
<1>7. ASSUME NEW y \in 1 .. Len(q) PROVE \E x \in 1 .. Len(q) : r[x] = q[y]
  <2>1. CASE y < k \/ y > m
    BY <1>1, <1>2, <2>1
  <2>2. CASE y = k
    BY <1>1, <1>2, <2>2
  <2>3. CASE y > k /\ y <= m
    <3>1. y - 1 \in 1 .. Len(q) /\ r[y - 1] = q[y]
      BY <1>1, <1>2, <2>3
    <3> QED  BY <3>1
  <2> QED  BY <1>1, <2>1, <2>2, <2>3
<1>8. Elems(r) = Elems(q)
  <2> HIDE DEF r
  <2>1. \A x \in DOMAIN r : \E y \in DOMAIN q : r[x] = q[y]
    BY <1>1, <1>4, <1>6
  <2>2. \A y \in DOMAIN q : \E x \in DOMAIN r : r[x] = q[y]
    BY <1>1, <1>4, <1>7
  <2>3. ASSUME NEW e \in {r[x] : x \in DOMAIN r} PROVE e \in {q[x] : x \in DOMAIN q}
    BY <2>1
  <2>4. ASSUME NEW e \in {q[x] : x \in DOMAIN q} PROVE e \in {r[x] : x \in DOMAIN r}
    BY <2>2
  <2> QED  BY <2>3, <2>4 DEF Elems
<1> QED  BY <1>4, <1>5, <1>8

\* Within half of its range the comparison of the counters is that of the
\* numbers: a segment that is not protected is older than the cursor.
LEMMA UnprotectedIsOlder ==
    ASSUME NEW a \in InitSeq .. MaxSeq, NEW b \in InitSeq .. MaxSeq, ~cnt64_ge(a, b)
    PROVE  a < b
<1>1. SeqMod \in Nat \ {0} /\ InitSeq \in Nat /\ MaxSeq \in Nat
  BY NumbersAssumption
<1> SUFFICES ASSUME a >= b PROVE FALSE
  BY <1>1
<1>2. a - b \in Nat /\ a - b < SeqMod \div 2 /\ SeqMod \div 2 <= SeqMod
  BY <1>1, SeqAssumption
<1>3. (a - b) % SeqMod = a - b
  BY <1>1, <1>2
<1> QED  BY <1>2, <1>3 DEF cnt64_ge

-----------------------------------------------------------------------------
(***************************************************************************)
(* Types.                                                                  *)
(***************************************************************************)
\* The fields of records, and records with one field replaced.
LEMMA SegRecords ==
    /\ \A r \in SegRecord : r.st \in SegState /\ r.seq \in Nat
    /\ \A r \in SegRecord, v \in SegState : [r EXCEPT !.st = v] \in SegRecord
BY DEF SegRecord

\* Blocks: the same, for the end of a period and the place.
LEMMA BlkRecords ==
    /\ \A r \in BlkRecord : /\ r.start \in Nat /\ r.end \in Nat
                            /\ r.loc \in Segs \cup {"unused", "freed", "lost"}
    /\ \A r \in BlkRecord, v \in Nat : [r EXCEPT !.end = v] \in BlkRecord
    /\ \A r \in BlkRecord, v \in Segs \cup {"unused", "freed", "lost"} :
          [r EXCEPT !.loc = v] \in BlkRecord
BY DEF BlkRecord

\* The arguments of a call.
LEMMA ArgRecords ==
    ASSUME NEW r \in ArgRecord
    PROVE  r.segs \in Seq(Segs) /\ r.protseq \in Nat /\ r.protcno \in Nat
BY DEF ArgRecord

\* The statistics a call reports for segments it only defers.
LEMMA StatDeferred ==
    ASSUME NEW f \in [Procs -> StatRecord], NEW p \in Procs, NEW v \in Int
    PROVE  [f EXCEPT ![p].deferred = v, ![p].cleaned = 0] \in [Procs -> StatRecord]
<1>1. f[p] \in StatRecord
  OBVIOUS
<1>2. [f[p] EXCEPT !.deferred = v] \in StatRecord
  BY <1>1 DEF StatRecord
<1>3. [f EXCEPT ![p].deferred = v] \in [Procs -> StatRecord]
  BY <1>2
<1>4. \A r \in StatRecord : [r EXCEPT !.cleaned = 0] \in StatRecord
  BY DEF StatRecord
<1>5. [[f EXCEPT ![p].deferred = v] EXCEPT ![p].cleaned = 0] \in [Procs -> StatRecord]
  BY <1>3, <1>4
<1> QED  BY <1>5

\* The parts make up the type invariant.
LEMMA TypesImplyTypeOK == Types => TypeOK
BY DEF Types, FsTypes, ProcTypes, ArrayTypes, FoundTypes, TypeOK, SegRecord, BlkRecord

\* The lists and results of a call that returns are of their types again.
LEMMA LeaveTypes ==
    ASSUME Types, NEW p \in Procs, Leave(p),
           UNCHANGED <<fsVars, set_suinfo, target>>, sem' \in {0, 1}
    PROVE  Types'
<1> USE DEF Types, Leave, Goto
<1>1. FsTypes'
  BY DEF FsTypes, fsVars
<1>2. ProcTypes'
  BY DEF ProcTypes, Places
<1>3. ArrayTypes'
  <2>1. <<>> \in Seq(Segs) /\ NoStat \in StatRecord /\ Quiet \in ArgRecord
    BY DEF NoStat, StatRecord, Quiet, ArgRecord
  <2> QED  BY <2>1 DEF ArrayTypes
<1>4. FoundTypes'
  BY DEF FoundTypes
<1> QED  BY <1>1, <1>2, <1>3, <1>4

\* The steps of users, kernel and signals keep the types.
LEMMA EnvironmentTypes ==
    ASSUME Types, Environment
    PROVE  Types'
<1> USE NumbersAssumption DEF procVars, callVars, findings, fsVars, Types
<1>1. CASE Rewrite
  <2>1. PICK b \in Blocks, new \in Blocks, s \in Segs :
             blk' = [blk EXCEPT ![b].end = cno,
                                ![new] = [start |-> cno, end |-> CNO_MAX, loc |-> s]]
    BY <1>1 DEF Rewrite, Current
  <2>2. [start |-> cno, end |-> CNO_MAX, loc |-> s] \in BlkRecord
    BY DEF BlkRecord, FsTypes
  <2>3. blk' \in [Blocks -> BlkRecord]
    BY <2>1, <2>2, BlkRecords DEF FsTypes
  <2>4. FsTypes'
    BY <1>1, <2>3 DEF Rewrite, FsTypes
  <2> QED  BY <1>1, <2>4 DEF Rewrite, ProcTypes, ArrayTypes, FoundTypes
<1>2. CASE MakeCheckpoint
  BY <1>2 DEF MakeCheckpoint, FsTypes, ProcTypes, ArrayTypes, FoundTypes
<1>3. CASE NextSegment
  <2>1. PICK s \in Segs, a \in Segs :
             seg' = [seg EXCEPT ![a].st = "dirty",
                                ![s] = [st |-> "active", seq |-> seg[a].seq + 1]]
    BY <1>3 DEF NextSegment
  <2>2. [st |-> "active", seq |-> seg[a].seq + 1] \in SegRecord /\ "dirty" \in SegState
    <3>1. seg[a] \in SegRecord
      BY DEF FsTypes
    <3>2. seg[a].seq \in Nat
      BY <3>1, SegRecords
    <3> QED  BY <3>2 DEF SegState, SegRecord
  <2>3. seg' \in [Segs -> SegRecord]
    BY <2>1, <2>2, SegRecords DEF FsTypes
  <2>4. FsTypes'
    BY <1>3, <2>3 DEF NextSegment, FsTypes
  <2> QED  BY <1>3, <2>4 DEF NextSegment, ProcTypes, ArrayTypes, FoundTypes
<1>4. CASE MoveCursor
  BY <1>4 DEF MoveCursor, FsTypes, ProcTypes, ArrayTypes, FoundTypes
<1>5. CASE RemoveCheckpoint
  BY <1>5 DEF RemoveCheckpoint, FsTypes, ProcTypes, ArrayTypes, FoundTypes
<1>6. ASSUME NEW p \in Procs, Signal(p) \/ Kill(p) PROVE Types'
  <2>1. ProcTypes'
    BY <1>6 DEF Signal, Kill, ProcTypes, Places
  <2> QED  BY <1>6, <2>1 DEF Signal, Kill, FsTypes, ArrayTypes, FoundTypes
<1> QED  BY <1>1, <1>2, <1>3, <1>4, <1>5, <1>6 DEF Environment

\* So do the steps of a call.
LEMMA CleanerTypes ==
    ASSUME Types, LockInv, NEW p \in Cleaners, ArrayInv(p), Call(p) \/ Cleaner(p)
    PROVE  Types'
<1>p. p \in Procs /\ p \notin Tools
  BY ProcsAssumption DEF Procs
<1> USE <1>p DEF Types, callVars, findings, fsVars, Fails, Goto
<1>1. CASE Call(p)
  <2>1. PICK k \in 1..NSegs, use \in Uses, protcno \in ProtCnos :
          \E q \in [1..k -> {s \in Segs : nilfs_suinfo_reclaimable(s)}] :
             /\ \A x, y \in 1..k : x # y => q[x] # q[y]
             /\ protcno \in 0..cno \cup {CNO_MAX}
             /\ args' = [args EXCEPT ![p] = [segs |-> q, protseq |-> cursor,
                                            protcno |-> protcno,
                                            dry |-> use = "assess",
                                            min |-> use = "deferring"]]
             /\ segnums' = [segnums EXCEPT ![p] = q]
             /\ n' = [n EXCEPT ![p] = k]
    BY <1>1, Zenon DEF Call
  <2>2. PICK q \in [1..k -> {s \in Segs : nilfs_suinfo_reclaimable(s)}] :
           /\ args' = [args EXCEPT ![p] = [segs |-> q, protseq |-> cursor,
                                           protcno |-> protcno, dry |-> use = "assess",
                                           min |-> use = "deferring"]]
           /\ segnums' = [segnums EXCEPT ![p] = q] /\ n' = [n EXCEPT ![p] = k]
    BY <2>1
  <2>3. k \in Nat /\ protcno \in Nat
    BY NumbersAssumption
  <2>4. q \in Seq(Segs)
    BY <2>3
  <2>5. [segs |-> q, protseq |-> cursor, protcno |-> protcno, dry |-> use = "assess",
         min |-> use = "deferring"] \in ArgRecord
    BY <2>3, <2>4 DEF ArgRecord, FsTypes
  <2>6. i' = [i EXCEPT ![p] = 1] /\ UNCHANGED <<ret, stat, done>>
    BY <1>1 DEF Call
  <2>7. ArrayTypes'
    BY <2>2, <2>3, <2>4, <2>5, <2>6 DEF ArrayTypes
  <2> QED  BY <1>1, <2>7 DEF Call, FsTypes, ProcTypes, FoundTypes, Places
<1>2. CASE Lock(p)
  <2>1. ProcTypes'
    BY <1>2 DEF Lock, Places, ProcTypes
  <2> QED  BY <1>2, <2>1 DEF Lock, FsTypes, ArrayTypes, FoundTypes
<1>3. CASE LockFails(p)
  BY <1>3, LeaveTypes DEF LockFails, ProcTypes
<1>4. CASE AccBlocks(p)
  <2>1. ProcTypes'
    BY <1>4 DEF AccBlocks, Places, ProcTypes
  <2>2. FoundTypes'
    BY <1>4 DEF AccBlocks, acc_blocks_segment, FoundTypes
  <2>3. /\ segnums' \in [Procs -> Seq(Segs)] /\ n' \in [Procs -> Nat]
    <3>1. CASE UNCHANGED <<segnums, n>>
      BY <3>1 DEF ArrayTypes
    <3>2. CASE Deselect(p)
      <4>1. 1 <= i[p] /\ i[p] <= n[p] /\ n[p] <= Len(segnums[p])
        BY <1>4 DEF AccBlocks, ArrayInv, Calling
      <4>2. segnums[p] \in Seq(Segs) /\ n[p] \in Nat /\ i[p] \in Nat
        BY DEF ArrayTypes
      <4>3. deselect_segment(segnums[p], n[p], i[p]) \in Seq(Segs)
        BY <4>1, <4>2, DeselectReorders
      <4> QED  BY <3>2, <4>1, <4>2, <4>3 DEF Deselect, ArrayTypes
    <3> QED  BY <1>4, <3>1, <3>2 DEF AccBlocks
  <2>4. ret' \in [Procs -> {0, -1}] /\ i' \in [Procs -> Nat] /\ UNCHANGED <<args, stat, done>>
    <3>1. i' = i \/ i' = [i EXCEPT ![p] = @ + 1]
      BY <1>4 DEF AccBlocks
    <3>2. ret' = ret \/ ret' = [ret EXCEPT ![p] = -1]
      BY <1>4 DEF AccBlocks
    <3>3. i' \in [Procs -> Nat]
      BY <3>1 DEF ArrayTypes
    <3>4. ret' \in [Procs -> {0, -1}]
      BY <3>2 DEF ArrayTypes
    <3> QED  BY <1>4, <3>3, <3>4 DEF AccBlocks
  <2> QED  BY <1>4, <2>1, <2>2, <2>3, <2>4 DEF AccBlocks, FsTypes, ArrayTypes
<1>5. CASE AccBlocksDone(p)
  <2>1. [cleaned |-> n[p], deferred |-> 0, protected |-> Len(segnums[p]) - n[p]] \in StatRecord
    BY DEF StatRecord, ArrayTypes
  <2>2. ArrayTypes' /\ ProcTypes'
    BY <1>5, <2>1 DEF AccBlocksDone, Places, ArrayTypes, ProcTypes
  <2> QED  BY <1>5, <2>2 DEF AccBlocksDone, FsTypes, FoundTypes
<1>6. CASE GetVdesc(p)
  <2>1. \A b \in Blocks : blk[b].end \in Nat
    BY BlkRecords DEF FsTypes
  <2> DEFINE e == [b \in Blocks |->
                    IF b \in vdescv[p] /\ Kind[b] # "dat" THEN blk[b].end ELSE 0]
  <2>e. e \in [Blocks -> Nat]
    BY <2>1
  <2>2. ends' \in [Procs -> [Blocks -> Nat]]
    <3>1. ends' = [ends EXCEPT ![p] = e] \/ ends' = ends
      BY <1>6 DEF GetVdesc
    <3> HIDE DEF e
    <3> QED  BY <2>e, <3>1 DEF FoundTypes
  <2>3. ProcTypes' /\ ArrayTypes'
    BY <1>6 DEF GetVdesc, Places, ArrayTypes, ProcTypes
  <2> QED  BY <1>6, <2>2, <2>3 DEF GetVdesc, FsTypes, FoundTypes
<1>7. CASE TossVdescs(p)
  <2> DEFINE dead == {b \in vdescv[p] : /\ Kind[b] # "dat"
                                        /\ ~nilfs_vdesc_is_live(b, ends[p][b],
                                              args[p].protcno, nilfs_get_snapshot)}
  <2>1. dead \in SUBSET Blocks
    BY DEF FoundTypes
  <2>2. Periods(dead, ends[p]) \in SUBSET Nat
    <3>1. \A b \in dead : blk[b].start \in Nat /\ ends[p][b] \in Nat
      BY <2>1, BlkRecords DEF FsTypes, FoundTypes
    <3> HIDE DEF dead
    <3> QED  BY <3>1 DEF Periods
  <2> HIDE DEF dead
  <2>3. /\ vdescv' = [vdescv EXCEPT ![p] = @ \ dead] \/ vdescv' = vdescv
        /\ vblocknrv' = [vblocknrv EXCEPT ![p] = dead] \/ vblocknrv' = vblocknrv
        /\ periodv' = [periodv EXCEPT ![p] = Periods(dead, ends[p])] \/ periodv' = periodv
        /\ ends' = ends
    BY <1>7 DEF TossVdescs, dead
  <2>4. FoundTypes'
    BY <2>1, <2>2, <2>3 DEF FoundTypes
  <2>5. ProcTypes' /\ ArrayTypes'
    BY <1>7 DEF TossVdescs, Places, ProcTypes, ArrayTypes
  <2> QED  BY <1>7, <2>4, <2>5 DEF TossVdescs, FsTypes
<1>8. CASE TossBdescs(p)
  <2>1. FoundTypes'
    BY <1>8 DEF TossBdescs, FoundTypes
  <2>2. ProcTypes' /\ ArrayTypes'
    BY <1>8 DEF TossBdescs, Places, ProcTypes, ArrayTypes
  <2> QED  BY <1>8, <2>1, <2>2 DEF TossBdescs, FsTypes
<1>9. CASE Interrupted(p) \/ Committed(p)
  <2>1. ProcTypes'
    BY <1>9 DEF Interrupted, Committed, Places, ProcTypes
  <2> QED  BY <1>9, <2>1 DEF Interrupted, Committed, FsTypes, ArrayTypes, FoundTypes
<1>10. CASE Defer(p)
  <2>1. Kept(p) \subseteq Segs
    BY <1>10 DEF Kept, ArrayInv, Calling, Defer, ArrayTypes
  <2>2. stat' \in [Procs -> StatRecord] /\ done' \in [Procs -> SUBSET Segs]
    <3>1. stat' = stat \/ stat' = [stat EXCEPT ![p].deferred = n[p], ![p].cleaned = 0]
      BY <1>10 DEF Defer
    <3>2. stat' \in [Procs -> StatRecord]
      <4>1. stat \in [Procs -> StatRecord] /\ n[p] \in Int
        BY DEF ArrayTypes
      <4>2. [stat EXCEPT ![p].deferred = n[p], ![p].cleaned = 0] \in [Procs -> StatRecord]
        BY <4>1, StatDeferred
      <4> QED  BY <3>1, <4>1, <4>2
    <3>3. done' \in [Procs -> SUBSET Segs]
      BY <1>10, <2>1 DEF Defer, ArrayTypes
    <3> QED  BY <3>2, <3>3
  <2>3. ProcTypes'
    BY <1>10 DEF Defer, Places, ProcTypes
  <2> QED  BY <1>10, <2>2, <2>3 DEF Defer, FsTypes, ArrayTypes, FoundTypes
<1>11. CASE CleanSegments(p)
  <2>1. Kept(p) \subseteq Segs
    BY <1>11 DEF Kept, ArrayInv, Calling, CleanSegments, ArrayTypes
  <2>2. ArrayTypes' /\ ProcTypes'
    BY <1>11, <2>1 DEF CleanSegments, Places, ArrayTypes, ProcTypes
  <2>3. CASE CleanIoctl(p)
    <3>1. seg' \in [Segs -> SegRecord]
      BY <2>3, SegRecords DEF CleanIoctl, SegState, FsTypes
    <3>2. blk' \in [Blocks -> BlkRecord]
      <4>1. PICK a \in Segs : blk' = [b \in Blocks |->
                [blk[b] EXCEPT !.loc =
                    CASE b \in vdescv[p]    -> a
                      [] b \in vblocknrv[p] -> "freed"
                      [] b \notin vdescv[p] \cup vblocknrv[p] /\ @ \in Kept(p) -> "lost"
                      [] OTHER -> @]]
        BY <2>3 DEF CleanIoctl
      <4>3. ASSUME NEW b \in Blocks PROVE blk'[b] \in BlkRecord
        <5>1. blk[b] \in BlkRecord
          BY DEF FsTypes
        <5>2. PICK v \in Segs \cup {"unused", "freed", "lost"} :
                 blk'[b] = [blk[b] EXCEPT !.loc = v]
          BY <4>1, <5>1, BlkRecords
        <5> QED  BY <5>1, <5>2, BlkRecords
      <4> QED  BY <4>1, <4>3
    <3>3. cps' \subseteq Nat
      BY <2>3 DEF CleanIoctl, FsTypes
    <3> QED  BY <1>11, <2>2, <3>1, <3>2, <3>3 DEF CleanSegments, FsTypes, FoundTypes
  <2>4. CASE UNCHANGED <<seg, blk, cps, done>>
    BY <1>11, <2>2, <2>4 DEF CleanSegments, FsTypes, FoundTypes
  <2> QED  BY <1>11, <2>3, <2>4 DEF CleanSegments
<1>12. CASE Unlock(p)
  <2>1. sem' \in {0, 1}
    BY <1>12 DEF Unlock, LockInv, InCritical
  <2> QED  BY <1>12, <2>1, LeaveTypes DEF Unlock
<1> QED
  BY <1>1, <1>2, <1>3, <1>4, <1>5, <1>6, <1>7, <1>8, <1>9, <1>10, <1>11, <1>12 DEF Cleaner

\* ... and those of chcp and mkcp.
LEMMA ToolTypes ==
    ASSUME Types, LockInv, NEW t \in Tools, Chcp(t) \/ Mkcp(t) \/ Tool(t)
    PROVE  Types'
<1>t. t \in Procs
  BY DEF Procs
<1> USE <1>t, NumbersAssumption DEF Types, callVars, findings, fsVars, Goto
<1>1. CASE Chcp(t)
  <2>1. \E c \in 1..MaxCno, ss \in BOOLEAN :
          target' = [target EXCEPT ![t] = [cno |-> c, ss |-> ss, chcp |-> TRUE]]
    BY <1>1 DEF Chcp
  <2>2. \A c \in 1..MaxCno, ss \in BOOLEAN : [cno |-> c, ss |-> ss, chcp |-> TRUE] \in TargetRecord
    BY DEF TargetRecord
  <2>3. ProcTypes'
    BY <1>1, <2>1, <2>2 DEF Chcp, ProcTypes, Places
  <2> QED  BY <1>1, <2>3 DEF Chcp, FsTypes, ArrayTypes, FoundTypes
<1>2. CASE Mkcp(t)
  <2>1. [cno |-> cno, ss |-> TRUE, chcp |-> FALSE] \in TargetRecord
    BY DEF TargetRecord, FsTypes
  <2>2. ProcTypes'
    BY <1>2, <2>1 DEF Mkcp, ProcTypes, Places
  <2>3. FsTypes'
    BY <1>2 DEF Mkcp, FsTypes
  <2> QED  BY <1>2, <2>2, <2>3 DEF Mkcp, ArrayTypes, FoundTypes
<1>3. CASE Lock(t)
  <2>1. ProcTypes'
    BY <1>3 DEF Lock, ProcTypes, Places
  <2> QED  BY <1>3, <2>1 DEF Lock, FsTypes, ArrayTypes, FoundTypes
<1>4. CASE LockFails(t)
  BY <1>4, LeaveTypes DEF LockFails, ProcTypes
<1>5. CASE ChangeCpmode(t)
  <2>1. NoTarget \in TargetRecord
    BY DEF TargetRecord, NoTarget
  <2>2. target[t].cno \in Nat
    BY DEF TargetRecord, ProcTypes
  <2>3. FsTypes'
    BY <1>5, <2>2 DEF ChangeCpmode, FsTypes
  <2>4. ProcTypes'
    BY <1>5, <2>1 DEF ChangeCpmode, ProcTypes, Places
  <2> QED  BY <1>5, <2>3, <2>4 DEF ChangeCpmode, ArrayTypes, FoundTypes
<1>6. CASE Unlock(t)
  <2>1. sem' \in {0, 1}
    BY <1>6 DEF Unlock, LockInv, InCritical
  <2> QED  BY <1>6, <2>1, LeaveTypes DEF Unlock
<1> QED  BY <1>1, <1>2, <1>3, <1>4, <1>5, <1>6 DEF Tool

\* Every step keeps the types.
LEMMA NextTypes == IInv /\ [Next]_vars => Types'
<1> SUFFICES ASSUME IInv, [Next]_vars PROVE Types'
  OBVIOUS
<1>1. CASE UNCHANGED vars
  BY <1>1 DEF vars, fsVars, callVars, findings, IInv, Types, FsTypes, ProcTypes, ArrayTypes,
     FoundTypes
<1> QED
  BY <1>1, CleanerTypes, ToolTypes, EnvironmentTypes DEF Next, IInv

-----------------------------------------------------------------------------
(***************************************************************************)
(* Who does what.                                                          *)
(***************************************************************************)
\* What a process knows is left alone.
Same(p) ==
    /\ pc'[p] = pc[p] /\ args'[p] = args[p] /\ segnums'[p] = segnums[p]
    /\ n'[p] = n[p] /\ i'[p] = i[p] /\ stat'[p] = stat[p] /\ done'[p] = done[p]
    /\ vdescv'[p] = vdescv[p] /\ ends'[p] = ends[p]
    /\ vblocknrv'[p] = vblocknrv[p] /\ periodv'[p] = periodv[p]

\* A step of a process or its end.
Dies(p) == pc' = [pc EXCEPT ![p] = "dead"] /\ UNCHANGED <<fsVars, sem, callVars>>

\* A process is changed by its own steps only.
LEMMA OthersSame ==
    ASSUME Types, [Next]_vars, NEW p \in Cleaners
    PROVE  Same(p) \/ Dies(p) \/ Call(p) \/ Cleaner(p)
<1>p. p \in Procs /\ p \notin Tools
  BY ProcsAssumption DEF Procs
<1> USE <1>p DEF Types, Same, callVars, findings, fsVars, Fails, Goto
<1>1. CASE UNCHANGED vars
  BY <1>1 DEF vars
<1>2. ASSUME NEW q \in Procs, q # p, Lock(q) \/ LockFails(q) \/ Unlock(q) PROVE Same(p)
  <2>1. CASE Lock(q)
    BY <1>2, <2>1 DEF Lock, ProcTypes
  <2>2. CASE Leave(q)
    BY <1>2, <2>2 DEF Leave, ProcTypes, ArrayTypes, FoundTypes
  <2> QED  BY <1>2, <2>1, <2>2 DEF LockFails, Unlock
<1>3. ASSUME NEW q \in Cleaners, q # p, Call(q) PROVE Same(p)
  <2>1. q \in Procs
    BY DEF Procs
  <2> QED  BY <1>3, <2>1 DEF Call, ProcTypes, ArrayTypes
<1>4. ASSUME NEW q \in Cleaners, q # p, Cleaner(q) PROVE Same(p)
  <2>q. q \in Procs
    BY DEF Procs
  <2>1. CASE AccBlocks(q)
    BY <1>4, <2>q, <2>1 DEF AccBlocks, Deselect, ProcTypes, ArrayTypes, FoundTypes
  <2>2. CASE AccBlocksDone(q)
    BY <1>4, <2>q, <2>2 DEF AccBlocksDone, ProcTypes, ArrayTypes
  <2>3. CASE GetVdesc(q)
    BY <1>4, <2>q, <2>3 DEF GetVdesc, ProcTypes, FoundTypes
  <2>4. CASE TossVdescs(q)
    BY <1>4, <2>q, <2>4 DEF TossVdescs, ProcTypes, FoundTypes
  <2>5. CASE TossBdescs(q)
    BY <1>4, <2>q, <2>5 DEF TossBdescs, ProcTypes, FoundTypes
  <2>6. CASE Interrupted(q) \/ Committed(q)
    BY <1>4, <2>q, <2>6 DEF Interrupted, Committed, ProcTypes
  <2>7. CASE Defer(q)
    BY <1>4, <2>q, <2>7 DEF Defer, ProcTypes, ArrayTypes
  <2>8. CASE CleanSegments(q)
    BY <1>4, <2>q, <2>8 DEF CleanSegments, ProcTypes, ArrayTypes
  <2> QED  BY <1>2, <1>4, <2>q, <2>1, <2>2, <2>3, <2>4, <2>5, <2>6, <2>7, <2>8 DEF Cleaner
<1>5. ASSUME NEW t \in Tools, Chcp(t) \/ Mkcp(t) \/ Tool(t) PROVE Same(p)
  <2>1. t \in Procs /\ t # p
    BY DEF Procs
  <2>2. CASE Chcp(t) \/ Mkcp(t) \/ ChangeCpmode(t)
    BY <2>1, <2>2 DEF Chcp, Mkcp, ChangeCpmode, ProcTypes
  <2> QED  BY <1>2, <1>5, <2>1, <2>2 DEF Tool
<1>6. CASE Environment
  <2>1. CASE Rewrite \/ MakeCheckpoint \/ NextSegment \/ MoveCursor \/ RemoveCheckpoint
    BY <2>1 DEF Rewrite, MakeCheckpoint, NextSegment, MoveCursor, RemoveCheckpoint, procVars
  <2>2. ASSUME NEW q \in Procs, Signal(q) PROVE Same(p) \/ Dies(p)
    BY <2>2 DEF Signal, Dies, ProcTypes
  <2>3. ASSUME NEW q \in Procs, Kill(q) PROVE Same(p) \/ Dies(p)
    BY <2>3 DEF Kill, Dies, ProcTypes
  <2> QED  BY <1>6, <2>1, <2>2, <2>3 DEF Environment
<1> QED  BY <1>1, <1>3, <1>4, <1>5, <1>6 DEF Next

\* What may happen to the file system while a reclamation runs: segments that
\* can be reclaimed are left alone, no segment is freed, a block goes out of
\* use or is written to the active segment, and time passes.
SegStep ==
    \A s \in Segs :
        /\ seg[s].st # "clean" => seg'[s].st # "clean" /\ seg'[s].seq = seg[s].seq
        /\ seg[s].st \in {"dirty", "scrapped"} => seg'[s].st = seg[s].st
        /\ seg'[s].seq = seg[s].seq \/ seg'[s].seq \in InitSeq .. MaxSeq

BlkStep ==
    \A b \in Blocks :
        \/ blk'[b] = blk[b]
        \/ /\ blk[b].end = CNO_MAX
           /\ blk'[b].start = blk[b].start /\ blk'[b].end = cno /\ blk'[b].loc = blk[b].loc
        \/ /\ blk[b].start = 0 /\ blk'[b].start = cno /\ blk'[b].end = CNO_MAX
           /\ blk'[b].loc \in Segs /\ seg[blk'[b].loc].st = "active"

FsStep ==
    /\ SegStep /\ BlkStep
    /\ cursor <= cursor' /\ (cursor' = cursor \/ cursor' <= MaxSeq)
    /\ \/ cno' = cno /\ cps' \subseteq cps
       \/ cno' = cno + 1 /\ cno < MaxCno /\ cps' = cps \cup {cno} /\ blk' = blk /\ seg' = seg

\* Nothing else happens to it, but for NILFS_IOCTL_CLEAN_SEGMENTS.
LEMMA FsSteps ==
    ASSUME Types, SeqInv, [Next]_vars
    PROVE  \/ FsStep /\ (snapshots' = snapshots \/ \E t \in Tools : ChangeCpmode(t))
           \/ \E p \in Cleaners : CleanSegments(p) /\ CleanIoctl(p)
<1> USE NumbersAssumption DEF Types, callVars, findings, fsVars
<1>1. ASSUME UNCHANGED fsVars PROVE FsStep /\ snapshots' = snapshots
  BY <1>1 DEF FsStep, SegStep, BlkStep, FsTypes
<1>2. CASE UNCHANGED vars
  BY <1>1, <1>2 DEF vars
<1>3. ASSUME NEW p \in Cleaners, Call(p) \/ Cleaner(p)
      PROVE  UNCHANGED fsVars \/ (CleanSegments(p) /\ CleanIoctl(p))
  <2>1. CASE CleanSegments(p)
    BY <2>1 DEF CleanSegments
  <2>2. CASE Call(p) \/ Lock(p) \/ LockFails(p) \/ Unlock(p)
    BY <2>2 DEF Call, Lock, LockFails, Unlock
  <2>3. CASE AccBlocks(p) \/ AccBlocksDone(p) \/ GetVdesc(p) \/ TossVdescs(p)
    BY <2>3 DEF AccBlocks, AccBlocksDone, GetVdesc, TossVdescs
  <2>4. CASE TossBdescs(p) \/ Interrupted(p) \/ Committed(p) \/ Defer(p)
    BY <2>4 DEF TossBdescs, Interrupted, Committed, Defer
  <2> QED  BY <1>3, <2>1, <2>2, <2>3, <2>4 DEF Cleaner
<1>4. ASSUME NEW t \in Tools, Chcp(t) \/ Mkcp(t) \/ Tool(t)
      PROVE  FsStep /\ (snapshots' = snapshots \/ ChangeCpmode(t))
  <2>1. CASE Chcp(t) \/ Lock(t) \/ LockFails(t) \/ Unlock(t)
    BY <1>1, <2>1 DEF Chcp, Lock, LockFails, Unlock
  <2>2. CASE Mkcp(t)
    BY <2>2 DEF Mkcp, FsStep, SegStep, BlkStep, FsTypes
  <2>3. CASE ChangeCpmode(t)
    BY <2>3 DEF ChangeCpmode, FsStep, SegStep, BlkStep, FsTypes
  <2> QED  BY <1>4, <2>1, <2>2, <2>3 DEF Tool
<1>5. CASE Environment
  <2>1. CASE Rewrite
    <3>1. PICK b \in Current, new \in Blocks, s \in Segs :
            /\ blk[new] = Unused /\ seg[s].st = "active"
            /\ blk' = [blk EXCEPT ![b].end = cno,
                                  ![new] = [start |-> cno, end |-> CNO_MAX, loc |-> s]]
      BY <2>1 DEF Rewrite
    <3>2. /\ b \in Blocks /\ blk[b].end = CNO_MAX /\ blk[b] \in BlkRecord
          /\ blk[new].start = 0 /\ blk[new].end = 0
      BY <3>1 DEF Current, Unused, FsTypes
    <3>3. b # new
      BY <3>2
    <3>4. /\ blk'[b] = [blk[b] EXCEPT !.end = cno]
          /\ blk'[new] = [start |-> cno, end |-> CNO_MAX, loc |-> s]
          /\ \A x \in Blocks \ {b, new} : blk'[x] = blk[x]
      <4>1. blk \in [Blocks -> BlkRecord]
        BY DEF FsTypes
      <4> QED  BY ONLY <3>1, <3>2, <3>3, <4>1
    <3>5. blk'[b].start = blk[b].start /\ blk'[b].end = cno /\ blk'[b].loc = blk[b].loc
      BY <3>2, <3>4 DEF BlkRecord
    <3>6. blk'[new].start = cno /\ blk'[new].end = CNO_MAX /\ blk'[new].loc = s
      BY <3>4
    <3>7. BlkStep
      BY ONLY <3>1, <3>2, <3>4, <3>5, <3>6 DEF BlkStep
    <3> QED  BY <2>1, <3>7 DEF Rewrite, FsStep, SegStep, FsTypes, procVars
  <2>2. CASE MakeCheckpoint \/ RemoveCheckpoint
    BY <2>2 DEF MakeCheckpoint, RemoveCheckpoint, FsStep, SegStep, BlkStep, FsTypes
  <2>5. CASE MoveCursor
    <3>1. PICK a \in Segs : cursor < seg[a].seq
      BY <2>5 DEF MoveCursor
    <3>2. seg[a].seq \in Nat
      BY SegRecords DEF FsTypes
    <3>3. cursor' = cursor + 1 /\ seg[a].seq <= MaxSeq
      BY <2>5 DEF MoveCursor, SeqInv
    <3>4. cursor <= cursor' /\ cursor' <= MaxSeq
      BY <3>1, <3>2, <3>3 DEF FsTypes
    <3> QED  BY <2>5, <3>4 DEF MoveCursor, FsStep, SegStep, BlkStep, FsTypes
  <2>3. CASE NextSegment
    <3>1. PICK s \in Segs, a \in Segs :
            /\ seg[s].st = "clean" /\ seg[a].st = "active" /\ seg[a].seq < MaxSeq
            /\ seg' = [seg EXCEPT ![a].st = "dirty",
                                  ![s] = [st |-> "active", seq |-> seg[a].seq + 1]]
      BY <2>3 DEF NextSegment
    <3>2. a # s /\ seg[a] \in SegRecord /\ seg[a].seq \in InitSeq .. MaxSeq
      <4>1. seg[a] \in SegRecord
        BY DEF FsTypes
      <4>2. seg[a].seq \in Nat
        BY <4>1, SegRecords
      <4> QED  BY <3>1, <4>1, <4>2 DEF SeqInv
    <3>3. /\ seg'[a] = [seg[a] EXCEPT !.st = "dirty"]
          /\ seg'[s] = [st |-> "active", seq |-> seg[a].seq + 1]
          /\ \A x \in Segs \ {a, s} : seg'[x] = seg[x]
      BY <3>1, <3>2 DEF FsTypes
    <3>4. seg'[a].st = "dirty" /\ seg'[a].seq = seg[a].seq
      BY <3>2, <3>3 DEF SegRecord
    <3>5. seg'[s].st = "active" /\ seg'[s].seq = seg[a].seq + 1
      BY <3>3
    <3>6. seg'[s].seq \in InitSeq .. MaxSeq
      BY <3>1, <3>2, <3>5
    <3>7. SegStep
      BY ONLY <3>1, <3>3, <3>4, <3>5, <3>6 DEF SegStep
    <3> QED  BY <2>3, <3>7 DEF NextSegment, FsStep, BlkStep, FsTypes
  <2>4. ASSUME NEW q \in Procs, Signal(q) \/ Kill(q) PROVE UNCHANGED fsVars
    BY <2>4 DEF Signal, Kill
  <2> QED  BY <1>1, <1>5, <2>1, <2>2, <2>3, <2>4, <2>5 DEF Environment
<1> QED  BY <1>1, <1>2, <1>3, <1>4, <1>5 DEF Next

\* While a process holds the semaphore nobody else cleans segments or changes
\* snapshots.
LEMMA Undisturbed ==
    ASSUME IInv, [Next]_vars, NEW p \in Cleaners, pc[p] \in Working, Same(p)
    PROVE  FsStep /\ snapshots' = snapshots
<1>p. p \in Procs /\ p \notin Tools /\ InCritical(p)
  BY ProcsAssumption DEF Procs, InCritical, Working
<1>1. ASSUME NEW q \in Cleaners, CleanSegments(q) PROVE FALSE
  <2>1. q \in Procs /\ InCritical(q) /\ pc'[q] = "unlock"
    BY <1>1 DEF CleanSegments, InCritical, Procs, Goto, Fails, IInv, Types, ProcTypes
  <2>2. q = p
    BY <1>p, <2>1 DEF IInv, LockInv
  <2> QED  BY <2>1, <2>2 DEF Same, Working
<1>2. ASSUME NEW t \in Tools, ChangeCpmode(t) PROVE FALSE
  BY <1>p, <1>2 DEF ChangeCpmode, InCritical, Procs, IInv, LockInv
<1> QED  BY <1>1, <1>2, FsSteps DEF IInv

-----------------------------------------------------------------------------
(***************************************************************************)
(* The semaphore.                                                          *)
(***************************************************************************)
\* Nobody enters or leaves the critical section.
Stay == sem' = sem /\ \A q \in Procs : InCritical(q)' <=> InCritical(q)

\* p takes the semaphore and enters, or posts it and leaves.
Enter(p) ==
    /\ sem > 0 /\ sem' = sem - 1 /\ InCritical(p)'
    /\ \A q \in Procs \ {p} : InCritical(q)' <=> InCritical(q)
Exit(p) ==
    /\ InCritical(p) /\ sem' = sem + 1 /\ ~InCritical(p)'
    /\ \A q \in Procs \ {p} : InCritical(q)' <=> InCritical(q)

\* A process is killed.
Lose == "kill" \in Faults /\ sem' = sem /\ \A q \in Procs : InCritical(q)' => InCritical(q)

\* That is all that can happen to the critical section.
LEMMA LockSteps ==
    ASSUME Types, [Next]_vars
    PROVE  Stay \/ Lose \/ \E p \in Procs : Enter(p) \/ Exit(p)
<1> USE DEF Types, ProcTypes, InCritical, Goto, Fails, Fault, fsVars, callVars, findings
<1>1. CASE UNCHANGED vars
  BY <1>1 DEF vars, Stay
<1>2. ASSUME NEW p \in Procs, Lock(p) PROVE Enter(p)
  BY <1>2 DEF Lock, Enter
<1>3. ASSUME NEW p \in Procs, LockFails(p) PROVE Stay
  BY <1>3 DEF LockFails, Leave, Stay
<1>4. ASSUME NEW p \in Procs, Unlock(p) PROVE Exit(p)
  BY <1>4 DEF Unlock, Leave, Exit
<1>5. ASSUME NEW p \in Cleaners, Call(p) \/ Cleaner(p)
      PROVE  Stay \/ Enter(p) \/ Exit(p)
  <2>p. p \in Procs
    BY DEF Procs
  <2>1. CASE Call(p)
    BY <2>p, <2>1 DEF Call, Stay
  <2>2. CASE AccBlocks(p) \/ AccBlocksDone(p)
    BY <2>p, <2>2 DEF AccBlocks, AccBlocksDone, Stay
  <2>3. CASE GetVdesc(p) \/ TossVdescs(p) \/ TossBdescs(p)
    BY <2>p, <2>3 DEF GetVdesc, TossVdescs, TossBdescs, Stay
  <2>4. CASE Interrupted(p) \/ Committed(p)
    BY <2>p, <2>4 DEF Interrupted, Committed, Stay
  <2>5. CASE Defer(p)
    BY <2>p, <2>5 DEF Defer, Stay
  <2>6. CASE CleanSegments(p)
    BY <2>p, <2>6 DEF CleanSegments, Stay
  <2> QED  BY <1>2, <1>3, <1>4, <1>5, <2>p, <2>1, <2>2, <2>3, <2>4, <2>5, <2>6 DEF Cleaner
<1>6. ASSUME NEW t \in Tools, Chcp(t) \/ Mkcp(t) \/ Tool(t)
      PROVE  Stay \/ Enter(t) \/ Exit(t)
  <2>t. t \in Procs
    BY DEF Procs
  <2>1. CASE Chcp(t) \/ Mkcp(t) \/ ChangeCpmode(t)
    BY <2>t, <2>1 DEF Chcp, Mkcp, ChangeCpmode, Stay
  <2> QED  BY <1>2, <1>3, <1>4, <1>6, <2>t, <2>1 DEF Tool
<1>7. CASE Environment
  <2>1. CASE Rewrite \/ MakeCheckpoint \/ NextSegment \/ MoveCursor \/ RemoveCheckpoint
    BY <2>1 DEF Rewrite, MakeCheckpoint, NextSegment, MoveCursor, RemoveCheckpoint, procVars, Stay
  <2>2. ASSUME NEW q \in Procs, Signal(q) PROVE Stay
    BY <2>2 DEF Signal, Stay
  <2>3. ASSUME NEW q \in Procs, Kill(q) PROVE Lose
    BY <2>3 DEF Kill, Lose
  <2> QED  BY <1>7, <2>1, <2>2, <2>3 DEF Environment
<1> QED  BY <1>1, <1>5, <1>6, <1>7 DEF Next, Procs

\* Mutual exclusion is kept.
LEMMA NextLockInv == IInv /\ [Next]_vars => LockInv'
<1> SUFFICES ASSUME IInv, [Next]_vars PROVE LockInv'
  OBVIOUS
<1> USE DEF IInv, LockInv, Types, ProcTypes
<1>1. CASE Stay
  <2> HIDE DEF Types
  <2> QED  BY <1>1 DEF Stay
<1>2. CASE Lose
  BY <1>2 DEF Lose
<1>3. ASSUME NEW p \in Procs, Enter(p) PROVE LockInv'
  BY <1>3 DEF Enter
<1>4. ASSUME NEW p \in Procs, Exit(p) PROVE LockInv'
  BY <1>4 DEF Exit
<1> QED  BY <1>1, <1>2, <1>3, <1>4, LockSteps

-----------------------------------------------------------------------------
(***************************************************************************)
(* The file system, and what a call knows of it.                           *)
(***************************************************************************)
\* Freeing segments changes neither sequence numbers nor periods.
LEMMA IoctlKeeps ==
    ASSUME Types, NEW p \in Cleaners, CleanIoctl(p)
    PROVE  /\ \A s \in Segs : seg'[s].seq = seg[s].seq
           /\ \A b \in Blocks : blk'[b].start = blk[b].start /\ blk'[b].end = blk[b].end
<1>1. ASSUME NEW s \in Segs PROVE seg'[s].seq = seg[s].seq
  <2>1. seg[s] \in SegRecord
    BY DEF Types, FsTypes
  <2> QED  BY <2>1 DEF CleanIoctl, SegRecord
<1>2. ASSUME NEW b \in Blocks
      PROVE  blk'[b].start = blk[b].start /\ blk'[b].end = blk[b].end
  <2>1. blk[b] \in BlkRecord
    BY DEF Types, FsTypes
  <2>2. \E v : blk'[b] = [blk[b] EXCEPT !.loc = v]
    BY DEF CleanIoctl
  <2> QED  BY <2>1, <2>2 DEF BlkRecord
<1> QED  BY <1>1, <1>2

\* Sequence numbers stay in their range, and cursors get old.
LEMMA NextSeqInv == IInv /\ [Next]_vars => SeqInv'
<1> SUFFICES ASSUME IInv, [Next]_vars PROVE SeqInv'
  OBVIOUS
<1>t. /\ \A s \in Segs : seg[s].seq \in Nat /\ seg'[s].seq \in Nat
      /\ cursor \in Nat /\ cursor' \in Nat
  <2>1. Types /\ Types'
    BY NextTypes DEF IInv
  <2> QED  BY <2>1, SegRecords DEF Types, FsTypes
<1>1. /\ cursor <= cursor' /\ (cursor' = cursor \/ cursor' <= MaxSeq)
      /\ \A s \in Segs : seg'[s].seq = seg[s].seq \/ seg'[s].seq \in InitSeq .. MaxSeq
  <2>1. CASE FsStep
    BY <2>1 DEF FsStep, SegStep
  <2>2. ASSUME NEW p \in Cleaners, CleanSegments(p), CleanIoctl(p)
        PROVE  cursor' = cursor /\ \A s \in Segs : seg'[s].seq = seg[s].seq
    BY <2>2, IoctlKeeps DEF CleanSegments, IInv
  <2> QED  BY <1>t, <2>1, <2>2, FsSteps DEF IInv
<1>2. /\ \A s \in Segs : InitSeq <= seg'[s].seq /\ seg'[s].seq <= MaxSeq
      /\ InitSeq <= cursor' /\ cursor' <= MaxSeq
  BY <1>t, <1>1, NumbersAssumption DEF IInv, SeqInv
<1>3. ASSUME NEW p \in Cleaners, Calling(p)'
      PROVE  InitSeq <= args'[p].protseq /\ args'[p].protseq <= cursor'
  <2>p. p \in Procs
    BY DEF Procs
  <2>t. args[p].protseq \in Nat /\ args'[p].protseq \in Nat
    <3>1. Types /\ Types'
      BY NextTypes DEF IInv
    <3> QED  BY <2>p, <3>1, ArgRecords DEF Types, ArrayTypes
  <2>1. CASE args'[p] = args[p] /\ Calling(p)
    BY <1>t, <1>1, <2>1, <2>t, NumbersAssumption DEF IInv, SeqInv
  <2>2. CASE Call(p)
    <3>1. args'[p].protseq = cursor
      BY <2>p, <2>2 DEF Call, IInv, Types, ArrayTypes
    <3> QED  BY <1>t, <1>1, <3>1 DEF IInv, SeqInv
  <2>3. CASE Same(p)
    BY <1>3, <2>1, <2>3 DEF Same, Calling
  <2>4. CASE Dies(p)
    BY <1>3, <2>p, <2>4 DEF Dies, Calling, IInv, Types, ProcTypes
  <2>5. CASE Leave(p)
    BY <1>3, <2>p, <2>5 DEF Leave, Goto, Calling, IInv, Types, ProcTypes
  <2>6. CASE Cleaner(p)
    <3> USE DEF callVars, findings, Calling
    <3>1. CASE Lock(p) \/ AccBlocks(p) \/ AccBlocksDone(p) \/ GetVdesc(p)
      BY <2>1, <3>1 DEF Lock, AccBlocks, AccBlocksDone, GetVdesc
    <3>2. CASE TossVdescs(p) \/ TossBdescs(p) \/ Interrupted(p) \/ Committed(p)
      BY <2>1, <3>2 DEF TossVdescs, TossBdescs, Interrupted, Committed
    <3>3. CASE Defer(p) \/ CleanSegments(p)
      BY <2>1, <3>3 DEF Defer, CleanSegments
    <3>4. CASE LockFails(p) \/ Unlock(p)
      BY <2>5, <3>4 DEF LockFails, Unlock
    <3> QED  BY <2>6, <3>1, <3>2, <3>3, <3>4 DEF Cleaner
  <2> QED  BY <2>2, <2>3, <2>4, <2>6, OthersSame DEF IInv
<1> QED  BY <1>2, <1>3 DEF SeqInv

\* Periods begin and end with checkpoints made before.
LEMMA NextBlockInv == IInv /\ [Next]_vars => BlockInv'
<1> SUFFICES ASSUME IInv, [Next]_vars PROVE BlockInv'
  OBVIOUS
<1>t. /\ \A b \in Blocks : blk[b].start \in Nat /\ blk[b].end \in Nat
      /\ cno \in Nat /\ cno' \in Nat
  <2>1. Types /\ Types'
    BY NextTypes DEF IInv
  <2> QED  BY <2>1, BlkRecords DEF Types, FsTypes
<1>1. CASE FsStep
  <2>1. 2 <= cno' /\ cno' <= MaxCno /\ cno <= cno'
    BY <1>1, <1>t, NumbersAssumption DEF FsStep, IInv, BlockInv
  <2>2. ASSUME NEW b \in Blocks
        PROVE  /\ blk'[b].start <= cno'
               /\ blk'[b].end = CNO_MAX \/ blk'[b].end <= cno'
               /\ blk'[b].loc \in Segs => blk'[b].start >= 1
    BY <1>1, <1>t, <2>1 DEF FsStep, BlkStep, IInv, BlockInv
  <2> QED  BY <2>1, <2>2 DEF BlockInv
<1>2. ASSUME NEW p \in Cleaners, CleanSegments(p), CleanIoctl(p)
      PROVE  BlockInv'
  <2>1. cno' = cno /\ \A b \in Blocks : blk'[b].start = blk[b].start /\ blk'[b].end = blk[b].end
    BY <1>2, IoctlKeeps DEF CleanSegments, IInv
  <2>2. ASSUME NEW b \in Blocks, blk'[b].loc \in Segs PROVE blk[b].start >= 1
    <3>1. blk[b] \in BlkRecord
      BY DEF IInv, Types, FsTypes
    <3>2. CASE b \in vdescv[p]
      BY <1>2, <3>2 DEF CleanSegments, IInv, CallInv, FoundInv, Working
    <3>3. CASE b \notin vdescv[p]
      <4>1. blk'[b].loc \in {blk[b].loc, "freed", "lost"}
        BY <1>2, <3>1, <3>3 DEF CleanIoctl, BlkRecord
      <4> QED  BY <2>2, <4>1, SegsAssumption DEF IInv, BlockInv
    <3> QED  BY <3>2, <3>3
  <2> QED  BY <2>1, <2>2 DEF IInv, BlockInv
<1> QED  BY <1>1, <1>2, FsSteps DEF IInv

\* The array of a call stays a reordering of its argument, with the segments
\* that are left in front.
LEMMA NextArrayInv ==
    ASSUME IInv, [Next]_vars, NEW p \in Cleaners
    PROVE  ArrayInv(p)'
<1>p. p \in Procs
  BY DEF Procs
<1>a. ArrayInv(p)
  BY DEF IInv
<1>t. ProcTypes /\ ArrayTypes
  BY DEF IInv, Types
<1>l. /\ segnums[p] \in Seq(Segs) /\ Len(segnums[p]) \in Nat /\ n[p] \in Nat /\ i[p] \in Nat
      /\ stat[p] \in StatRecord
  BY <1>p, <1>t DEF ArrayTypes
<1>d. DOMAIN pc = Procs /\ DOMAIN segnums = Procs /\ DOMAIN n = Procs /\ DOMAIN i = Procs
      /\ DOMAIN stat = Procs /\ DOMAIN done = Procs /\ DOMAIN args = Procs
  BY <1>t DEF ArrayTypes, ProcTypes
<1>1. CASE Same(p)
  BY <1>a, <1>1 DEF Same, ArrayInv, Calling
<1>2. CASE pc'[p] = "dead"
  BY <1>2 DEF ArrayInv, Calling, Working
<1>3. CASE Call(p)
  <2>1. PICK k \in 1..NSegs : \E q \in [1..k -> Segs] :
           /\ segnums'[p] = q /\ n'[p] = k /\ args'[p].segs = q
    BY <1>p, <1>t, <1>3 DEF Call, ArrayTypes
  <2>2. n'[p] <= Len(segnums'[p]) /\ segnums'[p] = args'[p].segs
    BY <2>1, NumbersAssumption
  <2>3. pc'[p] = "lock" /\ i'[p] = 1 /\ done'[p] = {}
    BY <1>p, <1>a, <1>d, <1>3 DEF Call, ArrayInv, Goto
  <2> QED  BY <2>2, <2>3 DEF ArrayInv, Working
<1>4. CASE Leave(p)
  <2>1. pc'[p] \in {"dead", "idle"} /\ done'[p] = {}
    BY <1>p, <1>d, <1>4 DEF Leave, Goto
  <2> QED  BY <2>1 DEF ArrayInv, Calling, Working
<1>5. CASE Lock(p)
  <2>1. pc[p] = "lock" /\ pc'[p] = "acc" /\ UNCHANGED callVars
    BY <1>p, <1>d, <1>5 DEF Lock, Goto
  <2> QED  BY <1>a, <2>1 DEF ArrayInv, Calling, Working, callVars
<1>6. CASE AccBlocks(p)
  <2>1. 1 <= i[p] /\ i[p] <= n[p] /\ n[p] <= Len(segnums[p]) /\ pc[p] = "acc" /\ done[p] = {}
        /\ Elems(segnums[p]) = Elems(args[p].segs)
    BY <1>a, <1>6 DEF AccBlocks, ArrayInv, Calling
  <2>2. UNCHANGED <<args, done>> /\ pc'[p] \in {"acc", "unlock"}
    BY <1>p, <1>d, <1>6 DEF AccBlocks, Goto, Fails
  <2>3. \/ UNCHANGED <<segnums, n>> /\ (UNCHANGED i \/ i'[p] = i[p] + 1)
        \/ Deselect(p) /\ UNCHANGED i
    BY <1>p, <1>d, <1>6 DEF AccBlocks
  <2>4. n'[p] <= Len(segnums'[p]) /\ Elems(segnums'[p]) = Elems(segnums[p]) /\ i'[p] >= 1
    <3>1. CASE UNCHANGED <<segnums, n>> /\ (UNCHANGED i \/ i'[p] = i[p] + 1)
      BY <1>l, <2>1, <3>1
    <3>2. CASE Deselect(p) /\ UNCHANGED i
      <4>1. segnums'[p] = deselect_segment(segnums[p], n[p], i[p]) /\ n'[p] = n[p] - 1
        BY <1>p, <1>d, <3>2 DEF Deselect
      <4>2. Len(segnums'[p]) = Len(segnums[p]) /\ Elems(segnums'[p]) = Elems(segnums[p])
        BY <1>l, <2>1, <4>1, DeselectReorders
      <4> QED  BY ONLY <1>l, <2>1, <3>2, <4>1, <4>2
    <3> QED  BY <2>3, <3>1, <3>2
  <2> QED  BY ONLY <2>1, <2>2, <2>4 DEF ArrayInv, Calling, Working
<1>7. CASE AccBlocksDone(p)
  <2>1. /\ pc[p] = "acc" /\ i[p] > n[p] /\ pc'[p] \in {"unlock", "vdesc"}
        /\ stat'[p].cleaned = n[p] /\ stat'[p].deferred = 0
        /\ UNCHANGED <<args, segnums, n, i, done>>
    BY <1>p, <1>d, <1>7 DEF AccBlocksDone, Goto
  <2> QED  BY ONLY <1>a, <2>1 DEF ArrayInv, Calling, Working
<1>8. CASE GetVdesc(p) \/ TossVdescs(p) \/ TossBdescs(p) \/ Interrupted(p) \/ Committed(p)
  <2>1. /\ pc[p] \in Working \ {"acc"} /\ pc'[p] \in (Working \ {"acc"}) \cup {"unlock"}
        /\ UNCHANGED <<args, segnums, n, i, stat, done>>
    <3>1. CASE GetVdesc(p) \/ TossVdescs(p)
      BY <1>p, <1>d, <3>1 DEF GetVdesc, TossVdescs, Goto, Fails, Working
    <3>2. CASE TossBdescs(p) \/ Interrupted(p) \/ Committed(p)
      BY <1>p, <1>d, <3>2 DEF TossBdescs, Interrupted, Committed, Goto, Fails, Working, callVars
    <3> QED  BY <1>8, <3>1, <3>2
  <2> QED  BY ONLY <1>a, <2>1 DEF ArrayInv, Calling, Working
<1>9. CASE Defer(p)
  <2>1. UNCHANGED <<args, segnums, n, i>> /\ pc[p] = "commit"
    BY <1>9 DEF Defer
  <2>2. \/ pc'[p] = "clean" /\ UNCHANGED <<stat, done>>
        \/ pc'[p] = "unlock" /\ done' = done
        \/ /\ pc'[p] = "unlock" /\ done'[p] = Kept(p)
           /\ stat' = [stat EXCEPT ![p].deferred = n[p], ![p].cleaned = 0]
    BY <1>p, <1>d, <1>9 DEF Defer, Goto, Fails
  <2>3. CASE pc'[p] = "clean" /\ UNCHANGED <<stat, done>>
    BY ONLY <1>a, <2>1, <2>3 DEF ArrayInv, Calling, Working
  <2>4. CASE pc'[p] = "unlock" /\ done' = done
    BY ONLY <1>a, <2>1, <2>4 DEF ArrayInv, Calling, Working
  <2>5. CASE /\ pc'[p] = "unlock" /\ done'[p] = Kept(p)
             /\ stat' = [stat EXCEPT ![p].deferred = n[p], ![p].cleaned = 0]
    <3>1. stat'[p].deferred = n[p] /\ stat'[p].cleaned = 0
      BY ONLY <1>p, <1>d, <1>l, <2>5 DEF StatRecord
    <3>2. 0 + n[p] = n[p] /\ Kept(p) = Firsts(segnums[p], n[p])
      BY <1>l DEF Kept, Firsts
    <3> QED  BY ONLY <1>a, <2>1, <2>5, <3>1, <3>2 DEF ArrayInv, Calling, Working
  <2> QED  BY <2>2, <2>3, <2>4, <2>5
<1>10. CASE CleanSegments(p)
  <2>1. /\ UNCHANGED <<args, segnums, n, i, stat>> /\ pc'[p] = "unlock" /\ pc[p] = "clean"
        /\ done'[p] = Kept(p) \/ done' = done
    BY <1>p, <1>d, <1>10 DEF CleanSegments, Goto, Fails
  <2>2. stat[p].cleaned + stat[p].deferred = n[p]
    BY <1>a, <1>l, <2>1 DEF ArrayInv, Working
  <2>3. Kept(p) = Firsts(segnums[p], n[p])
    BY DEF Kept, Firsts
  <2> QED  BY ONLY <1>a, <2>1, <2>2, <2>3 DEF ArrayInv, Calling, Working
<1>11. Dies(p) => pc'[p] = "dead"
  BY <1>p, <1>d DEF Dies
<1> QED
  BY <1>1, <1>2, <1>3, <1>4, <1>5, <1>6, <1>7, <1>8, <1>9, <1>10, <1>11, OthersSame
     DEF IInv, Cleaner, LockFails, Unlock

\* The segments accepted are segments.
LEMMA AcceptedSegs ==
    ASSUME Types, NEW p \in Cleaners, ArrayInv(p), pc[p] \in Working
    PROVE  Accepted(p) \subseteq Segs
<1>1. p \in Procs
  BY DEF Procs
<1>2. segnums[p] \in Seq(Segs) /\ Len(segnums[p]) \in Nat /\ n[p] \in Nat /\ i[p] \in Nat
  BY <1>1 DEF Types, ArrayTypes
<1>3. n[p] <= Len(segnums[p])
  BY DEF ArrayInv, Calling, Working
<1>4. \A x \in 1 .. Len(segnums[p]) : segnums[p][x] \in Segs
  BY <1>2
<1> QED  BY <1>2, <1>3, <1>4 DEF Accepted

\* What a reclamation knows stays true while others run.
LEMMA SameCallInv ==
    ASSUME IInv, [Next]_vars, NEW p \in Cleaners, Same(p)
    PROVE  CallInv(p)'
<1>s. Same(p) /\ CallInv(p)
  BY DEF IInv
<1>1. CASE pc[p] \notin Working
  BY <1>s, <1>1 DEF Same, CallInv, AcceptedInv, FoundInv, EndsInv, DeadInv, Working
<1>2. CASE pc[p] \in Working
  <2>1. SegStep /\ BlkStep /\ snapshots' = snapshots
    BY <1>2, Undisturbed DEF FsStep
  <2>a. Accepted(p)' = Accepted(p) /\ Accepted(p) \subseteq Segs
    BY <1>2, AcceptedSegs DEF Same, Accepted, IInv
  <2>b. vdescv[p] \subseteq Blocks /\ vblocknrv[p] \subseteq Blocks
    BY DEF IInv, Types, FoundTypes, Procs
  <2>w. pc'[p] = pc[p]
    BY DEF Same
  <2>2. AcceptedInv(p)'
    <3>1. ASSUME NEW s \in Accepted(p)
          PROVE  seg'[s].st = seg[s].st /\ seg'[s].seq = seg[s].seq
      <4>1. s \in Segs /\ seg[s].st \in {"dirty", "scrapped"}
        BY <1>s, <1>2, <2>a, <3>1 DEF CallInv, AcceptedInv, nilfs_suinfo_reclaimable
      <4> QED  BY <2>1, <4>1 DEF SegStep
    <3>2. args'[p] = args[p] /\ AcceptedInv(p)
      BY <1>s DEF Same, CallInv
    <3> QED  BY ONLY <2>a, <2>w, <3>1, <3>2 DEF AcceptedInv, nilfs_suinfo_reclaimable
  <2>3. FoundInv(p)'
    <3>f. FoundInv(p) /\ AcceptedInv(p)
      BY <1>s DEF CallInv
    <3>v. vdescv'[p] = vdescv[p] /\ vblocknrv'[p] = vblocknrv[p]
      BY DEF Same
    <3>1. ASSUME NEW b \in vdescv[p] PROVE blk'[b].start >= 1
      <4>1. b \in Blocks /\ blk[b].start >= 1
        BY <1>2, <2>b, <3>f DEF FoundInv
      <4> QED  BY <2>1, <4>1 DEF BlkStep
    <3>2. ASSUME NEW b \in Blocks, blk'[b].loc \in Accepted(p)
          PROVE  /\ blk[b].loc \in Accepted(p)
                 /\ Ended(b) => Ended(b)'
      <4>1. blk'[b].loc \in Segs /\ seg[blk'[b].loc].st \in {"dirty", "scrapped"}
        BY <1>2, <2>a, <3>f, <3>2 DEF AcceptedInv, nilfs_suinfo_reclaimable
      <4> QED  BY ONLY <2>1, <3>2, <4>1 DEF BlkStep, Ended
    <3>3. ASSUME NEW b \in Blocks, blk'[b].loc \in Accepted(p)
          PROVE  \/ b \in vdescv[p]
                 \/ pc[p] \in {"bdesc", "commit", "clean"} /\ b \in vblocknrv[p]
                 \/ pc[p] \in {"commit", "clean"} /\ Kind[b] = "dat" /\ Ended(b)'
      BY ONLY <1>2, <3>f, <3>2, <3>3 DEF FoundInv
    <3> QED  BY ONLY <1>2, <2>a, <2>w, <3>v, <3>1, <3>3 DEF FoundInv, Working
  <2>4. EndsInv(p)'
    <3>1. SUFFICES ASSUME pc[p] = "toss", NEW b \in vdescv[p], Kind[b] # "dat"
                   PROVE  ends[p][b] = CNO_MAX \/ ends[p][b] = blk'[b].end
      BY <2>w DEF EndsInv, Same
    <3>2. b \in Blocks /\ blk[b].start >= 1
      BY <1>s, <1>2, <2>b DEF CallInv, FoundInv
    <3>3. ends[p][b] = CNO_MAX \/ ends[p][b] = blk[b].end
      BY <1>s, <3>1 DEF CallInv, EndsInv
    <3> QED  BY ONLY <2>1, <3>2, <3>3 DEF BlkStep
  <2>5. DeadInv(p)'
    <3>1. SUFFICES ASSUME pc[p] \in {"bdesc", "commit", "clean"} PROVE DeadInv(p)'
      BY <2>w DEF DeadInv
    <3>d. DeadInv(p)
      BY <1>s DEF CallInv
    <3>v. /\ vblocknrv'[p] = vblocknrv[p] /\ vdescv'[p] = vdescv[p]
          /\ periodv'[p] = periodv[p] /\ args'[p] = args[p]
      BY DEF Same
    <3>2. ASSUME NEW b \in vblocknrv[p] PROVE blk'[b] = blk[b] /\ Ended(b)
      <4>1. Ended(b) /\ b \in Blocks
        BY <2>b, <3>1, <3>d DEF DeadInv
      <4> QED  BY ONLY <2>1, <4>1 DEF BlkStep, Ended
    <3> QED  BY ONLY <2>1, <2>w, <3>d, <3>v, <3>1, <3>2 DEF DeadInv, Ended
  <2> QED  BY <2>2, <2>3, <2>4, <2>5 DEF CallInv
<1> QED  BY <1>1, <1>2

\* Outside of the critical section nothing is claimed but that no blocks are
\* left over from an earlier call.
LEMMA IdleCallInv ==
    ASSUME NEW p, pc'[p] \notin Working,
           pc'[p] \in {"idle", "lock"} => vdescv'[p] = {}
    PROVE  CallInv(p)'
BY DEF CallInv, AcceptedInv, FoundInv, EndsInv, DeadInv, Working

\* A step that neither changes the file system nor accepts or deselects.
LEMMA QuietStep ==
    ASSUME NEW p, UNCHANGED <<fsVars, segnums, n, i, args>>
    PROVE  /\ Accepted(p)' = Accepted(p) /\ \A b : Ended(b)' <=> Ended(b)
           /\ AcceptedInv(p) /\ pc[p] \in Working => AcceptedInv(p)'
BY DEF Accepted, Ended, AcceptedInv, nilfs_suinfo_reclaimable, fsVars

\* nilfs_acc_blocks() accepts what is old enough, and overlooks no block.
LEMMA AccBlocksCallInv ==
    ASSUME IInv, NEW p \in Cleaners, AccBlocks(p)
    PROVE  CallInv(p)'
<1>p. p \in Procs /\ pc[p] = "acc" /\ UNCHANGED <<fsVars, args>>
  BY DEF Procs, AccBlocks
<1>t. Types /\ ArrayInv(p) /\ AcceptedInv(p) /\ FoundInv(p) /\ SeqInv /\ BlockInv
  BY DEF IInv, CallInv
<1>l. segnums[p] \in Seq(Segs) /\ Len(segnums[p]) \in Nat /\ n[p] \in Nat /\ i[p] \in Nat
  BY <1>p, <1>t DEF Types, ArrayTypes
<1>d. /\ DOMAIN pc = Procs /\ DOMAIN segnums = Procs /\ DOMAIN n = Procs
      /\ DOMAIN i = Procs /\ DOMAIN vdescv = Procs
  BY <1>t DEF Types, ArrayTypes, ProcTypes, FoundTypes
<1>b. 1 <= i[p] /\ i[p] <= n[p] /\ n[p] <= Len(segnums[p])
  BY <1>p, <1>t DEF AccBlocks, ArrayInv, Calling
<1> DEFINE s == segnums[p][i[p]]
<1>s. s \in Segs /\ \A x \in 1 .. n[p] : segnums[p][x] \in Segs
  BY <1>l, <1>b
<1>e. \A b : Ended(b)' <=> Ended(b)
  BY <1>p DEF Ended, fsVars
<1>1. CASE /\ Keeps(p, s) /\ pc' = pc /\ UNCHANGED <<segnums, n>> /\ i'[p] = i[p] + 1
           /\ vdescv'[p] = vdescv[p] \cup acc_blocks_segment(s)
  <2>1. Accepted(p)' = Accepted(p) \cup {s}
    <3>1. {y \in 1 .. (i'[p] - 1) : y <= n[p]} = {y \in 1 .. (i[p] - 1) : y <= n[p]} \cup {i[p]}
      BY ONLY <1>l, <1>b, <1>1
    <3>2. Accepted(p)' = {segnums[p][x] : x \in {y \in 1 .. (i'[p] - 1) : y <= n[p]}}
      BY <1>1 DEF Accepted
    <3> QED  BY ONLY <3>1, <3>2 DEF Accepted, s
  <2>2. nilfs_suinfo_reclaimable(s) /\ (seg[s].st = "scrapped" \/ seg[s].seq < args[p].protseq)
    <3>1. seg[s].seq \in Nat /\ args[p].protseq \in Nat /\ cursor \in Nat
      BY <1>p, <1>s, <1>t, SegRecords, ArgRecords DEF Types, FsTypes, ArrayTypes
    <3>2. seg[s].seq \in InitSeq .. MaxSeq
      BY <1>s, <1>t, <3>1, NumbersAssumption DEF SeqInv
    <3>4. args[p].protseq \in InitSeq .. MaxSeq
      BY <1>p, <1>t, <3>1, NumbersAssumption DEF SeqInv, Calling
    <3>3. seg[s].st = "scrapped" \/ ~cnt64_ge(seg[s].seq, args[p].protseq)
      BY <1>1 DEF Keeps
    <3> QED  BY <1>1, <3>2, <3>3, <3>4, UnprotectedIsOlder DEF Keeps
  <2>3. AcceptedInv(p)'
    <3>1. \A x \in Accepted(p) \cup {s} :
             /\ nilfs_suinfo_reclaimable(x)
             /\ seg[x].st = "scrapped" \/ seg[x].seq < args[p].protseq
      BY ONLY <1>p, <1>t, <2>2 DEF AcceptedInv, Working
    <3> QED  BY ONLY <1>p, <2>1, <3>1 DEF AcceptedInv, nilfs_suinfo_reclaimable, fsVars
  <2>4. FoundInv(p)'
    <3>1. ASSUME NEW b \in vdescv'[p] PROVE blk[b].start >= 1
      <4>1. CASE b \in vdescv[p]
        BY ONLY <1>p, <1>t, <4>1 DEF FoundInv, Working
      <4>2. CASE b \in acc_blocks_segment(s)
        BY <1>s, <1>t, <4>2 DEF acc_blocks_segment, BlockInv
      <4> QED  BY <1>1, <3>1, <4>1, <4>2
    <3>2. ASSUME NEW b \in Blocks, blk[b].loc \in Accepted(p)' PROVE b \in vdescv'[p]
      <4>1. CASE blk[b].loc = s
        BY ONLY <1>1, <4>1 DEF acc_blocks_segment
      <4>2. CASE blk[b].loc \in Accepted(p)
        BY ONLY <1>1, <1>p, <1>t, <4>2 DEF FoundInv, Working
      <4> QED  BY <2>1, <3>2, <4>1, <4>2
    <3> QED  BY ONLY <1>p, <1>1, <3>1, <3>2 DEF FoundInv, fsVars
  <2> QED  BY <1>p, <1>1, <2>3, <2>4 DEF CallInv, EndsInv, DeadInv
<1>2. CASE Deselect(p) /\ UNCHANGED <<vdescv, i, pc>>
  <2>1. segnums'[p] = deselect_segment(segnums[p], n[p], i[p]) /\ n'[p] = n[p] - 1
    BY <1>p, <1>d, <1>2 DEF Deselect
  <2>2. \A x \in 1 .. i[p] - 1 : segnums'[p][x] = segnums[p][x]
    BY <1>l, <1>b, <2>1, DeselectReorders
  <2>3. Accepted(p)' \subseteq Accepted(p)
    <3>1. ASSUME NEW x \in {y \in 1 .. (i[p] - 1) : y <= n'[p]}
          PROVE  x \in {y \in 1 .. (i[p] - 1) : y <= n[p]} /\ segnums'[p][x] = segnums[p][x]
      BY ONLY <1>l, <2>1, <2>2, <3>1
    <3>2. Accepted(p)' = {segnums'[p][x] : x \in {y \in 1 .. (i[p] - 1) : y <= n'[p]}}
      BY <1>2 DEF Accepted
    <3> QED  BY ONLY <3>1, <3>2 DEF Accepted
  <2>4. AcceptedInv(p)'
    BY ONLY <1>p, <1>t, <2>3 DEF AcceptedInv, nilfs_suinfo_reclaimable, fsVars, Working
  <2>5. FoundInv(p)'
    BY ONLY <1>p, <1>t, <1>2, <2>3 DEF FoundInv, fsVars, Working
  <2> QED  BY <1>p, <1>2, <2>4, <2>5 DEF CallInv, EndsInv, DeadInv
<1>3. CASE pc'[p] = "unlock"
  BY <1>3, IdleCallInv DEF Working
<1>4. \/ /\ Keeps(p, s) /\ pc' = pc /\ UNCHANGED <<segnums, n>> /\ i'[p] = i[p] + 1
         /\ vdescv'[p] = vdescv[p] \cup acc_blocks_segment(s)
      \/ Deselect(p) /\ UNCHANGED <<vdescv, i, pc>>
      \/ pc'[p] = "unlock"
  BY <1>p, <1>d DEF AccBlocks, Fails, Goto
<1> QED  BY <1>1, <1>2, <1>3, <1>4

\* nilfs_toss_vdescs() gives up blocks only that are out of use, that no
\* snapshot sees, and all checkpoints that see them.
LEMMA TossVdescsCallInv ==
    ASSUME IInv, NEW p \in Cleaners, TossVdescs(p)
    PROVE  CallInv(p)'
<1>p. /\ p \in Procs /\ pc[p] = "toss"
      /\ UNCHANGED <<fsVars, args, segnums, n, i>>
  BY DEF Procs, TossVdescs
<1>t. Types /\ AcceptedInv(p) /\ FoundInv(p) /\ EndsInv(p) /\ BlockInv
  BY DEF IInv, CallInv
<1>d. /\ DOMAIN pc = Procs /\ DOMAIN vdescv = Procs /\ DOMAIN vblocknrv = Procs
      /\ DOMAIN periodv = Procs
  BY <1>t DEF Types, ProcTypes, FoundTypes
<1>q. Accepted(p)' = Accepted(p) /\ AcceptedInv(p)' /\ \A b : Ended(b)' <=> Ended(b)
  BY <1>p, <1>t, QuietStep DEF Working
<1>c. CASE pc'[p] = "unlock"
  BY <1>c, IdleCallInv DEF Working
<1> DEFINE dead == {b \in vdescv[p] : /\ Kind[b] # "dat"
                                      /\ ~nilfs_vdesc_is_live(b, ends[p][b],
                                            args[p].protcno, nilfs_get_snapshot)}
<1>1. CASE /\ pc'[p] = "bdesc" /\ vdescv'[p] = vdescv[p] \ dead /\ vblocknrv'[p] = dead
           /\ periodv'[p] = Periods(dead, ends[p])
  <2>n. args[p].protcno \in Nat /\ cno \in Nat
    BY <1>p, <1>t, ArgRecords DEF Types, ArrayTypes, FsTypes
  <2>1. ASSUME NEW b \in dead
        PROVE  /\ Ended(b) /\ ends[p][b] = blk[b].end
               /\ Kind[b] # "meta" =>
                     \A c \in blk[b].start .. blk[b].end - 1 :
                         c \notin snapshots /\ c < args[p].protcno
    <3>1. b \in Blocks /\ b \in vdescv[p] /\ Kind[b] # "dat"
      BY <1>p, <1>t DEF Types, FoundTypes
    <3>2. ~nilfs_vdesc_is_live(b, ends[p][b], args[p].protcno, snapshots)
      BY DEF nilfs_get_snapshot
    <3>3. blk[b].start \in Nat /\ blk[b].end \in Nat /\ ends[p][b] \in Nat
      BY <1>p, <1>t, <3>1, BlkRecords DEF Types, FsTypes, FoundTypes
    <3>4. blk[b].start >= 1 /\ blk[b].start <= cno /\ cno <= MaxCno
      BY <1>p, <1>t, <3>1 DEF FoundInv, BlockInv, Working
    <3>5. ends[p][b] = CNO_MAX \/ ends[p][b] = blk[b].end
      BY <1>p, <1>t, <3>1 DEF EndsInv
    <3>6. blk[b].start # CNO_MAX
      BY ONLY <2>n, <3>3, <3>4, NumbersAssumption
    <3>7. CASE Kind[b] = "meta"
      BY ONLY <3>2, <3>4, <3>5, <3>7 DEF nilfs_vdesc_is_live, Ended
    <3>8. CASE Kind[b] # "meta" /\ ends[p][b] = blk[b].start
      <4>1. ends[p][b] = blk[b].end /\ Ended(b)
        BY ONLY <3>4, <3>5, <3>6, <3>8 DEF Ended
      <4> QED  BY ONLY <3>3, <3>8, <4>1
    <3>9. CASE Kind[b] # "meta" /\ ends[p][b] # blk[b].start
      <4>1. /\ ends[p][b] # CNO_MAX /\ ~(ends[p][b] > args[p].protcno)
            /\ \A c \in snapshots : ~(blk[b].start <= c /\ c < ends[p][b])
        BY ONLY <3>2, <3>9 DEF nilfs_vdesc_is_live
      <4>2. ends[p][b] = blk[b].end /\ Ended(b)
        BY ONLY <3>4, <3>5, <4>1 DEF Ended
      <4> QED  BY ONLY <2>n, <3>3, <4>1, <4>2
    <3> QED  BY ONLY <3>7, <3>8, <3>9
  <2>2. /\ \A b \in vdescv[p] \ dead : blk[b].start >= 1
        /\ \A b \in Blocks : blk[b].loc \in Accepted(p) => b \in vdescv[p]
    BY <1>p, <1>t DEF FoundInv, Working
  <2> HIDE DEF dead
  <2>3. FoundInv(p)'
    BY ONLY <1>p, <1>q, <1>1, <2>2 DEF FoundInv, fsVars
  <2>4. DeadInv(p)'
    <3>1. ASSUME NEW b \in dead, Kind[b] = "file",
                 NEW c \in blk[b].start .. blk[b].end - 1
          PROVE  c \in periodv'[p] /\ c \notin snapshots
      <4>1. ends[p][b] = blk[b].end /\ c \notin snapshots
        BY <2>1, <3>1
      <4>2. b \in {x \in dead : Kind[x] # "meta"}
        BY <3>1
      <4> QED  BY ONLY <1>1, <3>1, <4>1, <4>2 DEF Periods
    <3>2. ASSUME NEW c \in periodv'[p] PROVE c < args[p].protcno
      <4>1. PICK b \in {x \in dead : Kind[x] # "meta"} : c \in blk[b].start .. ends[p][b] - 1
        BY ONLY <1>1, <3>2 DEF Periods
      <4> QED  BY ONLY <2>1, <4>1
    <3>3. \A b \in dead : Ended(b)
      BY <2>1
    <3> QED  BY ONLY <1>p, <1>q, <1>1, <3>1, <3>2, <3>3 DEF DeadInv, fsVars
  <2> QED  BY <1>q, <1>1, <2>3, <2>4 DEF CallInv, EndsInv
<1>2. \/ pc'[p] = "unlock"
      \/ /\ pc'[p] = "bdesc" /\ vdescv'[p] = vdescv[p] \ dead /\ vblocknrv'[p] = dead
         /\ periodv'[p] = Periods(dead, ends[p])
  BY <1>p, <1>d DEF TossVdescs, Fails, Goto
<1> QED  BY <1>c, <1>1, <1>2

\* Every step keeps what a reclamation knows.
LEMMA NextCallInv ==
    ASSUME IInv, [Next]_vars, NEW p \in Cleaners
    PROVE  CallInv(p)'
<1>p. p \in Procs
  BY DEF Procs
<1>t. Types /\ ArrayInv(p) /\ CallInv(p)
  BY DEF IInv
<1>i. AcceptedInv(p) /\ FoundInv(p) /\ EndsInv(p) /\ DeadInv(p)
  BY <1>t DEF CallInv
<1>d. DOMAIN pc = Procs /\ DOMAIN vdescv = Procs /\ DOMAIN ends = Procs
  BY <1>t DEF Types, ProcTypes, FoundTypes
<1>b. vdescv[p] \subseteq Blocks
  BY <1>p, <1>t DEF Types, FoundTypes
<1>1. CASE Same(p)
  BY <1>1, SameCallInv
<1>2. CASE Dies(p)
  <2>1. pc'[p] = "dead"
    BY <1>p, <1>d, <1>2 DEF Dies
  <2> QED  BY <2>1, IdleCallInv DEF Working
<1>3. CASE Call(p)
  <2>1. pc[p] = "idle" /\ pc'[p] = "lock" /\ vdescv' = vdescv
    BY <1>p, <1>d, <1>3 DEF Call, Goto, findings
  <2>2. vdescv'[p] = {}
    BY <1>i, <2>1 DEF FoundInv
  <2> QED  BY <2>1, <2>2, IdleCallInv DEF Working
<1>4. CASE LockFails(p) \/ Unlock(p)
  <2>1. pc'[p] \in {"dead", "idle"} /\ vdescv'[p] = {}
    BY <1>p, <1>d, <1>4 DEF LockFails, Unlock, Leave, Goto
  <2> QED  BY <2>1, IdleCallInv DEF Working
<1>5. CASE Lock(p)
  <2>1. pc[p] = "lock" /\ pc'[p] = "acc" /\ UNCHANGED <<fsVars, callVars>>
    BY <1>p, <1>d, <1>5 DEF Lock, Goto
  <2>2. i'[p] = 1 /\ vdescv'[p] = {}
    BY <1>i, <1>t, <2>1 DEF ArrayInv, FoundInv, callVars, findings
  <2>3. Accepted(p)' = {}
    BY <2>2 DEF Accepted
  <2> QED  BY <2>1, <2>2, <2>3 DEF CallInv, AcceptedInv, FoundInv, EndsInv, DeadInv
<1>6. CASE AccBlocks(p)
  BY <1>6, AccBlocksCallInv
<1>7. CASE TossVdescs(p)
  BY <1>7, TossVdescsCallInv
<1>8. CASE AccBlocksDone(p)
  <2>1. /\ pc[p] = "acc" /\ pc'[p] \in {"unlock", "vdesc"} /\ vdescv' = vdescv
        /\ UNCHANGED <<fsVars, args, segnums, n, i>>
    BY <1>p, <1>d, <1>8 DEF AccBlocksDone, Goto, findings
  <2>2. Accepted(p)' = Accepted(p) /\ AcceptedInv(p)'
    BY <1>i, <2>1, QuietStep DEF Working
  <2>3. FoundInv(p)'
    BY ONLY <1>i, <2>1, <2>2 DEF FoundInv, fsVars, Working
  <2> QED  BY <2>1, <2>2, <2>3 DEF CallInv, EndsInv, DeadInv
<1>9. CASE GetVdesc(p)
  <2>1. /\ pc[p] = "vdesc" /\ vdescv' = vdescv
        /\ UNCHANGED <<fsVars, args, segnums, n, i>>
    BY <1>9 DEF GetVdesc
  <2>2. Accepted(p)' = Accepted(p) /\ AcceptedInv(p)'
    BY <1>i, <2>1, QuietStep DEF Working
  <2>3. CASE pc'[p] = "unlock"
    BY <2>3, IdleCallInv DEF Working
  <2>4. CASE /\ pc'[p] = "toss"
             /\ ends'[p] = [b \in Blocks |->
                   IF b \in vdescv[p] /\ Kind[b] # "dat" THEN blk[b].end ELSE 0]
    <3>1. FoundInv(p)'
      BY ONLY <1>i, <2>1, <2>2, <2>4 DEF FoundInv, fsVars, Working
    <3>2. EndsInv(p)'
      BY ONLY <1>b, <2>1, <2>4 DEF EndsInv, fsVars
    <3> QED  BY <2>2, <2>4, <3>1, <3>2 DEF CallInv, DeadInv
  <2> QED  BY <1>p, <1>d, <1>9, <2>3, <2>4 DEF GetVdesc, Fails, Goto
<1>10. CASE TossBdescs(p)
  <2>1. /\ pc[p] = "bdesc" /\ UNCHANGED <<fsVars, args, segnums, n, i, vblocknrv, periodv>>
    BY <1>10 DEF TossBdescs
  <2>2. /\ Accepted(p)' = Accepted(p) /\ AcceptedInv(p)'
        /\ \A b : Ended(b)' <=> Ended(b)
    BY <1>i, <2>1, QuietStep DEF Working
  <2>3. CASE pc'[p] = "unlock"
    BY <2>3, IdleCallInv DEF Working
  <2>4. CASE /\ pc'[p] = "commit"
             /\ vdescv'[p] = {b \in vdescv[p] : Kind[b] = "dat" => b \in Current}
    <3>1. ASSUME NEW b \in vdescv[p], b \notin vdescv'[p] PROVE Kind[b] = "dat" /\ Ended(b)
      <4>1. b \in Blocks /\ blk[b].start >= 1
        BY ONLY <1>b, <1>i, <2>1, <3>1 DEF FoundInv, Working
      <4> QED  BY ONLY <2>4, <3>1, <4>1 DEF Ended, Current
    <3>2. FoundInv(p)'
      <4>1. vdescv'[p] \subseteq vdescv[p]
        BY <2>4
      <4>2. \A b \in vdescv[p] : blk[b].start >= 1
        BY <1>i, <2>1 DEF FoundInv, Working
      <4>3. ASSUME NEW b \in Blocks, blk[b].loc \in Accepted(p)
            PROVE  b \in vdescv'[p] \/ b \in vblocknrv[p] \/ (Kind[b] = "dat" /\ Ended(b))
        BY ONLY <1>i, <2>1, <3>1, <4>3 DEF FoundInv, Working
      <4>4. pc'[p] = "commit"
        BY <2>4
      <4> QED  BY ONLY <2>1, <2>2, <4>1, <4>2, <4>3, <4>4 DEF FoundInv, fsVars
    <3>3. DeadInv(p)'
      BY ONLY <1>i, <2>1, <2>2, <2>4 DEF DeadInv, fsVars
    <3> QED  BY <2>2, <2>4, <3>2, <3>3 DEF CallInv, EndsInv
  <2> QED  BY <1>p, <1>d, <1>10, <2>3, <2>4 DEF TossBdescs, Fails, Goto
<1>11. CASE Interrupted(p) \/ Committed(p) \/ Defer(p) \/ CleanSegments(p)
  <2>1. CASE pc'[p] = "unlock"
    BY <2>1, IdleCallInv DEF Working
  <2>2. CASE /\ pc[p] = "commit" /\ pc'[p] = "clean"
             /\ UNCHANGED <<fsVars, args, segnums, n, i, findings>>
    <3>1. /\ Accepted(p)' = Accepted(p) /\ AcceptedInv(p)'
          /\ \A b : Ended(b)' <=> Ended(b)
      BY <1>i, <2>2, QuietStep DEF Working
    <3>2. FoundInv(p)'
      BY ONLY <1>i, <2>2, <3>1 DEF FoundInv, fsVars, findings, Working
    <3>3. DeadInv(p)'
      BY ONLY <1>i, <2>2, <3>1 DEF DeadInv, fsVars, findings
    <3> QED  BY <2>2, <3>1, <3>2, <3>3 DEF CallInv, EndsInv
  <2>3. CASE Interrupted(p)
    BY <1>p, <1>d, <2>1, <2>3 DEF Interrupted, Goto
  <2>4. CASE Committed(p)
    BY <1>p, <1>d, <2>2, <2>4 DEF Committed, Goto, callVars
  <2>5. CASE Defer(p)
    BY <1>p, <1>d, <2>1, <2>2, <2>5 DEF Defer, Goto, Fails
  <2>6. CASE CleanSegments(p)
    BY <1>p, <1>d, <2>1, <2>6 DEF CleanSegments, Goto, Fails
  <2> QED  BY <1>11, <2>3, <2>4, <2>5, <2>6
<1> QED
  BY <1>1, <1>2, <1>3, <1>4, <1>5, <1>6, <1>7, <1>8, <1>9, <1>10, <1>11, <1>t, OthersSame
     DEF Cleaner

-----------------------------------------------------------------------------
(***************************************************************************)
(* Nothing needed is lost.                                                 *)
(***************************************************************************)
\* The segments cleaned are the ones accepted.
LEMMA KeptAccepted ==
    ASSUME IInv, NEW p \in Cleaners, pc[p] = "clean"
    PROVE  Kept(p) = Accepted(p) /\ Kept(p) \subseteq Segs
<1>1. n[p] \in Nat /\ i[p] \in Nat
  BY DEF IInv, Types, ArrayTypes, Procs
<1>2. i[p] > n[p]
  BY DEF IInv, ArrayInv, Working
<1>3. {y \in 1 .. (i[p] - 1) : y <= n[p]} = 1 .. n[p]
  BY ONLY <1>1, <1>2
<1>4. Kept(p) = Accepted(p)
  BY ONLY <1>3 DEF Kept, Accepted
<1>5. Accepted(p) \subseteq Segs
  BY AcceptedSegs DEF IInv, Working
<1> QED  BY <1>4, <1>5

\* Where NILFS_IOCTL_CLEAN_SEGMENTS leaves a block: it stays where it is or
\* goes to a segment that is not cleaned, unless it is out of use and no
\* checkpoint that is left sees it.
LEMMA IoctlBlocks ==
    ASSUME IInv, NEW p \in Cleaners, CleanSegments(p), CleanIoctl(p),
           NEW b \in Blocks, Stored(b)
    PROVE  \/ Stored(b)'
           \/ Ended(b) /\ \A c \in cps' : ~Visible(b, c)
<1>p. p \in Procs /\ pc[p] = "clean"
  BY DEF CleanSegments, Procs
<1>t. blk[b] \in BlkRecord /\ blk \in [Blocks -> BlkRecord] /\ seg \in [Segs -> SegRecord]
  BY DEF IInv, Types, FsTypes
<1>k. Kept(p) = Accepted(p) /\ Kept(p) \subseteq Segs
  BY <1>p, KeptAccepted
<1>i. AcceptedInv(p) /\ FoundInv(p) /\ DeadInv(p)
  BY DEF IInv, CallInv
<1>1. PICK a \in Segs :
          /\ seg[a].st = "active"
          /\ blk' = [x \in Blocks |->
                [blk[x] EXCEPT !.loc =
                    CASE x \in vdescv[p]    -> a
                      [] x \in vblocknrv[p] -> "freed"
                      [] x \notin vdescv[p] \cup vblocknrv[p] /\ @ \in Kept(p) -> "lost"
                      [] OTHER -> @]]
  BY DEF CleanIoctl
<1>2. \A s \in Segs : s \notin Kept(p) => seg'[s] = seg[s]
  BY DEF CleanIoctl
<1>3. CASE b \in vdescv[p]
  <2>1. blk'[b].loc = a
    <3>1. b \notin vblocknrv[p]
      BY ONLY <1>p, <1>i, <1>3 DEF DeadInv
    <3> QED  BY ONLY <1>t, <1>1, <1>3, <3>1 DEF BlkRecord
  <2>2. a \notin Kept(p)
    BY ONLY <1>p, <1>1, <1>k, <1>i DEF AcceptedInv, nilfs_suinfo_reclaimable, Working
  <2> QED  BY <1>1, <1>2, <2>1, <2>2 DEF Stored
<1>4. CASE b \notin vdescv[p] /\ blk[b].loc \notin Kept(p) /\ b \notin vblocknrv[p]
  <2>1. blk'[b].loc = blk[b].loc
    BY ONLY <1>t, <1>1, <1>4 DEF BlkRecord
  <2> QED  BY <1>2, <1>4, <2>1 DEF Stored
<1>5. CASE b \notin vdescv[p] /\ b \in vblocknrv[p]
  <2>1. /\ Ended(b)
        /\ Kind[b] = "file" => \A c \in blk[b].start .. blk[b].end - 1 :
                                  c \in periodv[p] /\ c \notin snapshots
    BY ONLY <1>p, <1>5, <1>i DEF DeadInv
  <2>2. blk[b].start \in Nat /\ blk[b].end \in Nat /\ cps \subseteq Nat
    BY <1>t, BlkRecords DEF IInv, Types, FsTypes
  <2>3. cps' = cps \ (periodv[p] \ snapshots)
    BY DEF CleanIoctl
  <2>4. ASSUME NEW c \in cps', Visible(b, c) PROVE FALSE
    <3>1. Kind[b] = "file" /\ c \in blk[b].start .. blk[b].end - 1
      BY ONLY <2>2, <2>3, <2>4 DEF Visible
    <3> QED  BY ONLY <2>1, <2>3, <2>4, <3>1
  <2> QED  BY <2>1, <2>4
<1>6. CASE b \notin vdescv[p] /\ b \notin vblocknrv[p] /\ blk[b].loc \in Kept(p)
  <2>1. Kind[b] = "dat" /\ Ended(b)
    BY ONLY <1>p, <1>6, <1>k, <1>i DEF FoundInv, Working
  <2> QED  BY <2>1 DEF Visible
<1> QED  BY <1>3, <1>4, <1>5, <1>6

\* No step loses a block in use or seen by a checkpoint.
LEMMA NextNothingNeededLost == IInv /\ [Next]_vars => NothingNeededLost'
<1> SUFFICES ASSUME IInv, [Next]_vars PROVE NothingNeededLost'
  OBVIOUS
<1>t. /\ \A b \in Blocks : blk[b].start \in Nat /\ blk[b].end \in Nat
      /\ cno \in Nat /\ cps \subseteq Nat
  BY BlkRecords DEF IInv, Types, FsTypes
<1>n. NothingNeededLost /\ BlockInv
  BY DEF IInv
<1>1. CASE FsStep
  <2>1. ASSUME NEW b \in Blocks, Stored(b), blk'[b].loc = blk[b].loc PROVE Stored(b)'
    BY <1>1, <2>1 DEF Stored, FsStep, SegStep
  <2>2. ASSUME NEW b \in Blocks, blk'[b].loc \in Segs, seg[blk'[b].loc].st = "active"
        PROVE  Stored(b)'
    BY <1>1, <2>2 DEF Stored, FsStep, SegStep
  <2>3. ASSUME NEW b \in Blocks PROVE Stored(b)' \/ (blk'[b] = blk[b] /\ b \notin Current)
    <3>1. BlkStep
      BY <1>1 DEF FsStep
    <3>2. b \in Current => Stored(b)
      BY <1>n DEF NothingNeededLost, CurrentDataKept
    <3> QED  BY ONLY <2>1, <2>2, <3>1, <3>2 DEF BlkStep, Current
  <2>4. CurrentDataKept'
    BY <2>3 DEF CurrentDataKept, Current
  <2>5. ASSUME NEW b \in Blocks, NEW c \in cps', Visible(b, c)', ~Stored(b)' PROVE FALSE
    <3>1. blk'[b] = blk[b] /\ blk[b].end # CNO_MAX
      BY <2>3, <2>5 DEF Current
    <3>2. Visible(b, c)
      BY <2>5, <3>1 DEF Visible
    <3>3. c \in cps \/ c = cno
      BY <1>1 DEF FsStep
    <3>4. c \in cps
      BY <1>n, <1>t, <3>1, <3>2, <3>3 DEF Visible, BlockInv
    <3>5. Stored(b)
      BY <1>n, <3>2, <3>4 DEF NothingNeededLost, CheckpointsReadable
    <3> QED  BY <2>1, <2>5, <3>1, <3>5
  <2> QED  BY <2>4, <2>5 DEF NothingNeededLost, CheckpointsReadable
<1>2. ASSUME NEW p \in Cleaners, CleanSegments(p), CleanIoctl(p) PROVE NothingNeededLost'
  <2>1. \A b \in Blocks : blk'[b].start = blk[b].start /\ blk'[b].end = blk[b].end
    BY <1>2, IoctlKeeps DEF IInv
  <2>2. CurrentDataKept'
    <3>1. SUFFICES ASSUME NEW b \in Blocks, blk'[b].end = CNO_MAX PROVE Stored(b)'
      BY DEF CurrentDataKept, Current
    <3>2. b \in Current /\ ~Ended(b)
      BY <2>1, <3>1 DEF Current, Ended
    <3> QED  BY <1>n, <1>2, <3>2, IoctlBlocks DEF NothingNeededLost, CurrentDataKept
  <2>3. CheckpointsReadable'
    <3>1. SUFFICES ASSUME NEW c \in cps', NEW b \in Blocks, Visible(b, c)' PROVE Stored(b)'
      BY DEF CheckpointsReadable
    <3>2. Visible(b, c) /\ c \in cps
      BY <1>2, <2>1, <3>1 DEF Visible, CleanIoctl
    <3> QED  BY <1>n, <1>2, <3>2, IoctlBlocks DEF NothingNeededLost, CheckpointsReadable
  <2> QED  BY <2>2, <2>3 DEF NothingNeededLost
<1> QED  BY <1>1, <1>2, FsSteps DEF IInv

-----------------------------------------------------------------------------
(***************************************************************************)
(* The invariant, and what follows from it.                                *)
(***************************************************************************)
\* A file system as a mount finds it, with nobody at work on it.
LEMMA InitIInv == Init => IInv
<1> SUFFICES ASSUME Init PROVE IInv
  OBVIOUS
<1> USE NumbersAssumption DEF Init
<1>1. FsTypes /\ SeqInv /\ BlockInv /\ NothingNeededLost
  <2>1. PICK a \in {CHOOSE s \in Segs : TRUE},
             st \in [Segs -> {"clean", "dirty", "scrapped", "error"}] :
          /\ seg = [s \in Segs |-> [st |-> IF s = a THEN "active" ELSE st[s],
                                    seq |-> InitSeq + (IF s = a THEN 1 ELSE 0)]]
          /\ \E l \in [InitBlocks -> {s \in Segs : seg[s].st \in {"dirty", "active"}}] :
                blk = [b \in Blocks |->
                         IF b \in InitBlocks
                         THEN [start |-> 1, end |-> CNO_MAX, loc |-> l[b]]
                         ELSE Unused]
    BY Zenon
  <2>2. PICK l \in [InitBlocks -> {s \in Segs : seg[s].st \in {"dirty", "active"}}] :
             blk = [b \in Blocks |->
                      IF b \in InitBlocks
                      THEN [start |-> 1, end |-> CNO_MAX, loc |-> l[b]]
                      ELSE Unused]
    BY <2>1
  <2>3. ASSUME NEW s \in Segs
        PROVE  seg[s] \in SegRecord /\ InitSeq <= seg[s].seq /\ seg[s].seq <= MaxSeq
    <3>1. /\ seg[s] = [st |-> IF s = a THEN "active" ELSE st[s],
                       seq |-> InitSeq + (IF s = a THEN 1 ELSE 0)]
          /\ st[s] \in SegState
      BY <2>1 DEF SegState
    <3>2. InitSeq + (IF s = a THEN 1 ELSE 0) \in InitSeq .. MaxSeq
      BY SeqAssumption
    <3> QED  BY <3>1, <3>2 DEF SegRecord, SegState
  <2>4. ASSUME NEW b \in Blocks
        PROVE  /\ blk[b] \in BlkRecord
               /\ \/ /\ blk[b].start = 1 /\ blk[b].end = CNO_MAX /\ Stored(b)
                  \/ blk[b] = Unused
    <3>1. CASE b \in InitBlocks
      <4>1. /\ blk[b] = [start |-> 1, end |-> CNO_MAX, loc |-> l[b]]
            /\ l[b] \in Segs /\ seg[l[b]].st # "clean"
        BY <2>2, <3>1
      <4> QED  BY ONLY <4>1, NumbersAssumption DEF BlkRecord, Stored
    <3>2. CASE b \notin InitBlocks
      <4>1. blk[b] = Unused
        BY <2>2, <3>2
      <4> QED  BY ONLY <4>1 DEF BlkRecord, Unused
    <3> QED  BY <3>1, <3>2
  <2>5. /\ Unused.start = 0 /\ Unused.end = 0 /\ Unused.loc = "unused"
        /\ "unused" \notin Segs /\ CNO_MAX # 0
    BY SegsAssumption DEF Unused
  <2>6. FsTypes
    <3>1. seg \in [Segs -> SegRecord]
      BY ONLY <2>1, <2>3
    <3>2. blk \in [Blocks -> BlkRecord]
      BY ONLY <2>2, <2>4
    <3>3. cno \in Nat /\ cps \subseteq Nat /\ snapshots \subseteq Nat /\ cursor \in Nat
      OBVIOUS
    <3> QED  BY ONLY <3>1, <3>2, <3>3 DEF FsTypes
  <2>7. SeqInv
    <3>1. \A p \in Cleaners : ~Calling(p)
      BY DEF Calling, Procs
    <3>2. InitSeq <= cursor /\ cursor <= MaxSeq
      BY SeqAssumption
    <3> QED  BY ONLY <2>3, <3>1, <3>2 DEF SeqInv
  <2>8. BlockInv
    BY <2>4, <2>5 DEF BlockInv
  <2>9. NothingNeededLost
    BY <2>4, <2>5 DEF NothingNeededLost, CurrentDataKept, CheckpointsReadable, Current, Visible
  <2> QED  BY <2>6, <2>7, <2>8, <2>9
<1>2. ProcTypes
  BY DEF ProcTypes, Places, NoTarget, TargetRecord
<1>3. ArrayTypes
  BY DEF ArrayTypes, Quiet, ArgRecord, NoStat, StatRecord
<1>4. FoundTypes
  BY DEF FoundTypes
<1>5. LockInv
  BY DEF LockInv, InCritical
<1>6. ASSUME NEW p \in Cleaners PROVE ArrayInv(p) /\ CallInv(p)
  <2>1. p \in Procs /\ pc[p] = "idle" /\ done[p] = {} /\ vdescv[p] = {}
    BY DEF Procs
  <2> QED  BY ONLY <2>1 DEF ArrayInv, CallInv, AcceptedInv, FoundInv, EndsInv, DeadInv,
              Calling, Working
<1> QED  BY <1>1, <1>2, <1>3, <1>4, <1>5, <1>6 DEF IInv, Types

\* IInv is an invariant.
THEOREM ReclaimInductive == Spec => []IInv
<1>1. IInv /\ [Next]_vars => IInv'
  BY NextTypes, NextLockInv, NextSeqInv, NextBlockInv, NextArrayInv, NextCallInv,
     NextNothingNeededLost DEF IInv
<1> QED  BY <1>1, InitIInv, PTL DEF Spec

\* nilfs_acc_blocks(), nilfs_deselect_segment(): the segments a call has
\* accepted stay reclaimable until it returns, and the array of its caller is
\* only reordered, with the segments disposed of in front.
THEOREM SegnumsStaySound == Spec => []SegnumsSound
<1>1. IInv => SegnumsSound
  <2> SUFFICES ASSUME IInv PROVE SegnumsSound
    OBVIOUS
  <2>1. TypeOK
    BY TypesImplyTypeOK DEF IInv
  <2>2. KeptStaysReclaimable
    <3> SUFFICES ASSUME NEW p \in Cleaners, pc[p] \in Working,
                        NEW x \in 1 .. (i[p] - 1), x <= n[p]
                 PROVE  nilfs_suinfo_reclaimable(segnums[p][x])
      BY DEF KeptStaysReclaimable, Working
    <3>1. segnums[p][x] \in Accepted(p)
      BY DEF Accepted
    <3> QED  BY <3>1 DEF IInv, CallInv, AcceptedInv
  <2>3. SegnumsReordered
    <3> SUFFICES ASSUME NEW p \in Cleaners, Calling(p)
                 PROVE  /\ Elems(segnums[p]) = Elems(args[p].segs)
                        /\ done[p] # {} => done[p] = Firsts(segnums[p],
                                                         stat[p].cleaned + stat[p].deferred)
      BY DEF SegnumsReordered, Calling, Elems, Firsts
    <3>1. ArrayInv(p)
      BY DEF IInv
    <3> QED  BY ONLY <3>1, Calling(p) DEF ArrayInv, Calling
  <2> QED  BY <2>1, <2>2, <2>3 DEF SegnumsSound
<1> QED  BY <1>1, ReclaimInductive, PTL

\* nilfs_lock_cleaner(), nilfs_unlock_cleaner(): without SIGKILL the semaphore
\* and the process in the critical section always make up one: no signal and no
\* failure path leaves the lock behind or posts it twice.
THEOREM LockIsNotLeaked == Spec => []LockNotLeaked
<1>1. IInv => LockNotLeaked
  <2> SUFFICES ASSUME IInv, "kill" \notin Faults
               PROVE  sem + Cardinality({p \in Procs : InCritical(p)}) = 1
    BY DEF LockNotLeaked
  <2> DEFINE C == {p \in Procs : InCritical(p)}
  <2>1. CASE \A p \in Procs : ~InCritical(p)
    <3>1. C = {}
      BY <2>1
    <3>2. Cardinality(C) = 0
      BY <3>1, FS_EmptySet
    <3>3. sem = 1
      BY <2>1 DEF IInv, LockInv, Types, ProcTypes
    <3> QED  BY <3>2, <3>3
  <2>2. ASSUME NEW p \in Procs, InCritical(p) PROVE sem + Cardinality(C) = 1
    <3>1. C = {p}
      BY <2>2 DEF IInv, LockInv
    <3>2. Cardinality(C) = 1
      BY <3>1, FS_Singleton
    <3>3. sem = 0
      BY <2>2 DEF IInv, LockInv
    <3> QED  BY <3>2, <3>3
  <2> QED  BY <2>1, <2>2
<1> QED  BY <1>1, ReclaimInductive, PTL

\* nilfs_clean_segments(): whatever cleaners, tools, users and signals do, no
\* block in use and no block that a listed checkpoint sees is ever lost.
THEOREM NothingNeededIsLost == Spec => []NothingNeededLost
<1>1. IInv => NothingNeededLost
  BY DEF IInv
<1> QED  BY <1>1, ReclaimInductive, PTL

\* Cleaned segments are older than the cursor of the last super block: those
\* that recovery reads after a crash are not among them.
THEOREM RecoveryLogIsKept == Spec => RecoveryLogKept
<1> DEFINE A == \A s \in Segs : seg[s].st \in {"dirty", "active"} /\ seg'[s].st = "clean" =>
                    seg[s].seq < cursor
<1>1. IInv /\ [Next]_vars => [A]_vars
  <2> SUFFICES ASSUME IInv, [Next]_vars PROVE A
    OBVIOUS
  <2>1. CASE FsStep
    BY <2>1 DEF FsStep, SegStep
  <2>2. ASSUME NEW p \in Cleaners, CleanSegments(p), CleanIoctl(p) PROVE A
    <3> SUFFICES ASSUME NEW s \in Segs, seg[s].st \in {"dirty", "active"}, seg'[s].st = "clean"
                 PROVE  seg[s].seq < cursor
      OBVIOUS
    <3>p. p \in Procs /\ pc[p] = "clean"
      BY <2>2 DEF Procs, CleanSegments
    <3>1. s \in Kept(p)
      BY <2>2 DEF CleanIoctl
    <3>2. s \in Accepted(p)
      BY <3>p, <3>1, KeptAccepted
    <3>3. seg[s].seq < args[p].protseq
      BY <3>p, <3>2 DEF IInv, CallInv, AcceptedInv, Working
    <3>4. args[p].protseq <= cursor
      BY <3>p DEF IInv, SeqInv, Calling
    <3>5. seg[s].seq \in Nat /\ args[p].protseq \in Nat /\ cursor \in Nat
      BY <3>p, SegRecords, ArgRecords DEF IInv, Types, FsTypes, ArrayTypes
    <3> QED  BY ONLY <3>3, <3>4, <3>5
  <2> QED  BY <2>1, <2>2, FsSteps DEF IInv
<1> QED  BY <1>1, ReclaimInductive, PTL DEF RecoveryLogKept, Spec

\* nilfs_toss_vdescs(), nilfs_unify_period(): a reclamation deletes no
\* checkpoint from the first protected one on.
THEOREM ProtectedCheckpointsAreKept == Spec => ProtectedCheckpointsKept
<1> DEFINE A == \A p \in Cleaners : pc[p] = "clean" /\ pc'[p] = "unlock" =>
                    \A c \in cps \ cps' : c < args[p].protcno
<1>1. IInv /\ [Next]_vars => [A]_vars
  <2> SUFFICES ASSUME IInv, [Next]_vars, NEW p \in Cleaners, pc[p] = "clean", pc'[p] = "unlock"
               PROVE  \A c \in cps \ cps' : c < args[p].protcno
    OBVIOUS
  <2>p. p \in Procs
    BY DEF Procs
  <2>d. DOMAIN pc = Procs
    BY DEF IInv, Types, ProcTypes
  <2>1. CleanSegments(p)
    <3>1. ~Same(p) /\ ~Dies(p)
      BY <2>p, <2>d DEF Same, Dies
    <3>2. Call(p) \/ Cleaner(p)
      BY <3>1, OthersSame DEF IInv
    <3> QED  BY <3>2 DEF Call, Cleaner, Lock, LockFails, AccBlocks, AccBlocksDone, GetVdesc,
                TossVdescs, TossBdescs, Interrupted, Committed, Defer, Unlock
  <2>2. CASE CleanIoctl(p)
    BY <2>2 DEF CleanIoctl, IInv, CallInv, DeadInv
  <2>3. CASE cps' = cps
    BY <2>3
  <2> QED  BY <2>1, <2>2, <2>3 DEF CleanSegments
<1> QED  BY <1>1, ReclaimInductive, PTL DEF ProtectedCheckpointsKept, Spec
=============================================================================
