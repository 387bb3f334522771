---------------------------- MODULE ResizeProofs ----------------------------
(***************************************************************************)
(* The on-line shrink is safe for every number of segments, every ratio of *)
(* reserved ones, and whatever fails or is done by others meanwhile.       *)
(***************************************************************************)
EXTENDS Resize, NatSets, FiniteSetTheorems, TLAPS

\* The log writer holds two segments, which are the active ones.
GoodFs(f) ==
    /\ f.seg \in [Segs -> SegState] /\ f.log \in Segs \X Segs
    /\ f.log[1] # f.log[2]
    /\ \A s \in Segs : f.seg[s] = "active" <=> s \in {f.log[1], f.log[2]}

FsInv == GoodFs(Fs(seg, log))

Numbers ==
    /\ nsegs \in 0..N /\ alloc \in 0..N /\ newnsegs \in 0..N
    /\ unprot \subseteq Segs

Loops ==
    /\ pc \in Final \cup {"check", "limit", "range", "evict", "sweep", "lock",
                          "truncate", "restore", "move", "search", "cursor", "prod"}
    /\ retry \in 0..4 /\ retrycnt \in 0..6 /\ segnum \in 0..N

MoveTypes ==
    /\ caller \in {"none", "evict", "sweep"}
    /\ nfound \in 0..NSegNums /\ found \subseteq Segs /\ nmoved \in 0..N
    /\ reason \in BOOLEAN

NibbleTypes ==
    /\ count \in 0..2 /\ unprotect \in BOOLEAN /\ front \in BOOLEAN /\ cursor \in 0..N + 1
    /\ log_cursor_updated \in BOOLEAN /\ prodded \in BOOLEAN

\* Nothing is cut off before the end, the allocation is limited only after the
\* free space was checked, and attempts are left.
Progress ==
    /\ pc # "done" => nsegs = N
    /\ pc \in {"check", "limit", "aborted"} => alloc = N
    /\ pc \notin {"check", "aborted", "killed"} => newnsegs > 0
    /\ pc # "gaveup" => retry < 4

\* No more segments are moved than were asked for.
MoveInv ==
    /\ pc \in {"search", "cursor", "prod"} => caller # "none"
    /\ pc \in {"check", "limit", "range", "evict", "sweep", "lock", "truncate"} =>
          caller = "none" /\ nmoved = 0
    /\ nmoved + Cardinality(found) <= N
    /\ caller # "none" => nmoved + Cardinality(found) <= count

\* The inductive invariant.
IInv == FsInv /\ Numbers /\ Loops /\ MoveTypes /\ NibbleTypes /\ Progress /\ MoveInv

-----------------------------------------------------------------------------
(***************************************************************************)
(* Sets of segments.                                                       *)
(***************************************************************************)
\* A nonempty set of segments has a greatest element.
LEMMA HasGreatestSegment ==
    ASSUME NEW S \in SUBSET Segs, S # {}
    PROVE  \E g \in S : \A t \in S : t <= g
<1>1. N \in Nat /\ S \in SUBSET (0..N)
  BY NAssumption DEF Segs
<1> QED  BY <1>1, HasGreatest

\* The greatest segment of a set is one of the set.
LEMMA GreatestIsIn ==
    ASSUME NEW S \in SUBSET Segs, S # {} PROVE Greatest(S) \in S
BY HasGreatestSegment DEF Greatest

\* Sets of segments are finite, with at most N elements.
LEMMA SegSets ==
    ASSUME NEW S \in SUBSET Segs
    PROVE  IsFiniteSet(S) /\ Cardinality(S) \in Nat /\ Cardinality(S) <= N
<1>1. N - 1 \in Int /\ 0 \in Int /\ ~(0 > N - 1) /\ N - 1 - 0 + 1 = N
  BY NAssumption
<1>2. IsFiniteSet(Segs) /\ Cardinality(Segs) = N
  BY <1>1, FS_Interval DEF Segs
<1> QED  BY <1>2, FS_Subset, FS_CardinalityType

\* The n lowest segments of a set are at most n segments of the set: the ones
\* below the greatest of them are less than n.
LEMMA LowestOf ==
    ASSUME NEW S \in SUBSET Segs, NEW n \in Nat
    PROVE  Lowest(S, n) \subseteq S /\ Cardinality(Lowest(S, n)) <= n
<1> DEFINE L == Lowest(S, n)
<1>1. L \in SUBSET S /\ L \in SUBSET Segs
  BY DEF Lowest
<1>2. CASE L = {}
  BY <1>1, <1>2, FS_EmptySet
<1>3. CASE L # {}
  <2>1. PICK g \in L : \A t \in L : t <= g
    BY <1>1, <1>3, HasGreatestSegment
  <2> DEFINE B == {t \in S : t < g}
  <2>2. g \in S /\ Cardinality(B) < n
    BY <2>1 DEF Lowest
  <2> HIDE DEF L
  <2>3. L \ {g} \in SUBSET B /\ B \in SUBSET Segs
    <3>1. \A t \in L : t \in Int /\ g \in Int
      BY <1>1, <2>1 DEF Segs
    <3>2. ASSUME NEW t \in L \ {g} PROVE t < g
      BY <2>1, <3>1, <3>2
    <3> QED  BY <1>1, <3>2
  <2> HIDE DEF B
  <2>4. Cardinality(L \ {g}) <= Cardinality(B)
    BY <2>3, SegSets, FS_Subset
  <2>5. Cardinality(L \ {g}) = Cardinality(L) - 1
    BY <1>1, <2>1, SegSets, FS_RemoveElement
  <2>6. Cardinality(L) \in Nat /\ Cardinality(B) \in Nat
    BY <1>1, <2>3, SegSets
  <2>7. Cardinality(L) <= n
    BY ONLY <2>2, <2>4, <2>5, <2>6, n \in Nat
  <2> QED  BY <1>1, <2>7 DEF L
<1> QED  BY <1>2, <1>3

\* Taking some segments out of a set leaves the rest.
LEMMA Rest ==
    ASSUME NEW S \in SUBSET Segs, NEW C \in SUBSET S, NEW K \in SUBSET C
    PROVE  /\ Cardinality(K) \in Nat /\ Cardinality(S) \in Nat
           /\ Cardinality(S \ C) \in Nat
           /\ Cardinality(K) + Cardinality(S \ C) <= Cardinality(S)
<1>0. C \in SUBSET Segs /\ K \in SUBSET Segs /\ S \ C \in SUBSET Segs
  OBVIOUS
<1>1. Cardinality(S \ C) = Cardinality(S) - Cardinality(S \cap C)
  BY SegSets, FS_Difference
<1>2. S \cap C = C
  OBVIOUS
<1>3. Cardinality(K) <= Cardinality(C)
  BY <1>0, SegSets, FS_Subset
<1>4. /\ Cardinality(K) \in Nat /\ Cardinality(C) \in Nat /\ Cardinality(S) \in Nat
      /\ Cardinality(S \ C) \in Nat
  BY <1>0, SegSets
<1>5. Cardinality(S \ C) = Cardinality(S) - Cardinality(C)
  BY ONLY <1>1, <1>2
<1> QED  BY ONLY <1>3, <1>4, <1>5

-----------------------------------------------------------------------------
(***************************************************************************)
(* The file system.                                                        *)
(***************************************************************************)
\* The log goes on to clean segments, so the dirty ones stay dirty.
LEMMA AdvancedIsGood ==
    ASSUME NEW fs, GoodFs(fs), nsegs \in 0..N, NEW f \in Advanced(fs)
    PROVE  GoodFs(f) /\ \A s \in Segs : fs.seg[s] = "dirty" => f.seg[s] = "dirty"
<1>1. PICK s \in Allocatable(fs.seg) :
         f = Fs([fs.seg EXCEPT ![fs.log[1]] = "prot", ![s] = "active"], <<fs.log[2], s>>)
  BY DEF Advanced
<1>2. s \in Segs /\ fs.seg[s] = "clean"
  <2>1. \A x \in 0..nsegs - 1 : x \in Segs
    BY NAssumption DEF Segs
  <2> QED  BY <2>1 DEF Allocatable
<1>3. /\ f.seg = [fs.seg EXCEPT ![fs.log[1]] = "prot", ![s] = "active"]
      /\ f.log = <<fs.log[2], s>>
  BY <1>1 DEF Fs
<1>4. /\ fs.seg \in [Segs -> SegState] /\ fs.log[1] \in Segs /\ fs.log[2] \in Segs
      /\ fs.log[1] # fs.log[2]
      /\ \A x \in Segs : fs.seg[x] = "active" <=> x \in {fs.log[1], fs.log[2]}
  BY DEF GoodFs
<1>5. s # fs.log[1] /\ s # fs.log[2] /\ fs.seg[fs.log[1]] = "active"
  BY ONLY <1>2, <1>4
<1>6. /\ f.seg \in [Segs -> SegState] /\ f.log \in Segs \X Segs
      /\ f.log[1] = fs.log[2] /\ f.log[2] = s
  BY ONLY <1>2, <1>3, <1>4 DEF SegState
<1>7. \A x \in Segs : f.seg[x] = IF x = s THEN "active"
                                 ELSE IF x = fs.log[1] THEN "prot" ELSE fs.seg[x]
  BY ONLY <1>2, <1>3, <1>4
<1>8. \A x \in Segs : f.seg[x] = "active" <=> x \in {f.log[1], f.log[2]}
  BY ONLY <1>4, <1>5, <1>6, <1>7
<1>9. GoodFs(f)
  BY ONLY <1>5, <1>6, <1>8 DEF GoodFs
<1>10. \A x \in Segs : fs.seg[x] = "dirty" => f.seg[x] = "dirty"
  BY ONLY <1>2, <1>5, <1>7
<1> QED  BY <1>9, <1>10

\* ... also twice.
LEMMA Advanced2IsGood ==
    ASSUME NEW fs, GoodFs(fs), nsegs \in 0..N, NEW f \in Advanced2(fs)
    PROVE  GoodFs(f) /\ \A s \in Segs : fs.seg[s] = "dirty" => f.seg[s] = "dirty"
<1>1. PICK g \in Advanced(fs) : f \in Advanced(g)
  BY DEF Advanced2
<1>2. GoodFs(g) /\ \A s \in Segs : fs.seg[s] = "dirty" => g.seg[s] = "dirty"
  BY <1>1, AdvancedIsGood
<1>3. GoodFs(f) /\ \A s \in Segs : g.seg[s] = "dirty" => f.seg[s] = "dirty"
  BY <1>1, <1>2, AdvancedIsGood
<1> QED  BY <1>2, <1>3

\* Dirty segments that are set free are not the log writer's.
LEMMA ReclaimedIsGood ==
    ASSUME FsInv, nsegs \in 0..N, NEW K \in SUBSET {s \in Segs : seg[s] = "dirty"},
           NEW f \in Reclaimed(K)
    PROVE  GoodFs(f)
<1>0. Fs(seg, log).seg = seg /\ Fs(seg, log).log = log
  BY DEF Fs
<1>1. PICK g \in {Fs(seg, log)} \cup Advanced(Fs(seg, log)) \cup Advanced2(Fs(seg, log)) :
         f = Fs([s \in Segs |-> IF s \in K THEN "clean" ELSE g.seg[s]], g.log)
  BY DEF Reclaimed
<1>2. GoodFs(g) /\ \A s \in Segs : seg[s] = "dirty" => g.seg[s] = "dirty"
  <2>1. GoodFs(Fs(seg, log))
    BY DEF FsInv
  <2> QED  BY <1>0, <1>1, <2>1, AdvancedIsGood, Advanced2IsGood
<1>3. f.seg = [s \in Segs |-> IF s \in K THEN "clean" ELSE g.seg[s]] /\ f.log = g.log
  BY <1>1 DEF Fs
<1>4. \A s \in K : s \in Segs /\ g.seg[s] = "dirty"
  BY <1>2
<1>5. \A s \in Segs : f.seg[s] = "active" <=> g.seg[s] = "active"
  BY ONLY <1>3, <1>4
<1>6. f.seg \in [Segs -> SegState]
  BY ONLY <1>2, <1>3 DEF GoodFs, SegState
<1> QED  BY ONLY <1>2, <1>3, <1>5, <1>6 DEF GoodFs

\* So it is after the balloon file, and when the log cursor moves.
LEMMA BalloonedIsGood ==
    ASSUME FsInv, nsegs \in 0..N, NEW f \in Ballooned PROVE GoodFs(f)
<1>1. GoodFs(Fs(seg, log))
  BY DEF FsInv
<1>2. f \in {Fs(seg, log)} \cup Advanced(Fs(seg, log)) \cup Advanced2(Fs(seg, log))
  BY DEF Ballooned
<1> QED  BY <1>1, <1>2, AdvancedIsGood, Advanced2IsGood

\* The file system a step leads to.
LEMMA BecomesGood ==
    ASSUME NEW f, GoodFs(f), FsBecomes(f) PROVE FsInv'
BY DEF FsBecomes, FsInv, GoodFs, Fs

\* Moving the log cursor makes protected segments dirty and no other change.
LEMMA InactiveIsGood ==
    ASSUME FsInv, seg' = Inactive(seg), log' = log PROVE FsInv'
<1>1. /\ seg \in [Segs -> SegState] /\ log \in Segs \X Segs /\ log[1] # log[2]
      /\ \A s \in Segs : seg[s] = "active" <=> s \in {log[1], log[2]}
  BY DEF FsInv, GoodFs, Fs
<1>2. \A s \in Segs : seg'[s] = IF seg[s] = "prot" THEN "dirty" ELSE seg[s]
  BY DEF Inactive
<1>3. seg' \in [Segs -> SegState]
  BY <1>1 DEF Inactive, SegState
<1>4. \A s \in Segs : seg'[s] = "active" <=> seg[s] = "active"
  BY ONLY <1>2
<1>5. GoodFs(Fs(seg', log'))
  BY ONLY <1>1, <1>3, <1>4, log' = log DEF GoodFs, Fs
<1> QED  BY <1>5 DEF FsInv, GoodFs, Fs

\* There are at most two active segments, and not all segments are clean.
LEMMA ActiveAreFew ==
    ASSUME FsInv, Numbers
    PROVE  /\ Cardinality(Active) \in 0..2
           /\ NClean(seg) \in Nat /\ NClean(seg) < N
<1>1. /\ log[1] \in Segs /\ log[2] \in Segs
      /\ \A s \in Segs : seg[s] = "active" <=> s \in {log[1], log[2]}
  BY DEF FsInv, GoodFs, Fs
<1>r. \A s \in 0..nsegs - 1 : s \in Segs
  BY NAssumption DEF Segs, Numbers
<1>2. Active \in SUBSET {log[1], log[2]} /\ Active \in SUBSET Segs
  <2>1. \A s \in Trunc : s \in Segs
    BY <1>r DEF Trunc, Numbers
  <2> QED  BY <1>1, <2>1 DEF Active
<1>3. Cardinality(Active) <= 2 /\ Cardinality(Active) \in Nat
  <2>1. IsFiniteSet({log[1]}) /\ Cardinality({log[1]}) = 1
    BY FS_Singleton
  <2>2. {log[1]} \cup {log[2]} = {log[1], log[2]}
    OBVIOUS
  <2>3. IsFiniteSet({log[1], log[2]}) /\ Cardinality({log[1], log[2]}) \in {1, 2}
    BY <2>1, <2>2, FS_AddElement
  <2>4. Cardinality(Active) <= Cardinality({log[1], log[2]})
    BY <1>2, <2>3, FS_Subset
  <2>5. Cardinality(Active) \in Nat
    BY <1>2, SegSets
  <2> QED  BY ONLY <2>3, <2>4, <2>5
<1> DEFINE C == {s \in 0..nsegs - 1 : seg[s] = "clean"}
<1>4. C \in SUBSET (Segs \ {log[1]})
  BY <1>1, <1>r
<1> HIDE DEF C
<1>5. IsFiniteSet(Segs) /\ Cardinality(Segs) \in Nat /\ Cardinality(Segs) <= N
  BY SegSets
<1>6. /\ IsFiniteSet(Segs \ {log[1]})
      /\ Cardinality(Segs \ {log[1]}) = Cardinality(Segs) - 1
  BY <1>1, <1>5, FS_RemoveElement
<1>7. Cardinality(C) <= Cardinality(Segs \ {log[1]})
  BY <1>4, <1>6, FS_Subset
<1>8. Cardinality(C) \in Nat
  BY <1>4, SegSets
<1>9. Cardinality(C) < N
  BY ONLY <1>5, <1>6, <1>7, <1>8, NAssumption
<1> QED  BY <1>3, <1>8, <1>9 DEF NClean, C

-----------------------------------------------------------------------------
(***************************************************************************)
(* The steps.                                                              *)
(***************************************************************************)
\* What the statistics show is a set of segments.
LEMMA Statistics == \A sg : Unprotected(sg) \subseteq Segs
BY DEF Unprotected

\* The file system stays as it is.
LEMMA SameFs == ASSUME FsInv, UNCHANGED <<seg, log>> PROVE FsInv'
BY DEF FsInv, GoodFs, Fs

\* The number of segments is refused unless some remain.
LEMMA RoomChecked ==
    ASSUME FsInv, Numbers, Loops, Progress, pc # "done", check_free_space
    PROVE  newnsegs > 0
<1>1. NClean(seg) \in Nat /\ NClean(seg) < N /\ nsegs = N /\ newnsegs \in 0..N
  BY ActiveAreFew DEF Progress, Numbers
<1>2. ASSUME newnsegs = 0 PROVE FALSE
  <2>1. 0 * RsvRatio = 0
    BY ParametersAssumption
  <2>2. (0 * RsvRatio + 99) \div 100 = 0
    BY ONLY <2>1
  <2>3. calc_nrsvsegs(newnsegs) = NILFS_MIN_NRSVSEGS
    BY <1>2, <2>2, ParametersAssumption DEF calc_nrsvsegs, Max2
  <2>4. NClean(seg) >= N - 0 + NILFS_MIN_NRSVSEGS
    BY <1>1, <1>2, <2>3 DEF check_free_space
  <2> QED  BY ONLY <1>1, <2>4, ParametersAssumption, NAssumption
<1> QED  BY ONLY <1>1, <1>2, NAssumption

\* The steps of nilfs_shrink_online() itself.
LEMMA ShrinkSteps ==
    ASSUME IInv,
           \/ Check \/ LimitAllocation \/ ReclaimRange \/ Lock \/ Truncate
           \/ RestoreAllocRange \/ Interrupted
    PROVE  IInv'
<1> USE DEF IInv
<1>1. UNCHANGED <<seg, log, caller, nfound, found, nmoved, reason, count, unprotect, front,
                  cursor, log_cursor_updated, prodded, newnsegs, retrycnt, segnum>>
  BY DEF Check, LimitAllocation, ReclaimRange, Lock, Truncate, RestoreAllocRange, Interrupted,
         fsVars, moveVars, nibbleVars
<1>2. FsInv' /\ MoveTypes' /\ NibbleTypes'
  BY <1>1, SameFs DEF MoveTypes, NibbleTypes
<1>t. /\ N \in Nat /\ newnsegs \in 0..N /\ nsegs \in 0..N /\ alloc \in 0..N
      /\ retry \in 0..4 /\ retrycnt \in 0..6 /\ segnum \in 0..N /\ unprot \subseteq Segs
      /\ Unprotected(seg) \subseteq Segs
  BY NAssumption, Statistics DEF Numbers, Loops
<1>m. MoveInv
  OBVIOUS
<1>p. Progress
  OBVIOUS
<1>3. CASE Check
  <2>1. /\ pc = "check" /\ pc' \in {"limit", "aborted"} /\ (pc' = "limit" => check_free_space)
        /\ UNCHANGED <<nsegs, alloc, retry>> /\ unprot' = Unprotected(seg)
    BY <1>3 DEF Check, fsVars, update_sustat
  <2>2. pc' = "limit" => newnsegs > 0
    BY <2>1, RoomChecked
  <2>3. Numbers' /\ Loops'
    BY ONLY <1>1, <1>t, <2>1 DEF Numbers, Loops, Final
  <2>4. Progress' /\ MoveInv'
    BY ONLY <1>1, <1>m, <1>p, <2>1, <2>2 DEF Progress, MoveInv
  <2> QED  BY <1>2, <2>3, <2>4
<1>4. CASE LimitAllocation
  <2>1. /\ pc = "limit" /\ UNCHANGED <<nsegs, retry, unprot>>
        /\ \/ pc' = "range" /\ alloc' = newnsegs
           \/ pc' = "aborted" /\ alloc' = alloc
    BY <1>4 DEF LimitAllocation
  <2>3. Numbers' /\ Loops'
    BY ONLY <1>1, <1>t, <2>1 DEF Numbers, Loops, Final
  <2>4. Progress' /\ MoveInv'
    BY ONLY <1>1, <1>m, <1>p, <2>1 DEF Progress, MoveInv
  <2> QED  BY <1>2, <2>3, <2>4
<1>5. CASE ReclaimRange
  <2>1. /\ pc = "range" /\ UNCHANGED <<nsegs, alloc, retry>> /\ unprot' = Unprotected(seg)
        /\ pc' \in {"lock", "evict"}
    BY <1>5 DEF ReclaimRange, fsVars, update_sustat
  <2>3. Numbers' /\ Loops'
    BY ONLY <1>1, <1>t, <2>1 DEF Numbers, Loops, Final
  <2>4. Progress' /\ MoveInv'
    BY ONLY <1>1, <1>m, <1>p, <2>1 DEF Progress, MoveInv
  <2> QED  BY <1>2, <2>3, <2>4
<1>6. CASE Lock
  <2>1. /\ pc = "lock" /\ UNCHANGED <<nsegs, alloc, retry, unprot>>
        /\ pc' \in {"truncate", "restore"}
    BY <1>6 DEF Lock, fsVars
  <2>3. Numbers' /\ Loops'
    BY ONLY <1>1, <1>t, <2>1 DEF Numbers, Loops, Final
  <2>4. Progress' /\ MoveInv'
    BY ONLY <1>1, <1>m, <1>p, <2>1 DEF Progress, MoveInv
  <2> QED  BY <1>2, <2>3, <2>4
<1>7. CASE Truncate
  <2>1. /\ pc = "truncate" /\ alloc' = alloc
        /\ unprot' \in {unprot, Unprotected(seg)}
        /\ \/ nsegs' = newnsegs /\ pc' = "done" /\ retry' = retry
           \/ /\ nsegs' = nsegs /\ retry' = retry + 1
              /\ pc' = IF retry' < 4 THEN "range" ELSE "gaveup"
           \/ nsegs' = nsegs /\ retry' = retry /\ pc' = "restore"
    BY <1>7 DEF Truncate, update_sustat
  <2>2. retry < 4 /\ nsegs = N
    BY <1>p, <2>1 DEF Progress
  <2>3. Numbers' /\ Loops'
    BY ONLY <1>1, <1>t, <2>1, <2>2 DEF Numbers, Loops, Final
  <2>4. Progress' /\ MoveInv'
    BY ONLY <1>1, <1>m, <1>p, <2>1 DEF Progress, MoveInv
  <2> QED  BY <1>2, <2>3, <2>4
<1>8. CASE RestoreAllocRange
  <2>1. /\ pc = "restore" /\ UNCHANGED <<nsegs, retry>>
        /\ unprot' \in {unprot, Unprotected(seg)}
        /\ \/ pc' = "aborted" /\ alloc' = N
           \/ pc' = "unrestored" /\ alloc' = alloc
    BY <1>8 DEF RestoreAllocRange, update_sustat
  <2>3. Numbers' /\ Loops'
    BY ONLY <1>1, <1>t, <2>1 DEF Numbers, Loops, Final
  <2>4. Progress' /\ MoveInv'
    BY ONLY <1>1, <1>m, <1>p, <2>1 DEF Progress, MoveInv
  <2> QED  BY <1>2, <2>3, <2>4
<1>9. CASE Interrupted
  <2>1. /\ pc \notin Final /\ pc' = "killed" /\ UNCHANGED <<nsegs, alloc, retry, unprot>>
    BY <1>9 DEF Interrupted, fsVars
  <2>3. Numbers' /\ Loops'
    BY ONLY <1>1, <1>t, <2>1 DEF Numbers, Loops, Final
  <2>4. Progress' /\ MoveInv'
    BY ONLY <1>1, <1>m, <1>p, <2>1 DEF Progress, MoveInv, Final
  <2> QED  BY <1>2, <2>3, <2>4
<1> QED  BY <1>3, <1>4, <1>5, <1>6, <1>7, <1>8, <1>9

\* The steps of the others.
LEMMA OtherSteps ==
    ASSUME IInv, UserWrites \/ DaemonCleans \/ KernelUpdatesCursor PROVE IInv'
<1> USE DEF IInv
<1>1. UNCHANGED <<nsegs, alloc, newnsegs, pc, retry, retrycnt, segnum, caller, nfound, found,
                  nmoved, reason, count, unprotect, front, cursor, log_cursor_updated, prodded>>
  BY DEF UserWrites, DaemonCleans, KernelUpdatesCursor, toolVars, moveVars, nibbleVars
<1>2. Loops' /\ MoveTypes' /\ NibbleTypes' /\ Progress' /\ MoveInv'
  BY <1>1 DEF Loops, MoveTypes, NibbleTypes, Progress, MoveInv
<1>3. unprot' \subseteq unprot
  BY DEF UserWrites, DaemonCleans, KernelUpdatesCursor, Forget
<1>4. Numbers'
  BY <1>1, <1>3 DEF Numbers
<1>5. FsInv'
  <2>0. nsegs \in 0..N /\ GoodFs(Fs(seg, log))
    BY DEF Numbers, FsInv
  <2>1. CASE UserWrites
    <3>1. PICK f \in Advanced(Fs(seg, log)) : FsBecomes(f)
      BY <2>1 DEF UserWrites
    <3> QED  BY <2>0, <3>1, AdvancedIsGood, BecomesGood
  <2>2. CASE DaemonCleans
    <3>1. PICK s \in Segs : seg[s] = "dirty" /\ \E f \in Reclaimed({s}) : FsBecomes(f)
      BY <2>2 DEF DaemonCleans
    <3>2. PICK f \in Reclaimed({s}) : FsBecomes(f)
      BY <3>1
    <3>3. {s} \in SUBSET {x \in Segs : seg[x] = "dirty"}
      BY <3>1
    <3>4. GoodFs(f)
      BY <2>0, <3>2, <3>3, ReclaimedIsGood
    <3> QED  BY <3>2, <3>4, BecomesGood
  <2>3. CASE KernelUpdatesCursor
    BY <2>3, InactiveIsGood DEF KernelUpdatesCursor
  <2> QED  BY <2>1, <2>2, <2>3
<1> QED  BY <1>2, <1>4, <1>5

Inner == {"evict", "sweep", "lock", "restore", "move", "search", "cursor", "prod"}

\* Between the steps that change the allocation nothing is decided.
LEMMA ProgressKept ==
    ASSUME Progress, pc \in Inner \cup {"range"}, pc' \in Inner,
           UNCHANGED <<nsegs, newnsegs, retry>>
    PROVE  Progress'
BY DEF Progress, Inner

\* Nothing found and nothing moved is within all limits.
LEMMA NothingMoved ==
    ASSUME nmoved' = 0, found' = {}, count' \in 0..2,
           pc' \in {"search", "cursor", "prod"} => caller' # "none",
           pc' \in {"check", "limit", "range", "evict", "sweep", "lock", "truncate"} =>
              caller' = "none"
    PROVE  MoveInv'
<1>1. Cardinality(found') = 0
  BY FS_EmptySet
<1>2. nmoved' + Cardinality(found') = 0
  BY <1>1
<1>3. 0 <= N /\ 0 <= count'
  BY NAssumption
<1> QED  BY <1>2, <1>3 DEF MoveInv

\* nilfs_resize_reclaim_nibble() starts with nothing found and nothing moved.
LEMMA NibbleCalled ==
    ASSUME NEW n \in 0..2, NEW u \in BOOLEAN, NEW from \in {"evict", "sweep"}, Numbers,
           CallNibble(n, u, from)
    PROVE  MoveTypes' /\ NibbleTypes' /\ MoveInv' /\ pc' = "search"
<1>1. /\ pc' = "search" /\ caller' = from /\ count' = n /\ unprotect' = u /\ front' = FALSE
      /\ cursor' = newnsegs /\ log_cursor_updated' = FALSE /\ prodded' = FALSE
      /\ nfound' = 0 /\ found' = {} /\ nmoved' = 0 /\ reason' = FALSE
  BY DEF CallNibble
<1>2. newnsegs \in 0..N + 1 /\ 0 \in 0..N /\ 0 \in 0..NSegNums
  BY NAssumption, ParametersAssumption DEF Numbers
<1>3. MoveTypes'
  BY ONLY <1>1, <1>2, from \in {"evict", "sweep"} DEF MoveTypes
<1>4. NibbleTypes'
  BY ONLY <1>1, <1>2, n \in 0..2, u \in BOOLEAN DEF NibbleTypes
<1>5. MoveInv'
  BY <1>1, <1>2, NothingMoved
<1> QED  BY <1>1, <1>3, <1>4, <1>5

\* ... and leaves nothing behind.
LEMMA NibbleReturned ==
    ASSUME NEW ok \in BOOLEAN, NibbleReturns(ok)
    PROVE  MoveTypes' /\ NibbleTypes' /\ MoveInv' /\ pc' \in {"sweep", "evict", "restore"}
<1>1. /\ pc' \in {"sweep", "evict", "restore"} /\ caller' = "none" /\ count' = 0
      /\ unprotect' = FALSE /\ front' = FALSE
      /\ cursor' = 0 /\ log_cursor_updated' = FALSE /\ prodded' = FALSE
      /\ nfound' = 0 /\ found' = {} /\ nmoved' = 0 /\ reason' = FALSE
  BY DEF NibbleReturns, MoveEnds, NibbleEnds
<1>2. 0 \in 0..N + 1 /\ 0 \in 0..N /\ 0 \in 0..NSegNums /\ 0 \in 0..2
  BY NAssumption, ParametersAssumption
<1>3. MoveTypes'
  BY ONLY <1>1, <1>2 DEF MoveTypes
<1>4. NibbleTypes'
  BY ONLY <1>1, <1>2 DEF NibbleTypes
<1>5. MoveInv'
  BY <1>1, <1>2, NothingMoved
<1> QED  BY <1>1, <1>3, <1>4, <1>5

\* nilfs_resize_move_out_active_segments(): at most two segments are asked for.
LEMMA EvictStep == ASSUME IInv, Evict PROVE IInv'
<1> USE DEF IInv
<1>1. /\ pc = "evict" /\ UNCHANGED <<seg, log, nsegs, alloc, newnsegs, retry>>
      /\ unprot' = Unprotected(seg)
  BY DEF Evict, fsVars, update_sustat
<1>2. FsInv' /\ Numbers'
  <2>1. Numbers
    OBVIOUS
  <2> QED  BY <1>1, <2>1, SameFs, Statistics DEF Numbers
<1>3. retrycnt \in 0..6 /\ segnum \in 0..N /\ retry \in 0..4 /\ newnsegs \in 0..N
  BY DEF Loops, Numbers
<1>m. MoveTypes /\ NibbleTypes /\ MoveInv /\ Progress
  OBVIOUS
<1>4. CASE /\ pc' = "sweep" /\ segnum' = newnsegs /\ retrycnt' = 0
           /\ UNCHANGED <<moveVars, nibbleVars>>
  <2>1. Loops'
    BY ONLY <1>1, <1>3, <1>4 DEF Loops
  <2>2. Progress'
    BY <1>1, <1>4, <1>m, ProgressKept DEF Inner
  <2>3. MoveTypes' /\ NibbleTypes' /\ MoveInv'
    BY ONLY <1>1, <1>4, <1>m DEF moveVars, nibbleVars, MoveTypes, NibbleTypes, MoveInv
  <2> QED  BY <1>2, <2>1, <2>2, <2>3
<1>5. CASE pc' = "restore" /\ UNCHANGED <<retrycnt, segnum, moveVars, nibbleVars>>
  <2>1. Loops'
    BY ONLY <1>1, <1>3, <1>5 DEF Loops
  <2>2. Progress'
    BY <1>1, <1>5, <1>m, ProgressKept DEF Inner
  <2>3. MoveTypes' /\ NibbleTypes' /\ MoveInv'
    BY ONLY <1>1, <1>5, <1>m DEF moveVars, nibbleVars, MoveTypes, NibbleTypes, MoveInv
  <2> QED  BY <1>2, <2>1, <2>2, <2>3
<1>6. CASE /\ retrycnt < 6 /\ CallNibble(Cardinality(Active), FALSE, "evict")
           /\ retrycnt' = retrycnt + 1 /\ UNCHANGED segnum
  <2>1. Cardinality(Active) \in 0..2
    BY ActiveAreFew
  <2>2. MoveTypes' /\ NibbleTypes' /\ MoveInv' /\ pc' = "search"
    BY <1>6, <2>1, NibbleCalled
  <2>3. Loops'
    BY ONLY <1>1, <1>3, <1>6, <2>2 DEF Loops
  <2>4. Progress'
    BY <1>1, <1>m, <2>2, ProgressKept DEF Inner
  <2> QED  BY <1>2, <2>2, <2>3, <2>4
<1> QED  BY <1>4, <1>5, <1>6 DEF Evict

\* The table of the sweep holds what fits.
LEMMA SweepStep == ASSUME IInv, Sweep PROVE IInv'
<1> USE DEF IInv
<1> DEFINE R == Lowest({s \in Reclaimable \cap Trunc : s >= segnum}, NSegNums)
<1>1. /\ pc = "sweep" /\ UNCHANGED <<seg, log, nsegs, alloc, newnsegs, unprot, retry, retrycnt>>
      /\ UNCHANGED <<caller, nmoved, reason, nibbleVars>>
      /\ \/ R = {} /\ pc' = "lock" /\ segnum' = 0 /\ UNCHANGED <<found, nfound>>
         \/ /\ R # {} /\ pc' = "move" /\ found' = R /\ nfound' = Cardinality(R)
            /\ segnum' = Greatest(R) + 1
  BY DEF Sweep, fsVars
<1>2. R \subseteq Segs /\ Cardinality(R) <= NSegNums
  <2>1. {s \in Reclaimable \cap Trunc : s >= segnum} \in SUBSET Segs
    BY DEF Reclaimable
  <2> QED  BY <2>1, LowestOf, ParametersAssumption
<1>3. Cardinality(R) \in 0..NSegNums /\ Cardinality(R) <= N /\ Cardinality(R) \in Nat
  BY <1>2, SegSets, ParametersAssumption
<1>4. R # {} => Greatest(R) + 1 \in 0..N
  <2>1. R # {} => Greatest(R) \in Segs
    BY <1>2, GreatestIsIn
  <2>2. \A s \in Segs : s + 1 \in 0..N
    BY NAssumption DEF Segs
  <2> QED  BY ONLY <2>1, <2>2
<1> HIDE DEF R
<1>m. MoveTypes /\ NibbleTypes /\ MoveInv /\ Progress /\ Loops /\ Numbers
  OBVIOUS
<1>n. N \in Nat
  BY NAssumption
<1>5. FsInv' /\ Numbers'
  BY <1>1, <1>m, SameFs DEF Numbers
<1>6. Loops'
  BY ONLY <1>1, <1>4, <1>m, <1>n DEF Loops
<1>7. Progress'
  BY <1>1, <1>m, ProgressKept DEF Inner
<1>8. MoveTypes' /\ NibbleTypes'
  BY ONLY <1>1, <1>2, <1>3, <1>m DEF MoveTypes, NibbleTypes, nibbleVars
<1>9. MoveInv'
  <2>1. caller = "none" /\ nmoved = 0
    BY <1>1, <1>m DEF MoveInv
  <2>2. CASE R = {}
    BY ONLY <1>1, <1>m, <2>1, <2>2 DEF MoveInv
  <2>3. CASE R # {}
    <3>1. pc' = "move" /\ found' = R /\ caller' = "none" /\ nmoved' = 0
      BY ONLY <1>1, <2>1, <2>3
    <3>2. nmoved' + Cardinality(found') <= N
      BY ONLY <1>3, <3>1
    <3> QED  BY ONLY <3>1, <3>2 DEF MoveInv
  <2> QED  BY <2>2, <2>3
<1> QED  BY <1>5, <1>6, <1>7, <1>8, <1>9

\* What fails leads to the restoring of the allocation range, or out of the
\* nibble.
LEMMA FailingSteps == ASSUME IInv, ReadFails \/ MoveFails PROVE IInv'
<1> USE DEF IInv
<1>1. UNCHANGED <<seg, log, nsegs, alloc, newnsegs, unprot, retry, retrycnt, segnum>>
  BY DEF ReadFails, MoveFails, fsVars
<1>m. MoveTypes /\ NibbleTypes /\ MoveInv /\ Progress /\ Loops /\ Numbers
  OBVIOUS
<1>2. FsInv' /\ Numbers'
  BY <1>1, <1>m, SameFs DEF Numbers
<1>3. pc \in {"range", "evict", "sweep", "search", "move"}
  BY DEF ReadFails, MoveFails
<1>4. \/ pc' = "restore" /\ UNCHANGED <<moveVars, nibbleVars>>
      \/ pc' = "restore" /\ MoveEnds /\ UNCHANGED nibbleVars
      \/ NibbleReturns(FALSE)
  BY DEF ReadFails, MoveFails
<1>5. MoveTypes' /\ NibbleTypes' /\ MoveInv' /\ pc' \in {"sweep", "evict", "restore"}
  <2>1. CASE pc' = "restore" /\ UNCHANGED <<moveVars, nibbleVars>>
    BY ONLY <1>m, <2>1 DEF moveVars, nibbleVars, MoveTypes, NibbleTypes, MoveInv
  <2>2. CASE pc' = "restore" /\ MoveEnds /\ UNCHANGED nibbleVars
    <3>1. /\ caller' = "none" /\ nfound' = 0 /\ found' = {} /\ nmoved' = 0 /\ reason' = FALSE
      BY <2>2 DEF MoveEnds
    <3>2. 0 \in 0..N /\ 0 \in 0..NSegNums /\ N \in Nat
      BY NAssumption, ParametersAssumption
    <3>3. MoveTypes' /\ NibbleTypes'
      BY ONLY <1>m, <2>2, <3>1, <3>2 DEF nibbleVars, MoveTypes, NibbleTypes
    <3>4. count' \in 0..2
      BY <3>3 DEF NibbleTypes
    <3>5. MoveInv'
      BY <2>2, <3>1, <3>4, NothingMoved
    <3> QED  BY <2>2, <3>3, <3>5
  <2>3. CASE NibbleReturns(FALSE)
    BY <2>3, NibbleReturned
  <2> QED  BY <1>4, <2>1, <2>2, <2>3
<1>6. Progress'
  BY <1>1, <1>3, <1>5, <1>m, ProgressKept DEF Inner
<1>7. Loops'
  BY ONLY <1>1, <1>5, <1>m DEF Loops
<1> QED  BY <1>2, <1>5, <1>6, <1>7

\* A round of nilfs_resize_move_segments() moves segments out of those it was
\* given, and the ones left are fewer by at least as many.
LEMMA MoveStep == ASSUME IInv, Move PROVE IInv'
<1> USE DEF IInv
<1> DEFINE C == Lowest(found, PerClean)
           K == {s \in C : seg[s] = "dirty"}
           n == nmoved + Cardinality(K)
<1>0. PICK f \in Reclaimed(K), prot \in BOOLEAN :
         /\ pc = "move" /\ FsBecomes(f)
         /\ unprot' = {s \in Unprotected(seg) : f.seg[s] \in {"dirty", "clean"}}
         /\ IF found \ C # {}
            THEN /\ found' = found \ C /\ nmoved' = n /\ reason' = (reason \/ prot)
                 /\ UNCHANGED <<pc, caller, nfound, nibbleVars>>
            ELSE IF caller = "none" THEN SweepGoesOn(n, reason \/ prot)
            ELSE NibbleGoesOn(n)
         /\ UNCHANGED <<nsegs, alloc, newnsegs, retry, retrycnt, segnum>>
  BY DEF Move
<1>m. MoveTypes /\ NibbleTypes /\ MoveInv /\ Progress /\ Loops /\ Numbers
  OBVIOUS
<1>t. /\ caller \in {"none", "evict", "sweep"} /\ nfound \in 0..NSegNums
      /\ found \in SUBSET Segs /\ nmoved \in 0..N /\ reason \in BOOLEAN /\ count \in 0..2
      /\ nmoved + Cardinality(found) <= N
      /\ caller # "none" => nmoved + Cardinality(found) <= count
  BY <1>m DEF MoveTypes, NibbleTypes, MoveInv
<1>1. C \in SUBSET found /\ K \in SUBSET C
  BY <1>t, LowestOf, ParametersAssumption
<1>2. K \in SUBSET {s \in Segs : seg[s] = "dirty"}
  BY <1>1, <1>t
<1> HIDE DEF C, K
<1>3. /\ Cardinality(K) \in Nat /\ Cardinality(found) \in Nat /\ Cardinality(found \ C) \in Nat
      /\ Cardinality(K) + Cardinality(found \ C) <= Cardinality(found)
  BY <1>1, <1>t, Rest
<1>4. /\ n \in 0..N /\ n + Cardinality(found \ C) <= N
      /\ caller # "none" => n + Cardinality(found \ C) <= count /\ n <= count
  BY ONLY <1>3, <1>t, NAssumption
<1> HIDE DEF n
<1>5. FsInv'
  <2>1. GoodFs(f)
    BY <1>2, <1>m, ReclaimedIsGood DEF Numbers
  <2> QED  BY <1>0, <2>1, BecomesGood
<1>6. Numbers'
  BY <1>0, <1>m, Statistics DEF Numbers
<1>7. MoveTypes' /\ NibbleTypes' /\ MoveInv' /\ pc' \in Inner
  <2>1. CASE found \ C # {}
    <3>1. /\ found' = found \ C /\ nmoved' = n /\ reason' = (reason \/ prot)
          /\ UNCHANGED <<pc, caller, nfound, nibbleVars>> /\ pc = "move"
      BY <1>0, <2>1
    <3>2. reason' \in BOOLEAN /\ found \ C \subseteq Segs
      BY <1>t, <3>1
    <3>3. MoveTypes'
      BY ONLY <1>4, <1>t, <3>1, <3>2 DEF MoveTypes
    <3>4. NibbleTypes'
      BY ONLY <1>m, <3>1 DEF NibbleTypes, nibbleVars
    <3>5. MoveInv'
      BY ONLY <1>4, <3>1 DEF MoveInv, nibbleVars
    <3> QED  BY <3>1, <3>3, <3>4, <3>5 DEF Inner
  <2>2. CASE found \ C = {} /\ caller = "none"
    <3>0. SweepGoesOn(n, reason \/ prot)
      BY <1>0, <2>2
    <3>1. CASE CallNibble(2, TRUE, "sweep")
      <4>1. 2 \in 0..2 /\ TRUE \in BOOLEAN /\ "sweep" \in {"evict", "sweep"}
        OBVIOUS
      <4>2. MoveTypes' /\ NibbleTypes' /\ MoveInv' /\ pc' = "search"
        BY <1>m, <3>1, <4>1, NibbleCalled
      <4> QED  BY <4>2 DEF Inner
    <3>2. CASE pc' = "sweep" /\ MoveEnds /\ UNCHANGED nibbleVars
      <4>1. /\ caller' = "none" /\ nfound' = 0 /\ found' = {} /\ nmoved' = 0
            /\ reason' = FALSE
        BY <3>2 DEF MoveEnds
      <4>2. 0 \in 0..N /\ 0 \in 0..NSegNums
        BY NAssumption, ParametersAssumption
      <4>3. MoveTypes'
        BY ONLY <4>1, <4>2 DEF MoveTypes
      <4>4. NibbleTypes' /\ count' \in 0..2
        BY ONLY <1>m, <3>2 DEF nibbleVars, NibbleTypes
      <4>5. MoveInv'
        BY <3>2, <4>1, <4>4, NothingMoved
      <4> QED  BY <3>2, <4>3, <4>4, <4>5 DEF Inner
    <3> QED  BY <3>0, <3>1, <3>2 DEF SweepGoesOn
  <2>3. CASE found \ C = {} /\ caller # "none"
    <3>0. NibbleGoesOn(n)
      BY <1>0, <2>3
    <3>1. CASE NibbleReturns(TRUE)
      BY <3>1, NibbleReturned DEF Inner
    <3>2. CASE /\ pc' = IF n >= count THEN "cursor" ELSE "search"
               /\ nmoved' = n /\ found' = {} /\ UNCHANGED <<caller, nfound, reason, nibbleVars>>
      <4>1. MoveTypes'
        BY ONLY <1>4, <1>t, <3>2 DEF MoveTypes
      <4>2. NibbleTypes'
        BY ONLY <1>m, <3>2 DEF nibbleVars, NibbleTypes
      <4>3. nmoved' + Cardinality(found') = n
        <5>1. Cardinality(found') = 0
          BY <3>2, FS_EmptySet
        <5> QED  BY ONLY <1>4, <3>2, <5>1
      <4>4. n <= N
        BY ONLY <1>4, NAssumption
      <4>5. MoveInv'
        BY ONLY <1>4, <2>3, <3>2, <4>3, <4>4 DEF MoveInv, nibbleVars
      <4> QED  BY <3>2, <4>1, <4>2, <4>5 DEF Inner
    <3> QED  BY <3>0, <3>1, <3>2 DEF NibbleGoesOn
  <2> QED  BY <2>1, <2>2, <2>3
<1>8. Progress'
  BY <1>0, <1>7, <1>m, ProgressKept DEF Inner
<1>9. Loops'
  BY ONLY <1>0, <1>7, <1>m DEF Loops, Inner
<1> QED  BY <1>5, <1>6, <1>7, <1>8, <1>9

\* The search finds no more segments than are still to be moved.
LEMMA SearchStep == ASSUME IInv, Search PROVE IInv'
<1> USE DEF IInv
<1>0. PICK last \in IF front THEN {newnsegs - 1, newnsegs} ELSE {nsegs - 1} :
         LET W == Lowest({s \in Movable : s \in cursor..last}, Min2(count - nmoved, 2)) IN
          \/ /\ W # {}
             /\ found' = W /\ cursor' = Greatest(W) + 1
             /\ pc' = "move"
             /\ UNCHANGED <<caller, nfound, nmoved, reason, count, unprotect, front,
                            log_cursor_updated, prodded>>
          \/ /\ W = {} /\ ~front
             /\ front' = TRUE /\ cursor' = 0
             /\ UNCHANGED <<pc, moveVars, count, unprotect, log_cursor_updated, prodded>>
          \/ /\ W = {} /\ front
             /\ ~log_cursor_updated \/ (~prodded /\ Active # {})
             /\ pc' = IF ~log_cursor_updated THEN "cursor" ELSE "prod"
             /\ UNCHANGED <<moveVars, nibbleVars>>
          \/ /\ W = {} /\ front
             /\ log_cursor_updated /\ (prodded \/ Active = {})
             /\ NibbleReturns(FALSE)
  BY DEF Search
<1>1. pc = "search" /\ UNCHANGED <<seg, log, nsegs, alloc, newnsegs, unprot, retry, retrycnt, segnum>>
  BY DEF Search, fsVars
<1> DEFINE W == Lowest({s \in Movable : s \in cursor..last}, Min2(count - nmoved, 2))
<1>m. MoveTypes /\ NibbleTypes /\ MoveInv /\ Progress /\ Loops /\ Numbers
  OBVIOUS
<1>t. /\ caller # "none" /\ nmoved \in 0..N /\ count \in 0..2 /\ found \in SUBSET Segs
      /\ nmoved + Cardinality(found) <= count
  BY <1>1, <1>m DEF MoveTypes, NibbleTypes, MoveInv
<1>c. Cardinality(found) \in Nat
  BY <1>t, SegSets
<1>2. Min2(count - nmoved, 2) \in Nat /\ Min2(count - nmoved, 2) <= count - nmoved
  BY ONLY <1>c, <1>t, NAssumption DEF Min2
<1>3. W \in SUBSET Segs /\ Cardinality(W) <= Min2(count - nmoved, 2)
  <2>1. {s \in Movable : s \in cursor..last} \in SUBSET Segs
    BY DEF Movable, Reclaimable
  <2> QED  BY <1>2, <2>1, LowestOf
<1>4. Cardinality(W) \in Nat /\ (W # {} => Greatest(W) + 1 \in 0..N + 1)
  <2>1. \A s \in Segs : s + 1 \in 0..N + 1
    BY NAssumption DEF Segs
  <2> QED  BY <1>3, <2>1, SegSets, GreatestIsIn
<1> HIDE DEF W
<1>5. nmoved + Cardinality(W) <= count /\ nmoved + Cardinality(W) <= N
  BY ONLY <1>2, <1>3, <1>4, <1>t, NAssumption
<1>6. FsInv' /\ Numbers'
  BY <1>1, <1>m, SameFs DEF Numbers
<1>7. MoveTypes' /\ NibbleTypes' /\ MoveInv' /\ pc' \in Inner
  <2>1. CASE /\ W # {} /\ found' = W /\ cursor' = Greatest(W) + 1 /\ pc' = "move"
             /\ UNCHANGED <<caller, nfound, nmoved, reason, count, unprotect, front,
                            log_cursor_updated, prodded>>
    <3>1. MoveTypes' /\ NibbleTypes'
      BY ONLY <1>3, <1>4, <1>m, <2>1 DEF MoveTypes, NibbleTypes
    <3>2. nmoved' + Cardinality(found') = nmoved + Cardinality(W)
      BY ONLY <2>1
    <3>3. MoveInv'
      BY ONLY <1>5, <2>1, <3>2 DEF MoveInv
    <3> QED  BY <2>1, <3>1, <3>3 DEF Inner
  <2>2. CASE /\ front' = TRUE /\ cursor' = 0
             /\ UNCHANGED <<pc, moveVars, count, unprotect, log_cursor_updated, prodded>>
    <3>0. 0 \in 0..N + 1 /\ TRUE \in BOOLEAN
      BY NAssumption
    <3>1. MoveTypes' /\ MoveInv'
      BY ONLY <1>m, <2>2 DEF MoveTypes, MoveInv, moveVars
    <3>2. NibbleTypes'
      BY ONLY <1>m, <2>2, <3>0 DEF NibbleTypes
    <3> QED  BY <1>1, <2>2, <3>1, <3>2 DEF Inner
  <2>3. CASE /\ pc' = IF ~log_cursor_updated THEN "cursor" ELSE "prod"
             /\ UNCHANGED <<moveVars, nibbleVars>>
    <3>1. MoveTypes' /\ NibbleTypes' /\ MoveInv'
      BY ONLY <1>1, <1>m, <2>3 DEF MoveTypes, NibbleTypes, MoveInv, moveVars, nibbleVars
    <3> QED  BY <2>3, <3>1 DEF Inner
  <2>4. CASE NibbleReturns(FALSE)
    BY <2>4, NibbleReturned DEF Inner
  <2> QED  BY <1>0, <2>1, <2>2, <2>3, <2>4 DEF W
<1>8. Progress'
  BY <1>1, <1>7, <1>m, ProgressKept DEF Inner
<1>9. Loops'
  BY ONLY <1>1, <1>7, <1>m DEF Loops, Inner
<1> QED  BY <1>6, <1>7, <1>8, <1>9

\* The search begins again after the log was made to go on.
LEMMA SearchedAgain ==
    ASSUME MoveTypes, NibbleTypes, MoveInv, Numbers, pc \in {"cursor", "prod"}, SearchAgain,
           log_cursor_updated' \in BOOLEAN, prodded' \in BOOLEAN,
           UNCHANGED <<moveVars, count, unprotect>>
    PROVE  MoveTypes' /\ NibbleTypes' /\ MoveInv' /\ pc' \in Inner
<1>0. newnsegs \in 0..N + 1 /\ FALSE \in BOOLEAN
  BY NAssumption DEF Numbers
<1>1. /\ pc' = "search" /\ front' \in BOOLEAN /\ cursor' \in 0..N + 1
  BY <1>0 DEF SearchAgain
<1>2. MoveTypes'
  BY DEF MoveTypes, moveVars
<1>3. NibbleTypes'
  BY <1>1 DEF NibbleTypes
<1>4. MoveInv'
  BY <1>1 DEF MoveInv, moveVars
<1> QED  BY <1>1, <1>2, <1>3, <1>4 DEF Inner

\* Forcing the log on, by its cursor or by a balloon file.
LEMMA ForcingSteps == ASSUME IInv, UpdateLogCursor \/ Prod PROVE IInv'
<1> USE DEF IInv
<1>1. /\ pc \in {"cursor", "prod"}
      /\ UNCHANGED <<nsegs, alloc, newnsegs, retry, retrycnt, segnum>>
  BY DEF UpdateLogCursor, Prod
<1>m. MoveTypes /\ NibbleTypes /\ MoveInv /\ Progress /\ Loops /\ Numbers
  OBVIOUS
<1>2. FsInv' /\ unprot' \subseteq Segs
  <2>1. CASE UpdateLogCursor
    <3>1. log' = log /\ (seg' = Inactive(seg) \/ seg' = seg)
      BY <2>1 DEF UpdateLogCursor
    <3>2. unprot' \in {Unprotected(seg'), Unprotected(seg)}
      BY <2>1 DEF UpdateLogCursor, update_sustat
    <3> QED  BY <3>1, <3>2, SameFs, InactiveIsGood, Statistics
  <2>2. CASE Prod
    <3>1. CASE \E f \in Ballooned : FsBecomes(f) /\ unprot' = Unprotected(f.seg)
      <4>1. PICK f \in Ballooned : FsBecomes(f) /\ unprot' = Unprotected(f.seg)
        BY <3>1
      <4>2. GoodFs(f)
        BY <1>m, <4>1, BalloonedIsGood DEF Numbers
      <4> QED  BY <4>1, <4>2, BecomesGood, Statistics
    <3>2. CASE update_sustat /\ UNCHANGED <<seg, log>>
      BY <3>2, SameFs, Statistics DEF update_sustat
    <3> QED  BY <2>2, <3>1, <3>2 DEF Prod
  <2> QED  BY <2>1, <2>2
<1>3. Numbers'
  BY <1>1, <1>2, <1>m DEF Numbers
<1>4. MoveTypes' /\ NibbleTypes' /\ MoveInv' /\ pc' \in Inner
  <2>1. ASSUME NEW ok \in BOOLEAN, NibbleReturns(ok)
        PROVE  MoveTypes' /\ NibbleTypes' /\ MoveInv' /\ pc' \in Inner
    BY <2>1, NibbleReturned DEF Inner
  <2>2. CASE /\ SearchAgain /\ log_cursor_updated' \in BOOLEAN /\ prodded' \in BOOLEAN
             /\ UNCHANGED <<moveVars, count, unprotect>>
    BY <1>1, <1>m, <2>2, SearchedAgain
  <2>3. prodded \in BOOLEAN
    BY <1>m DEF NibbleTypes
  <2> QED  BY <2>1, <2>2, <2>3 DEF UpdateLogCursor, Prod
<1>5. Progress'
  BY <1>1, <1>4, <1>m, ProgressKept DEF Inner
<1>6. Loops'
  BY ONLY <1>1, <1>4, <1>m DEF Loops, Inner
<1> QED  BY <1>2, <1>3, <1>4, <1>5, <1>6

-----------------------------------------------------------------------------
(***************************************************************************)
(* The theorems.                                                           *)
(***************************************************************************)
\* The invariant holds when nilfs_shrink_online() is entered.
LEMMA InitIInv == Init => IInv
<1> SUFFICES ASSUME Init PROVE IInv
  OBVIOUS
<1>1. FsInv
  BY DEF Init, FsInv, GoodFs, Fs
<1>2. Numbers /\ Loops
  BY NAssumption, Statistics DEF Init, Numbers, Loops
<1>3. MoveTypes /\ NibbleTypes
  <2>1. 0 \in 0..N /\ 0 \in 0..N + 1 /\ 0 \in 0..NSegNums /\ 0 \in 0..2
    BY NAssumption, ParametersAssumption
  <2>2. /\ caller = "none" /\ nfound = 0 /\ found = {} /\ nmoved = 0 /\ count = 0 /\ cursor = 0
        /\ reason = FALSE /\ unprotect = FALSE /\ front = FALSE
        /\ log_cursor_updated = FALSE /\ prodded = FALSE
    BY DEF Init
  <2>3. MoveTypes
    BY ONLY <2>1, <2>2 DEF MoveTypes
  <2>4. NibbleTypes
    <3>1. /\ unprotect \in BOOLEAN /\ front \in BOOLEAN /\ log_cursor_updated \in BOOLEAN
          /\ prodded \in BOOLEAN
      BY ONLY <2>2
    <3> QED  BY ONLY <2>1, <2>2, <3>1 DEF NibbleTypes
  <2> QED  BY <2>3, <2>4
<1>4. Progress
  BY DEF Init, Progress
<1>5. MoveInv
  <2>1. /\ pc = "check" /\ caller = "none" /\ nmoved = 0 /\ found = {}
    BY DEF Init
  <2>2. Cardinality(found) = 0
    BY <2>1, FS_EmptySet
  <2>3. nmoved + Cardinality(found) <= N
    BY ONLY <2>1, <2>2, NAssumption
  <2> QED  BY ONLY <2>1, <2>3 DEF MoveInv
<1> QED  BY <1>1, <1>2, <1>3, <1>4, <1>5 DEF IInv

\* ... and every step keeps it.
LEMMA NextIInv == IInv /\ [Next]_vars => IInv'
<1> SUFFICES ASSUME IInv, [Next]_vars PROVE IInv'
  OBVIOUS
<1>1. CASE UNCHANGED vars
  <2>1. /\ UNCHANGED <<seg, log, nsegs, alloc, newnsegs, unprot, pc, retry, retrycnt, segnum>>
        /\ UNCHANGED <<caller, nfound, found, nmoved, reason, count, unprotect, front, cursor,
                       log_cursor_updated, prodded>>
    BY <1>1 DEF vars, fsVars, moveVars, nibbleVars
  <2> QED  BY <2>1, SameFs DEF IInv, Numbers, Loops, MoveTypes, NibbleTypes, Progress, MoveInv
<1> QED  BY <1>1, ShrinkSteps, OtherSteps, EvictStep, SweepStep, FailingSteps, MoveStep,
            SearchStep, ForcingSteps DEF Next, Tool

\* An on-line shrink never searches in front of an area that starts at segment
\* zero, keeps its counters within the limits of its loops, and gives the
\* allocation range back when it is called off (nilfs_shrink_online(),
\* nilfs_resize_check_free_space(), nilfs_resize_restore_alloc_range()).
THEOREM ShrinkIsSafe == Spec => []ShrinkSafe
<1>1. IInv => ShrinkSafe
  <2> SUFFICES ASSUME IInv PROVE ShrinkSafe
    OBVIOUS
  <2>1. TypeOK
    BY DEF IInv, FsInv, GoodFs, Fs, Numbers, Loops, MoveTypes, NibbleTypes, TypeOK
  <2>2. FrontRangeExists
    BY DEF IInv, Progress, FrontRangeExists
  <2>3. AbortRestoresAllocation
    BY DEF IInv, Progress, AbortRestoresAllocation
  <2> QED  BY <2>1, <2>2, <2>3 DEF ShrinkSafe
<1> QED  BY <1>1, InitIInv, NextIInv, PTL DEF Spec
=============================================================================
