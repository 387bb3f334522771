-------------------------- MODULE MountMtabProofs ---------------------------
(***************************************************************************)
(* The lock of /etc/mtab has one owner at a time, for any number of        *)
(* helpers, and however many of them are killed; and what they write under *)
(* it is what the kernel has mounted.                                      *)
(***************************************************************************)
EXTENDS MountMtab, NatSets, SequenceTheorems, TLAPS

\* The steps of a helper without the lock file, while it asks for it, and when
\* it has it.
Outside == {"idle", "prepare", "uprepare", "wait", "uwait", "domount", "doumount", "launch",
            "restart"}
Asking  == {"lk_link", "lk_open", "lk_wait", "lk_sleep"}
Holding == {"lk_claim", "read", "write", "unlock"}

HelperRecord ==
    [pc : Outside \cup Asking \cup Holding, req : Request, mc : Entry,
     remount : BOOLEAN, alive : BOOLEAN, known : BOOLEAN,
     edit : {"none", "add", "set", "del"}, entry : Entry, copy : Seq(Entry),
     fd : Inode \cup {None}, made : BOOLEAN, expired : BOOLEAN]

Tables ==
    /\ ExecTypeOK
    /\ mounts \in [Dir -> {"no", "rw", "ro"}] /\ mtab \in Seq(Entry)

Counters == starts \in 0..MaxStart /\ kills \in 0..MaxKill /\ fails \in 0..MaxFail

LockTypes ==
    /\ lockfile \in Helper \cup {"stale", None}
    /\ flk \in [Inode -> Helper \cup {None}]

HelperTypes ==
    /\ helper \in [Helper -> HelperRecord]
    /\ \A h \in Helper : helper[h].req \in Requests[h]

\* A helper that made the link owns the lock file until it is through; one
\* that goes on to the table has made it.
MadeInv(h) ==
    /\ helper[h].made => lockfile = h /\ helper[h].pc \in {"lk_open"} \cup Holding
    /\ helper[h].pc \in Holding => helper[h].made

\* The inductive invariant.
IInv ==
    /\ Tables /\ Counters /\ LockTypes /\ HelperTypes
    /\ \A h \in Helper : MadeInv(h)
    /\ LockHasOwner

-----------------------------------------------------------------------------
(***************************************************************************)
(* Records and tables.                                                     *)
(***************************************************************************)
\* The fields of a helper.
LEMMA HelperFields ==
    ASSUME NEW r \in HelperRecord
    PROVE  /\ r.pc \in Outside \cup Asking \cup Holding /\ r.req \in Request
           /\ r.mc \in Entry /\ r.remount \in BOOLEAN /\ r.alive \in BOOLEAN
           /\ r.known \in BOOLEAN /\ r.edit \in {"none", "add", "set", "del"}
           /\ r.entry \in Entry /\ r.copy \in Seq(Entry) /\ r.fd \in Inode \cup {None}
           /\ r.made \in BOOLEAN /\ r.expired \in BOOLEAN
BY DEF HelperRecord

\* The fields of entries and requests.
LEMMA EntryFields ==
    /\ \A e \in Entry : /\ e.dir \in Dir /\ e.rw \in BOOLEAN /\ e.gcpid \in Pid \cup {NoPid}
                        /\ e.pp \in Period \cup {NoPeriod} /\ e.nogc \in BOOLEAN
    /\ \A r \in Request : /\ r.op \in {"mount", "umount"} /\ r.dir \in Dir /\ r.ro \in BOOLEAN
                          /\ r.remount \in BOOLEAN /\ r.nogc \in BOOLEAN
                          /\ r.pp \in Period \cup {NoPeriod} /\ r.rdonly \in BOOLEAN
BY DEF Entry, Request

\* An entry of a directory without a cleaner.
LEMMA NoEntryIsEntry == \A d \in Dir : NoEntry(d) \in Entry
BY DEF NoEntry, Entry

\* A helper that has nothing to do.
LEMMA IdleIsRecord ==
    ASSUME NEW h \in Helper
    PROVE  /\ Idle(h) \in HelperRecord /\ Idle(h).req \in Requests[h]
           /\ Idle(h).pc = "idle" /\ Idle(h).made = FALSE
<1> DEFINE r == CHOOSE r \in Requests[h] : TRUE
<1>0. Requests[h] \in (SUBSET Request) \ {{}}
  BY MtabAssumption
<1>1. Requests[h] # {} /\ Requests[h] \subseteq Request
  BY <1>0
<1>2. r \in Requests[h] /\ r \in Request
  BY <1>1
<1> HIDE DEF r
<1>3. NoEntry(r.dir) \in Entry
  BY <1>2, EntryFields, NoEntryIsEntry
<1>4. Idle(h) = [pc |-> "idle", req |-> r, mc |-> NoEntry(r.dir),
                 remount |-> FALSE, alive |-> FALSE, known |-> FALSE,
                 edit |-> "none", entry |-> NoEntry(r.dir), copy |-> <<>>,
                 fd |-> None, made |-> FALSE, expired |-> FALSE]
  BY DEF Idle, r
<1>5. <<>> \in Seq(Entry)
  OBVIOUS
<1> QED  BY <1>2, <1>3, <1>4, <1>5 DEF HelperRecord, Outside

\* A helper that goes on, without other changes.
LEMMA Moved ==
    ASSUME NEW r \in HelperRecord, NEW x \in Outside \cup Asking \cup Holding
    PROVE  /\ [r EXCEPT !.pc = x] \in HelperRecord /\ [r EXCEPT !.pc = x].req = r.req
           /\ [r EXCEPT !.pc = x].pc = x /\ [r EXCEPT !.pc = x].made = r.made
BY DEF HelperRecord

\* A search of the table from its end finds one of its entries, or none.
LEMMA Backward ==
    ASSUME NEW tab \in Seq(Entry), NEW d
    PROVE  /\ getmntdirbackward(tab, d) \in 0..Len(tab)
           /\ find_rw_mount(tab) \in 0..Len(tab)
<1>1. ASSUME NEW I \in SUBSET (1..Len(tab)), I # {} PROVE Max(I) \in 0..Len(tab)
  <2>1. Len(tab) \in Nat /\ I \in SUBSET (0..Len(tab))
    OBVIOUS
  <2>2. \E g \in I : \A t \in I : t <= g
    BY <1>1, <2>1, HasGreatest
  <2>3. \A g, t \in I : t <= g <=> g >= t
    BY <2>1
  <2>4. Max(I) \in I
    BY <2>2, <2>3 DEF Max
  <2> QED  BY <2>1, <2>4
<1>2. 0 \in 0..Len(tab)
  OBVIOUS
<1>3. getmntdirbackward(tab, d) \in 0..Len(tab)
  <2> DEFINE I == {i \in 1..Len(tab) : tab[i].dir = d}
  <2>1. getmntdirbackward(tab, d) = IF I # {} THEN Max(I) ELSE 0
    BY DEF getmntdirbackward, SelectLastInSeq
  <2> QED  BY <1>1, <1>2, <2>1
<1>4. find_rw_mount(tab) \in 0..Len(tab)
  <2> DEFINE I == {i \in 1..Len(tab) : tab[i].rw}
  <2>1. find_rw_mount(tab) = IF I # {} THEN Max(I) ELSE 0
    BY DEF find_rw_mount, SelectLastInSeq
  <2> QED  BY <1>1, <1>2, <2>1
<1> QED  BY <1>3, <1>4

\* An edited table is a table.
LEMMA EditedIsTable ==
    ASSUME NEW tab \in Seq(Entry), NEW d, NEW edit, NEW entry \in Entry
    PROVE  Edited(tab, d, edit, entry) \in Seq(Entry)
<1> DEFINE i == getmntdirbackward(tab, d)
<1>1. i \in 0..Len(tab) /\ Len(tab) \in Nat
  BY Backward
<1>2. Edited(tab, d, edit, entry) =
        IF edit = "del" THEN IF i = 0 THEN tab
                             ELSE SubSeq(tab, 1, i - 1) \o SubSeq(tab, i + 1, Len(tab))
        ELSE IF i = 0 THEN Append(tab, entry) ELSE [tab EXCEPT ![i] = entry]
  BY DEF Edited
<1> HIDE DEF i
<1>3. i # 0 => /\ SubSeq(tab, 1, i - 1) \in Seq(Entry)
               /\ SubSeq(tab, i + 1, Len(tab)) \in Seq(Entry)
  <2>1. ASSUME i # 0
        PROVE  /\ \A k \in 1..i - 1 : tab[k] \in Entry
               /\ \A k \in i + 1..Len(tab) : tab[k] \in Entry
    BY <1>1, <2>1
  <2>2. i # 0 => i - 1 \in Int /\ i + 1 \in Int /\ 1 \in Int /\ Len(tab) \in Int
    BY <1>1
  <2> QED  BY <2>1, <2>2, <1>1, SubSeqProperties
<1>4. Append(tab, entry) \in Seq(Entry)
  OBVIOUS
<1>5. i # 0 => [tab EXCEPT ![i] = entry] \in Seq(Entry)
  BY <1>1, ExceptSeq
<1>6. i # 0 => SubSeq(tab, 1, i - 1) \o SubSeq(tab, i + 1, Len(tab)) \in Seq(Entry)
  BY <1>3, ConcatProperties
<1> QED  BY <1>2, <1>4, <1>5, <1>6

-----------------------------------------------------------------------------
(***************************************************************************)
(* The cleaner daemons.                                                    *)
(***************************************************************************)
\* A daemon of the right type, in or out of the table of processes.
DaemonRecord == [st : DaemonState, dir : Dir, pp : Period \cup {NoPeriod}, open : BOOLEAN]

\* Its fields.
LEMMA DaemonFields ==
    ASSUME NEW r \in DaemonRecord
    PROVE  /\ r.st \in DaemonState /\ r.dir \in Dir
           /\ r.pp \in Period \cup {NoPeriod} /\ r.open \in BOOLEAN
BY DEF DaemonRecord

\* What the helpers do to daemons keeps the types of lib/cleaner_exec.c.
LEMMA ExecKept ==
    ASSUME ExecTypeOK
    PROVE  /\ UNCHANGED execVars => ExecTypeOK'
           /\ \A p : SigTerm(p) => ExecTypeOK'
           /\ \A p, d, pp : /\ d \in Dir /\ pp \in Period \cup {NoPeriod}
                            /\ LaunchStarts(p, d, pp)
                            => ExecTypeOK'
<1> USE DEF DaemonState
<1>1. daemon \in [Pid -> DaemonRecord] /\ queue \in [named : BOOLEAN, by : SUBSET Pid]
  BY DEF ExecTypeOK, DaemonRecord
<1>2. UNCHANGED execVars => ExecTypeOK'
  BY DEF ExecTypeOK, execVars
<1>3. ASSUME NEW p, SigTerm(p) PROVE ExecTypeOK'
  <2>1. CASE p \in Pid
    <3> DEFINE r == [daemon[p] EXCEPT !.st = IF @ = "none" THEN @ ELSE "term"]
    <3>1. r \in DaemonRecord
      BY <1>1, <2>1 DEF DaemonRecord
    <3>2. daemon' = [daemon EXCEPT ![p] = r] /\ queue' = queue
      BY <1>3, <2>1 DEF SigTerm
    <3> HIDE DEF r
    <3>3. daemon' \in [Pid -> DaemonRecord]
      BY <1>1, <3>1, <3>2
    <3> QED  BY <1>1, <3>2, <3>3 DEF ExecTypeOK, DaemonRecord
  <2>2. CASE p \notin Pid
    <3>1. daemon' = daemon /\ queue' = queue
      BY <1>1, <1>3, <2>2 DEF SigTerm
    <3> QED  BY <1>1, <3>1 DEF ExecTypeOK, DaemonRecord
  <2> QED  BY <2>1, <2>2
<1>4. ASSUME NEW p, NEW d \in Dir, NEW pp \in Period \cup {NoPeriod}, LaunchStarts(p, d, pp)
      PROVE  ExecTypeOK'
  <2> DEFINE r == [st |-> "start", dir |-> d, pp |-> pp, open |-> FALSE]
  <2>1. r \in DaemonRecord
    BY DEF DaemonRecord
  <2>2. daemon' = [daemon EXCEPT ![p] = r] /\ queue' = queue
    BY <1>4 DEF LaunchStarts
  <2> HIDE DEF r
  <2>3. daemon' \in [Pid -> DaemonRecord]
    BY <1>1, <2>1, <2>2
  <2> QED  BY <1>1, <2>2, <2>3 DEF ExecTypeOK, DaemonRecord
<1> QED  BY <1>2, <1>3, <1>4

\* So does what the daemons do, and one gives up only as often as allowed.
LEMMA DaemonsKeep ==
    ASSUME ExecTypeOK, Counters, Daemons
    PROVE  ExecTypeOK' /\ Counters'
<1> USE DEF DaemonState
<1>1. daemon \in [Pid -> DaemonRecord] /\ queue \in [named : BOOLEAN, by : SUBSET Pid]
  BY DEF ExecTypeOK, DaemonRecord
<1>2. AnyDir \in Dir
  BY DirAssumption DEF AnyDir
<1>3. PICK p \in Pid : \/ DaemonOpens(p, RwDirs)
                       \/ /\ \/ fails < MaxFail
                             \/ daemon[p].st = "term"
                             \/ daemon[p].st = "start" /\ daemon[p].dir \notin RwDirs
                          /\ DaemonEnds(p)
  BY DEF Daemons, DaemonStep
<1>4. daemon[p] \in DaemonRecord
  BY <1>1
<1>5. CASE DaemonOpens(p, RwDirs)
  <2> DEFINE r == [daemon[p] EXCEPT !.st = "run", !.open = TRUE]
  <2>1. r \in DaemonRecord /\ r.st = "run"
    BY <1>4 DEF DaemonRecord
  <2>2. daemon' = [daemon EXCEPT ![p] = r]
    BY <1>1, <1>5 DEF DaemonOpens
  <2>3. queue' = [named |-> TRUE, by |-> {p} \cup IF queue.named THEN queue.by ELSE {}]
    BY <1>5 DEF DaemonOpens
  <2> HIDE DEF r
  <2>4. daemon' \in [Pid -> DaemonRecord]
    BY <1>1, <2>1, <2>2
  <2>5. queue' \in [named : BOOLEAN, by : SUBSET Pid]
    BY <1>1, <2>3
  <2>6. ~GaveUp(RwDirs)
    BY <1>1, <2>1, <2>2 DEF GaveUp
  <2> QED  BY <2>4, <2>5, <2>6 DEF ExecTypeOK, DaemonRecord, Counters, Daemons
<1>6. CASE /\ \/ fails < MaxFail
              \/ daemon[p].st = "term"
              \/ daemon[p].st = "start" /\ daemon[p].dir \notin RwDirs
           /\ DaemonEnds(p)
  <2> DEFINE r == [daemon[p] EXCEPT !.st = "none", !.open = FALSE, !.dir = AnyDir]
  <2>1. r \in DaemonRecord
    BY <1>2, <1>4 DEF DaemonRecord
  <2>2. daemon' = [daemon EXCEPT ![p] = r]
    BY <1>1, <1>6 DEF DaemonEnds
  <2>3. queue' = IF daemon[p].open THEN [named |-> FALSE, by |-> {}]
                                   ELSE [queue EXCEPT !.by = @ \ {p}]
    BY <1>6 DEF DaemonEnds
  <2> HIDE DEF r
  <2>4. daemon' \in [Pid -> DaemonRecord]
    BY <1>1, <2>1, <2>2
  <2>5. queue' \in [named : BOOLEAN, by : SUBSET Pid]
    BY <1>1, <2>3
  <2>6. GaveUp(RwDirs) => fails < MaxFail
    BY <1>1, <1>6, <2>2 DEF GaveUp
  <2>7. fails' = fails + (IF GaveUp(RwDirs) THEN 1 ELSE 0) /\ starts' = starts /\ kills' = kills
    BY DEF Daemons
  <2>8. fails \in 0..MaxFail /\ MaxFail \in Nat
    BY MtabAssumption DEF Counters
  <2>9. fails' \in 0..MaxFail
    BY <2>6, <2>7, <2>8
  <2> QED  BY <2>4, <2>5, <2>7, <2>9 DEF ExecTypeOK, DaemonRecord, Counters
<1> QED  BY <1>3, <1>5, <1>6

-----------------------------------------------------------------------------
(***************************************************************************)
(* The lock and its owner, and the steps before lock_mtab: the helper does *)
(* not have the lock, and still has not.                                   *)
(***************************************************************************)
LockInv == LockTypes /\ HelperTypes /\ (\A h \in Helper : MadeInv(h)) /\ LockHasOwner

\* Whoever made the link is the owner of the lock file.
LEMMA MakerOwns ==
    ASSUME LockInv, NEW h \in Helper
    PROVE  /\ helper[h] \in HelperRecord /\ helper[h].req \in Requests[h]
           /\ helper[h].made \in BOOLEAN /\ (helper[h].made <=> lockfile = h)
<1>1. helper[h] \in HelperRecord /\ helper[h].req \in Requests[h]
  BY DEF LockInv, HelperTypes
<1>2. helper[h].made => lockfile = h
  BY DEF LockInv, MadeInv
<1>3. lockfile = h => helper[h].made
  BY DEF LockInv, LockHasOwner
<1> QED  BY <1>1, <1>2, <1>3, HelperFields

\* A helper may take the lock file when there is none, and goes on as its
\* owner then.
LEMMA OneHelperMoves ==
    ASSUME LockInv, NEW h \in Helper, NEW r \in HelperRecord, r.req \in Requests[h],
           r.made <=> lockfile' = h,
           r.made => r.pc \in {"lk_open"} \cup Holding,
           r.pc \in Holding => r.made,
           helper' = [helper EXCEPT ![h] = r],
           lockfile' = lockfile \/ (lockfile = None /\ lockfile' = h),
           flk' \in [Inode -> Helper \cup {None}], kills' = kills
    PROVE  LockInv'
<1>1. helper \in [Helper -> HelperRecord] /\ \A k \in Helper : helper[k].req \in Requests[k]
  BY DEF LockInv, HelperTypes
<1>2. helper'[h] = r /\ \A k \in Helper : k # h => helper'[k] = helper[k]
  BY <1>1
<1>3. helper' \in [Helper -> HelperRecord] /\ \A k \in Helper : helper'[k].req \in Requests[k]
  BY <1>1, <1>2
<1>4. None \notin Helper /\ "stale" \notin Helper /\ "stale" # None
  BY MtabAssumption DEF Inode
<1>5. lockfile' \in Helper \cup {"stale", None}
  BY DEF LockInv, LockTypes
<1>6. \A k \in Helper : MadeInv(k)'
  <2> SUFFICES ASSUME NEW k \in Helper PROVE MadeInv(k)'
    OBVIOUS
  <2>1. MadeInv(k)
    BY DEF LockInv
  <2>2. CASE k = h
    BY <1>2, <2>2 DEF MadeInv
  <2>3. CASE k # h
    <3>1. helper[k].made => lockfile' = k
      BY <1>4, <2>1 DEF MadeInv
    <3> QED  BY <1>2, <2>1, <2>3, <3>1 DEF MadeInv
  <2> QED  BY <2>2, <2>3
<1>7. LockHasOwner'
  <2>1. /\ lockfile \in Helper => helper[lockfile].made
        /\ lockfile = "stale" => kills > 0
    BY DEF LockInv, LockHasOwner
  <2>2. lockfile' \in Helper => helper'[lockfile'].made
    BY <1>2, <2>1
  <2>3. lockfile' = "stale" => kills' > 0
    BY <1>4, <2>1
  <2> QED  BY <2>2, <2>3 DEF LockHasOwner
<1> QED  BY <1>3, <1>5, <1>6, <1>7 DEF LockInv, LockTypes, HelperTypes

\* The helper h goes on with the progress r, and has not made the link.
Goes(h, r) ==
    /\ r \in HelperRecord /\ r.req \in Requests[h]
    /\ r.made = FALSE /\ r.pc \in Outside \cup {"lk_link"}
    /\ helper' = [helper EXCEPT ![h] = r]

\* A helper outside of lock_mtab has not made the link.
LEMMA OutsideIsFree ==
    ASSUME LockInv, NEW h \in Helper, helper[h].pc \in Outside
    PROVE  /\ helper[h] \in HelperRecord /\ helper[h].req \in Requests[h]
           /\ helper[h].made = FALSE
<1>1. helper[h] \in HelperRecord /\ helper[h].req \in Requests[h]
  BY DEF LockInv, HelperTypes
<1>2. helper[h].made \in BOOLEAN
  BY <1>1, HelperFields
<1>3. helper[h].made => helper[h].pc \in {"lk_open"} \cup Holding
  BY DEF LockInv, MadeInv
<1> QED  BY <1>1, <1>2, <1>3 DEF Outside, Holding

\* The lock is not touched by a helper that goes on without it.
LEMMA GoesKeepsLock ==
    ASSUME LockInv, NEW h \in Helper, helper[h].made = FALSE,
           NEW r, Goes(h, r), UNCHANGED lockVars, kills' = kills
    PROVE  LockInv'
<1>1. /\ helper' = [helper EXCEPT ![h] = r] /\ r \in HelperRecord /\ r.req \in Requests[h]
      /\ r.made = FALSE /\ r.pc \in Outside \cup {"lk_link"}
  BY DEF Goes
<1>2. lockfile' = lockfile /\ flk' \in [Inode -> Helper \cup {None}]
  BY DEF lockVars, LockInv, LockTypes
<1>3. r.made <=> lockfile' = h
  BY <1>1, <1>2, MakerOwns
<1>4. r.pc \notin Holding
  BY <1>1 DEF Outside, Holding
<1> QED  BY <1>1, <1>2, <1>3, <1>4, OneHelperMoves

\* Goto() takes a helper without the lock to its next step.
LEMMA GotoGoes ==
    ASSUME LockInv, NEW h \in Helper, helper[h].pc \in Outside,
           NEW x \in Outside \cup {"exit"}, Goto(h, x)
    PROVE  \E r : Goes(h, r)
<1>1. CASE x = "exit"
  <2>1. helper' = [helper EXCEPT ![h] = Idle(h)]
    BY <1>1 DEF Goto
  <2> QED  BY <2>1, IdleIsRecord DEF Goes, Outside
<1>2. CASE x # "exit"
  <2>1. helper' = [helper EXCEPT ![h] = [helper[h] EXCEPT !.pc = x]]
    BY <1>2, OutsideIsFree DEF Goto, LockInv, HelperTypes
  <2>2. x \in Outside
    BY <1>2
  <2>3. /\ [helper[h] EXCEPT !.pc = x] \in HelperRecord
        /\ [helper[h] EXCEPT !.pc = x].req = helper[h].req
        /\ [helper[h] EXCEPT !.pc = x].pc = x
        /\ [helper[h] EXCEPT !.pc = x].made = helper[h].made
    BY <2>2, OutsideIsFree, Moved
  <2> QED  BY <2>1, <2>2, <2>3, OutsideIsFree DEF Goes
<1> QED  BY <1>1, <1>2

\* Edit() takes it to lock_mtab.
LEMMA EditGoes ==
    ASSUME LockInv, NEW h \in Helper, helper[h].pc \in Outside,
           NEW edit \in {"none", "add", "set", "del"}, NEW entry \in Entry,
           Edit(h, edit, entry)
    PROVE  \E r : Goes(h, r)
<1> DEFINE r == [Idle(h) EXCEPT !.pc = "lk_link", !.req = helper[h].req,
                                !.edit = edit, !.entry = entry]
<1>1. helper' = [helper EXCEPT ![h] = r]
  BY DEF Edit
<1>2. Idle(h) \in HelperRecord /\ Idle(h).made = FALSE
  BY IdleIsRecord
<1>3. helper[h].req \in Request
  BY OutsideIsFree, HelperFields
<1>4. /\ r \in HelperRecord /\ r.req = helper[h].req
      /\ r.made = FALSE /\ r.pc = "lk_link"
  BY <1>2, <1>3 DEF HelperRecord, Asking
<1> HIDE DEF r
<1> QED  BY <1>1, <1>4, OutsideIsFree DEF Goes

\* An action of a helper outside of lock_mtab keeps the invariant if it goes
\* on without the lock and leaves the tables well-formed.
LEMMA EarlyKeeps ==
    ASSUME LockInv, Tables, Counters, NEW h \in Helper, helper[h].pc \in Outside,
           \E r : Goes(h, r), UNCHANGED <<lockVars, kills, fails>>, ExecTypeOK',
           mounts' \in [Dir -> {"no", "rw", "ro"}], mtab' = mtab,
           starts' \in 0..MaxStart
    PROVE  LockInv' /\ Tables' /\ Counters'
<1>1. PICK r : Goes(h, r)
  OBVIOUS
<1>2. helper[h].made = FALSE
  BY OutsideIsFree
<1>3. UNCHANGED lockVars /\ kills' = kills /\ fails' = fails
  OBVIOUS
<1>4. LockInv'
  BY <1>1, <1>2, <1>3, GoesKeepsLock
<1>5. Tables'
  BY DEF Tables
<1>6. Counters'
  BY <1>3 DEF Counters
<1> QED  BY <1>4, <1>5, <1>6

\* The entry a helper finds in the table, or one made up when there is none.
LEMMA FoundIsEntry ==
    ASSUME Tables, NEW d \in Dir, NEW i \in 0..Len(mtab)
    PROVE  (IF i = 0 THEN NoEntry(d) ELSE mtab[i]) \in Entry
<1>1. mtab \in Seq(Entry)
  BY DEF Tables
<1>2. i # 0 => mtab[i] \in Entry
  BY <1>1
<1> QED  BY <1>2, NoEntryIsEntry

\* prepare_mount() ends the helper, or goes on to wait or to mount.
LEMMA PrepareGoes ==
    ASSUME LockInv, Tables, NEW h \in Helper, prepare_mount(h)
    PROVE  (\E r : Goes(h, r)) /\ ExecTypeOK'
<1> DEFINE req == helper[h].req
           at  == getmntdirbackward(mtab, req.dir)
           rw  == find_rw_mount(mtab)
           refused == \/ ~req.remount /\ at # 0
                      \/ ~req.remount /\ ~req.ro /\ rw # 0
                      \/ req.remount /\ rw # 0 /\ mtab[rw].dir # req.dir
           stops == req.remount /\ rw # 0 /\ ~refused
           old == IF rw = 0 THEN NoEntry(req.dir) ELSE mtab[rw]
           r == [helper[h] EXCEPT !.known = at # 0, !.mc = old, !.remount = stops,
                   !.pc = IF stops /\ old.gcpid # NoPid THEN "wait" ELSE "domount"]
<1>1. helper[h].pc \in Outside
  BY DEF prepare_mount, At, Outside
<1>2. helper[h] \in HelperRecord /\ req \in Requests[h] /\ helper[h].made = FALSE
  BY <1>1, OutsideIsFree
<1>3. req \in Request /\ req.dir \in Dir
  BY <1>2, HelperFields, EntryFields
<1>4. at \in 0..Len(mtab) /\ rw \in 0..Len(mtab)
  BY Backward DEF Tables
<1>5. helper' = [helper EXCEPT ![h] = IF refused THEN Idle(h) ELSE r]
  BY <1>2 DEF prepare_mount
<1>6. IF stops /\ old.gcpid # NoPid THEN SigTerm(old.gcpid) ELSE UNCHANGED execVars
  BY DEF prepare_mount
<1> HIDE DEF at, rw
<1>7. old \in Entry
  BY <1>3, <1>4, FoundIsEntry
<1>8. stops \in BOOLEAN /\ (at # 0) \in BOOLEAN
  OBVIOUS
<1> HIDE DEF old, stops
<1>9. /\ r \in HelperRecord /\ r.req = req /\ r.made = FALSE
      /\ r.pc \in {"wait", "domount"}
  BY <1>2, <1>7, <1>8 DEF HelperRecord, Outside
<1> HIDE DEF r, refused
<1>10. CASE refused
  <2>1. helper' = [helper EXCEPT ![h] = Idle(h)]
    BY <1>5, <1>10
  <2>2. Goes(h, Idle(h))
    BY <2>1, IdleIsRecord DEF Goes, Outside
  <2> QED  BY <1>6, <2>2, ExecKept DEF Tables
<1>11. CASE ~refused
  <2>1. helper' = [helper EXCEPT ![h] = r]
    BY <1>5, <1>11
  <2>2. Goes(h, r)
    BY <1>2, <1>9, <2>1 DEF Goes, Outside
  <2> QED  BY <1>6, <2>2, ExecKept DEF Tables
<1> QED  BY <1>10, <1>11

\* umount_dir() goes on to wait or to unmount.
LEMMA UprepareGoes ==
    ASSUME LockInv, Tables, NEW h \in Helper, umount_dir(h)
    PROVE  (\E r : Goes(h, r)) /\ ExecTypeOK'
<1> DEFINE at == getmntdirbackward(mtab, helper[h].req.dir)
           old == IF at = 0 THEN NoEntry(helper[h].req.dir) ELSE mtab[at]
           stops == old.rw /\ old.gcpid # NoPid
           alive == stops /\ process_is_alive(old.gcpid)
           r == [helper[h] EXCEPT !.mc = old, !.alive = alive,
                   !.pc = IF stops THEN "uwait" ELSE "doumount"]
<1>1. helper[h].pc \in Outside
  BY DEF umount_dir, At, Outside
<1>2. /\ helper[h] \in HelperRecord /\ helper[h].req \in Requests[h]
      /\ helper[h].made = FALSE
  BY <1>1, OutsideIsFree
<1>3. helper[h].req.dir \in Dir
  BY <1>2, HelperFields, EntryFields
<1>4. at \in 0..Len(mtab)
  BY Backward DEF Tables
<1>5. helper' = [helper EXCEPT ![h] = r]
  BY <1>2 DEF umount_dir, LockInv, HelperTypes
<1>6. IF stops THEN SigTerm(old.gcpid) ELSE UNCHANGED execVars
  BY DEF umount_dir
<1> HIDE DEF at
<1>7. old \in Entry
  BY <1>3, <1>4, FoundIsEntry
<1>8. alive \in BOOLEAN
  BY <1>7, EntryFields
<1> HIDE DEF old, stops, alive
<1>9. /\ r \in HelperRecord /\ r.req = helper[h].req /\ r.made = FALSE
      /\ r.pc \in {"uwait", "doumount"}
  BY <1>2, <1>7, <1>8 DEF HelperRecord, Outside
<1> HIDE DEF r
<1>10. Goes(h, r)
  BY <1>2, <1>5, <1>9 DEF Goes, Outside
<1> QED  BY <1>6, <1>10, ExecKept DEF Tables

\* What update_mount_state() records is an entry.
LEMMA NewEntryIsEntry ==
    ASSUME NEW h \in Helper, helper[h] \in HelperRecord, NEW p \in Pid \cup {NoPid}
    PROVE  NewEntry(h, p) \in Entry
<1>1. helper[h].req \in Request /\ helper[h].mc \in Entry
  BY HelperFields
<1>2. /\ helper[h].req.dir \in Dir /\ helper[h].req.ro \in BOOLEAN
      /\ helper[h].req.nogc \in BOOLEAN
      /\ helper[h].req.pp \in Period \cup {NoPeriod}
      /\ helper[h].mc.pp \in Period \cup {NoPeriod}
  BY <1>1, EntryFields
<1> QED  BY <1>2 DEF NewEntry, Entry

\* update_mount_state() starts the daemon, if any, and goes on to the table.
LEMMA LaunchGoes ==
    ASSUME LockInv, Tables, NEW h \in Helper, update_mount_state(h)
    PROVE  (\E r : Goes(h, r)) /\ ExecTypeOK'
<1> DEFINE edit == IF helper[h].known THEN "set" ELSE "add"
<1>1. helper[h].pc \in Outside
  BY DEF update_mount_state, At, Outside
<1>2. /\ helper[h] \in HelperRecord /\ helper[h].req.dir \in Dir
  BY <1>1, OutsideIsFree, HelperFields, EntryFields
<1>3. edit \in {"none", "add", "set", "del"}
  OBVIOUS
<1>4. ASSUME NEW p \in Pid \cup {NoPid}, Record(h, p) PROVE \E r : Goes(h, r)
  <2>1. Edit(h, edit, NewEntry(h, p))
    BY <1>4 DEF Record
  <2>2. NewEntry(h, p) \in Entry
    BY <1>2, NewEntryIsEntry
  <2> QED  BY <1>1, <1>3, <2>1, <2>2, EditGoes
<1>5. \/ Record(h, NoPid) /\ UNCHANGED execVars
      \/ \E p \in FreshPid : /\ LaunchStarts(p, helper[h].req.dir, NewEntry(h, p).pp)
                             /\ Record(h, p)
  BY DEF update_mount_state, LaunchSilent
<1>6. CASE Record(h, NoPid) /\ UNCHANGED execVars
  BY <1>4, <1>6, ExecKept DEF Tables
<1>7. CASE \E p \in FreshPid : /\ LaunchStarts(p, helper[h].req.dir, NewEntry(h, p).pp)
                               /\ Record(h, p)
  <2>1. PICK p \in FreshPid : /\ LaunchStarts(p, helper[h].req.dir, NewEntry(h, p).pp)
                              /\ Record(h, p)
    BY <1>7
  <2>2. p \in Pid
    BY DEF FreshPid
  <2>3. NewEntry(h, p) \in Entry
    BY <1>2, <2>2, NewEntryIsEntry
  <2>4. NewEntry(h, p).pp \in Period \cup {NoPeriod}
    BY <2>3, EntryFields
  <2> QED  BY <1>2, <1>4, <2>1, <2>2, <2>4, ExecKept DEF Tables
<1> QED  BY <1>5, <1>6, <1>7

\* The restart of the daemon after a failure.
LEMMA RestartGoes ==
    ASSUME LockInv, Tables, NEW h \in Helper, Restart(h)
    PROVE  (\E r : Goes(h, r)) /\ ExecTypeOK'
<1>1. helper[h].pc \in Outside
  BY DEF Restart, At, Outside
<1>2. /\ helper[h] \in HelperRecord /\ helper[h].req.dir \in Dir /\ helper[h].mc \in Entry
  BY <1>1, OutsideIsFree, HelperFields, EntryFields
<1>3. helper[h].mc.pp \in Period \cup {NoPeriod}
  BY <1>2, EntryFields
<1>4. ASSUME NEW p \in Pid \cup {NoPid}, Edit(h, "set", [helper[h].mc EXCEPT !.gcpid = p])
      PROVE  \E r : Goes(h, r)
  <2>1. [helper[h].mc EXCEPT !.gcpid = p] \in Entry
    BY <1>2 DEF Entry
  <2> QED  BY <1>1, <1>4, <2>1, EditGoes
<1>5. \/ Goto(h, "exit") /\ UNCHANGED execVars
      \/ Edit(h, "set", [helper[h].mc EXCEPT !.gcpid = NoPid]) /\ UNCHANGED execVars
      \/ \E p \in FreshPid : /\ LaunchStarts(p, helper[h].req.dir, helper[h].mc.pp)
                             /\ Edit(h, "set", [helper[h].mc EXCEPT !.gcpid = p])
  BY DEF Restart, LaunchRefused, LaunchSilent
<1>6. CASE Goto(h, "exit") /\ UNCHANGED execVars
  <2>1. "exit" \in Outside \cup {"exit"}
    OBVIOUS
  <2>2. \E r : Goes(h, r)
    BY <1>1, <1>6, <2>1, GotoGoes
  <2> QED  BY <1>6, <2>2, ExecKept DEF Tables
<1>7. CASE Edit(h, "set", [helper[h].mc EXCEPT !.gcpid = NoPid]) /\ UNCHANGED execVars
  BY <1>4, <1>7, ExecKept DEF Tables
<1>8. CASE \E p \in FreshPid : /\ LaunchStarts(p, helper[h].req.dir, helper[h].mc.pp)
                               /\ Edit(h, "set", [helper[h].mc EXCEPT !.gcpid = p])
  <2>1. PICK p \in FreshPid : /\ LaunchStarts(p, helper[h].req.dir, helper[h].mc.pp)
                              /\ Edit(h, "set", [helper[h].mc EXCEPT !.gcpid = p])
    BY <1>8
  <2>2. p \in Pid
    BY DEF FreshPid
  <2>3. \E r : Goes(h, r)
    BY <1>4, <2>1, <2>2
  <2>4. ExecTypeOK'
    BY <1>2, <1>3, <2>1, ExecKept DEF Tables
  <2> QED  BY <2>3, <2>4
<1> QED  BY <1>5, <1>6, <1>7, <1>8

\* Every step before lock_mtab keeps the invariant.
LEMMA EarlySteps ==
    ASSUME LockInv, Tables, Counters, NEW h \in Helper,
           \/ prepare_mount(h) \/ WaitEnds(h) \/ WaitTimesOut(h)
           \/ MountSucceeds(h) \/ MountFails(h) \/ update_mount_state(h) \/ Restart(h)
           \/ umount_dir(h) \/ UmountSucceeds(h) \/ UmountFails(h)
           \/ \E r \in Requests[h] : Start(h, r)
    PROVE  LockInv' /\ Tables' /\ Counters'
<1>1. starts \in 0..MaxStart /\ mounts \in [Dir -> {"no", "rw", "ro"}]
  BY DEF Counters, Tables
<1>2. UNCHANGED execVars => ExecTypeOK'
  BY ExecKept DEF Tables
<1>3. helper[h].pc \in Outside => helper[h].req.dir \in Dir
  BY OutsideIsFree, HelperFields, EntryFields
<1>4. ASSUME NEW x, x \in Outside \/ x = "exit", Goto(h, x), helper[h].pc \in Outside
      PROVE  \E r : Goes(h, r)
  BY <1>4, GotoGoes
<1>5. ASSUME prepare_mount(h) PROVE LockInv' /\ Tables' /\ Counters'
  <2>1. helper[h].pc \in Outside
    BY <1>5 DEF prepare_mount, At, Outside
  <2>2. UNCHANGED <<lockVars, kills, fails>> /\ mounts' = mounts /\ mtab' = mtab /\ starts' = starts
    BY <1>5 DEF prepare_mount, counts
  <2> QED  BY <1>1, <1>5, <2>1, <2>2, PrepareGoes, EarlyKeeps
<1>6. ASSUME WaitEnds(h) PROVE LockInv' /\ Tables' /\ Counters'
  <2>1. helper[h].pc \in Outside
    BY <1>6 DEF WaitEnds, At, Outside
  <2>2. UNCHANGED <<lockVars, kills, fails, execVars>> /\ mounts' = mounts /\ mtab' = mtab
        /\ starts' = starts
    BY <1>6 DEF WaitEnds, counts
  <2>3. \E x : (x \in Outside \/ x = "exit") /\ Goto(h, x)
    BY <1>6 DEF WaitEnds, Outside
  <2> QED  BY <1>1, <1>2, <1>4, <2>1, <2>2, <2>3, EarlyKeeps
<1>7. ASSUME WaitTimesOut(h) PROVE LockInv' /\ Tables' /\ Counters'
  <2>1. helper[h].pc \in Outside
    BY <1>7 DEF WaitTimesOut, At, Outside
  <2>2. UNCHANGED <<lockVars, kills, fails, execVars>> /\ mounts' = mounts /\ mtab' = mtab
        /\ starts' = starts
    BY <1>7 DEF WaitTimesOut, counts
  <2>3. \E x : (x \in Outside \/ x = "exit") /\ Goto(h, x)
    BY <1>7 DEF WaitTimesOut, Outside
  <2> QED  BY <1>1, <1>2, <1>4, <2>1, <2>2, <2>3, EarlyKeeps
<1>8. ASSUME MountSucceeds(h) PROVE LockInv' /\ Tables' /\ Counters'
  <2>1. helper[h].pc \in Outside
    BY <1>8 DEF MountSucceeds, At, Outside
  <2>2. UNCHANGED <<lockVars, kills, fails, execVars>> /\ mtab' = mtab /\ starts' = starts
    BY <1>8 DEF MountSucceeds, counts
  <2>3. mounts' = [mounts EXCEPT ![helper[h].req.dir] = IF helper[h].req.ro THEN "ro" ELSE "rw"]
    BY <1>8 DEF MountSucceeds
  <2>4. mounts' \in [Dir -> {"no", "rw", "ro"}]
    BY <1>1, <2>3
  <2>5. \E x : (x \in Outside \/ x = "exit") /\ Goto(h, x)
    BY <1>8 DEF MountSucceeds, Outside
  <2> QED  BY <1>1, <1>2, <1>4, <2>1, <2>2, <2>4, <2>5, EarlyKeeps
<1>9. ASSUME MountFails(h) PROVE LockInv' /\ Tables' /\ Counters'
  <2>1. helper[h].pc \in Outside
    BY <1>9 DEF MountFails, At, Outside
  <2>2. UNCHANGED <<lockVars, kills, fails, execVars>> /\ mounts' = mounts /\ mtab' = mtab
        /\ starts' = starts
    BY <1>9 DEF MountFails, counts
  <2>3. \E x : (x \in Outside \/ x = "exit") /\ Goto(h, x)
    BY <1>9 DEF MountFails, Outside
  <2> QED  BY <1>1, <1>2, <1>4, <2>1, <2>2, <2>3, EarlyKeeps
<1>10. ASSUME update_mount_state(h) PROVE LockInv' /\ Tables' /\ Counters'
  <2>1. helper[h].pc \in Outside
    BY <1>10 DEF update_mount_state, At, Outside
  <2>2. UNCHANGED <<lockVars, kills, fails>> /\ mounts' = mounts /\ mtab' = mtab /\ starts' = starts
    BY <1>10 DEF update_mount_state, counts
  <2> QED  BY <1>1, <1>10, <2>1, <2>2, LaunchGoes, EarlyKeeps
<1>11. ASSUME Restart(h) PROVE LockInv' /\ Tables' /\ Counters'
  <2>1. helper[h].pc \in Outside
    BY <1>11 DEF Restart, At, Outside
  <2>2. UNCHANGED <<lockVars, kills, fails>> /\ mounts' = mounts /\ mtab' = mtab /\ starts' = starts
    BY <1>11 DEF Restart, counts
  <2> QED  BY <1>1, <1>11, <2>1, <2>2, RestartGoes, EarlyKeeps
<1>12. ASSUME umount_dir(h) PROVE LockInv' /\ Tables' /\ Counters'
  <2>1. helper[h].pc \in Outside
    BY <1>12 DEF umount_dir, At, Outside
  <2>2. UNCHANGED <<lockVars, kills, fails>> /\ mounts' = mounts /\ mtab' = mtab /\ starts' = starts
    BY <1>12 DEF umount_dir, counts
  <2> QED  BY <1>1, <1>12, <2>1, <2>2, UprepareGoes, EarlyKeeps
<1>13. ASSUME UmountSucceeds(h) PROVE LockInv' /\ Tables' /\ Counters'
  <2>1. helper[h].pc \in Outside
    BY <1>13 DEF UmountSucceeds, At, Outside
  <2>2. UNCHANGED <<lockVars, kills, fails, execVars>> /\ mtab' = mtab /\ starts' = starts
    BY <1>13 DEF UmountSucceeds, counts
  <2>3. mounts' \in [Dir -> {"no", "rw", "ro"}]
    BY <1>1, <1>13 DEF UmountSucceeds
  <2>4. Edit(h, "del", NoEntry(helper[h].req.dir)) /\ NoEntry(helper[h].req.dir) \in Entry
    BY <1>3, <1>13, <2>1, NoEntryIsEntry DEF UmountSucceeds
  <2>5. \E r : Goes(h, r)
    BY <2>1, <2>4, EditGoes
  <2> QED  BY <1>1, <1>2, <2>1, <2>2, <2>3, <2>5, EarlyKeeps
<1>14. ASSUME UmountFails(h) PROVE LockInv' /\ Tables' /\ Counters'
  <2>1. helper[h].pc \in Outside
    BY <1>14 DEF UmountFails, At, Outside
  <2>2. UNCHANGED <<lockVars, kills, fails, execVars>> /\ mtab' = mtab /\ starts' = starts
    BY <1>14 DEF UmountFails, counts
  <2>3. \/ /\ mounts' = [mounts EXCEPT ![helper[h].req.dir] = "ro"]
           /\ Edit(h, "set", NoEntry(helper[h].req.dir))
        \/ mounts' = mounts /\ \E x : (x \in Outside \/ x = "exit") /\ Goto(h, x)
    BY <1>14 DEF UmountFails, Outside
  <2>4. mounts' \in [Dir -> {"no", "rw", "ro"}]
    BY <1>1, <2>3
  <2>5. NoEntry(helper[h].req.dir) \in Entry
    BY <1>3, <2>1, NoEntryIsEntry
  <2>6. \E r : Goes(h, r)
    BY <1>4, <2>1, <2>3, <2>5, EditGoes
  <2> QED  BY <1>1, <1>2, <2>1, <2>2, <2>4, <2>6, EarlyKeeps
<1>15. ASSUME NEW q \in Requests[h], Start(h, q) PROVE LockInv' /\ Tables' /\ Counters'
  <2>1. helper[h].pc \in Outside
    BY <1>15 DEF Start, At, Outside
  <2>2. UNCHANGED <<lockVars, kills, fails, execVars>> /\ mounts' = mounts /\ mtab' = mtab
    BY <1>15 DEF Start
  <2>3. starts' \in 0..MaxStart
    <3>1. MaxStart \in Nat
      BY MtabAssumption
    <3>2. starts < MaxStart /\ starts' = starts + 1
      BY <1>15 DEF Start
    <3> QED  BY <1>1, <3>1, <3>2
  <2> DEFINE r == [Idle(h) EXCEPT !.req = q,
                      !.pc = IF q.op = "mount" THEN "prepare" ELSE "uprepare"]
  <2>4. helper' = [helper EXCEPT ![h] = r]
    BY <1>15 DEF Start
  <2>5. Requests[h] \in (SUBSET Request) \ {{}}
    BY MtabAssumption
  <2>6. q \in Request
    BY <2>5
  <2>7. /\ r \in HelperRecord /\ r.req = q /\ r.made = FALSE
        /\ r.pc \in {"prepare", "uprepare"}
    BY <2>6, IdleIsRecord DEF HelperRecord, Outside
  <2> HIDE DEF r
  <2>8. Goes(h, r)
    BY <2>4, <2>7 DEF Goes, Outside
  <2> QED  BY <1>2, <1>1, <2>1, <2>2, <2>3, <2>8, EarlyKeeps
<1> QED  BY <1>5, <1>6, <1>7, <1>8, <1>9, <1>10, <1>11, <1>12, <1>13, <1>14, <1>15

-----------------------------------------------------------------------------
(***************************************************************************)
(* lock_mtab, the update of the table, unlock_mtab.                        *)
(***************************************************************************)
\* A helper that makes or finds the link.
LEMMA LinkKeepsLock ==
    ASSUME LockInv, NEW h \in Helper, LockLink(h)
    PROVE  LockInv'
<1> DEFINE r == [helper[h] EXCEPT !.made = (lockfile = None), !.pc = "lk_open"]
<1>1. helper[h].pc = "lk_link" /\ helper' = [helper EXCEPT ![h] = r]
  BY MakerOwns DEF LockLink, At, LockInv, HelperTypes
<1>2. /\ lockfile' = (IF lockfile = None THEN h ELSE lockfile)
      /\ flk' = flk /\ kills' = kills
  BY DEF LockLink, counts
<1>3. helper[h].made = FALSE
  BY <1>1, MakerOwns DEF LockInv, MadeInv, Holding
<1>4. lockfile # h
  BY <1>3, MakerOwns
<1>5. /\ r \in HelperRecord /\ r.req = helper[h].req
      /\ r.made = (lockfile = None) /\ r.pc = "lk_open"
  BY MakerOwns DEF HelperRecord, Asking
<1> HIDE DEF r
<1>6. r.made <=> lockfile' = h
  BY <1>2, <1>4, <1>5
<1>7. r.pc \notin Holding
  BY <1>5 DEF Holding
<1>8. flk' \in [Inode -> Helper \cup {None}]
  BY <1>2 DEF LockInv, LockTypes
<1>9. r.req \in Requests[h]
  BY <1>5, MakerOwns
<1> QED  BY <1>1, <1>2, <1>5, <1>6, <1>7, <1>8, <1>9, OneHelperMoves

\* A helper that changes its progress and neither makes nor removes the link,
\* and has the table only if it is the owner.
LEMMA SameOwner ==
    ASSUME LockInv, NEW h \in Helper, NEW r \in HelperRecord,
           r.req = helper[h].req, r.made = helper[h].made,
           helper[h].made => r.pc \in {"lk_open"} \cup Holding,
           ~helper[h].made => r.pc \notin Holding,
           helper' = [helper EXCEPT ![h] = r],
           lockfile' = lockfile, flk' \in [Inode -> Helper \cup {None}], kills' = kills
    PROVE  LockInv'
BY MakerOwns, OneHelperMoves

\* exit() removes the link if the helper made it, and its record lock.
LEMMA UnlockedKeepsLock ==
    ASSUME LockInv, NEW h \in Helper, Unlocked(h), kills' = kills
    PROVE  LockInv'
<1>1. helper \in [Helper -> HelperRecord] /\ \A k \in Helper : helper[k].req \in Requests[k]
  BY DEF LockInv, HelperTypes
<1>2. None \notin Helper /\ "stale" \notin Helper /\ "stale" # None
  BY MtabAssumption DEF Inode
<1>3. /\ Idle(h) \in HelperRecord /\ Idle(h).req \in Requests[h]
      /\ Idle(h).pc = "idle" /\ Idle(h).made = FALSE
  BY IdleIsRecord
<1>4. Idle(h).pc \notin Holding
  BY <1>3 DEF Holding
<1>5. flk \in [Inode -> Helper \cup {None}]
  BY DEF LockInv, LockTypes
<1>6. CASE helper[h].made
  <2>1. /\ lockfile' = None
        /\ flk' = [flk EXCEPT ![h] = None]
        /\ helper' = [k \in Helper |->
              IF k = h THEN Idle(h)
              ELSE IF helper[k].fd = h THEN [helper[k] EXCEPT !.fd = "dead"]
              ELSE helper[k]]
    BY <1>6 DEF Unlocked
  <2>2. flk' \in [Inode -> Helper \cup {None}]
    BY <1>5, <2>1
  <2>3. ASSUME NEW k \in Helper, k # h
        PROVE  /\ helper'[k] \in HelperRecord /\ helper'[k].req = helper[k].req
               /\ helper'[k].pc = helper[k].pc /\ helper'[k].made = helper[k].made
    <3>1. helper'[k] = helper[k] \/ helper'[k] = [helper[k] EXCEPT !.fd = "dead"]
      BY <2>1, <2>3
    <3>2. helper[k] \in HelperRecord
      BY <1>1
    <3>3. /\ [helper[k] EXCEPT !.fd = "dead"] \in HelperRecord
          /\ [helper[k] EXCEPT !.fd = "dead"].req = helper[k].req
          /\ [helper[k] EXCEPT !.fd = "dead"].pc = helper[k].pc
          /\ [helper[k] EXCEPT !.fd = "dead"].made = helper[k].made
      BY <3>2 DEF HelperRecord, Inode
    <3> QED  BY <3>1, <3>2, <3>3
  <2>4. helper'[h] = Idle(h)
    BY <2>1
  <2>5. helper' = [k \in Helper |-> helper'[k]]
    BY <2>1
  <2>6. \A k \in Helper : helper'[k] \in HelperRecord /\ helper'[k].req \in Requests[k]
    BY <1>1, <1>3, <2>3, <2>4
  <2>7. helper' \in [Helper -> HelperRecord]
    BY <2>5, <2>6
  <2>8. \A k \in Helper : MadeInv(k)'
    <3> SUFFICES ASSUME NEW k \in Helper PROVE MadeInv(k)'
      OBVIOUS
    <3>1. CASE k = h
      BY <1>3, <1>4, <2>4, <3>1 DEF MadeInv
    <3>2. CASE k # h
      <4>1. lockfile = h /\ (helper[k].made <=> lockfile = k)
        BY <1>6, MakerOwns
      <4>2. MadeInv(k)
        BY DEF LockInv
      <4> QED  BY <2>3, <3>2, <4>1, <4>2 DEF MadeInv
    <3> QED  BY <3>1, <3>2
  <2>9. LockHasOwner'
    BY <1>2, <2>1 DEF LockHasOwner
  <2> QED  BY <2>1, <2>2, <2>6, <2>7, <2>8, <2>9 DEF LockInv, LockTypes, HelperTypes
<1>7. CASE ~helper[h].made
  <2>1. /\ flk' = [i \in Inode |-> IF flk[i] = h THEN None ELSE flk[i]]
        /\ helper' = [helper EXCEPT ![h] = Idle(h)] /\ lockfile' = lockfile
    BY <1>7 DEF Unlocked, Goto
  <2>2. flk' \in [Inode -> Helper \cup {None}]
    BY <1>5, <2>1
  <2>3. Idle(h).made <=> lockfile' = h
    BY <1>3, <1>7, <2>1, MakerOwns
  <2> QED  BY <1>3, <1>4, <2>1, <2>2, <2>3, OneHelperMoves
<1> QED  BY <1>6, <1>7

\* lock_mtab, from the open file to the lock or another try.
LEMMA OpenKeepsLock ==
    ASSUME LockInv, NEW h \in Helper, LockOpen(h)
    PROVE  LockInv'
<1>1. CASE helper[h].expired /\ ~(helper[h].made /\ lockfile # None)
  <2>1. Unlocked(h) /\ kills' = kills
    BY <1>1 DEF LockOpen, Die, counts
  <2> QED  BY <2>1, UnlockedKeepsLock
<1>2. CASE ~(helper[h].expired /\ ~(helper[h].made /\ lockfile # None))
  <2> DEFINE pc == IF lockfile = None THEN "lk_link"
                   ELSE IF helper[h].made THEN "lk_claim" ELSE "lk_wait"
             r == [helper[h] EXCEPT !.fd = lockfile, !.pc = pc]
  <2>1. helper' = [helper EXCEPT ![h] = r]
    BY <1>2 DEF LockOpen, LockInv, HelperTypes
  <2>2. lockfile' = lockfile /\ flk' = flk /\ kills' = kills
    BY <1>2 DEF LockOpen, lockVars, counts
  <2>3. lockfile \in Inode \cup {None}
    BY DEF LockInv, LockTypes, Inode
  <2>4. pc \in Asking \cup Holding
    BY DEF Asking, Holding
  <2>5. helper[h] \in HelperRecord /\ (helper[h].made <=> lockfile = h)
    BY MakerOwns
  <2>6. h # None
    BY MtabAssumption DEF Inode
  <2>7. helper[h].made => pc \in Holding
    BY <2>5, <2>6 DEF Holding
  <2>8. ~helper[h].made => pc \notin Holding
    BY DEF Holding
  <2> HIDE DEF pc
  <2>9. r \in HelperRecord /\ r.req = helper[h].req /\ r.made = helper[h].made /\ r.pc = pc
    BY <2>3, <2>4, <2>5 DEF HelperRecord
  <2> HIDE DEF r
  <2>10. flk' \in [Inode -> Helper \cup {None}]
    BY <2>2 DEF LockInv, LockTypes
  <2> QED  BY <2>1, <2>2, <2>7, <2>8, <2>9, <2>10, SameOwner
<1> QED  BY <1>1, <1>2

\* lock_mtab of the owner.
LEMMA ClaimKeepsLock ==
    ASSUME LockInv, NEW h \in Helper, LockClaim(h)
    PROVE  LockInv'
<1> DEFINE r == [helper[h] EXCEPT !.pc = "read"]
<1>1. helper[h].pc = "lk_claim" /\ helper' = [helper EXCEPT ![h] = r]
  BY DEF LockClaim, At, Goto, LockInv, HelperTypes
<1>2. lockfile' = lockfile /\ kills' = kills
  BY DEF LockClaim, counts
<1>3. flk' \in [Inode -> Helper \cup {None}]
  BY DEF LockClaim, LockInv, LockTypes
<1>4. helper[h].made
  BY <1>1 DEF LockInv, MadeInv, Holding
<1>5. "read" \in Holding
  BY DEF Holding
<1>6. r \in HelperRecord /\ r.req = helper[h].req /\ r.made = helper[h].made /\ r.pc = "read"
  BY <1>5, MakerOwns, Moved
<1> HIDE DEF r
<1> QED  BY <1>1, <1>2, <1>3, <1>4, <1>5, <1>6, SameOwner

\* lock_mtab of a helper that finds somebody else's link.
LEMMA WaitKeepsLock ==
    ASSUME LockInv, NEW h \in Helper, LockWait(h)
    PROVE  LockInv'
<1>1. helper[h].pc \in {"lk_wait", "lk_sleep"} /\ lockfile' = lockfile /\ kills' = kills
  BY DEF LockWait, At, counts
<1>2. ~helper[h].made
  BY <1>1 DEF LockInv, MadeInv, Holding
<1>3. flk \in [Inode -> Helper \cup {None}]
  BY DEF LockInv, LockTypes
<1>4. flk' \in [Inode -> Helper \cup {None}]
  BY <1>3 DEF LockWait
<1>5. CASE helper[h].pc = "lk_wait"
  <2> DEFINE r == [helper[h] EXCEPT !.pc = "lk_sleep"]
  <2>1. helper' = [helper EXCEPT ![h] = r]
    BY <1>5 DEF LockWait, At, Goto, LockInv, HelperTypes
  <2>2. "lk_sleep" \in Asking /\ "lk_sleep" \notin Holding
    BY DEF Asking, Holding
  <2>3. /\ r \in HelperRecord /\ r.req = helper[h].req /\ r.made = helper[h].made
        /\ r.pc = "lk_sleep"
    BY <2>2, MakerOwns, Moved
  <2> HIDE DEF r
  <2> QED  BY <1>1, <1>2, <1>4, <2>1, <2>2, <2>3, SameOwner
<1>6. CASE helper[h].pc = "lk_sleep"
  <2> DEFINE r == [helper[h] EXCEPT !.fd = None, !.pc = "lk_link"]
  <2>1. helper' = [helper EXCEPT ![h] = r]
    BY <1>6 DEF LockWait, At, LockInv, HelperTypes
  <2>2. "lk_link" \in Asking /\ "lk_link" \notin Holding
    BY DEF Asking, Holding
  <2>3. /\ r \in HelperRecord /\ r.req = helper[h].req /\ r.made = helper[h].made
        /\ r.pc = "lk_link"
    BY <2>2, MakerOwns DEF HelperRecord
  <2> HIDE DEF r
  <2> QED  BY <1>1, <1>2, <1>4, <2>1, <2>2, <2>3, SameOwner
<1> QED  BY <1>1, <1>5, <1>6

\* Time passes.
LEMMA ExpireKeepsLock ==
    ASSUME LockInv, NEW h \in Helper, Expire(h)
    PROVE  LockInv'
<1> DEFINE r == [helper[h] EXCEPT !.expired = TRUE]
<1>1. helper[h].pc \notin Holding /\ helper' = [helper EXCEPT ![h] = r]
  BY DEF Expire, Holding, LockInv, HelperTypes
<1>2. lockfile' = lockfile /\ flk' = flk /\ kills' = kills
  BY DEF Expire, lockVars, counts
<1>3. flk' \in [Inode -> Helper \cup {None}]
  BY <1>2 DEF LockInv, LockTypes
<1>4. /\ r \in HelperRecord /\ r.req = helper[h].req /\ r.made = helper[h].made
      /\ r.pc = helper[h].pc
  BY MakerOwns DEF HelperRecord
<1>5. helper[h].made => helper[h].pc \in {"lk_open"} \cup Holding
  BY DEF LockInv, MadeInv
<1> HIDE DEF r
<1> QED  BY <1>1, <1>2, <1>3, <1>4, <1>5, SameOwner

\* The owner reads the table.
LEMMA ReadKeepsLock ==
    ASSUME LockInv, Tables, NEW h \in Helper, ReadMtab(h)
    PROVE  LockInv'
<1> DEFINE r == [helper[h] EXCEPT !.copy = mtab, !.pc = "write"]
<1>1. helper[h].pc = "read" /\ helper' = [helper EXCEPT ![h] = r]
  BY DEF ReadMtab, At, LockInv, HelperTypes
<1>2. lockfile' = lockfile /\ flk' = flk /\ kills' = kills
  BY DEF ReadMtab, lockVars, counts
<1>3. flk' \in [Inode -> Helper \cup {None}]
  BY <1>2 DEF LockInv, LockTypes
<1>4. "write" \in Holding /\ mtab \in Seq(Entry)
  BY DEF Holding, Tables
<1>5. /\ r \in HelperRecord /\ r.req = helper[h].req /\ r.made = helper[h].made
      /\ r.pc = "write"
  BY <1>4, MakerOwns DEF HelperRecord
<1>6. helper[h].made
  BY <1>1 DEF LockInv, MadeInv, Holding
<1> HIDE DEF r
<1> QED  BY <1>1, <1>2, <1>3, <1>4, <1>5, <1>6, SameOwner

\* The owner writes the table, which stays one.
LEMMA WriteKeepsLock ==
    ASSUME LockInv, Tables, NEW h \in Helper, WriteMtab(h)
    PROVE  LockInv' /\ Tables'
<1> DEFINE r == [helper[h] EXCEPT !.pc = "unlock", !.copy = <<>>]
<1>1. helper[h].pc = "write" /\ helper' = [helper EXCEPT ![h] = r]
  BY DEF WriteMtab, At, LockInv, HelperTypes
<1>2. /\ lockfile' = lockfile /\ flk' = flk /\ kills' = kills
      /\ UNCHANGED execVars /\ mounts' = mounts
  BY DEF WriteMtab, lockVars, counts
<1>3. flk' \in [Inode -> Helper \cup {None}]
  BY <1>2 DEF LockInv, LockTypes
<1>4. "unlock" \in Holding /\ <<>> \in Seq(Entry)
  BY DEF Holding
<1>5. /\ r \in HelperRecord /\ r.req = helper[h].req /\ r.made = helper[h].made
      /\ r.pc = "unlock"
  BY <1>4, MakerOwns DEF HelperRecord
<1>6. helper[h].made
  BY <1>1 DEF LockInv, MadeInv, Holding
<1> HIDE DEF r
<1>7. LockInv'
  BY <1>1, <1>2, <1>3, <1>4, <1>5, <1>6, SameOwner
<1>8. mtab \in Seq(Entry) /\ helper[h].entry \in Entry /\ helper[h].copy \in Seq(Entry)
  BY MakerOwns, HelperFields DEF Tables
<1>9. \/ mtab' = Append(mtab, helper[h].entry)
      \/ mtab' = Edited(helper[h].copy, helper[h].req.dir, helper[h].edit, helper[h].entry)
      \/ mtab' = mtab
  BY DEF WriteMtab
<1>10. Append(mtab, helper[h].entry) \in Seq(Entry)
  BY <1>8
<1>11. Edited(helper[h].copy, helper[h].req.dir, helper[h].edit, helper[h].entry) \in Seq(Entry)
  BY <1>8, EditedIsTable
<1>12. mtab' \in Seq(Entry)
  BY <1>8, <1>9, <1>10, <1>11
<1> QED  BY <1>2, <1>7, <1>12, ExecKept DEF Tables

\* A killed helper leaves its link behind, which nobody owns from then on.
LEMMA KillKeepsLock ==
    ASSUME LockInv, Counters, NEW h \in Helper, Kill(h)
    PROVE  LockInv' /\ Counters'
<1>1. helper \in [Helper -> HelperRecord] /\ \A k \in Helper : helper[k].req \in Requests[k]
  BY DEF LockInv, HelperTypes
<1>2. /\ "stale" \notin Helper /\ "stale" # None /\ None \notin Helper /\ h \in Inode
  BY MtabAssumption DEF Inode
<1>3. /\ Idle(h) \in HelperRecord /\ Idle(h).req \in Requests[h]
      /\ Idle(h).pc = "idle" /\ Idle(h).made = FALSE
  BY IdleIsRecord
<1>4. Idle(h).pc \notin Holding
  BY <1>3 DEF Holding
<1>5. flk \in [Inode -> Helper \cup {None}] /\ lockfile \in Helper \cup {"stale", None}
  BY DEF LockInv, LockTypes
<1>6. kills \in 0..MaxKill /\ MaxKill \in Nat /\ kills < MaxKill /\ kills' = kills + 1
  BY MtabAssumption DEF Kill, Counters
<1>7. kills' \in 0..MaxKill /\ kills' > 0
  BY <1>6
<1>8. lockfile' = IF lockfile = h THEN "stale" ELSE lockfile
  BY DEF Kill
<1>9. flk' \in [Inode -> Helper \cup {None}]
  <2>1. flk' = [i \in Inode |->
          LET o == IF i = "stale" /\ lockfile = h THEN flk[h] ELSE flk[i]
          IN IF o = h \/ (i = h /\ lockfile = h) THEN None ELSE o]
    BY DEF Kill
  <2>2. \A i \in Inode : flk'[i] \in Helper \cup {None}
    BY <1>2, <1>5, <2>1
  <2> QED  BY <2>1, <2>2
<1>10. helper' = [k \in Helper |->
          IF k = h THEN Idle(h)
          ELSE IF helper[k].fd = h THEN [helper[k] EXCEPT !.fd = "stale"]
          ELSE helper[k]]
  BY DEF Kill
<1>11. ASSUME NEW k \in Helper, k # h
       PROVE  /\ helper'[k] \in HelperRecord /\ helper'[k].req = helper[k].req
              /\ helper'[k].pc = helper[k].pc /\ helper'[k].made = helper[k].made
  <2>1. helper'[k] = helper[k] \/ helper'[k] = [helper[k] EXCEPT !.fd = "stale"]
    BY <1>10, <1>11
  <2>2. helper[k] \in HelperRecord
    BY <1>1
  <2>3. /\ [helper[k] EXCEPT !.fd = "stale"] \in HelperRecord
        /\ [helper[k] EXCEPT !.fd = "stale"].req = helper[k].req
        /\ [helper[k] EXCEPT !.fd = "stale"].pc = helper[k].pc
        /\ [helper[k] EXCEPT !.fd = "stale"].made = helper[k].made
    BY <2>2 DEF HelperRecord, Inode
  <2> QED  BY <2>1, <2>2, <2>3
<1>12. helper'[h] = Idle(h) /\ helper' = [k \in Helper |-> helper'[k]]
  BY <1>10
<1>13. \A k \in Helper : helper'[k] \in HelperRecord /\ helper'[k].req \in Requests[k]
  BY <1>1, <1>3, <1>11, <1>12
<1>14. helper' \in [Helper -> HelperRecord]
  BY <1>12, <1>13
<1>15. \A k \in Helper : MadeInv(k)'
  <2> SUFFICES ASSUME NEW k \in Helper PROVE MadeInv(k)'
    OBVIOUS
  <2>1. CASE k = h
    BY <1>3, <1>4, <1>12, <2>1 DEF MadeInv
  <2>2. CASE k # h
    <3>1. MadeInv(k)
      BY DEF LockInv
    <3>2. lockfile = k => lockfile' = k
      BY <1>8, <2>2
    <3> QED  BY <1>11, <2>2, <3>1, <3>2 DEF MadeInv
  <2> QED  BY <2>1, <2>2
<1>16. LockHasOwner'
  <2>1. lockfile \in Helper => helper[lockfile].made
    BY DEF LockInv, LockHasOwner
  <2>2. lockfile' \in Helper => lockfile' = lockfile /\ lockfile # h
    BY <1>2, <1>8
  <2>3. lockfile' \in Helper => helper'[lockfile'].made
    BY <1>11, <2>1, <2>2
  <2> QED  BY <1>7, <2>3 DEF LockHasOwner
<1>17. lockfile' \in Helper \cup {"stale", None}
  BY <1>5, <1>8
<1>18. starts' = starts /\ fails' = fails
  BY DEF Kill
<1>19. Counters'
  BY <1>7, <1>18 DEF Counters
<1> QED  BY <1>9, <1>13, <1>14, <1>15, <1>16, <1>17, <1>19 DEF LockInv, LockTypes, HelperTypes

-----------------------------------------------------------------------------
(***************************************************************************)
(* The theorem.                                                            *)
(***************************************************************************)
\* The invariant holds before the first helper starts.
LEMMA InitIInv == Init => IInv
<1> SUFFICES ASSUME Init PROVE IInv
  OBVIOUS
<1>1. AnyDir \in Dir
  BY DirAssumption DEF AnyDir
<1>2. ExecTypeOK
  BY <1>1 DEF Init, ExecInit, ExecTypeOK, DaemonState
<1>3. <<>> \in Seq(Entry)
  OBVIOUS
<1>4. Tables
  BY <1>2, <1>3 DEF Init, Tables
<1>5. Counters
  BY MtabAssumption DEF Init, Counters
<1>6. lockfile = None /\ flk = [i \in Inode |-> None] /\ helper = [h \in Helper |-> Idle(h)]
  BY DEF Init
<1>7. LockTypes
  BY <1>6 DEF LockTypes
<1>8. \A h \in Helper : /\ helper[h] = Idle(h) /\ Idle(h) \in HelperRecord
                        /\ Idle(h).req \in Requests[h]
                        /\ Idle(h).pc = "idle" /\ Idle(h).made = FALSE
  BY <1>6, IdleIsRecord
<1>9. HelperTypes
  BY <1>6, <1>8 DEF HelperTypes
<1>10. \A h \in Helper : MadeInv(h)
  BY <1>8 DEF MadeInv, Holding
<1>11. None \notin Helper /\ None # "stale"
  BY MtabAssumption DEF Inode
<1>12. LockHasOwner
  BY <1>6, <1>11 DEF LockHasOwner
<1> QED  BY <1>4, <1>5, <1>7, <1>9, <1>10, <1>12 DEF IInv

\* A step that leaves the processes, the mounts and the table alone.
LEMMA TablesKept ==
    ASSUME Tables, UNCHANGED <<execVars, mounts, mtab>>
    PROVE  Tables'
BY ExecKept DEF Tables

\* Every step of a helper keeps the invariant.
LEMMA HelperKeeps ==
    ASSUME LockInv, Tables, Counters, NEW h \in Helper, HelperStep(h)
    PROVE  LockInv' /\ Tables' /\ Counters'
<1>1. CASE \/ prepare_mount(h) \/ WaitEnds(h) \/ WaitTimesOut(h)
           \/ MountSucceeds(h) \/ MountFails(h) \/ update_mount_state(h) \/ Restart(h)
           \/ umount_dir(h) \/ UmountSucceeds(h) \/ UmountFails(h)
  BY <1>1, EarlySteps
<1>2. UNCHANGED counts => Counters'
  BY DEF counts, Counters
<1>3. UNCHANGED counts => kills' = kills
  BY DEF counts
<1>4. CASE LockRefused(h) \/ LockAlarm(h)
  <2>1. Unlocked(h) /\ UNCHANGED counts /\ UNCHANGED <<execVars, mounts, mtab>>
    BY <1>4 DEF LockRefused, LockAlarm, Die
  <2> QED  BY <1>2, <1>3, <2>1, UnlockedKeepsLock, TablesKept
<1>5. CASE LockLink(h)
  <2>1. UNCHANGED counts /\ UNCHANGED <<execVars, mounts, mtab>>
    BY <1>5 DEF LockLink
  <2> QED  BY <1>2, <1>5, <2>1, LinkKeepsLock, TablesKept
<1>6. CASE LockOpen(h)
  <2>1. UNCHANGED counts /\ UNCHANGED <<execVars, mounts, mtab>>
    BY <1>6 DEF LockOpen, Die
  <2> QED  BY <1>2, <1>6, <2>1, OpenKeepsLock, TablesKept
<1>7. CASE LockClaim(h)
  <2>1. UNCHANGED counts /\ UNCHANGED <<execVars, mounts, mtab>>
    BY <1>7 DEF LockClaim
  <2> QED  BY <1>2, <1>7, <2>1, ClaimKeepsLock, TablesKept
<1>8. CASE LockWait(h)
  <2>1. UNCHANGED counts /\ UNCHANGED <<execVars, mounts, mtab>>
    BY <1>8 DEF LockWait
  <2> QED  BY <1>2, <1>8, <2>1, WaitKeepsLock, TablesKept
<1>9. CASE ReadMtab(h)
  <2>1. UNCHANGED counts /\ UNCHANGED <<execVars, mounts, mtab>>
    BY <1>9 DEF ReadMtab
  <2> QED  BY <1>2, <1>9, <2>1, ReadKeepsLock, TablesKept
<1>10. CASE WriteMtab(h)
  <2>1. UNCHANGED counts
    BY <1>10 DEF WriteMtab
  <2> QED  BY <1>2, <1>10, <2>1, WriteKeepsLock
<1>11. CASE unlock_mtab(h)
  <2>1. Unlocked(h) /\ UNCHANGED counts /\ UNCHANGED <<execVars, mounts, mtab>>
    BY <1>11 DEF unlock_mtab
  <2> QED  BY <1>2, <1>3, <2>1, UnlockedKeepsLock, TablesKept
<1> QED  BY <1>1, <1>4, <1>5, <1>6, <1>7, <1>8, <1>9, <1>10, <1>11 DEF HelperStep

\* Every step of the system keeps the invariant.
LEMMA NextIInv == IInv /\ [Next]_vars => IInv'
<1> SUFFICES ASSUME IInv, [Next]_vars PROVE IInv'
  OBVIOUS
<1>1. LockInv /\ Tables /\ Counters
  BY DEF IInv, LockInv
<1>2. LockInv' /\ Tables' /\ Counters' => IInv'
  BY DEF IInv, LockInv
<1>3. ASSUME NEW h \in Helper, HelperStep(h) PROVE IInv'
  BY <1>1, <1>2, <1>3, HelperKeeps
<1>4. ASSUME NEW h \in Helper, Expire(h) PROVE IInv'
  <2>1. UNCHANGED <<execVars, mounts, mtab>> /\ UNCHANGED counts
    BY <1>4 DEF Expire
  <2>2. Counters'
    BY <1>1, <2>1 DEF Counters, counts
  <2> QED  BY <1>1, <1>2, <1>4, <2>1, <2>2, ExpireKeepsLock, TablesKept
<1>5. ASSUME NEW h \in Helper, Kill(h) PROVE IInv'
  <2>1. UNCHANGED <<execVars, mounts, mtab>>
    BY <1>5 DEF Kill
  <2> QED  BY <1>1, <1>2, <1>5, <2>1, KillKeepsLock, TablesKept
<1>6. ASSUME NEW h \in Helper, \E r \in Requests[h] : Start(h, r) PROVE IInv'
  BY <1>1, <1>2, <1>6, EarlySteps
<1>7. ASSUME Daemons PROVE IInv'
  <2>1. UNCHANGED <<lockfile, flk, mounts, mtab, helper, kills>>
    BY <1>7 DEF Daemons, lockVars
  <2>2. LockInv'
    BY <1>1, <2>1 DEF LockInv, LockTypes, HelperTypes, MadeInv, LockHasOwner
  <2>3. ExecTypeOK' /\ Counters'
    BY <1>1, <1>7, DaemonsKeep DEF Tables
  <2> QED  BY <1>1, <1>2, <2>1, <2>2, <2>3 DEF Tables
<1>8. CASE UNCHANGED vars
  <2>1. /\ UNCHANGED <<execVars, mounts, mtab>> /\ UNCHANGED counts
        /\ UNCHANGED <<lockfile, flk, helper, kills>>
    BY <1>8 DEF vars, execVars, counts
  <2>2. LockInv'
    BY <1>1, <2>1 DEF LockInv, LockTypes, HelperTypes, MadeInv, LockHasOwner
  <2>3. Counters'
    BY <1>1, <2>1 DEF Counters, counts
  <2> QED  BY <1>1, <1>2, <2>1, <2>2, <2>3, TablesKept
<1> QED  BY <1>3, <1>4, <1>5, <1>6, <1>7, <1>8 DEF Next

\* Two helpers with the table would both own the one lock file.
LEMMA OneOwner == IInv => MtabLocked
<1> SUFFICES ASSUME IInv PROVE MtabLocked
  OBVIOUS
<1>1. MtabExclusive
  <2> SUFFICES ASSUME NEW h \in Helper, NEW k \in Helper, Locked(h), Locked(k) PROVE h = k
    BY DEF MtabExclusive
  <2>1. helper[h].pc \in Holding /\ helper[k].pc \in Holding
    BY DEF Locked, Holding
  <2>2. lockfile = h /\ lockfile = k
    BY <2>1 DEF IInv, MadeInv
  <2> QED  BY <2>2
<1>2. TypeOK
  <2>1. \A h \in Helper : /\ helper[h].req \in Requests[h]
                          /\ helper[h].mc \in Entry /\ helper[h].entry \in Entry
                          /\ helper[h].copy \in Seq(Entry)
                          /\ helper[h].fd \in Inode \cup {None}
    BY HelperFields DEF IInv, HelperTypes
  <2> QED  BY <2>1 DEF TypeOK, IInv, Tables, LockTypes, Counters
<1> QED  BY <1>1, <1>2 DEF MtabLocked, IInv

\* "we proceed only if it was us that created the lock" (fstab.c): whatever
\* the number of helpers, of directories and of helpers killed at any point,
\* one helper at a time changes /etc/mtab, the lock file has an owner that
\* will remove it, and only a killed helper leaves one behind.
THEOREM MtabIsLocked == Spec => []MtabLocked
<1>1. Init => IInv
  BY InitIInv
<1>2. IInv /\ [Next]_vars => IInv'
  BY NextIInv
<1>3. IInv => MtabLocked
  BY OneOwner
<1> QED  BY <1>1, <1>2, <1>3, PTL DEF Spec

-----------------------------------------------------------------------------
(***************************************************************************)
(* What a table says of a directory.                                       *)
(***************************************************************************)
\* No entry of the directory; one entry, which is e.
Absent(tab, d) == \A i \in 1..Len(tab) : tab[i].dir # d
Only(tab, d, e) ==
    \E i \in 1..Len(tab) : /\ tab[i] = e /\ e.dir = d
                           /\ \A k \in 1..Len(tab) : tab[k].dir = d => k = i
Listed(tab, d) == \E e \in Entry : Only(tab, d, e)

\* What one table says of other directories than d, the other does.
Alike(tab, new, d) ==
    \A c : c # d => /\ Absent(tab, c) => Absent(new, c)
                    /\ \A e : Only(tab, c, e) => Only(new, c, e)

\* The last entry of a directory, if there is one.
LEMMA FindDir ==
    ASSUME NEW tab \in Seq(Entry), NEW d
    PROVE  /\ getmntdirbackward(tab, d) \in 0..Len(tab)
           /\ getmntdirbackward(tab, d) = 0 <=> Absent(tab, d)
           /\ getmntdirbackward(tab, d) # 0 => tab[getmntdirbackward(tab, d)].dir = d
<1> DEFINE I == {i \in 1..Len(tab) : tab[i].dir = d}
<1>1. getmntdirbackward(tab, d) = IF I # {} THEN Max(I) ELSE 0
  BY DEF getmntdirbackward, SelectLastInSeq
<1>2. Len(tab) \in Nat /\ I \in SUBSET (0..Len(tab)) /\ I \subseteq 1..Len(tab)
  OBVIOUS
<1>3. I # {} => Max(I) \in I
  <2>1. ASSUME I # {} PROVE \E g \in I : \A t \in I : t <= g
    BY <1>2, <2>1, HasGreatest
  <2>2. \A g, t \in I : t <= g <=> g >= t
    BY <1>2
  <2> QED  BY <2>1, <2>2 DEF Max
<1>4. I = {} <=> Absent(tab, d)
  BY DEF Absent
<1>5. \A i \in I : tab[i].dir = d /\ i \in 0..Len(tab) /\ i # 0
  BY <1>2
<1> HIDE DEF I
<1>6. 0 \in 0..Len(tab)
  BY <1>2
<1> QED  BY <1>1, <1>3, <1>4, <1>5, <1>6

\* The last writable entry, if there is one.
LEMMA FindRw ==
    ASSUME NEW tab \in Seq(Entry)
    PROVE  /\ find_rw_mount(tab) \in 0..Len(tab)
           /\ find_rw_mount(tab) = 0 => \A k \in 1..Len(tab) : ~tab[k].rw
           /\ find_rw_mount(tab) # 0 => tab[find_rw_mount(tab)].rw
<1> DEFINE I == {i \in 1..Len(tab) : tab[i].rw}
<1>1. find_rw_mount(tab) = IF I # {} THEN Max(I) ELSE 0
  BY DEF find_rw_mount, SelectLastInSeq
<1>2. Len(tab) \in Nat /\ I \in SUBSET (0..Len(tab)) /\ I \subseteq 1..Len(tab)
  OBVIOUS
<1>3. I # {} => Max(I) \in I
  <2>1. ASSUME I # {} PROVE \E g \in I : \A t \in I : t <= g
    BY <1>2, <2>1, HasGreatest
  <2>2. \A g, t \in I : t <= g <=> g >= t
    BY <1>2
  <2> QED  BY <2>1, <2>2 DEF Max
<1>4. I = {} => \A k \in 1..Len(tab) : ~tab[k].rw
  OBVIOUS
<1>5. \A i \in I : tab[i].rw /\ i \in 0..Len(tab) /\ i # 0
  BY <1>2
<1> HIDE DEF I
<1>6. 0 \in 0..Len(tab)
  BY <1>2
<1> QED  BY <1>1, <1>3, <1>4, <1>5, <1>6

\* The one entry is the one found.
LEMMA OnlyIsFound ==
    ASSUME NEW tab \in Seq(Entry), NEW d, NEW e, Only(tab, d, e)
    PROVE  /\ ~Absent(tab, d) /\ e \in Entry /\ e.dir = d
           /\ getmntdirbackward(tab, d) \in 1..Len(tab) /\ tab[getmntdirbackward(tab, d)] = e
           /\ \A k \in 1..Len(tab) : tab[k].dir = d => tab[k] = e /\ k = getmntdirbackward(tab, d)
<1>1. PICK i \in 1..Len(tab) : /\ tab[i] = e /\ e.dir = d
                               /\ \A k \in 1..Len(tab) : tab[k].dir = d => k = i
  BY DEF Only
<1>2. ~Absent(tab, d) /\ e \in Entry
  BY <1>1 DEF Absent
<1>3. /\ getmntdirbackward(tab, d) \in 1..Len(tab)
      /\ tab[getmntdirbackward(tab, d)].dir = d
  BY <1>2, FindDir
<1>4. getmntdirbackward(tab, d) = i
  BY <1>1, <1>3
<1> QED  BY <1>1, <1>2, <1>3, <1>4

\* A directory has one such entry.
LEMMA OnlyOne ==
    ASSUME NEW tab \in Seq(Entry), NEW d, NEW e, NEW f, Only(tab, d, e), Only(tab, d, f)
    PROVE  e = f
BY OnlyIsFound

\* A line at the end.
LEMMA AppendTells ==
    ASSUME NEW tab \in Seq(Entry), NEW e \in Entry
    PROVE  /\ Absent(tab, e.dir) => Only(Append(tab, e), e.dir, e)
           /\ Alike(tab, Append(tab, e), e.dir)
<1> DEFINE new == Append(tab, e)
<1>1. /\ Len(tab) \in Nat /\ Len(new) = Len(tab) + 1 /\ new[Len(tab) + 1] = e
      /\ \A k \in 1..Len(tab) : new[k] = tab[k]
  OBVIOUS
<1> HIDE DEF new
<1>2. \A k \in 1..Len(new) : k = Len(tab) + 1 \/ k \in 1..Len(tab)
  BY <1>1
<1>3. Len(tab) + 1 \in 1..Len(new) /\ \A k \in 1..Len(tab) : k \in 1..Len(new)
  BY <1>1
<1>4. Absent(tab, e.dir) => Only(new, e.dir, e)
  BY <1>1, <1>2, <1>3 DEF Absent, Only
<1>5. ASSUME NEW c, c # e.dir, Absent(tab, c) PROVE Absent(new, c)
  BY <1>1, <1>2, <1>5 DEF Absent
<1>6. ASSUME NEW c, c # e.dir, NEW f, Only(tab, c, f) PROVE Only(new, c, f)
  <2>1. PICK i \in 1..Len(tab) : /\ tab[i] = f /\ f.dir = c
                                 /\ \A k \in 1..Len(tab) : tab[k].dir = c => k = i
    BY <1>6 DEF Only
  <2>2. i \in 1..Len(new) /\ new[i] = f
    BY <1>1, <1>3, <2>1
  <2>3. \A k \in 1..Len(new) : new[k].dir = c => k = i
    BY <1>1, <1>2, <1>6, <2>1
  <2> QED  BY <2>1, <2>2, <2>3 DEF Only
<1> QED  BY <1>4, <1>5, <1>6 DEF Alike, new

\* A line changed.
LEMMA ReplaceTells ==
    ASSUME NEW tab \in Seq(Entry), NEW e \in Entry, NEW i \in 1..Len(tab),
           tab[i].dir = e.dir, \A k \in 1..Len(tab) : tab[k].dir = e.dir => k = i
    PROVE  /\ Only([tab EXCEPT ![i] = e], e.dir, e)
           /\ Alike(tab, [tab EXCEPT ![i] = e], e.dir)
<1> DEFINE new == [tab EXCEPT ![i] = e]
<1>1. /\ Len(tab) \in Nat /\ Len(new) = Len(tab) /\ new[i] = e
      /\ \A k \in 1..Len(tab) : k # i => new[k] = tab[k]
  BY ExceptSeq
<1> HIDE DEF new
<1>2. Only(new, e.dir, e)
  BY <1>1 DEF Only
<1>3. ASSUME NEW c, c # e.dir, Absent(tab, c) PROVE Absent(new, c)
  BY <1>1, <1>3 DEF Absent
<1>4. ASSUME NEW c, c # e.dir, NEW f, Only(tab, c, f) PROVE Only(new, c, f)
  <2>1. PICK j \in 1..Len(tab) : /\ tab[j] = f /\ f.dir = c
                                 /\ \A k \in 1..Len(tab) : tab[k].dir = c => k = j
    BY <1>4 DEF Only
  <2>2. j # i /\ j \in 1..Len(new) /\ new[j] = f
    BY <1>1, <1>4, <2>1
  <2>3. \A k \in 1..Len(new) : new[k].dir = c => k = j
    BY <1>1, <1>4, <2>1
  <2> QED  BY <2>1, <2>2, <2>3 DEF Only
<1> QED  BY <1>2, <1>3, <1>4 DEF Alike, new

\* A line dropped: what follows moves up.
LEMMA DropIs ==
    ASSUME NEW tab \in Seq(Entry), NEW i \in 1..Len(tab)
    PROVE  LET new == SubSeq(tab, 1, i - 1) \o SubSeq(tab, i + 1, Len(tab))
           IN  /\ Len(new) = Len(tab) - 1
               /\ \A k \in 1..Len(new) : new[k] = IF k < i THEN tab[k] ELSE tab[k + 1]
<1> DEFINE a == SubSeq(tab, 1, i - 1)
           b == SubSeq(tab, i + 1, Len(tab))
<1>1. Len(tab) \in Nat /\ i \in Nat /\ i >= 1 /\ i <= Len(tab)
  OBVIOUS
<1>2. \A k \in 1..Len(tab) : tab[k] \in Entry
  OBVIOUS
<1>3. /\ a \in Seq(Entry) /\ Len(a) = i - 1
      /\ \A k \in 1..i - 1 : a[k] = tab[k]
  <2>1. \A k \in 1..i - 1 : tab[k] \in Entry
    BY <1>1, <1>2
  <2>2. i - 1 \in Int /\ 1 \in Int /\ 1 <= i - 1 + 1
    BY <1>1
  <2> QED  BY <1>1, <2>1, <2>2, SubSeqProperties
<1>4. /\ b \in Seq(Entry) /\ Len(b) = Len(tab) - i
      /\ \A k \in 1..Len(tab) - i : b[k] = tab[i + k]
  <2>1. \A k \in i + 1..Len(tab) : tab[k] \in Entry
    BY <1>1, <1>2
  <2>2. i + 1 \in Int /\ Len(tab) \in Int /\ i + 1 <= Len(tab) + 1
    BY <1>1
  <2> QED  BY <1>1, <2>1, <2>2, SubSeqProperties
<1> HIDE DEF a, b
<1>5. /\ Len(a \o b) = Len(a) + Len(b)
      /\ \A k \in 1..Len(a) + Len(b) : (a \o b)[k] = IF k <= Len(a) THEN a[k] ELSE b[k - Len(a)]
  BY <1>3, <1>4, ConcatProperties
<1>6. Len(a \o b) = Len(tab) - 1
  BY <1>1, <1>3, <1>4, <1>5
<1>7. ASSUME NEW k \in 1..Len(tab) - 1
      PROVE  (a \o b)[k] = IF k < i THEN tab[k] ELSE tab[k + 1]
  <2>1. (a \o b)[k] = IF k <= i - 1 THEN a[k] ELSE b[k - (i - 1)]
    BY <1>1, <1>3, <1>4, <1>5
  <2>2. CASE k < i
    <3>1. k \in 1..i - 1
      BY <1>1, <2>2
    <3> QED  BY <1>1, <1>3, <2>1, <2>2, <3>1
  <2>3. CASE ~(k < i)
    <3>1. k - (i - 1) \in 1..Len(tab) - i /\ i + (k - (i - 1)) = k + 1 /\ ~(k <= i - 1)
      BY <1>1, <2>3
    <3>2. b[k - (i - 1)] = tab[i + (k - (i - 1))]
      BY <1>4, <3>1
    <3> QED  BY <2>1, <2>3, <3>1, <3>2
  <2> QED  BY <2>2, <2>3
<1> QED  BY <1>6, <1>7 DEF a, b

\* ... and says no more of its directory, if it was the only one.
LEMMA DropTells ==
    ASSUME NEW tab \in Seq(Entry), NEW d, NEW i \in 1..Len(tab), NEW new \in Seq(Entry),
           tab[i].dir = d, \A k \in 1..Len(tab) : tab[k].dir = d => k = i,
           Len(new) = Len(tab) - 1,
           \A k \in 1..Len(new) : new[k] = IF k < i THEN tab[k] ELSE tab[k + 1]
    PROVE  Absent(new, d) /\ Alike(tab, new, d)
<1>1. Len(tab) \in Nat /\ i \in Nat /\ i >= 1 /\ i <= Len(tab)
  OBVIOUS
<1>2. \A k \in 1..Len(new) : \E j \in 1..Len(tab) : j # i /\ new[k] = tab[j]
  <2> SUFFICES ASSUME NEW k \in 1..Len(new) PROVE \E j \in 1..Len(tab) : j # i /\ new[k] = tab[j]
    OBVIOUS
  <2>1. k < i => k \in 1..Len(tab) /\ k # i /\ new[k] = tab[k]
    BY <1>1
  <2>2. ~(k < i) => k + 1 \in 1..Len(tab) /\ k + 1 # i /\ new[k] = tab[k + 1]
    BY <1>1
  <2> QED  BY <2>1, <2>2
<1>3. Absent(new, d)
  BY <1>2 DEF Absent
<1>4. ASSUME NEW c, c # d, Absent(tab, c) PROVE Absent(new, c)
  BY <1>2, <1>4 DEF Absent
<1>5. ASSUME NEW c, c # d, NEW f, Only(tab, c, f) PROVE Only(new, c, f)
  <2>1. PICK j \in 1..Len(tab) : /\ tab[j] = f /\ f.dir = c
                                 /\ \A k \in 1..Len(tab) : tab[k].dir = c => k = j
    BY <1>5 DEF Only
  <2>2. j # i
    BY <1>5, <2>1
  <2> DEFINE n == IF j < i THEN j ELSE j - 1
  <2>3. n \in 1..Len(new) /\ new[n] = tab[j]
    <3>1. j < i => j \in 1..Len(new) /\ new[j] = tab[j]
      BY <1>1
    <3>2. ~(j < i) => j - 1 \in 1..Len(new) /\ ~(j - 1 < i) /\ (j - 1) + 1 = j
      BY <1>1, <2>2
    <3> QED  BY <3>1, <3>2
  <2>4. ASSUME NEW k \in 1..Len(new), new[k].dir = c PROVE k = n
    <3>1. k < i => k \in 1..Len(tab) /\ new[k] = tab[k]
      BY <1>1
    <3>2. ~(k < i) => k + 1 \in 1..Len(tab) /\ new[k] = tab[k + 1]
      BY <1>1
    <3>3. k < i => k = j
      BY <2>1, <2>4, <3>1
    <3>4. ~(k < i) => k + 1 = j
      BY <2>1, <2>4, <3>2
    <3>5. k \in Nat /\ j \in Nat
      BY <1>1
    <3> QED  BY <1>1, <3>3, <3>4, <3>5
  <2> HIDE DEF n
  <2> QED  BY <2>1, <2>3, <2>4 DEF Only
<1> QED  BY <1>3, <1>4, <1>5 DEF Alike

\* update_mtab() changes what the table says of one directory.
LEMMA EditedTells ==
    ASSUME NEW tab \in Seq(Entry), NEW d, NEW e \in Entry
    PROVE  /\ Listed(tab, d) \/ Absent(tab, d) =>
                 /\ Absent(Edited(tab, d, "del", e), d)
                 /\ Alike(tab, Edited(tab, d, "del", e), d)
           /\ Listed(tab, d) /\ e.dir = d =>
                 /\ Only(Edited(tab, d, "set", e), d, e)
                 /\ Alike(tab, Edited(tab, d, "set", e), d)
<1> DEFINE i == getmntdirbackward(tab, d)
           drop == SubSeq(tab, 1, i - 1) \o SubSeq(tab, i + 1, Len(tab))
<1>1. /\ Edited(tab, d, "del", e) = IF i = 0 THEN tab ELSE drop
      /\ Edited(tab, d, "set", e) = IF i = 0 THEN Append(tab, e) ELSE [tab EXCEPT ![i] = e]
  BY DEF Edited
<1>2. CASE Absent(tab, d)
  <2>1. i = 0 /\ ~Listed(tab, d)
    BY <1>2, FindDir, OnlyIsFound DEF Listed
  <2>2. Alike(tab, tab, d)
    BY DEF Alike
  <2> QED  BY <1>1, <1>2, <2>1, <2>2
<1>3. CASE Listed(tab, d)
  <2>1. PICK f \in Entry : Only(tab, d, f)
    BY <1>3 DEF Listed
  <2>2. /\ i \in 1..Len(tab) /\ tab[i].dir = d
        /\ \A k \in 1..Len(tab) : tab[k].dir = d => k = i
    BY <2>1, OnlyIsFound
  <2>3. i # 0
    BY <2>2
  <2>4. Edited(tab, d, "del", e) \in Seq(Entry)
    BY EditedIsTable
  <2>5. drop \in Seq(Entry)
    BY <1>1, <2>3, <2>4
  <2> HIDE DEF i
  <2>6. /\ Len(drop) = Len(tab) - 1
        /\ \A k \in 1..Len(drop) : drop[k] = IF k < i THEN tab[k] ELSE tab[k + 1]
    BY <2>2, DropIs
  <2> HIDE DEF drop
  <2>7. Absent(drop, d) /\ Alike(tab, drop, d)
    BY <2>2, <2>5, <2>6, DropTells
  <2>8. e.dir = d => Only([tab EXCEPT ![i] = e], d, e) /\ Alike(tab, [tab EXCEPT ![i] = e], d)
    BY <2>2, ReplaceTells
  <2> QED  BY <1>1, <2>3, <2>7, <2>8
<1>4. CASE ~Listed(tab, d) /\ ~Absent(tab, d)
  BY <1>4
<1> QED  BY <1>2, <1>3, <1>4

-----------------------------------------------------------------------------
(***************************************************************************)
(* What the table, the kernel and the helpers know of each other.          *)
(***************************************************************************)
\* The hypothesis of the theorem: no two helpers are given the same directory.
OwnDirectories ==
    \A h, k \in Helper : h # k => \A r \in Requests[h], s \in Requests[k] : r.dir # s.dir

\* The steps at which a helper knows nothing of the table that could become
\* wrong, at which it is about to change it, and at which the table is behind
\* the kernel.
Aside    == {"idle", "prepare", "uprepare", "unlock"}
Pending  == {"lk_link", "lk_open", "lk_wait", "lk_sleep", "lk_claim", "read", "write"}
Touching == Pending \cup {"launch"}

\* The table tells what the kernel has on the directory.
Mirror(tab, d, m) ==
    IF m = "no" THEN Absent(tab, d)
    ELSE \E e \in Entry : Only(tab, d, e) /\ e.rw = (m = "rw")

\* The entry would tell it.
Tells(e, d, m) == e.dir = d /\ m # "no" /\ e.rw = (m = "rw")

\* What a helper is about to do will make the table tell it.
Planned(tab, m, r) ==
    \/ r.edit = "add" /\ Absent(tab, r.req.dir) /\ Tells(r.entry, r.req.dir, m)
    \/ r.edit = "set" /\ Listed(tab, r.req.dir) /\ Tells(r.entry, r.req.dir, m)
    \/ r.edit = "del" /\ m = "no" /\ (Absent(tab, r.req.dir) \/ Listed(tab, r.req.dir))

\* What a helper has read is still so.
Knows(tab, m, r) ==
    /\ r.pc \in {"wait", "domount", "launch"} =>
          IF r.known THEN Listed(tab, r.req.dir) ELSE Absent(tab, r.req.dir)
    /\ \/ r.pc \in {"wait", "domount"} /\ r.remount
       \/ r.pc \in {"uwait", "doumount"} /\ r.alive
       \/ r.pc = "restart"
       => Only(tab, r.req.dir, r.mc) /\ r.mc.rw
    /\ r.pc = "launch" => m = IF r.req.ro THEN "ro" ELSE "rw"
    /\ r.pc \in Pending => Planned(tab, m, r)
    /\ r.pc = "write" => r.copy = tab

Truth ==
    /\ \A d \in Dir : (\A h \in Helper : helper[h].req.dir = d => helper[h].pc \notin Touching)
                      => Mirror(mtab, d, mounts[d])
    /\ \A h \in Helper : Knows(mtab, mounts[helper[h].req.dir], helper[h])

\* A daemon that works, and was not told to stop, is named by the entry of its
\* directory, which nobody is about to change, or by the one to be written.
InTable(tab, d, p) == \E e \in Entry : Only(tab, d, e) /\ e.rw /\ e.gcpid = p
InHand(r, d, p) ==
    /\ r.req.dir = d /\ r.pc \in Pending /\ r.edit \in {"add", "set"}
    /\ r.entry.rw /\ r.entry.gcpid = p
Named(tab, hs, d, p) ==
    \/ InTable(tab, d, p) /\ \A h \in Helper : hs[h].req.dir = d => hs[h].pc \in Aside
    \/ \E h \in Helper : InHand(hs[h], d, p)

Cleaners == \A p \in Pid : Running(p) => Named(mtab, helper, daemon[p].dir, p)

\* The inductive invariant, as far as nothing excuses the table or the cleaner.
TableInv == "table" \notin excused => Truth
CleanerInv == excused = {} => Cleaners

\* A helper that another one does not disturb, but that it may have open a
\* lock file that has gone.
Same(s, r) ==
    /\ s.pc = r.pc /\ s.req = r.req /\ s.mc = r.mc /\ s.remount = r.remount /\ s.alive = r.alive
    /\ s.known = r.known /\ s.edit = r.edit /\ s.entry = r.entry /\ s.copy = r.copy

\* A step of the helper h, whose progress is r afterwards: it changes the
\* mount, and what the table says, of its directory d only.
StepOf(h, d, r) ==
    /\ helper'[h] = r /\ \A k \in Helper : k # h => Same(helper'[k], helper[k])
    /\ \A c \in Dir : c # d => mounts'[c] = mounts[c]
    /\ Alike(mtab, mtab', d)
    /\ \A k \in Helper : k # h /\ helper[k].pc = "write" => mtab' = mtab

\* The other helpers work on other directories.
LEMMA Alone ==
    ASSUME OwnDirectories, HelperTypes, NEW h \in Helper, NEW k \in Helper, k # h
    PROVE  helper[k].req.dir # helper[h].req.dir
BY DEF OwnDirectories, HelperTypes

\* What a helper knows does not depend on other directories.
LEMMA StillKnows ==
    ASSUME NEW tab, NEW new, NEW m, NEW r, NEW s, NEW d, Same(s, r), Knows(tab, m, r),
           r.req.dir # d, Alike(tab, new, d), r.pc = "write" => new = tab
    PROVE  Knows(new, m, s)
<1>1. /\ Absent(tab, r.req.dir) => Absent(new, r.req.dir)
      /\ \A e : Only(tab, r.req.dir, e) => Only(new, r.req.dir, e)
  BY DEF Alike
<1>2. Listed(tab, r.req.dir) => Listed(new, r.req.dir)
  BY <1>1 DEF Listed
<1>3. Planned(tab, m, r) => Planned(new, m, s)
  BY <1>1, <1>2 DEF Planned, Same
<1> QED  BY <1>1, <1>2, <1>3 DEF Knows, Same

\* At other steps it knows nothing.
LEMMA AsideKnows ==
    ASSUME NEW tab, NEW m, NEW r, r.pc \in Aside
    PROVE  Knows(tab, m, r)
BY DEF Knows, Aside, Pending

\* A step keeps the truth if its helper knows what is so afterwards, and
\* leaves its directory to itself or as the table tells.
LEMMA TruthKept ==
    ASSUME OwnDirectories, Tables, HelperTypes, Truth, NEW h \in Helper, NEW d, NEW r,
           d = helper[h].req.dir, StepOf(h, d, r),
           r.pc \in Aside \/ (r.req.dir = d /\ Knows(mtab', mounts'[d], r)),
           (r.req.dir = d /\ r.pc \in Touching) \/ Mirror(mtab', d, mounts'[d])
    PROVE  Truth'
<1>1. ASSUME NEW c \in Dir, \A k \in Helper : helper'[k].req.dir = c => helper'[k].pc \notin Touching
      PROVE  Mirror(mtab', c, mounts'[c])
  <2>1. CASE c = d
    BY <1>1, <2>1 DEF StepOf
  <2>2. CASE c # d
    <3>1. \A k \in Helper : helper[k].req.dir = c => helper[k].pc \notin Touching
      <4> SUFFICES ASSUME NEW k \in Helper, helper[k].req.dir = c PROVE helper[k].pc \notin Touching
        OBVIOUS
      <4>1. k # h
        BY <2>2
      <4> QED  BY <1>1, <4>1 DEF StepOf, Same
    <3>2. Mirror(mtab, c, mounts[c])
      BY <3>1 DEF Truth
    <3>3. mounts'[c] = mounts[c] /\ Alike(mtab, mtab', d)
      BY <2>2 DEF StepOf
    <3> QED  BY <2>2, <3>2, <3>3 DEF Mirror, Alike
  <2> QED  BY <2>1, <2>2
<1>2. ASSUME NEW k \in Helper PROVE Knows(mtab', mounts'[helper'[k].req.dir], helper'[k])
  <2>1. CASE k = h
    <3>1. helper'[k] = r
      BY <2>1 DEF StepOf
    <3>2. CASE r.pc \in Aside
      BY <3>1, <3>2, AsideKnows
    <3>3. CASE r.req.dir = d /\ Knows(mtab', mounts'[d], r)
      BY <3>1, <3>3
    <3> QED  BY <3>2, <3>3
  <2>2. CASE k # h
    <3>1. helper[k].req.dir # d
      BY <2>2, Alone
    <3>2. helper[k].req.dir \in Dir
      BY HelperFields, EntryFields DEF HelperTypes
    <3>3. Knows(mtab, mounts[helper[k].req.dir], helper[k])
      BY DEF Truth
    <3>4. /\ mounts'[helper[k].req.dir] = mounts[helper[k].req.dir] /\ Alike(mtab, mtab', d)
          /\ Same(helper'[k], helper[k]) /\ (helper[k].pc = "write" => mtab' = mtab)
      BY <2>2, <3>1, <3>2 DEF StepOf
    <3>5. Knows(mtab', mounts[helper[k].req.dir], helper'[k])
      BY <3>1, <3>3, <3>4, StillKnows
    <3>6. helper'[k].req = helper[k].req
      BY <3>4 DEF Same
    <3> QED  BY <3>4, <3>5, <3>6
  <2> QED  BY <2>1, <2>2
<1> QED  BY <1>1, <1>2 DEF Truth

\* A step keeps the daemons named if those of its own directory are.
LEMMA CleanersKept ==
    ASSUME OwnDirectories, HelperTypes, Cleaners, NEW h \in Helper, NEW d, NEW r,
           d = helper[h].req.dir, StepOf(h, d, r), r.pc \in Aside \/ r.req.dir = d,
           \A p \in Pid : daemon'[p].st \in {"start", "run"} =>
               \/ Running(p) /\ daemon'[p].dir = daemon[p].dir /\ daemon[p].dir # d
               \/ Named(mtab', helper', daemon'[p].dir, p)
    PROVE  Cleaners'
<1> SUFFICES ASSUME NEW p \in Pid, daemon'[p].st \in {"start", "run"}
             PROVE  Named(mtab', helper', daemon'[p].dir, p)
  BY DEF Cleaners, Running
<1> DEFINE c == daemon[p].dir
<1>1. CASE Running(p) /\ daemon'[p].dir = c /\ c # d
  <2>1. Named(mtab, helper, c, p)
    BY <1>1 DEF Cleaners
  <2> HIDE DEF c
  <2>2. CASE InTable(mtab, c, p) /\ \A k \in Helper : helper[k].req.dir = c => helper[k].pc \in Aside
    <3>1. InTable(mtab', c, p)
      BY <1>1, <2>2 DEF InTable, StepOf, Alike
    <3>2. ASSUME NEW k \in Helper, helper'[k].req.dir = c PROVE helper'[k].pc \in Aside
      <4>1. CASE k = h
        BY <1>1, <3>2, <4>1 DEF StepOf
      <4>2. CASE k # h
        BY <2>2, <3>2, <4>2 DEF StepOf, Same
      <4> QED  BY <4>1, <4>2
    <3> QED  BY <1>1, <3>1, <3>2 DEF Named
  <2>3. CASE \E k \in Helper : InHand(helper[k], c, p)
    <3>1. PICK k \in Helper : InHand(helper[k], c, p)
      BY <2>3
    <3>2. k # h
      BY <1>1, <3>1 DEF InHand
    <3>3. InHand(helper'[k], c, p)
      BY <3>1, <3>2 DEF StepOf, Same, InHand
    <3> QED  BY <1>1, <3>3 DEF Named
  <2> QED  BY <2>1, <2>2, <2>3 DEF Named
<1> QED  BY <1>1

\* While a helper is between reading the table and making its entry, no daemon
\* works on its directory.
LEMMA NoneRuns ==
    ASSUME OwnDirectories, HelperTypes, Cleaners, NEW h \in Helper,
           helper[h].pc \notin Aside \cup Pending, NEW p \in Pid, Running(p)
    PROVE  daemon[p].dir # helper[h].req.dir
<1> SUFFICES ASSUME daemon[p].dir = helper[h].req.dir PROVE FALSE
  OBVIOUS
<1>1. Named(mtab, helper, helper[h].req.dir, p)
  BY DEF Cleaners
<1>2. \A k \in Helper : helper[k].req.dir = helper[h].req.dir => k = h
  BY Alone
<1> QED  BY <1>1, <1>2 DEF Named, InHand

\* The table tells of the directory of a helper that has not changed anything.
LEMMA OwnMirror ==
    ASSUME OwnDirectories, HelperTypes, Truth, NEW h \in Helper, helper[h].pc \notin Touching
    PROVE  /\ helper[h].req.dir \in Dir
           /\ Mirror(mtab, helper[h].req.dir, mounts[helper[h].req.dir])
<1>1. helper[h].req.dir \in Dir
  BY HelperFields, EntryFields DEF HelperTypes
<1>2. \A k \in Helper : helper[k].req.dir = helper[h].req.dir => k = h
  BY Alone
<1> QED  BY <1>1, <1>2 DEF Truth

-----------------------------------------------------------------------------
(***************************************************************************)
(* Steps that change neither daemons nor mounts nor the table.             *)
(***************************************************************************)
\* What a helper does without consequences for what is known.
Follows(s, r) ==
    \/ s.pc \notin Touching /\ r.pc \in Aside
    \/ /\ s.pc \notin Aside \cup Touching /\ r.pc \notin Aside \cup Touching
       /\ r.req = s.req
       /\ Knows(mtab, mounts[s.req.dir], s) => Knows(mtab, mounts[s.req.dir], r)
    \/ /\ s.pc \in Pending /\ r.pc \in Pending /\ r.req = s.req /\ r.edit = s.edit
       /\ r.entry = s.entry /\ (r.pc = "write" => r.copy = mtab)

\* It keeps the invariant.
LEMMA QuietKept ==
    ASSUME OwnDirectories, Tables, HelperTypes, TableInv, CleanerInv, NEW h \in Helper, NEW r,
           helper'[h] = r, \A k \in Helper : k # h => Same(helper'[k], helper[k]),
           daemon' = daemon, mounts' = mounts, mtab' = mtab, excused \subseteq excused',
           Follows(helper[h], r)
    PROVE  TableInv' /\ CleanerInv'
<1> DEFINE d == helper[h].req.dir
<1>1. Alike(mtab, mtab', d)
  BY DEF Alike
<1>2. StepOf(h, d, r)
  BY <1>1 DEF StepOf
<1>3. r.pc \in Aside \/ r.req.dir = d
  BY DEF Follows
<1>4. ASSUME "table" \notin excused' PROVE Truth'
  <2>1. Truth
    BY <1>4 DEF TableInv
  <2>2. Knows(mtab, mounts[d], helper[h])
    BY <2>1 DEF Truth
  <2>3. r.pc \in Aside \/ (r.req.dir = d /\ Knows(mtab', mounts'[d], r))
    <3>1. CASE helper[h].pc \in Pending /\ r.pc \in Pending
      <4>1. /\ Planned(mtab, mounts[d], helper[h])
            /\ r.pc \notin Aside \cup {"wait", "domount", "launch", "uwait", "doumount", "restart"}
        BY <2>2, <3>1 DEF Knows, Pending, Aside
      <4>2. r.req = helper[h].req /\ r.edit = helper[h].edit /\ r.entry = helper[h].entry
            /\ (r.pc = "write" => r.copy = mtab)
        BY <3>1, <4>1 DEF Follows, Touching
      <4>3. Planned(mtab, mounts[d], r)
        BY <4>1, <4>2 DEF Planned
      <4> QED  BY <4>1, <4>2, <4>3 DEF Knows
    <3>2. CASE ~(helper[h].pc \in Pending /\ r.pc \in Pending)
      BY <2>2, <3>2 DEF Follows
    <3> QED  BY <3>1, <3>2
  <2>4. (r.req.dir = d /\ r.pc \in Touching) \/ Mirror(mtab', d, mounts'[d])
    <3>1. CASE helper[h].pc \in Touching
      BY <3>1 DEF Follows, Touching
    <3>2. CASE helper[h].pc \notin Touching
      BY <2>1, <3>2, OwnMirror
    <3> QED  BY <3>1, <3>2
  <2> QED  BY <1>2, <2>1, <2>3, <2>4, TruthKept
<1>5. ASSUME excused' = {} PROVE Cleaners'
  <2>1. Cleaners
    BY <1>5 DEF CleanerInv
  <2>2. ASSUME NEW p \in Pid, daemon'[p].st \in {"start", "run"}, daemon[p].dir = d
        PROVE  Named(mtab', helper', daemon'[p].dir, p)
    <3>1. Running(p)
      BY <2>2 DEF Running
    <3>2. Named(mtab, helper, d, p)
      BY <2>1, <2>2, <3>1 DEF Cleaners
    <3>3. helper[h].pc \in Aside \cup Pending
      BY <2>1, <2>2, <3>1, NoneRuns
    <3>4. \A k \in Helper : k # h => helper[k].req.dir # d /\ helper'[k].req.dir # d
      BY Alone DEF Same
    <3>5. CASE helper[h].pc \in Aside
      <4>1. InTable(mtab, d, p)
        BY <3>2, <3>4, <3>5 DEF Named, InHand, Aside, Pending
      <4>2. r.pc \in Aside
        BY <3>5 DEF Follows, Aside, Pending
      <4> QED  BY <2>2, <3>4, <4>1, <4>2 DEF Named
    <3>6. CASE helper[h].pc \in Pending
      <4>1. helper[h].pc \notin Aside
        BY <3>6 DEF Aside, Pending
      <4>2. InHand(helper[h], d, p)
        BY <3>2, <3>4, <4>1 DEF Named, InHand
      <4>3. r.pc \in Pending /\ r.req = helper[h].req /\ r.edit = helper[h].edit
            /\ r.entry = helper[h].entry
        BY <3>6 DEF Follows, Touching
      <4>4. InHand(helper'[h], d, p)
        BY <4>2, <4>3 DEF InHand
      <4> QED  BY <2>2, <4>4 DEF Named
    <3> QED  BY <3>3, <3>5, <3>6
  <2>3. \A p \in Pid : daemon'[p].st \in {"start", "run"} =>
           \/ Running(p) /\ daemon'[p].dir = daemon[p].dir /\ daemon[p].dir # d
           \/ Named(mtab', helper', daemon'[p].dir, p)
    BY <2>2 DEF Running
  <2> QED  BY <1>2, <1>3, <2>1, <2>3, CleanersKept
<1> QED  BY <1>4, <1>5 DEF TableInv, CleanerInv

\* Of a helper that changes, the others notice nothing.
LEMMA OthersStay ==
    ASSUME HelperTypes, NEW h \in Helper, NEW r, helper' = [helper EXCEPT ![h] = r]
    PROVE  helper'[h] = r /\ \A k \in Helper : k # h => Same(helper'[k], helper[k])
BY DEF HelperTypes, Same

\* A helper that goes on without other changes.
LEMMA MovedFields ==
    ASSUME NEW s \in HelperRecord, NEW x
    PROVE  LET r == [s EXCEPT !.pc = x] IN
           /\ r.pc = x /\ r.req = s.req /\ r.mc = s.mc /\ r.remount = s.remount
           /\ r.alive = s.alive /\ r.known = s.known /\ r.edit = s.edit /\ r.entry = s.entry
BY DEF HelperRecord

\* The same, as an action.
LEMMA GotoMoves ==
    ASSUME HelperTypes, NEW h \in Helper, NEW x, Goto(h, x)
    PROVE  /\ \A k \in Helper : k # h => Same(helper'[k], helper[k])
           /\ x = "exit" => helper'[h].pc = "idle"
           /\ x # "exit" => /\ helper'[h].pc = x /\ helper'[h].req = helper[h].req
                            /\ helper'[h].mc = helper[h].mc /\ helper'[h].remount = helper[h].remount
                            /\ helper'[h].alive = helper[h].alive /\ helper'[h].known = helper[h].known
                            /\ helper'[h].edit = helper[h].edit /\ helper'[h].entry = helper[h].entry
<1> DEFINE r == IF x = "exit" THEN Idle(h) ELSE [helper[h] EXCEPT !.pc = x]
<1>1. helper \in [Helper -> HelperRecord] /\ helper[h] \in HelperRecord
  BY DEF HelperTypes
<1>2. helper' = [helper EXCEPT ![h] = r]
  BY <1>1 DEF Goto
<1>3. helper'[h] = r /\ \A k \in Helper : k # h => Same(helper'[k], helper[k])
  BY <1>2, OthersStay
<1>4. x = "exit" => r.pc = "idle"
  BY IdleIsRecord
<1>5. x # "exit" => /\ r.pc = x /\ r.req = helper[h].req /\ r.mc = helper[h].mc
                    /\ r.remount = helper[h].remount /\ r.alive = helper[h].alive
                    /\ r.known = helper[h].known /\ r.edit = helper[h].edit
                    /\ r.entry = helper[h].entry
  BY <1>1, MovedFields
<1> HIDE DEF r
<1> QED  BY <1>3, <1>4, <1>5

\* A step before lock_mtab that goes on without changing anything.
LEMMA GotoKept ==
    ASSUME OwnDirectories, Tables, HelperTypes, TableInv, CleanerInv, NEW h \in Helper, NEW x,
           Goto(h, x), daemon' = daemon, mounts' = mounts, mtab' = mtab, excused \subseteq excused',
           \/ helper[h].pc \notin Touching /\ x = "exit"
           \/ helper[h].pc = "wait" /\ x = "domount"
           \/ helper[h].pc = "uwait" /\ x = "doumount"
           \/ helper[h].pc = "domount" /\ helper[h].remount /\ x = "restart"
           \/ helper[h].pc = "doumount" /\ helper[h].alive /\ x = "restart"
           \/ helper[h].pc \in Pending /\ x \in Pending \ {"write"}
    PROVE  TableInv' /\ CleanerInv'
<1> DEFINE r == helper'[h]
<1>1. \A k \in Helper : k # h => Same(helper'[k], helper[k])
  BY GotoMoves
<1>2. CASE helper[h].pc \notin Touching /\ x = "exit"
  <2>1. r.pc \in Aside
    BY <1>2, GotoMoves DEF Aside
  <2>2. Follows(helper[h], r)
    BY <1>2, <2>1 DEF Follows
  <2> QED  BY <1>1, <2>2, QuietKept
<1>3. CASE helper[h].pc \in Pending /\ x \in Pending \ {"write"}
  <2>1. x # "exit"
    BY <1>3 DEF Pending
  <2>2. /\ r.pc = x /\ r.req = helper[h].req /\ r.edit = helper[h].edit
        /\ r.entry = helper[h].entry
    BY <2>1, GotoMoves
  <2>3. Follows(helper[h], r)
    BY <1>3, <2>2 DEF Follows
  <2> QED  BY <1>1, <2>3, QuietKept
<1>4. CASE \/ helper[h].pc = "wait" /\ x = "domount"
           \/ helper[h].pc = "uwait" /\ x = "doumount"
           \/ helper[h].pc = "domount" /\ helper[h].remount /\ x = "restart"
           \/ helper[h].pc = "doumount" /\ helper[h].alive /\ x = "restart"
  <2>1. x # "exit"
    BY <1>4
  <2>2. /\ r.pc = x /\ r.req = helper[h].req /\ r.mc = helper[h].mc
        /\ r.remount = helper[h].remount /\ r.alive = helper[h].alive
        /\ r.known = helper[h].known
    BY <2>1, GotoMoves
  <2> HIDE DEF r
  <2>3. /\ helper[h].pc \notin Aside \cup Touching /\ r.pc \notin Aside \cup Touching
    BY <1>4, <2>2 DEF Aside, Touching, Pending
  <2>4. ASSUME Knows(mtab, mounts[helper[h].req.dir], helper[h])
        PROVE  Knows(mtab, mounts[helper[h].req.dir], r)
    BY <1>4, <2>2, <2>4 DEF Knows, Pending
  <2>5. Follows(helper[h], r)
    BY <2>2, <2>3, <2>4 DEF Follows
  <2> QED  BY <1>1, <2>5, QuietKept DEF r
<1> QED  BY <1>2, <1>3, <1>4

\* Waiting for a daemon, and a mount that fails.
LEMMA WaitsKept ==
    ASSUME OwnDirectories, Tables, HelperTypes, TableInv, CleanerInv, NEW h \in Helper,
           WaitEnds(h) \/ WaitTimesOut(h) \/ MountFails(h)
    PROVE  TableInv' /\ CleanerInv'
<1>1. daemon' = daemon /\ mounts' = mounts /\ mtab' = mtab /\ excused \subseteq excused'
  BY DEF WaitEnds, WaitTimesOut, MountFails, execVars
<1>2. \E x : /\ Goto(h, x)
             /\ \/ helper[h].pc \in {"wait", "domount"} /\ x = "exit"
                \/ helper[h].pc = "wait" /\ x = "domount"
                \/ helper[h].pc = "uwait" /\ x = "doumount"
                \/ helper[h].pc = "domount" /\ helper[h].remount /\ x = "restart"
  <2>1. CASE WaitEnds(h)
    BY <2>1 DEF WaitEnds, At
  <2>2. CASE WaitTimesOut(h)
    BY <2>2 DEF WaitTimesOut, At
  <2>3. CASE MountFails(h)
    BY <2>3 DEF MountFails, At
  <2> QED  BY <2>1, <2>2, <2>3
<1>3. helper[h].pc \in {"wait", "domount"} => helper[h].pc \notin Touching
  BY DEF Touching, Pending
<1> QED  BY <1>1, <1>2, <1>3, GotoKept

\* A helper starts.
LEMMA StartKept ==
    ASSUME OwnDirectories, Tables, HelperTypes, TableInv, CleanerInv, NEW h \in Helper,
           NEW q \in Requests[h], Start(h, q)
    PROVE  TableInv' /\ CleanerInv'
<1> DEFINE r == [Idle(h) EXCEPT !.req = q, !.pc = IF q.op = "mount" THEN "prepare" ELSE "uprepare"]
<1>1. helper[h].pc = "idle" /\ helper' = [helper EXCEPT ![h] = r]
  BY DEF Start, At
<1>2. daemon' = daemon /\ mounts' = mounts /\ mtab' = mtab /\ excused \subseteq excused'
  BY DEF Start, execVars
<1>3. r.pc \in {"prepare", "uprepare"}
  BY IdleIsRecord DEF HelperRecord
<1> HIDE DEF r
<1>4. Follows(helper[h], r)
  BY <1>1, <1>3 DEF Follows, Aside, Touching, Pending
<1> QED  BY <1>1, <1>2, <1>4, OthersStay, QuietKept

\* A step of lock_mtab.
LEMMA LockingKept ==
    ASSUME OwnDirectories, Tables, HelperTypes, TableInv, CleanerInv, NEW h \in Helper,
           NEW r, helper' = [helper EXCEPT ![h] = r], helper[h].pc \in Pending, r.pc \in Pending,
           r.req = helper[h].req, r.edit = helper[h].edit, r.entry = helper[h].entry,
           r.pc = "write" => r.copy = mtab,
           UNCHANGED <<execVars, mounts, mtab, excused>>
    PROVE  TableInv' /\ CleanerInv'
<1>1. Follows(helper[h], r)
  BY DEF Follows
<1> QED  BY <1>1, OthersStay, QuietKept DEF execVars

\* Giving up, or being killed, excuses the table.
LEMMA ExcusedKept ==
    ASSUME excused' = excused \cup {"table"}
    PROVE  TableInv' /\ CleanerInv'
BY DEF TableInv, CleanerInv

\* All steps around the lock.
LEMMA LockStepsKept ==
    ASSUME OwnDirectories, Tables, HelperTypes, TableInv, CleanerInv, NEW h \in Helper,
           \/ LockRefused(h) \/ LockLink(h) \/ LockOpen(h) \/ LockClaim(h) \/ LockWait(h)
           \/ LockAlarm(h) \/ ReadMtab(h) \/ Expire(h)
    PROVE  TableInv' /\ CleanerInv'
<1> DEFINE s == helper[h]
<1>1. helper \in [Helper -> HelperRecord] /\ s \in HelperRecord
  BY DEF HelperTypes
<1>2. CASE LockRefused(h) \/ LockAlarm(h)
  BY <1>2, ExcusedKept DEF LockRefused, LockAlarm, Die
<1>3. CASE LockLink(h)
  <2> DEFINE r == [s EXCEPT !.made = lockfile = None, !.pc = "lk_open"]
  <2>1. /\ s.pc = "lk_link" /\ helper' = [helper EXCEPT ![h] = r]
        /\ UNCHANGED <<execVars, mounts, mtab, excused>>
    BY <1>1, <1>3 DEF LockLink, At
  <2>2. r.pc = "lk_open" /\ r.req = s.req /\ r.edit = s.edit /\ r.entry = s.entry
    BY <1>1 DEF HelperRecord
  <2> HIDE DEF r
  <2> QED  BY <2>1, <2>2, LockingKept DEF Pending
<1>4. CASE LockOpen(h)
  <2>1. CASE Die(h)
    BY <2>1, ExcusedKept DEF Die
  <2>2. CASE ~Die(h)
    <3> DEFINE x == IF lockfile = None THEN "lk_link" ELSE IF s.made THEN "lk_claim" ELSE "lk_wait"
               r == [s EXCEPT !.fd = lockfile, !.pc = x]
    <3>1. /\ s.pc = "lk_open" /\ helper' = [helper EXCEPT ![h] = r]
          /\ UNCHANGED <<execVars, mounts, mtab, excused>>
      BY <1>1, <1>4, <2>2 DEF LockOpen, At
    <3>2. x \in Pending \ {"write"}
      BY DEF Pending
    <3> HIDE DEF x
    <3>3. r.pc = x /\ r.req = s.req /\ r.edit = s.edit /\ r.entry = s.entry
      BY <1>1 DEF HelperRecord
    <3> HIDE DEF r
    <3> QED  BY <3>1, <3>2, <3>3, LockingKept DEF Pending
  <2> QED  BY <2>1, <2>2
<1>5. CASE LockClaim(h)
  <2>1. s.pc \in Pending /\ "read" \in Pending \ {"write"} /\ Goto(h, "read")
    BY <1>5 DEF LockClaim, At, Pending
  <2>2. daemon' = daemon /\ mounts' = mounts /\ mtab' = mtab /\ excused \subseteq excused'
    BY <1>5 DEF LockClaim, execVars
  <2> QED  BY <2>1, <2>2, GotoKept
<1>6. CASE LockWait(h)
  <2>1. daemon' = daemon /\ mounts' = mounts /\ mtab' = mtab /\ excused' = excused
        /\ UNCHANGED <<execVars, mounts, mtab, excused>>
    BY <1>6 DEF LockWait, execVars
  <2>2. CASE s.pc = "lk_wait" /\ Goto(h, "lk_sleep")
    <3>1. s.pc \in Pending /\ "lk_sleep" \in Pending \ {"write"} /\ excused \subseteq excused'
      BY <2>1, <2>2 DEF Pending
    <3> QED  BY <2>1, <2>2, <3>1, GotoKept
  <2>3. CASE s.pc = "lk_sleep" /\ helper' = [helper EXCEPT ![h].fd = None, ![h].pc = "lk_link"]
    <3> DEFINE r == [s EXCEPT !.fd = None, !.pc = "lk_link"]
    <3>1. helper' = [helper EXCEPT ![h] = r]
      BY <1>1, <2>3
    <3>2. r.pc = "lk_link" /\ r.req = s.req /\ r.edit = s.edit /\ r.entry = s.entry
      BY <1>1 DEF HelperRecord
    <3> HIDE DEF r
    <3> QED  BY <2>1, <2>3, <3>1, <3>2, LockingKept DEF Pending
  <2> QED  BY <1>6, <2>2, <2>3 DEF LockWait, At
<1>7. CASE ReadMtab(h)
  <2> DEFINE r == [s EXCEPT !.copy = mtab, !.pc = "write"]
  <2>1. /\ s.pc = "read" /\ helper' = [helper EXCEPT ![h] = r]
        /\ UNCHANGED <<execVars, mounts, mtab, excused>>
    BY <1>1, <1>7 DEF ReadMtab, At
  <2>2. r.pc = "write" /\ r.req = s.req /\ r.edit = s.edit /\ r.entry = s.entry /\ r.copy = mtab
    BY <1>1 DEF HelperRecord
  <2> HIDE DEF r
  <2> QED  BY <2>1, <2>2, LockingKept DEF Pending
<1>8. CASE Expire(h)
  <2> DEFINE r == [s EXCEPT !.expired = TRUE]
  <2>1. /\ s.pc \in {"lk_link", "lk_open", "lk_wait", "lk_sleep"} /\ helper' = [helper EXCEPT ![h] = r]
        /\ UNCHANGED <<execVars, mounts, mtab, excused>>
    BY <1>1, <1>8 DEF Expire
  <2>2. r.pc = s.pc /\ r.req = s.req /\ r.edit = s.edit /\ r.entry = s.entry
    BY <1>1 DEF HelperRecord
  <2> HIDE DEF r
  <2> QED  BY <2>1, <2>2, LockingKept DEF Pending
<1> QED  BY <1>2, <1>3, <1>4, <1>5, <1>6, <1>7, <1>8

\* The helper lets the lock go and ends.
LEMMA UnlockKept ==
    ASSUME OwnDirectories, Tables, HelperTypes, TableInv, CleanerInv, NEW h \in Helper,
           unlock_mtab(h)
    PROVE  TableInv' /\ CleanerInv'
<1>1. /\ helper[h].pc = "unlock" /\ Unlocked(h) /\ daemon' = daemon /\ mounts' = mounts
      /\ mtab' = mtab /\ excused \subseteq excused'
  BY DEF unlock_mtab, At, execVars
<1>2. helper \in [Helper -> HelperRecord]
  BY DEF HelperTypes
<1>3. helper'[h].pc = "idle" /\ \A k \in Helper : k # h => Same(helper'[k], helper[k])
  <2>1. CASE helper[h].made
    <3>1. helper' = [k \in Helper |->
               IF k = h THEN Idle(h)
               ELSE IF helper[k].fd = h THEN [helper[k] EXCEPT !.fd = "dead"]
               ELSE helper[k]]
      BY <1>1, <2>1 DEF Unlocked
    <3>2. helper'[h] = Idle(h)
      BY <3>1
    <3>3. ASSUME NEW k \in Helper, k # h PROVE Same(helper'[k], helper[k])
      <4>1. helper'[k] = helper[k] \/ helper'[k] = [helper[k] EXCEPT !.fd = "dead"]
        BY <3>1, <3>3
      <4>2. helper[k] \in HelperRecord
        BY <1>2
      <4>3. Same([helper[k] EXCEPT !.fd = "dead"], helper[k])
        BY <4>2 DEF Same, HelperRecord
      <4> QED  BY <4>1, <4>3 DEF Same
    <3> QED  BY <3>2, <3>3, IdleIsRecord
  <2>2. CASE ~helper[h].made
    <3>1. Goto(h, "exit")
      BY <1>1, <2>2 DEF Unlocked
    <3> QED  BY <3>1, GotoMoves
  <2> QED  BY <2>1, <2>2
<1>4. Follows(helper[h], helper'[h])
  BY <1>1, <1>3 DEF Follows, Aside, Touching, Pending
<1> QED  BY <1>1, <1>3, <1>4, QuietKept

-----------------------------------------------------------------------------
(***************************************************************************)
(* Steps with consequences.                                                *)
(***************************************************************************)
\* A daemon told to stop no longer counts as working; the others go on.
LEMMA TermedRuns ==
    ASSUME ExecTypeOK, NEW q, SigTerm(q), NEW p \in Pid, daemon'[p].st \in {"start", "run"}
    PROVE  p # q /\ daemon'[p] = daemon[p]
<1>1. daemon \in [Pid -> DaemonRecord]
  BY DEF ExecTypeOK, DaemonRecord
<1>2. daemon' = [daemon EXCEPT ![q].st = IF @ = "none" THEN @ ELSE "term"]
  BY DEF SigTerm
<1>3. p # q => daemon'[p] = daemon[p]
  BY <1>1, <1>2
<1>4. p = q => daemon'[p].st \in {"none", "term"}
  <2>1. daemon[p] \in DaemonRecord
    BY <1>1
  <2>2. p = q => daemon'[p] = [daemon[p] EXCEPT !.st = IF @ = "none" THEN @ ELSE "term"]
    BY <1>1, <1>2
  <2> QED  BY <2>1, <2>2 DEF DaemonRecord
<1> QED  BY <1>3, <1>4

\* A helper that has looked into the table, and told the daemon it found there
\* to stop.
LEMMA LookKept ==
    ASSUME OwnDirectories, Tables, HelperTypes, TableInv, CleanerInv, NEW h \in Helper, NEW r,
           helper' = [helper EXCEPT ![h] = r], r.req = helper[h].req,
           helper[h].pc \in {"prepare", "uprepare"},
           r.pc \in {"wait", "domount", "uwait", "doumount"},
           mounts' = mounts, mtab' = mtab, excused' = excused,
           Truth => Knows(mtab, mounts[helper[h].req.dir], r),
           \A p \in Pid : daemon'[p].st \in {"start", "run"} =>
               /\ daemon'[p] = daemon[p]
               /\ ~InTable(mtab, helper[h].req.dir, p)
    PROVE  TableInv' /\ CleanerInv'
<1> DEFINE d == helper[h].req.dir
<1>1. Alike(mtab, mtab', d)
  BY DEF Alike
<1>2. StepOf(h, d, r)
  BY <1>1, OthersStay DEF StepOf
<1>3. helper[h].pc \in Aside /\ helper[h].pc \notin Touching /\ helper[h].pc \notin Pending
  BY DEF Aside, Touching, Pending
<1>4. ASSUME "table" \notin excused' PROVE Truth'
  <2>1. Truth
    BY <1>4 DEF TableInv
  <2>2. Mirror(mtab', d, mounts'[d])
    BY <1>3, <2>1, OwnMirror
  <2> QED  BY <1>2, <2>1, <2>2, TruthKept
<1>5. ASSUME excused' = {} PROVE Cleaners'
  <2>1. Cleaners
    BY <1>5 DEF CleanerInv
  <2>2. ASSUME NEW p \in Pid, daemon'[p].st \in {"start", "run"}
        PROVE  Running(p) /\ daemon'[p].dir = daemon[p].dir /\ daemon[p].dir # d
    <3>1. Running(p) /\ daemon'[p] = daemon[p] /\ ~InTable(mtab, d, p)
      BY <2>2 DEF Running
    <3>2. Named(mtab, helper, daemon[p].dir, p)
      BY <2>1, <3>1 DEF Cleaners
    <3>3. \A k \in Helper : k # h => helper[k].req.dir # d
      BY Alone
    <3>4. ~Named(mtab, helper, d, p)
      BY <1>3, <3>1, <3>3 DEF Named, InHand
    <3> QED  BY <3>1, <3>2, <3>4
  <2> QED  BY <1>2, <2>1, <2>2, CleanersKept
<1> QED  BY <1>4, <1>5 DEF TableInv, CleanerInv

\* What prepare_mount() finds is what the table says of the directory.
LEMMA PrepareFinds ==
    ASSUME NEW tab \in Seq(Entry), NEW d, NEW m, Mirror(tab, d, m)
    PROVE  IF getmntdirbackward(tab, d) # 0 THEN Listed(tab, d) ELSE Absent(tab, d)
<1>1. Absent(tab, d) \/ Listed(tab, d)
  BY DEF Mirror, Listed
<1> QED  BY <1>1, FindDir

\* prepare_mount().
LEMMA PrepareKept ==
    ASSUME OwnDirectories, LockInv, Tables, TableInv, CleanerInv, NEW h \in Helper,
           prepare_mount(h)
    PROVE  TableInv' /\ CleanerInv'
<1> DEFINE req == helper[h].req
           d   == req.dir
           at  == getmntdirbackward(mtab, req.dir)
           rw  == find_rw_mount(mtab)
           refused == \/ ~req.remount /\ at # 0
                      \/ ~req.remount /\ ~req.ro /\ rw # 0
                      \/ req.remount /\ rw # 0 /\ mtab[rw].dir # req.dir
           stops == req.remount /\ rw # 0 /\ ~refused
           old == IF rw = 0 THEN NoEntry(req.dir) ELSE mtab[rw]
           r == [helper[h] EXCEPT !.known = at # 0, !.mc = old, !.remount = stops,
                   !.pc = IF stops /\ old.gcpid # NoPid THEN "wait" ELSE "domount"]
<1>1. HelperTypes /\ helper \in [Helper -> HelperRecord] /\ helper[h] \in HelperRecord
      /\ mtab \in Seq(Entry) /\ ExecTypeOK
  BY DEF LockInv, HelperTypes, Tables
<1>2. helper[h].pc = "prepare" /\ mounts' = mounts /\ mtab' = mtab /\ excused' = excused
  BY DEF prepare_mount, At
<1>3. helper' = [helper EXCEPT ![h] = IF refused THEN Idle(h) ELSE r]
  BY <1>1 DEF prepare_mount
<1>4. IF stops /\ old.gcpid # NoPid THEN SigTerm(old.gcpid) ELSE UNCHANGED execVars
  BY DEF prepare_mount
<1>5. /\ at \in 0..Len(mtab) /\ (at = 0 <=> Absent(mtab, d))
      /\ rw \in 0..Len(mtab) /\ (rw = 0 => \A k \in 1..Len(mtab) : ~mtab[k].rw)
      /\ (rw # 0 => mtab[rw].rw)
  BY <1>1, FindDir, FindRw
<1>6. Truth => IF at # 0 THEN Listed(mtab, d) ELSE Absent(mtab, d)
  BY <1>1, <1>2, OwnMirror, PrepareFinds DEF Touching, Pending
<1> HIDE DEF at, rw
<1>7. CASE refused
  <2>1. helper'[h].pc = "idle" /\ \A k \in Helper : k # h => Same(helper'[k], helper[k])
    BY <1>1, <1>3, <1>7, OthersStay, IdleIsRecord
  <2>2. daemon' = daemon
    BY <1>4, <1>7 DEF execVars
  <2>3. Follows(helper[h], helper'[h])
    BY <1>2, <2>1 DEF Follows, Aside, Touching, Pending
  <2> QED  BY <1>1, <1>2, <2>1, <2>2, <2>3, QuietKept
<1>8. CASE ~refused
  <2>1. helper' = [helper EXCEPT ![h] = r]
    BY <1>3, <1>8
  <2>2. stops => rw \in 1..Len(mtab) /\ old = mtab[rw] /\ mtab[rw].dir = d /\ old.rw
    BY <1>5, <1>8
  <2>3. (at # 0) \in BOOLEAN /\ stops \in BOOLEAN
    OBVIOUS
  <2>4. ASSUME NEW p \in Pid, daemon'[p].st \in {"start", "run"}
        PROVE  daemon'[p] = daemon[p] /\ ~InTable(mtab, d, p)
    <3>1. daemon'[p] = daemon[p] /\ (stops /\ old.gcpid # NoPid => old.gcpid # p)
      BY <1>1, <1>4, <2>4, TermedRuns DEF execVars
    <3>2. ASSUME InTable(mtab, d, p) PROVE FALSE
      <4>1. PICK e \in Entry : Only(mtab, d, e) /\ e.rw /\ e.gcpid = p
        BY <3>2 DEF InTable
      <4>2. /\ ~Absent(mtab, d) /\ e.dir = d
            /\ \A k \in 1..Len(mtab) : mtab[k].dir = d => mtab[k] = e
            /\ \E k \in 1..Len(mtab) : mtab[k] = e
        BY <1>1, <4>1, OnlyIsFound
      <4>3. at # 0 /\ rw # 0 /\ rw \in 1..Len(mtab)
        BY <1>5, <4>1, <4>2
      <4>4. req.remount /\ mtab[rw].dir = d
        BY <1>8, <4>3
      <4>5. stops /\ old = e
        BY <1>8, <4>2, <4>3, <4>4
      <4>6. p # NoPid
        BY PidAssumption
      <4> QED  BY <3>1, <4>1, <4>5, <4>6
    <3> QED  BY <3>1, <3>2
  <2> HIDE DEF stops, refused, old
  <2>5. /\ r.req = req /\ r.known = (at # 0) /\ r.mc = old /\ r.remount = stops
        /\ r.pc \in {"wait", "domount"}
    BY <1>1 DEF HelperRecord
  <2> HIDE DEF r
  <2>6. ASSUME Truth PROVE Knows(mtab, mounts[d], r)
    <3>1. IF at # 0 THEN Listed(mtab, d) ELSE Absent(mtab, d)
      BY <1>6, <2>6
    <3>2. ASSUME stops PROVE Only(mtab, d, old) /\ old.rw
      <4>1. rw \in 1..Len(mtab) /\ old = mtab[rw] /\ mtab[rw].dir = d /\ old.rw
        BY <2>2, <3>2
      <4>2. ~Absent(mtab, d)
        BY <4>1 DEF Absent
      <4>3. PICK e \in Entry : Only(mtab, d, e)
        BY <1>5, <3>1, <4>2 DEF Listed
      <4>4. mtab[rw] = e
        BY <1>1, <4>1, <4>3, OnlyIsFound
      <4> QED  BY <4>1, <4>3, <4>4
    <3> QED  BY <2>5, <3>1, <3>2 DEF Knows, Pending
  <2>7. /\ helper[h].pc \in {"prepare", "uprepare"} /\ r.pc \in {"wait", "domount", "uwait", "doumount"}
    BY <1>2, <2>5
  <2> QED  BY <1>1, <1>2, <2>1, <2>4, <2>5, <2>6, <2>7, LookKept
<1> QED  BY <1>7, <1>8

\* umount_dir().
LEMMA UprepareKept ==
    ASSUME OwnDirectories, LockInv, Tables, TableInv, CleanerInv, NEW h \in Helper,
           umount_dir(h)
    PROVE  TableInv' /\ CleanerInv'
<1> DEFINE d == helper[h].req.dir
           at == getmntdirbackward(mtab, d)
           old == IF at = 0 THEN NoEntry(d) ELSE mtab[at]
           stops == old.rw /\ old.gcpid # NoPid
           alive == stops /\ process_is_alive(old.gcpid)
           r == [helper[h] EXCEPT !.mc = old, !.alive = alive,
                   !.pc = IF stops THEN "uwait" ELSE "doumount"]
<1>1. HelperTypes /\ helper \in [Helper -> HelperRecord] /\ helper[h] \in HelperRecord
      /\ mtab \in Seq(Entry) /\ ExecTypeOK
  BY DEF LockInv, HelperTypes, Tables
<1>2. helper[h].pc = "uprepare" /\ mounts' = mounts /\ mtab' = mtab /\ excused' = excused
  BY DEF umount_dir, At
<1>3. helper' = [helper EXCEPT ![h] = r]
  BY <1>1 DEF umount_dir
<1>4. IF stops THEN SigTerm(old.gcpid) ELSE UNCHANGED execVars
  BY DEF umount_dir
<1>5. at \in 0..Len(mtab) /\ (at = 0 <=> Absent(mtab, d)) /\ (at # 0 => mtab[at].dir = d)
  BY <1>1, FindDir
<1>6. Truth => IF at # 0 THEN Listed(mtab, d) ELSE Absent(mtab, d)
  BY <1>1, <1>2, OwnMirror, PrepareFinds DEF Touching, Pending
<1>7. \A e : Only(mtab, d, e) => at \in 1..Len(mtab) /\ mtab[at] = e /\ at # 0
  BY <1>1, OnlyIsFound
<1> HIDE DEF at
<1>8. old.rw => at # 0
  BY DEF NoEntry
<1>9. ASSUME NEW p \in Pid, daemon'[p].st \in {"start", "run"}
      PROVE  daemon'[p] = daemon[p] /\ ~InTable(mtab, d, p)
  <2>1. daemon'[p] = daemon[p] /\ (stops => old.gcpid # p)
    BY <1>1, <1>4, <1>9, TermedRuns DEF execVars
  <2>2. ASSUME InTable(mtab, d, p) PROVE FALSE
    <3>1. PICK e \in Entry : Only(mtab, d, e) /\ e.rw /\ e.gcpid = p
      BY <2>2 DEF InTable
    <3>2. old = e
      BY <1>7, <3>1
    <3>3. p # NoPid
      BY PidAssumption
    <3> QED  BY <2>1, <3>1, <3>2, <3>3
  <2> QED  BY <2>1, <2>2
<1>10. alive => old.rw
  OBVIOUS
<1>11. Truth /\ old.rw => Only(mtab, d, old)
  <2>1. ASSUME Truth, old.rw PROVE Only(mtab, d, old)
    <3>1. at # 0 /\ Listed(mtab, d)
      BY <1>6, <1>8, <2>1
    <3>2. PICK e \in Entry : Only(mtab, d, e)
      BY <3>1 DEF Listed
    <3> QED  BY <1>7, <3>1, <3>2
  <2> QED  BY <2>1
<1> HIDE DEF old, stops, alive
<1>12. r.req = helper[h].req /\ r.mc = old /\ r.alive = alive /\ r.pc \in {"uwait", "doumount"}
  BY <1>1 DEF HelperRecord
<1> HIDE DEF r
<1>13. Truth => Knows(mtab, mounts[d], r)
  BY <1>10, <1>11, <1>12 DEF Knows, Pending
<1>14. /\ helper[h].pc \in {"prepare", "uprepare"} /\ r.pc \in {"wait", "domount", "uwait", "doumount"}
  BY <1>2, <1>12
<1> QED  BY <1>1, <1>2, <1>3, <1>9, <1>12, <1>13, <1>14, LookKept

\* mount(2) succeeds.
LEMMA MountKept ==
    ASSUME OwnDirectories, Tables, HelperTypes, TableInv, CleanerInv, NEW h \in Helper,
           MountSucceeds(h)
    PROVE  TableInv' /\ CleanerInv'
<1> DEFINE d == helper[h].req.dir
           r == helper'[h]
<1>1. /\ helper[h].pc = "domount" /\ Goto(h, "launch") /\ daemon' = daemon /\ mtab' = mtab
      /\ excused' = excused
      /\ mounts' = [mounts EXCEPT ![d] = IF helper[h].req.ro THEN "ro" ELSE "rw"]
  BY DEF MountSucceeds, At, execVars
<1>2. d \in Dir /\ mounts \in [Dir -> {"no", "rw", "ro"}]
  BY HelperFields, EntryFields DEF HelperTypes, Tables
<1>3. /\ mounts'[d] = IF helper[h].req.ro THEN "ro" ELSE "rw"
      /\ \A c \in Dir : c # d => mounts'[c] = mounts[c]
  BY <1>1, <1>2
<1>4. /\ \A k \in Helper : k # h => Same(helper'[k], helper[k])
      /\ r.pc = "launch" /\ r.req = helper[h].req /\ r.known = helper[h].known
  BY <1>1, GotoMoves
<1> HIDE DEF r
<1>5. Alike(mtab, mtab', d)
  BY <1>1 DEF Alike
<1>6. StepOf(h, d, r)
  BY <1>1, <1>3, <1>4, <1>5 DEF StepOf, r
<1>7. ASSUME "table" \notin excused' PROVE Truth'
  <2>1. Truth
    BY <1>1, <1>7 DEF TableInv
  <2>2. Knows(mtab, mounts[d], helper[h])
    BY <2>1 DEF Truth
  <2>3. IF helper[h].known THEN Listed(mtab, d) ELSE Absent(mtab, d)
    BY <1>1, <2>2 DEF Knows
  <2>4. Knows(mtab', mounts'[d], r)
    BY <1>1, <1>3, <1>4, <2>3 DEF Knows, Pending
  <2>5. r.pc \in Touching
    BY <1>4 DEF Touching
  <2> QED  BY <1>4, <1>6, <2>1, <2>4, <2>5, TruthKept
<1>8. ASSUME excused' = {} PROVE Cleaners'
  <2>1. Cleaners
    BY <1>1, <1>8 DEF CleanerInv
  <2>2. helper[h].pc \notin Aside \cup Pending
    BY <1>1 DEF Aside, Pending
  <2>3. \A p \in Pid : daemon'[p].st \in {"start", "run"} =>
           Running(p) /\ daemon'[p].dir = daemon[p].dir /\ daemon[p].dir # d
    BY <1>1, <2>1, <2>2, NoneRuns DEF Running
  <2> QED  BY <1>4, <1>6, <2>1, <2>3, CleanersKept
<1> QED  BY <1>7, <1>8 DEF TableInv, CleanerInv

\* A helper that is about to change the table.
LEMMA EditMoves ==
    ASSUME HelperTypes, NEW h \in Helper, NEW edit, NEW entry, Edit(h, edit, entry)
    PROVE  /\ \A k \in Helper : k # h => Same(helper'[k], helper[k])
           /\ helper'[h].pc = "lk_link" /\ helper'[h].req = helper[h].req
           /\ helper'[h].edit = edit /\ helper'[h].entry = entry
<1> DEFINE r == [Idle(h) EXCEPT !.pc = "lk_link", !.req = helper[h].req,
                                !.edit = edit, !.entry = entry]
<1>1. helper' = [helper EXCEPT ![h] = r]
  BY DEF Edit
<1>2. Idle(h) \in HelperRecord
  BY IdleIsRecord
<1>3. r.pc = "lk_link" /\ r.req = helper[h].req /\ r.edit = edit /\ r.entry = entry
  BY <1>2 DEF HelperRecord
<1> HIDE DEF r
<1> QED  BY <1>1, <1>3, OthersStay

\* It keeps the invariant if the change is the right one, and names the daemon
\* it may have started.
LEMMA EditKept ==
    ASSUME OwnDirectories, Tables, HelperTypes, TableInv, CleanerInv, NEW h \in Helper,
           NEW edit \in {"add", "set", "del"}, NEW entry, Edit(h, edit, entry),
           helper[h].pc \notin Aside \cup Pending, mtab' = mtab, excused' = excused,
           \A c \in Dir : c # helper[h].req.dir => mounts'[c] = mounts[c],
           Truth => Planned(mtab, mounts'[helper[h].req.dir], helper'[h]),
           excused = {} => \A p \in Pid : \/ daemon'[p] = daemon[p]
                                         \/ /\ daemon'[p].dir = helper[h].req.dir
                                            /\ edit # "del" /\ entry.gcpid = p /\ entry.rw
    PROVE  TableInv' /\ CleanerInv'
<1> DEFINE d == helper[h].req.dir
           r == helper'[h]
<1>1. /\ \A k \in Helper : k # h => Same(helper'[k], helper[k])
      /\ r.pc = "lk_link" /\ r.req = helper[h].req /\ r.edit = edit /\ r.entry = entry
  BY EditMoves
<1>2. Alike(mtab, mtab', d)
  BY DEF Alike
<1>3. StepOf(h, d, r)
  BY <1>1, <1>2 DEF StepOf
<1>4. r.pc \in Pending /\ r.pc \in Touching
  BY <1>1 DEF Pending, Touching
<1>5. ASSUME "table" \notin excused' PROVE Truth'
  <2>1. Truth
    BY <1>5 DEF TableInv
  <2>2. Planned(mtab', mounts'[d], r)
    BY <2>1
  <2> HIDE DEF r
  <2>3. Knows(mtab', mounts'[d], r)
    BY <1>1, <2>2 DEF Knows
  <2> QED  BY <1>1, <1>3, <1>4, <2>1, <2>3, TruthKept
<1>6. ASSUME excused' = {} PROVE Cleaners'
  <2>1. Cleaners
    BY <1>6 DEF CleanerInv
  <2>2. ASSUME NEW p \in Pid, daemon'[p].st \in {"start", "run"}
        PROVE  \/ Running(p) /\ daemon'[p].dir = daemon[p].dir /\ daemon[p].dir # d
               \/ Named(mtab', helper', daemon'[p].dir, p)
    <3>1. CASE daemon'[p] = daemon[p]
      <4>1. Running(p)
        BY <2>2, <3>1 DEF Running
      <4> QED  BY <2>1, <3>1, <4>1, NoneRuns
    <3>2. CASE daemon'[p].dir = d /\ edit # "del" /\ entry.gcpid = p /\ entry.rw
      <4>1. InHand(helper'[h], d, p)
        BY <1>1, <1>4, <3>2 DEF InHand
      <4> QED  BY <3>2, <4>1 DEF Named
    <3> QED  BY <1>6, <3>1, <3>2
  <2> QED  BY <1>1, <1>3, <2>1, <2>2, CleanersKept
<1> QED  BY <1>5, <1>6 DEF TableInv, CleanerInv

\* A daemon started changes no other.
LEMMA StartedIs ==
    ASSUME ExecTypeOK, NEW q \in Pid, NEW d, NEW pp, LaunchStarts(q, d, pp), NEW p \in Pid
    PROVE  daemon'[p] = daemon[p] \/ (p = q /\ daemon'[p].dir = d)
BY DEF ExecTypeOK, LaunchStarts

\* update_mount_state().
LEMMA LaunchKept ==
    ASSUME OwnDirectories, Tables, HelperTypes, TableInv, CleanerInv, NEW h \in Helper,
           update_mount_state(h)
    PROVE  TableInv' /\ CleanerInv'
<1> DEFINE d == helper[h].req.dir
           edit == IF helper[h].known THEN "set" ELSE "add"
<1>1. helper[h].pc = "launch" /\ mounts' = mounts /\ mtab' = mtab /\ excused' = excused
  BY DEF update_mount_state, At
<1>2. helper[h].pc \notin Aside \cup Pending
  BY <1>1 DEF Aside, Pending
<1>3. helper[h].req.ro \in BOOLEAN /\ ExecTypeOK
  BY HelperFields, EntryFields DEF HelperTypes, Tables
<1>4. edit \in {"add", "set", "del"} /\ edit # "del"
  OBVIOUS
<1>5. \A pid : /\ NewEntry(h, pid).dir = d /\ NewEntry(h, pid).rw = ~helper[h].req.ro
               /\ NewEntry(h, pid).gcpid = pid
  BY DEF NewEntry
<1>6. ASSUME NEW pid, Edit(h, edit, NewEntry(h, pid)), Truth
      PROVE  Planned(mtab, mounts'[d], helper'[h])
  <2>1. /\ helper'[h].req = helper[h].req /\ helper'[h].edit = edit
        /\ helper'[h].entry = NewEntry(h, pid)
    BY <1>6, EditMoves
  <2>2. Knows(mtab, mounts[d], helper[h])
    BY <1>6 DEF Truth
  <2>3. /\ IF helper[h].known THEN Listed(mtab, d) ELSE Absent(mtab, d)
        /\ mounts[d] = IF helper[h].req.ro THEN "ro" ELSE "rw"
    BY <1>1, <2>2 DEF Knows
  <2>4. Tells(NewEntry(h, pid), d, mounts[d])
    BY <1>3, <1>5, <2>3 DEF Tells
  <2> QED  BY <1>1, <2>1, <2>3, <2>4 DEF Planned
<1>7. CASE Record(h, NoPid) /\ UNCHANGED execVars
  <2>1. Edit(h, edit, NewEntry(h, NoPid)) /\ daemon' = daemon
    BY <1>7 DEF Record, execVars
  <2> HIDE DEF edit
  <2> QED  BY <1>1, <1>2, <1>4, <1>6, <2>1, EditKept
<1>8. CASE \E p \in FreshPid : /\ rungc(helper[h].req) /\ Record(h, p)
                               /\ LaunchStarts(p, d, NewEntry(h, p).pp)
  <2>1. PICK q \in FreshPid : /\ rungc(helper[h].req) /\ Record(h, q)
                              /\ LaunchStarts(q, d, NewEntry(h, q).pp)
    BY <1>8
  <2>2. q \in Pid /\ Edit(h, edit, NewEntry(h, q)) /\ ~helper[h].req.ro
    BY <2>1 DEF FreshPid, Record, rungc
  <2>3. NewEntry(h, q).rw /\ NewEntry(h, q).gcpid = q
    BY <1>3, <1>5, <2>2
  <2>4. \A p \in Pid : daemon'[p] = daemon[p] \/ (p = q /\ daemon'[p].dir = d)
    BY <1>3, <2>1, <2>2, StartedIs
  <2> HIDE DEF edit
  <2> QED  BY <1>1, <1>2, <1>4, <1>6, <2>2, <2>3, <2>4, EditKept
<1>9. \/ Record(h, NoPid) /\ UNCHANGED execVars
      \/ \E p \in FreshPid : /\ rungc(helper[h].req) /\ Record(h, p)
                             /\ LaunchStarts(p, d, NewEntry(h, p).pp)
  BY DEF update_mount_state, LaunchSilent
<1> QED  BY <1>7, <1>8, <1>9

\* The restart of the daemon.
LEMMA RestartKept ==
    ASSUME OwnDirectories, Tables, HelperTypes, TableInv, CleanerInv, NEW h \in Helper,
           Restart(h)
    PROVE  TableInv' /\ CleanerInv'
<1> DEFINE d == helper[h].req.dir
           E(pid) == [helper[h].mc EXCEPT !.gcpid = pid]
<1>1. helper[h].pc = "restart" /\ mounts' = mounts /\ mtab' = mtab /\ excused' = excused
  BY DEF Restart, At
<1>2. helper[h].pc \notin Aside \cup Pending /\ helper[h].pc \notin Touching
  BY <1>1 DEF Aside, Pending, Touching
<1>3. helper[h].mc \in Entry /\ ExecTypeOK /\ mtab \in Seq(Entry)
  BY HelperFields DEF HelperTypes, Tables
<1>4. \A pid : /\ E(pid).dir = helper[h].mc.dir /\ E(pid).rw = helper[h].mc.rw
               /\ E(pid).gcpid = pid
  BY <1>3 DEF Entry
<1> HIDE DEF E
<1>5. Truth => /\ Only(mtab, d, helper[h].mc) /\ helper[h].mc.rw /\ helper[h].mc.dir = d
               /\ Mirror(mtab, d, mounts[d])
  <2>1. ASSUME Truth PROVE Only(mtab, d, helper[h].mc) /\ helper[h].mc.rw
    <3>1. Knows(mtab, mounts[d], helper[h])
      BY <2>1 DEF Truth
    <3> QED  BY <1>1, <3>1 DEF Knows
  <2> QED  BY <1>2, <1>3, <2>1, OnlyIsFound, OwnMirror
<1>6. ASSUME NEW pid, Edit(h, "set", E(pid)), Truth PROVE Planned(mtab, mounts'[d], helper'[h])
  <2>1. helper'[h].req = helper[h].req /\ helper'[h].edit = "set" /\ helper'[h].entry = E(pid)
    BY <1>6, EditMoves
  <2>2. ~Absent(mtab, d) /\ \A e : Only(mtab, d, e) => e = helper[h].mc
    BY <1>3, <1>5, <1>6, OnlyIsFound, OnlyOne
  <2>3. mounts[d] # "no" /\ helper[h].mc.rw = (mounts[d] = "rw")
    BY <1>5, <1>6, <2>2 DEF Mirror
  <2>4. Tells(E(pid), d, mounts[d]) /\ Listed(mtab, d)
    BY <1>3, <1>4, <1>5, <1>6, <2>3 DEF Tells, Listed
  <2> QED  BY <1>1, <2>1, <2>4 DEF Planned
<1>7. CASE Goto(h, "exit") /\ UNCHANGED execVars
  <2>1. daemon' = daemon /\ excused \subseteq excused'
    BY <1>1, <1>7 DEF execVars
  <2> QED  BY <1>1, <1>2, <1>7, <2>1, GotoKept
<1>8. CASE Edit(h, "set", E(NoPid)) /\ UNCHANGED execVars
  <2>1. daemon' = daemon
    BY <1>8 DEF execVars
  <2> QED  BY <1>1, <1>2, <1>6, <1>8, <2>1, EditKept
<1>9. CASE \E p \in FreshPid : LaunchStarts(p, d, helper[h].mc.pp) /\ Edit(h, "set", E(p))
  <2>1. PICK q \in FreshPid : LaunchStarts(q, d, helper[h].mc.pp) /\ Edit(h, "set", E(q))
    BY <1>9
  <2>2. q \in Pid
    BY DEF FreshPid
  <2>3. \A p \in Pid : daemon'[p] = daemon[p] \/ (p = q /\ daemon'[p].dir = d)
    BY <1>3, <2>1, <2>2, StartedIs
  <2>4. excused = {} => E(q).rw /\ E(q).gcpid = q
    BY <1>4, <1>5 DEF TableInv
  <2> QED  BY <1>1, <1>2, <1>6, <2>1, <2>3, <2>4, EditKept
<1>10. \/ Goto(h, "exit") /\ UNCHANGED execVars
       \/ Edit(h, "set", E(NoPid)) /\ UNCHANGED execVars
       \/ \E p \in FreshPid : LaunchStarts(p, d, helper[h].mc.pp) /\ Edit(h, "set", E(p))
  BY DEF Restart, LaunchRefused, LaunchSilent, E
<1> QED  BY <1>7, <1>8, <1>9, <1>10

\* umount(2) succeeds, or fails.
LEMMA UmountKept ==
    ASSUME OwnDirectories, Tables, HelperTypes, TableInv, CleanerInv, NEW h \in Helper,
           UmountSucceeds(h) \/ UmountFails(h)
    PROVE  TableInv' /\ CleanerInv'
<1> DEFINE d == helper[h].req.dir
<1>1. helper[h].pc = "doumount" /\ daemon' = daemon /\ mtab' = mtab /\ excused' = excused
  BY DEF UmountSucceeds, UmountFails, At, execVars
<1>2. helper[h].pc \notin Aside \cup Pending /\ helper[h].pc \notin Touching
  BY <1>1 DEF Aside, Pending, Touching
<1>3. d \in Dir /\ mounts \in [Dir -> {"no", "rw", "ro"}] /\ mtab \in Seq(Entry)
  BY HelperFields, EntryFields DEF HelperTypes, Tables
<1>4. Truth => Mirror(mtab, d, mounts[d])
  BY <1>2, OwnMirror
<1>5. CASE mounts' = [mounts EXCEPT ![d] = "no"] /\ Edit(h, "del", NoEntry(d))
  <2>1. mounts'[d] = "no" /\ \A c \in Dir : c # d => mounts'[c] = mounts[c]
    BY <1>3, <1>5
  <2>2. helper'[h].req = helper[h].req /\ helper'[h].edit = "del"
    BY <1>5, EditMoves
  <2>3. Truth => Absent(mtab, d) \/ Listed(mtab, d)
    BY <1>4 DEF Mirror, Listed
  <2>4. Truth => Planned(mtab, mounts'[d], helper'[h])
    BY <2>1, <2>2, <2>3 DEF Planned
  <2> QED  BY <1>1, <1>2, <1>5, <2>1, <2>4, EditKept
<1>6. CASE /\ mounts[d] # "no" /\ mounts' = [mounts EXCEPT ![d] = "ro"]
           /\ Edit(h, "set", NoEntry(d))
  <2>1. mounts'[d] = "ro" /\ \A c \in Dir : c # d => mounts'[c] = mounts[c]
    BY <1>3, <1>6
  <2>2. helper'[h].req = helper[h].req /\ helper'[h].edit = "set" /\ helper'[h].entry = NoEntry(d)
    BY <1>6, EditMoves
  <2>3. Truth => Listed(mtab, d)
    BY <1>4, <1>6 DEF Mirror, Listed
  <2>4. Tells(NoEntry(d), d, mounts'[d])
    BY <2>1 DEF Tells, NoEntry
  <2>5. Truth => Planned(mtab, mounts'[d], helper'[h])
    BY <2>2, <2>3, <2>4 DEF Planned
  <2> QED  BY <1>1, <1>2, <1>6, <2>1, <2>5, EditKept
<1>7. CASE mounts' = mounts /\ \E x : Goto(h, x) /\ (x = "exit" \/ (x = "restart" /\ helper[h].alive))
  <2>1. excused \subseteq excused'
    BY <1>1
  <2> QED  BY <1>1, <1>2, <1>7, <2>1, GotoKept
<1>8. \/ mounts' = [mounts EXCEPT ![d] = "no"] /\ Edit(h, "del", NoEntry(d))
      \/ /\ mounts[d] # "no" /\ mounts' = [mounts EXCEPT ![d] = "ro"] /\ Edit(h, "set", NoEntry(d))
      \/ mounts' = mounts /\ \E x : Goto(h, x) /\ (x = "exit" \/ (x = "restart" /\ helper[h].alive))
  <2>1. CASE UmountSucceeds(h)
    BY <2>1 DEF UmountSucceeds
  <2>2. CASE UmountFails(h)
    BY <2>2 DEF UmountFails
  <2> QED  BY <2>1, <2>2
<1> QED  BY <1>5, <1>6, <1>7, <1>8

\* The table is written: it tells of the directory again.
LEMMA WriteKept ==
    ASSUME OwnDirectories, LockInv, Tables, TableInv, CleanerInv, NEW h \in Helper,
           WriteMtab(h)
    PROVE  TableInv' /\ CleanerInv'
<1> DEFINE s == helper[h]
           d == s.req.dir
           r == [s EXCEPT !.pc = "unlock", !.copy = <<>>]
           new == IF s.edit = "add" THEN Append(mtab, s.entry)
                  ELSE Edited(s.copy, d, s.edit, s.entry)
<1>1. /\ HelperTypes /\ helper \in [Helper -> HelperRecord] /\ s \in HelperRecord
      /\ mtab \in Seq(Entry)
  BY DEF LockInv, HelperTypes, Tables
<1>2. s.pc = "write" /\ mounts' = mounts /\ daemon' = daemon /\ helper' = [helper EXCEPT ![h] = r]
  BY <1>1 DEF WriteMtab, At, execVars
<1>3. (mtab' = new /\ excused' = excused) \/ excused' = excused \cup {"table"}
  BY DEF WriteMtab
<1>4. r.pc = "unlock"
  BY <1>1 DEF HelperRecord
<1> HIDE DEF r
<1>5. CASE excused' = excused \cup {"table"}
  BY <1>5, ExcusedKept
<1>6. CASE "table" \in excused
  BY <1>3, <1>6 DEF TableInv, CleanerInv
<1>7. CASE mtab' = new /\ excused' = excused /\ "table" \notin excused
  <2>1. Truth
    BY <1>7 DEF TableInv
  <2>2. Knows(mtab, mounts[d], s)
    BY <2>1 DEF Truth
  <2>3. Planned(mtab, mounts[d], s) /\ s.copy = mtab
    BY <1>2, <2>2 DEF Knows, Pending
  <2>4. s.entry \in Entry
    BY <1>1, HelperFields
  <2>5. \/ s.edit = "add" /\ Absent(mtab, d) /\ Tells(s.entry, d, mounts[d])
        \/ s.edit = "set" /\ Listed(mtab, d) /\ Tells(s.entry, d, mounts[d])
        \/ s.edit = "del" /\ mounts[d] = "no" /\ (Absent(mtab, d) \/ Listed(mtab, d))
    BY <2>3 DEF Planned
  <2>6. /\ Alike(mtab, mtab', d) /\ Mirror(mtab', d, mounts'[d])
        /\ s.edit \in {"add", "set"} => Only(mtab', d, s.entry)
    <3>1. CASE s.edit = "add" /\ Absent(mtab, d) /\ Tells(s.entry, d, mounts[d])
      <4>1. mtab' = Append(mtab, s.entry) /\ s.entry.dir = d
        BY <1>7, <3>1 DEF Tells
      <4>2. Only(mtab', d, s.entry) /\ Alike(mtab, mtab', d)
        BY <1>1, <2>4, <3>1, <4>1, AppendTells
      <4> QED  BY <1>2, <2>4, <3>1, <4>2 DEF Mirror, Tells
    <3>2. CASE s.edit = "set" /\ Listed(mtab, d) /\ Tells(s.entry, d, mounts[d])
      <4>1. mtab' = Edited(mtab, d, "set", s.entry) /\ s.entry.dir = d
        BY <1>7, <2>3, <3>2 DEF Tells
      <4>2. Only(mtab', d, s.entry) /\ Alike(mtab, mtab', d)
        BY <1>1, <2>4, <3>2, <4>1, EditedTells
      <4> QED  BY <1>2, <2>4, <3>2, <4>2 DEF Mirror, Tells
    <3>3. CASE s.edit = "del" /\ mounts[d] = "no" /\ (Absent(mtab, d) \/ Listed(mtab, d))
      <4>1. mtab' = Edited(mtab, d, "del", s.entry)
        BY <1>7, <2>3, <3>3
      <4>2. Absent(mtab', d) /\ Alike(mtab, mtab', d)
        BY <1>1, <2>4, <3>3, <4>1, EditedTells
      <4> QED  BY <1>2, <3>3, <4>2 DEF Mirror
    <3> QED  BY <2>5, <3>1, <3>2, <3>3
  <2> HIDE DEF new
  <2>7. \A k \in Helper : helper[k].pc = "write" => k = h
    BY <1>2 DEF LockInv, MadeInv, Holding
  <2>8. StepOf(h, d, r)
    BY <1>1, <1>2, <2>6, <2>7, OthersStay DEF StepOf
  <2>9. r.pc \in Aside
    BY <1>4 DEF Aside
  <2>10. Truth'
    BY <1>1, <2>1, <2>6, <2>8, <2>9, TruthKept
  <2>11. ASSUME excused' = {} PROVE Cleaners'
    <3>1. Cleaners
      BY <1>7, <2>11 DEF CleanerInv
    <3>2. ASSUME NEW p \in Pid, daemon'[p].st \in {"start", "run"}, daemon[p].dir = d
          PROVE  Named(mtab', helper', daemon'[p].dir, p)
      <4>1. Named(mtab, helper, d, p)
        BY <1>2, <3>1, <3>2 DEF Cleaners, Running
      <4>2. s.pc \notin Aside
        BY <1>2 DEF Aside
      <4>3. \A k \in Helper : k # h => helper[k].req.dir # d
        BY <1>1, Alone
      <4>4. InHand(s, d, p)
        BY <4>1, <4>2, <4>3 DEF Named, InHand
      <4>5. InTable(mtab', d, p)
        BY <2>4, <2>6, <4>4 DEF InHand, InTable
      <4>6. \A k \in Helper : helper'[k].req.dir = d => helper'[k].pc \in Aside
        BY <2>8, <2>9, <4>3 DEF StepOf, Same
      <4> QED  BY <1>2, <3>2, <4>5, <4>6 DEF Named
    <3>3. \A p \in Pid : daemon'[p].st \in {"start", "run"} =>
             \/ Running(p) /\ daemon'[p].dir = daemon[p].dir /\ daemon[p].dir # d
             \/ Named(mtab', helper', daemon'[p].dir, p)
      BY <1>2, <3>2 DEF Running
    <3> QED  BY <1>1, <2>8, <2>9, <3>1, <3>3, CleanersKept
  <2> QED  BY <2>10, <2>11 DEF TableInv, CleanerInv
<1> QED  BY <1>3, <1>5, <1>6, <1>7

\* Daemons start to work and end on their own.
LEMMA DaemonsKept ==
    ASSUME ExecTypeOK, TableInv, CleanerInv, Daemons
    PROVE  TableInv' /\ CleanerInv'
<1>1. mounts' = mounts /\ mtab' = mtab /\ helper' = helper /\ excused' = excused
  BY DEF Daemons
<1>2. TableInv'
  BY <1>1 DEF TableInv, Truth
<1>3. daemon \in [Pid -> DaemonRecord]
  BY DEF ExecTypeOK, DaemonRecord
<1>4. PICK q \in Pid : DaemonOpens(q, RwDirs) \/ DaemonEnds(q)
  BY DEF Daemons, DaemonStep
<1>5. ASSUME NEW p \in Pid, daemon'[p].st \in {"start", "run"}
      PROVE  Running(p) /\ daemon'[p].dir = daemon[p].dir
  <2>1. daemon[p] \in DaemonRecord
    BY <1>3
  <2>2. CASE p # q
    <3>1. daemon'[p] = daemon[p]
      BY <1>3, <1>4, <2>2 DEF DaemonOpens, DaemonEnds
    <3> QED  BY <1>5, <3>1 DEF Running
  <2>3. CASE p = q /\ DaemonOpens(q, RwDirs)
    <3>1. daemon'[p] = [daemon[p] EXCEPT !.st = "run", !.open = TRUE] /\ daemon[p].st = "start"
      BY <1>3, <2>3 DEF DaemonOpens
    <3> QED  BY <2>1, <3>1 DEF DaemonRecord, Running
  <2>4. CASE p = q /\ DaemonEnds(q)
    <3>1. daemon'[p] = [daemon[p] EXCEPT !.st = "none", !.open = FALSE, !.dir = AnyDir]
      BY <1>3, <2>4 DEF DaemonEnds
    <3>2. daemon'[p].st = "none"
      BY <2>1, <3>1 DEF DaemonRecord
    <3> QED  BY <1>5, <3>2
  <2> QED  BY <1>4, <2>2, <2>3, <2>4
<1>6. Cleaners => Cleaners'
  BY <1>1, <1>5 DEF Cleaners, Running
<1> QED  BY <1>1, <1>2, <1>6 DEF CleanerInv

-----------------------------------------------------------------------------
\* Every step keeps it.
LEMMA NextTrue ==
    ASSUME OwnDirectories
    PROVE  IInv /\ TableInv /\ CleanerInv /\ [Next]_vars => TableInv' /\ CleanerInv'
<1> SUFFICES ASSUME IInv, TableInv, CleanerInv, [Next]_vars PROVE TableInv' /\ CleanerInv'
  OBVIOUS
<1>1. LockInv /\ Tables /\ HelperTypes /\ ExecTypeOK
  BY DEF IInv, LockInv, Tables
<1>2. ASSUME NEW h \in Helper, HelperStep(h) PROVE TableInv' /\ CleanerInv'
  BY <1>1, <1>2, PrepareKept, WaitsKept, MountKept, LaunchKept, RestartKept, UprepareKept,
     UmountKept, LockStepsKept, WriteKept, UnlockKept DEF HelperStep
<1>3. ASSUME NEW h \in Helper, Expire(h) PROVE TableInv' /\ CleanerInv'
  BY <1>1, <1>3, LockStepsKept
<1>4. ASSUME NEW h \in Helper, Kill(h) PROVE TableInv' /\ CleanerInv'
  BY <1>4, ExcusedKept DEF Kill
<1>5. ASSUME NEW h \in Helper, NEW r \in Requests[h], Start(h, r) PROVE TableInv' /\ CleanerInv'
  BY <1>1, <1>5, StartKept
<1>6. ASSUME Daemons PROVE TableInv' /\ CleanerInv'
  BY <1>1, <1>6, DaemonsKept
<1>7. CASE UNCHANGED vars
  BY <1>7 DEF vars, TableInv, Truth, CleanerInv, Cleaners, Running
<1> QED  BY <1>2, <1>3, <1>4, <1>5, <1>6, <1>7 DEF Next

\* Nothing is mounted, and nobody works, in the beginning.
LEMMA InitTrue == Init => TableInv /\ CleanerInv
<1> SUFFICES ASSUME Init PROVE TableInv /\ CleanerInv
  OBVIOUS
<1>1. \A h \in Helper : helper[h].pc \in Aside
  BY IdleIsRecord DEF Init, Aside
<1>2. \A h \in Helper : Knows(mtab, mounts[helper[h].req.dir], helper[h])
  BY <1>1, AsideKnows
<1>3. mtab = <<>> /\ \A d \in Dir : mounts[d] = "no"
  BY DEF Init
<1>4. \A d : Absent(mtab, d)
  BY <1>3 DEF Absent
<1>5. Truth
  BY <1>2, <1>3, <1>4 DEF Truth, Mirror
<1>6. Cleaners
  BY DEF Init, ExecInit, Cleaners, Running
<1> QED  BY <1>5, <1>6 DEF TableInv, CleanerInv

\* When all helpers are through, the table is true.
LEMMA QuietIsTrue == IInv /\ TableInv /\ CleanerInv => MtabTrue
<1> SUFFICES ASSUME IInv, TableInv, CleanerInv, Quiet PROVE MtabMirrorsKernel /\ CleanerInMtab
  BY DEF MtabTrue, MtabMirrorsKernel, CleanerInMtab
<1>1. mtab \in Seq(Entry) /\ DOMAIN mtab = 1..Len(mtab)
  BY DEF IInv, Tables
<1>2. \A h \in Helper : helper[h].pc \notin Touching /\ helper[h].pc \notin Pending
  BY DEF Quiet, At, Touching, Pending
<1>3. ASSUME "table" \notin excused, NEW d \in Dir
      PROVE  LET at == {i \in DOMAIN mtab : mtab[i].dir = d}
             IN  IF mounts[d] = "no" THEN at = {}
                 ELSE \E i \in at : at = {i} /\ mtab[i].rw = (mounts[d] = "rw")
  <2>1. Mirror(mtab, d, mounts[d])
    BY <1>2, <1>3 DEF TableInv, Truth
  <2>2. CASE mounts[d] = "no"
    BY <1>1, <2>1, <2>2 DEF Mirror, Absent
  <2>3. CASE mounts[d] # "no"
    <3>1. PICK e \in Entry : Only(mtab, d, e) /\ e.rw = (mounts[d] = "rw")
      BY <2>1, <2>3 DEF Mirror
    <3>2. PICK i \in 1..Len(mtab) : /\ mtab[i] = e /\ e.dir = d
                                    /\ \A k \in 1..Len(mtab) : mtab[k].dir = d => k = i
      BY <3>1 DEF Only
    <3> QED  BY <1>1, <2>3, <3>1, <3>2
  <2> QED  BY <2>2, <2>3
<1>4. MtabMirrorsKernel
  BY <1>3 DEF MtabMirrorsKernel
<1>5. ASSUME excused = {}, NEW p \in Pid, daemon[p].st = "run"
      PROVE  \E i \in DOMAIN mtab : mtab[i].gcpid = p /\ mtab[i].dir = daemon[p].dir
  <2>1. Named(mtab, helper, daemon[p].dir, p)
    BY <1>5 DEF CleanerInv, Cleaners, Running
  <2>2. InTable(mtab, daemon[p].dir, p)
    BY <1>2, <2>1 DEF Named, InHand
  <2> QED  BY <1>1, <2>2 DEF InTable, Only
<1>6. CleanerInMtab
  BY <1>5 DEF CleanerInMtab
<1> QED  BY <1>4, <1>6

\* Where no two helpers are given the same directory, /etc/mtab is true between
\* invocations, for any number of helpers at work on it at the same time: it
\* lists every mount of the kernel once and as it is mounted, and nothing else,
\* and names every cleaner that works, so that umount will stop it.
THEOREM MtabIsTrue ==
    ASSUME OwnDirectories
    PROVE  Spec => []MtabTrue
<1>1. Init => IInv /\ TableInv /\ CleanerInv
  BY InitIInv, InitTrue
<1>2. IInv /\ TableInv /\ CleanerInv /\ [Next]_vars => (IInv /\ TableInv /\ CleanerInv)'
  BY NextIInv, NextTrue
<1>3. IInv /\ TableInv /\ CleanerInv => MtabTrue
  BY QuietIsTrue
<1> QED  BY <1>1, <1>2, <1>3, PTL DEF Spec
==============================================================================
