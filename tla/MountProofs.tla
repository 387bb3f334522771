----------------------------- MODULE MountProofs ------------------------------
(***************************************************************************)
(* The mount helpers of the libmount build, for any directories, periods   *)
(* and pids, any sequence of invocations, and daemons that end whenever    *)
(* they like: a daemon that replaces another has its protection period,    *)
(* and helpers that run one after another keep it under control.           *)
(***************************************************************************)
EXTENDS Mount, NatSets, SequenceTheorems, TLAPS

\* Helpers run one after another.
OneAtATime == \E h : Helper = {h}

\* No bind mounts, which are attached without a look at the cleaner, and -f
\* only with a remount.
PlainRequests == \A r \in Requests : ~r.bind /\ (r.fake => r.remount)

Places == {"idle", "prepare", "wait", "domount", "restart", "reattr", "launch", "finalize",
           "uprepare", "uwait", "doumount", "urestart", "ureattr", "ufinalize", "done"}
MountTypes == {"NORMAL_MOUNT", "RW2RO_REMOUNT", "RW2RW_REMOUNT"}
Launches == {"none", "refused", "silent", "started"}
MountEntry == [dir : Dir, rw : BOOLEAN]

HelperRecord == [pc : Places, req : Requests, type : MountTypes, old : Attrs, new : Attrs,
                 alive : BOOLEAN, launch : Launches, res : {-1, 0}]

Types ==
    /\ ExecTypeOK
    /\ mounts \in Seq(MountEntry) /\ utab \in [Dir -> Attrs]
    /\ helper \in [Helper -> HelperRecord]
    /\ excused \subseteq {"overlooked", "timeout"} /\ fails \in 0..MaxFail

-----------------------------------------------------------------------------
(***************************************************************************)
(* The protection period.                                                  *)
(***************************************************************************)
\* A pid comes with the period its daemon was given.
Honest(a, dm) == a.gcpid # NoPid => a.pp = dm[a.gcpid].pp

\* The period a helper is about to start a daemon with.
PeriodInv(h) ==
    /\ Honest(helper[h].old, daemon) /\ Honest(helper[h].new, daemon)
    /\ helper[h].pc \notin {"finalize", "reattr", "ureattr", "done"} =>
          helper[h].new.gcpid = NoPid
    /\ helper[h].pc \in {"prepare", "wait", "domount", "launch"} =>
          helper[h].new.pp = helper[h].req.pp
    /\ helper[h].pc \in {"restart", "urestart"} => helper[h].new.pp = helper[h].old.pp

PeriodsInv == (\A d \in Dir : Honest(utab[d], daemon)) /\ \A h \in Helper : PeriodInv(h)

-----------------------------------------------------------------------------
(***************************************************************************)
(* One helper and the daemon.                                              *)
(***************************************************************************)
Alive(p) == daemon[p].st # "none"
NoneAlive == \A p \in Pid : ~Alive(p)

\* Daemon p serves a read-write mount, the record of which names it.
Recorded(p) ==
    /\ Running(p)
    /\ utab[daemon[p].dir].gcpid = p
    /\ daemon[p].dir \in RwDirs

\* There is one daemon at most, and its commands reach it.
OneDaemon ==
    /\ \A p, q \in Pid : Alive(p) /\ Alive(q) => p = q
    /\ \A p \in Pid : daemon[p].st = "run" => Reachable(p)

\* One mount on a directory.
Distinct == \A i, j \in DOMAIN mounts : mounts[i].dir = mounts[j].dir => i = j

\* There is one read-write mount at most, one mount on a directory, and a pid
\* is recorded once.
OneMount ==
    /\ \A d, e \in RwDirs : d = e
    /\ Distinct
    /\ \A d, e \in Dir : utab[d].gcpid = utab[e].gcpid /\ utab[d].gcpid # NoPid => d = e

\* Where the daemon is while a helper works: recorded, on another directory
\* than the helper's, told to stop, or started and about to be recorded.
DaemonInv(h) ==
    LET hp == helper[h] IN
    \A p \in Pid : Alive(p) =>
        /\ hp.pc \in {"idle", "prepare", "uprepare", "done"} => Recorded(p)
        /\ hp.pc \in {"wait", "uwait"} =>
              \/ p = hp.old.gcpid /\ daemon[p].st = "term"
              \/ Recorded(p) /\ daemon[p].dir # hp.req.dir
        /\ hp.pc = "domount" => /\ Recorded(p)
                                /\ daemon[p].dir = hp.req.dir => ~hp.req.remount
        /\ hp.pc \in {"launch", "doumount", "ufinalize"} =>
              Recorded(p) /\ daemon[p].dir # hp.req.dir
        /\ hp.pc \in {"finalize", "reattr", "ureattr"} =>
              \/ /\ p = hp.new.gcpid /\ Running(p)
                 /\ daemon[p].dir = hp.req.dir /\ hp.req.dir \in RwDirs
              \/ Recorded(p) /\ daemon[p].dir # hp.req.dir
        /\ hp.pc \in {"uwait", "doumount"} /\ hp.alive => p = hp.old.gcpid

\* What a helper relies on when it starts a daemon: none is left, and the
\* directory is mounted read-write.
LaunchInv(h) ==
    LET hp == helper[h] IN
    /\ Launching(h) => NoneAlive /\ hp.req.dir \in RwDirs
    /\ hp.pc \in {"uwait", "doumount"} /\ hp.alive => hp.req.dir \in RwDirs
    /\ hp.pc \in {"prepare", "wait", "domount", "launch"} /\ hp.req.fake =>
          hp.req.dir \in RwDirs
    /\ hp.pc = "wait" => hp.req.remount /\ RwDirs = {hp.req.dir}
    /\ hp.pc = "domount" =>
          \/ RwDirs = {}
          \/ hp.req.ro /\ ~hp.req.remount
          \/ hp.req.remount /\ RwDirs = {hp.req.dir}
          \/ ~hp.req.remount /\ Mounted(hp.req.dir)
    /\ hp.pc = "domount" /\ hp.type # "NORMAL_MOUNT" =>
          hp.req.remount /\ RwDirs = {hp.req.dir}

\* What a helper has noted on its way.
NotesInv(h) ==
    LET hp == helper[h] IN
    /\ hp.pc \in {"prepare", "uprepare", "uwait", "doumount", "urestart", "ureattr",
                  "ufinalize"} => hp.type = "NORMAL_MOUNT"
    /\ hp.res = -1 => hp.pc \in {"restart", "reattr", "urestart", "ureattr", "done"}
    /\ hp.pc \in {"launch", "domount", "wait", "prepare"} => hp.new.nogc = hp.req.nogc
    /\ hp.pc \in {"restart", "urestart"} => ~hp.new.nogc
    /\ hp.pc \in {"finalize", "reattr", "ureattr"} /\ hp.new.gcpid # NoPid =>
          ~hp.new.nogc /\ \A d \in Dir : utab[d].gcpid # hp.new.gcpid
    /\ hp.pc = "reattr" =>
          /\ hp.launch \in {"silent", "started"}
          /\ hp.launch = "started" => hp.new.gcpid # NoPid /\ hp.new.pp = hp.old.pp

\* What FailedRemountRestarts says of a helper.
RestartInv(h) ==
    LET hp == helper[h] IN
    hp.pc = "done" /\ hp.res = -1 /\ hp.type # "NORMAL_MOUNT" /\ ~hp.old.nogc =>
        \/ hp.launch \in {"refused", "silent"}
        \/ hp.launch = "started" /\ utab[hp.req.dir] = [hp.old EXCEPT !.gcpid = hp.new.gcpid]

Control(h) ==
    /\ OneDaemon /\ OneMount
    /\ DaemonInv(h) /\ LaunchInv(h) /\ NotesInv(h) /\ RestartInv(h)

\* Runs in which a wait timed out or a check was passed over are excepted.
ControlInv == excused = {} => \A h \in Helper : Control(h)

IInv == Types /\ PeriodsInv

-----------------------------------------------------------------------------
(***************************************************************************)
(* Records.                                                                *)
(***************************************************************************)
\* The fields of a helper.
LEMMA HelperFields ==
    ASSUME NEW r \in HelperRecord
    PROVE  /\ r.pc \in Places /\ r.req \in Requests /\ r.type \in MountTypes
           /\ r.old \in Attrs /\ r.new \in Attrs /\ r.alive \in BOOLEAN
           /\ r.launch \in Launches /\ r.res \in {-1, 0}
BY DEF HelperRecord

\* The fields of attributes and command lines.
LEMMA AttrFields ==
    /\ \A a \in Attrs : /\ a.gcpid \in Pid \cup {NoPid} /\ a.pp \in Period \cup {NoPeriod}
                        /\ a.nogc \in BOOLEAN
    /\ \A r \in Requests : /\ r.op \in {"mount", "umount"} /\ r.dir \in Dir
                           /\ r.ro \in BOOLEAN /\ r.remount \in BOOLEAN
                           /\ r.bind \in BOOLEAN /\ r.fake \in BOOLEAN
                           /\ r.nogc \in BOOLEAN /\ r.pp \in Period \cup {NoPeriod}
                           /\ r.rdonly \in BOOLEAN /\ r.lazy \in BOOLEAN
BY RequestsAssumption DEF Attrs, Request

\* Attributes without a pid.
LEMMA FreshAttrs ==
    ASSUME NEW pp \in Period \cup {NoPeriod}, NEW nogc \in BOOLEAN
    PROVE  LET a == [NoAttrs EXCEPT !.pp = pp, !.nogc = nogc]
               b == [NoAttrs EXCEPT !.pp = pp]
           IN  /\ a \in Attrs /\ a.gcpid = NoPid /\ a.pp = pp /\ a.nogc = nogc
               /\ b \in Attrs /\ b.gcpid = NoPid /\ b.pp = pp /\ b.nogc = FALSE
               /\ NoAttrs \in Attrs /\ NoAttrs.gcpid = NoPid
BY DEF NoAttrs, Attrs

\* A helper that has nothing to do.
LEMMA IdleIs ==
    ASSUME NEW r \in Requests
    PROVE  /\ Idle(r) \in HelperRecord /\ Idle(r).pc = "idle" /\ Idle(r).req = r
           /\ Idle(r).type = "NORMAL_MOUNT" /\ Idle(r).old = NoAttrs /\ Idle(r).new = NoAttrs
           /\ Idle(r).alive = FALSE /\ Idle(r).launch = "none" /\ Idle(r).res = 0
<1>1. NoAttrs \in Attrs
  BY DEF NoAttrs, Attrs
<1> QED  BY <1>1 DEF Idle, HelperRecord, Places, MountTypes, Launches

\* The progress of helper h after a step, its command line aside.
Now(h, x, t, o, n, a, l, e) ==
    /\ helper' \in [Helper -> HelperRecord]
    /\ \A k \in Helper \ {h} : helper'[k] = helper[k]
    /\ helper'[h].pc = x /\ helper'[h].type = t /\ helper'[h].old = o /\ helper'[h].new = n
    /\ helper'[h].alive = a /\ helper'[h].launch = l /\ helper'[h].res = e

\* A helper whose progress is replaced.
LEMMA Replaced ==
    ASSUME helper \in [Helper -> HelperRecord], NEW h \in Helper, NEW r \in HelperRecord,
           helper' = [helper EXCEPT ![h] = r]
    PROVE  /\ Now(h, r.pc, r.type, r.old, r.new, r.alive, r.launch, r.res)
           /\ helper'[h].req = r.req
BY DEF Now

\* Goto() and Fail() leave everything else alone.
LEMMA GotoIs ==
    ASSUME helper \in [Helper -> HelperRecord], NEW h \in Helper
    PROVE  LET hp == helper[h] IN
           /\ \A x \in Places : Goto(h, x) =>
                 /\ Now(h, x, hp.type, hp.old, hp.new, hp.alive, hp.launch, hp.res)
                 /\ helper'[h].req = hp.req
           /\ Fail(h) => /\ Now(h, "done", hp.type, hp.old, hp.new, hp.alive, hp.launch, -1)
                         /\ helper'[h].req = hp.req
<1> DEFINE hp == helper[h]
<1>1. hp \in HelperRecord
  OBVIOUS
<1>2. ASSUME NEW x \in Places, Goto(h, x)
      PROVE  /\ Now(h, x, hp.type, hp.old, hp.new, hp.alive, hp.launch, hp.res)
             /\ helper'[h].req = hp.req
  <2> DEFINE r == [hp EXCEPT !.pc = x]
  <2>1. helper' = [helper EXCEPT ![h] = r]
    BY <1>2 DEF Goto
  <2>2. /\ r \in HelperRecord /\ r.pc = x /\ r.req = hp.req /\ r.type = hp.type
        /\ r.old = hp.old /\ r.new = hp.new /\ r.alive = hp.alive /\ r.launch = hp.launch
        /\ r.res = hp.res
    BY <1>1 DEF HelperRecord
  <2> HIDE DEF r, hp
  <2>3. Now(h, r.pc, r.type, r.old, r.new, r.alive, r.launch, r.res) /\ helper'[h].req = r.req
    BY <2>1, <2>2, Replaced
  <2> QED  BY <2>2, <2>3
<1>3. ASSUME Fail(h)
      PROVE  /\ Now(h, "done", hp.type, hp.old, hp.new, hp.alive, hp.launch, -1)
             /\ helper'[h].req = hp.req
  <2> DEFINE r == [hp EXCEPT !.pc = "done", !.res = -1]
  <2>1. helper' = [helper EXCEPT ![h] = r]
    BY <1>3 DEF Fail
  <2>2. /\ r \in HelperRecord /\ r.pc = "done" /\ r.req = hp.req /\ r.type = hp.type
        /\ r.old = hp.old /\ r.new = hp.new /\ r.alive = hp.alive /\ r.launch = hp.launch
        /\ r.res = -1
    BY <1>1 DEF HelperRecord, Places
  <2> HIDE DEF r, hp
  <2>3. Now(h, r.pc, r.type, r.old, r.new, r.alive, r.launch, r.res) /\ helper'[h].req = r.req
    BY <2>1, <2>2, Replaced
  <2> QED  BY <2>2, <2>3
<1> QED  BY <1>2, <1>3

-----------------------------------------------------------------------------
(***************************************************************************)
(* The daemons (lib/cleaner_exec.c).                                       *)
(***************************************************************************)
DaemonRecord == [st : DaemonState, dir : Dir, pp : Period \cup {NoPeriod}, open : BOOLEAN]

\* Daemons and queue have their types.
ExecTypes == daemon \in [Pid -> DaemonRecord] /\ queue \in [named : BOOLEAN, by : SUBSET Pid]

\* Which is what ExecTypeOK says.
LEMMA ExecTypesOK == ExecTypes <=> ExecTypeOK
BY DEF ExecTypes, ExecTypeOK, DaemonRecord

\* SIGTERM changes the state of one daemon, if it exists.
LEMMA SigTermIs ==
    ASSUME ExecTypes, NEW q \in Pid, SigTerm(q)
    PROVE  /\ ExecTypes' /\ queue' = queue
           /\ daemon[q].st # "none" => daemon'[q].st = "term"
           /\ daemon[q].st = "none" => daemon'[q].st = "none"
           /\ daemon'[q].dir = daemon[q].dir /\ daemon'[q].pp = daemon[q].pp
           /\ \A p \in Pid : p # q => daemon'[p] = daemon[p]
<1> DEFINE s == IF daemon[q].st = "none" THEN "none" ELSE "term"
           r == [daemon[q] EXCEPT !.st = s]
<1>1. daemon[q] \in DaemonRecord /\ daemon \in [Pid -> DaemonRecord]
  BY DEF ExecTypes
<1>2. daemon' = [daemon EXCEPT ![q] = r] /\ queue' = queue
  BY <1>1 DEF SigTerm
<1>3. s \in DaemonState
  BY DEF DaemonState
<1>4. (daemon[q].st # "none" => s = "term") /\ (daemon[q].st = "none" => s = "none")
  OBVIOUS
<1> HIDE DEF s
<1>5. r \in DaemonRecord /\ r.st = s /\ r.dir = daemon[q].dir /\ r.pp = daemon[q].pp
  BY <1>1, <1>3 DEF DaemonRecord
<1> HIDE DEF r
<1>6. /\ daemon'[q] = r /\ \A p \in Pid : p # q => daemon'[p] = daemon[p]
      /\ daemon' \in [Pid -> DaemonRecord]
  BY <1>1, <1>2, <1>5
<1> QED  BY <1>2, <1>4, <1>5, <1>6 DEF ExecTypes

\* A launch makes one daemon.
LEMMA LaunchIs ==
    ASSUME ExecTypes, NEW q \in Pid, NEW d \in Dir, NEW pp \in Period \cup {NoPeriod},
           LaunchStarts(q, d, pp)
    PROVE  /\ ExecTypes' /\ queue' = queue /\ daemon[q].st = "none"
           /\ daemon'[q].st = "start" /\ daemon'[q].dir = d /\ daemon'[q].pp = pp
           /\ \A p \in Pid : p # q => daemon'[p] = daemon[p]
<1> DEFINE r == [st |-> "start", dir |-> d, pp |-> pp, open |-> FALSE]
<1>1. daemon \in [Pid -> DaemonRecord]
  BY DEF ExecTypes
<1>2. daemon' = [daemon EXCEPT ![q] = r] /\ queue' = queue /\ daemon[q].st = "none"
  BY DEF LaunchStarts
<1>3. r \in DaemonRecord /\ r.st = "start" /\ r.dir = d /\ r.pp = pp
  BY DEF DaemonRecord, DaemonState
<1> HIDE DEF r
<1>4. /\ daemon'[q] = r /\ \A p \in Pid : p # q => daemon'[p] = daemon[p]
      /\ daemon' \in [Pid -> DaemonRecord]
  BY <1>1, <1>2, <1>3
<1> QED  BY <1>2, <1>3, <1>4 DEF ExecTypes

\* A step of the daemons is one daemon's: it opens the queue, or ends.
LEMMA DaemonsAre ==
    ASSUME Types, Daemons
    PROVE  /\ ExecTypes' /\ fails' \in 0..MaxFail
           /\ \E q \in Pid :
                 /\ daemon[q].st # "none" /\ daemon'[q].pp = daemon[q].pp
                 /\ \A p \in Pid : p # q => daemon'[p] = daemon[p]
                 /\ \/ /\ daemon[q].st = "start" /\ daemon'[q].st = "run"
                       /\ daemon'[q].dir = daemon[q].dir
                       /\ queue'.named /\ q \in queue'.by
                    \/ daemon'[q].st = "none"
<1>1. daemon \in [Pid -> DaemonRecord] /\ queue \in [named : BOOLEAN, by : SUBSET Pid]
  BY ExecTypesOK DEF Types, ExecTypes
<1>2. AnyDir \in Dir
  BY DirAssumption DEF AnyDir
<1>3. PICK q \in Pid : \/ DaemonOpens(q, RwDirs)
                       \/ /\ \/ fails < MaxFail
                             \/ daemon[q].st = "term"
                             \/ daemon[q].st = "start" /\ daemon[q].dir \notin RwDirs
                          /\ DaemonEnds(q)
  BY DEF Daemons, DaemonStep
<1>4. daemon[q] \in DaemonRecord
  BY <1>1
<1>5. fails' = fails + (IF GaveUp(RwDirs) THEN 1 ELSE 0) /\ fails \in 0..MaxFail /\ MaxFail \in Nat
  BY RequestsAssumption DEF Daemons, Types
<1>6. CASE DaemonOpens(q, RwDirs)
  <2> DEFINE r == [daemon[q] EXCEPT !.st = "run", !.open = TRUE]
  <2>1. /\ r \in DaemonRecord /\ r.st = "run" /\ r.dir = daemon[q].dir /\ r.pp = daemon[q].pp
    BY <1>4 DEF DaemonRecord, DaemonState
  <2>2. daemon' = [daemon EXCEPT ![q] = r] /\ daemon[q].st = "start"
    BY <1>1, <1>6 DEF DaemonOpens
  <2>3. queue' = [named |-> TRUE, by |-> {q} \cup IF queue.named THEN queue.by ELSE {}]
    BY <1>6 DEF DaemonOpens
  <2> HIDE DEF r
  <2>4. /\ daemon' \in [Pid -> DaemonRecord] /\ daemon'[q] = r
        /\ \A p \in Pid : p # q => daemon'[p] = daemon[p]
    BY <1>1, <2>1, <2>2
  <2>5. queue' \in [named : BOOLEAN, by : SUBSET Pid] /\ queue'.named /\ q \in queue'.by
    BY <1>1, <2>3
  <2>6. ~GaveUp(RwDirs)
    BY <2>1, <2>4 DEF GaveUp
  <2>7. fails' \in 0..MaxFail
    BY <1>5, <2>6
  <2> QED  BY <2>1, <2>2, <2>4, <2>5, <2>7 DEF ExecTypes
<1>7. CASE /\ \/ fails < MaxFail
              \/ daemon[q].st = "term"
              \/ daemon[q].st = "start" /\ daemon[q].dir \notin RwDirs
           /\ DaemonEnds(q)
  <2> DEFINE r == [daemon[q] EXCEPT !.st = "none", !.open = FALSE, !.dir = AnyDir]
  <2>1. r \in DaemonRecord /\ r.st = "none" /\ r.pp = daemon[q].pp
    BY <1>2, <1>4 DEF DaemonRecord, DaemonState
  <2>2. daemon' = [daemon EXCEPT ![q] = r] /\ daemon[q].st # "none"
    BY <1>1, <1>7 DEF DaemonEnds
  <2>3. queue' = IF daemon[q].open THEN [named |-> FALSE, by |-> {}]
                                   ELSE [queue EXCEPT !.by = @ \ {q}]
    BY <1>7 DEF DaemonEnds
  <2> HIDE DEF r
  <2>4. /\ daemon' \in [Pid -> DaemonRecord] /\ daemon'[q] = r
        /\ \A p \in Pid : p # q => daemon'[p] = daemon[p]
    BY <1>1, <2>1, <2>2
  <2>5. queue' \in [named : BOOLEAN, by : SUBSET Pid]
    BY <1>1, <2>3
  <2>6. GaveUp(RwDirs) => fails < MaxFail
    BY <1>7, <2>4 DEF GaveUp
  <2>7. fails' \in 0..MaxFail
    BY <1>5, <2>6
  <2> QED  BY <2>1, <2>2, <2>4, <2>5, <2>7 DEF ExecTypes
<1> QED  BY <1>3, <1>6, <1>7

-----------------------------------------------------------------------------
(***************************************************************************)
(* The mounts.                                                             *)
(***************************************************************************)
\* The kernel's table in terms of directories.
MountedDirs == {mounts[i].dir : i \in DOMAIN mounts}

\* Directories of mounts are directories, and those of read-write mounts are
\* mounted.
LEMMA DirsAre ==
    ASSUME mounts \in Seq(MountEntry)
    PROVE  /\ RwDirs \subseteq MountedDirs /\ MountedDirs \subseteq Dir
           /\ \A d : Mounted(d) <=> d \in MountedDirs
<1>0. \A i \in DOMAIN mounts : mounts[i] \in MountEntry
  OBVIOUS
<1>1. \A i \in DOMAIN mounts : mounts[i].dir \in Dir
  BY <1>0 DEF MountEntry
<1> QED  BY <1>1 DEF MountedDirs, RwDirs, RwMounts, Mounted

\* The search for a read-write mount finds one, if there is one.
LEMMA FoundRw ==
    ASSUME mounts \in Seq(MountEntry), RwMounts # {}
    PROVE  mounts[nilfs_find_rw_mount].dir \in RwDirs
<1>1. RwMounts \in SUBSET (0..Len(mounts)) /\ Len(mounts) \in Nat
  BY DEF RwMounts
<1>2. \E i \in RwMounts : \A j \in RwMounts : j <= i
  BY <1>1, HasGreatest
<1>3. nilfs_find_rw_mount \in RwMounts
  BY <1>2 DEF nilfs_find_rw_mount
<1> QED  BY <1>3 DEF RwDirs

\* mount(2) adds a mount or changes the one on the directory.
LEMMA MountIs ==
    ASSUME mounts \in Seq(MountEntry), NEW req \in Requests,
           Mounted(req.dir) <=> req.remount, mounts' = MountedBy(req)
    PROVE  /\ mounts' \in Seq(MountEntry)
           /\ RwDirs' = (RwDirs \ {req.dir}) \cup (IF req.ro THEN {} ELSE {req.dir})
           /\ Distinct => Distinct'
<1> DEFINE d == req.dir
           w == ~req.ro
<1>1. d \in Dir /\ w \in BOOLEAN /\ req.remount \in BOOLEAN /\ req.ro \in BOOLEAN
  BY AttrFields
<1>2. /\ DOMAIN mounts = 1..Len(mounts) /\ Len(mounts) \in Nat
      /\ \A i \in 1..Len(mounts) : mounts[i] \in MountEntry
  OBVIOUS
<1>3. CASE req.remount
  <2> DEFINE m(i) == IF mounts[i].dir = d THEN [mounts[i] EXCEPT !.rw = w] ELSE mounts[i]
  <2>1. mounts' = [i \in 1..Len(mounts) |-> m(i)]
    BY <1>2, <1>3 DEF MountedBy
  <2>2. \A i \in 1..Len(mounts) :
           /\ m(i) \in MountEntry /\ m(i).dir = mounts[i].dir
           /\ m(i).rw = IF mounts[i].dir = d THEN w ELSE mounts[i].rw
    BY <1>1, <1>2 DEF MountEntry
  <2> HIDE DEF m
  <2>3. /\ DOMAIN mounts' = 1..Len(mounts) /\ \A i \in 1..Len(mounts) : mounts'[i] = m(i)
        /\ mounts' \in Seq(MountEntry)
    BY <1>2, <2>1, <2>2, IsASeq
  <2>4. Distinct => Distinct'
    BY <1>2, <2>2, <2>3 DEF Distinct
  <2>5. \E i \in 1..Len(mounts) : mounts[i].dir = d
    BY <1>2, <1>3 DEF Mounted
  <2>6. ASSUME NEW e PROVE e \in RwDirs' <=> (e \in RwDirs /\ e # d) \/ (e = d /\ w)
    <3>1. e \in RwDirs' <=> \E i \in 1..Len(mounts) : m(i).rw /\ m(i).dir = e
      BY <2>3 DEF RwDirs, RwMounts
    <3>2. e \in RwDirs <=> \E i \in 1..Len(mounts) : mounts[i].rw /\ mounts[i].dir = e
      BY <1>2 DEF RwDirs, RwMounts
    <3>3. CASE e = d
      BY <2>2, <2>5, <3>1, <3>3
    <3>4. CASE e # d
      BY <2>2, <3>1, <3>2, <3>4
    <3> QED  BY <3>3, <3>4
  <2> QED  BY <1>1, <2>3, <2>4, <2>6
<1>4. CASE ~req.remount
  <2> DEFINE e == [dir |-> d, rw |-> w]
  <2>1. mounts' = Append(mounts, e)
    BY <1>4 DEF MountedBy
  <2>2. e \in MountEntry /\ e.dir = d /\ e.rw = w
    BY <1>1 DEF MountEntry
  <2>3. \A i \in 1..Len(mounts) : mounts[i].dir # d
    BY <1>2, <1>4 DEF Mounted
  <2> HIDE DEF e
  <2>4. /\ mounts' \in Seq(MountEntry) /\ DOMAIN mounts' = 1..(Len(mounts) + 1)
        /\ mounts'[Len(mounts) + 1] = e
        /\ \A i \in 1..Len(mounts) : mounts'[i] = mounts[i]
    BY <1>2, <2>1, <2>2
  <2>5. 1..(Len(mounts) + 1) = (1..Len(mounts)) \cup {Len(mounts) + 1}
    BY <1>2
  <2>6. Distinct => Distinct'
    BY <1>2, <2>2, <2>3, <2>4, <2>5 DEF Distinct
  <2>7. ASSUME NEW x PROVE x \in RwDirs' <=> (x \in RwDirs /\ x # d) \/ (x = d /\ w)
    <3>1. x \in RwDirs' <=> \E i \in 1..(Len(mounts) + 1) : mounts'[i].rw /\ mounts'[i].dir = x
      BY <2>4 DEF RwDirs, RwMounts
    <3>2. x \in RwDirs <=> \E i \in 1..Len(mounts) : mounts[i].rw /\ mounts[i].dir = x
      BY <1>2 DEF RwDirs, RwMounts
    <3>3. x \in RwDirs' <=> x \in RwDirs \/ (w /\ x = d)
      BY <2>2, <2>4, <2>5, <3>1, <3>2
    <3>4. d \notin RwDirs
      BY <1>2, <2>3 DEF RwDirs, RwMounts
    <3> QED  BY <3>3, <3>4
  <2> QED  BY <1>1, <2>4, <2>6, <2>7
<1> QED  BY <1>1, <1>3, <1>4

\* umount(2) takes a mount away.
LEMMA UmountIs ==
    ASSUME mounts \in Seq(MountEntry), NEW k \in DOMAIN mounts,
           mounts' = RemoveAt(mounts, k)
    PROVE  /\ mounts' \in Seq(MountEntry)
           /\ Distinct => Distinct' /\ RwDirs' = RwDirs \ {mounts[k].dir}
<1> DEFINE n == Len(mounts)
           up(i) == IF i < k THEN i ELSE i + 1
<1>1. /\ DOMAIN mounts = 1..n /\ n \in Nat /\ k \in 1..n
      /\ \A i \in 1..n : mounts[i] \in MountEntry
  OBVIOUS
<1>2. mounts' = SubSeq(mounts, 1, k - 1) \o SubSeq(mounts, k + 1, n)
  BY DEF RemoveAt
<1>3. /\ SubSeq(mounts, 1, k - 1) \in Seq(MountEntry) /\ Len(SubSeq(mounts, 1, k - 1)) = k - 1
      /\ \A i \in 1..(k - 1) : SubSeq(mounts, 1, k - 1)[i] = mounts[i]
      /\ SubSeq(mounts, k + 1, n) \in Seq(MountEntry) /\ Len(SubSeq(mounts, k + 1, n)) = n - k
      /\ \A i \in 1..(n - k) : SubSeq(mounts, k + 1, n)[i] = mounts[i + k]
  BY <1>1
<1>4. /\ mounts' \in Seq(MountEntry) /\ Len(mounts') = n - 1
      /\ \A i \in 1..(n - 1) : mounts'[i] = mounts[up(i)]
  <2> DEFINE a == SubSeq(mounts, 1, k - 1)
             b == SubSeq(mounts, k + 1, n)
  <2>1. /\ a \in Seq(MountEntry) /\ Len(a) = k - 1 /\ b \in Seq(MountEntry) /\ Len(b) = n - k
        /\ \A i \in 1..(k - 1) : a[i] = mounts[i]
        /\ \A i \in 1..(n - k) : b[i] = mounts[i + k]
    BY <1>3
  <2>2. mounts' = a \o b
    BY <1>2
  <2> HIDE DEF a, b
  <2>3. /\ mounts' \in Seq(MountEntry) /\ Len(mounts') = Len(a) + Len(b)
        /\ \A i \in 1..(Len(a) + Len(b)) :
              mounts'[i] = IF i <= Len(a) THEN a[i] ELSE b[i - Len(a)]
    BY ONLY <2>1, <2>2, ConcatProperties
  <2>4. Len(mounts') = n - 1
    BY <1>1, <2>1, <2>3
  <2>5. ASSUME NEW i \in 1..(n - 1) PROVE mounts'[i] = mounts[up(i)]
    <3>1. mounts'[i] = IF i <= k - 1 THEN a[i] ELSE b[i - (k - 1)]
      BY <1>1, <2>1, <2>3
    <3>2. CASE i < k
      BY <1>1, <2>1, <3>1, <3>2
    <3>3. CASE i >= k
      <4>1. i - (k - 1) \in 1..(n - k) /\ i - (k - 1) + k = i + 1
        BY <1>1, <3>3
      <4>2. b[i - (k - 1)] = mounts[i + 1]
        BY <2>1, <4>1
      <4> QED  BY <1>1, <3>1, <3>3, <4>2
    <3> QED  BY <1>1, <3>2, <3>3
  <2> QED  BY <2>3, <2>4, <2>5
<1>5. DOMAIN mounts' = 1..(n - 1)
  BY <1>4
<1>6. \A i \in 1..(n - 1) : up(i) \in 1..n /\ up(i) # k
  BY <1>1
<1>7. \A i, j \in 1..(n - 1) : up(i) = up(j) => i = j
  BY <1>1
<1>8. \A j \in 1..n : j # k => \E i \in 1..(n - 1) : up(i) = j
  <2> SUFFICES ASSUME NEW j \in 1..n, j # k PROVE \E i \in 1..(n - 1) : up(i) = j
    OBVIOUS
  <2>1. CASE j < k
    BY <1>1, <2>1
  <2>2. CASE j > k
    <3>1. j - 1 \in 1..(n - 1) /\ up(j - 1) = j
      BY <1>1, <2>2
    <3> QED  BY <3>1
  <2> QED  BY <1>1, <2>1, <2>2
<1> HIDE DEF up, n
<1>9. ASSUME Distinct PROVE Distinct'
  BY <1>1, <1>4, <1>5, <1>6, <1>7, <1>9 DEF Distinct
<1>10. ASSUME Distinct, NEW x PROVE x \in RwDirs' <=> x \in RwDirs /\ x # mounts[k].dir
  <2>1. x \in RwDirs' <=> \E i \in 1..(n - 1) : mounts[up(i)].rw /\ mounts[up(i)].dir = x
    BY <1>4, <1>5 DEF RwDirs, RwMounts
  <2>2. x \in RwDirs <=> \E i \in 1..n : mounts[i].rw /\ mounts[i].dir = x
    BY <1>1 DEF RwDirs, RwMounts
  <2>3. x \in RwDirs' <=> \E i \in 1..n : i # k /\ mounts[i].rw /\ mounts[i].dir = x
    BY <1>6, <1>8, <2>1
  <2>4. \A i \in 1..n : i # k => mounts[i].dir # mounts[k].dir
    BY <1>1, <1>10 DEF Distinct
  <2> QED  BY <1>1, <2>2, <2>3, <2>4
<1> QED  BY <1>4, <1>9, <1>10

\* A mount turns read-only.
LEMMA ReadOnlyIs ==
    ASSUME mounts \in Seq(MountEntry), NEW d,
           mounts' = [i \in DOMAIN mounts |-> [mounts[i] EXCEPT !.rw = @ /\ mounts[i].dir # d]]
    PROVE  /\ mounts' \in Seq(MountEntry) /\ RwDirs' = RwDirs \ {d}
           /\ Distinct => Distinct'
<1> DEFINE m(i) == [mounts[i] EXCEPT !.rw = mounts[i].rw /\ mounts[i].dir # d]
<1>1. /\ DOMAIN mounts = 1..Len(mounts) /\ Len(mounts) \in Nat
      /\ \A i \in 1..Len(mounts) : mounts[i] \in MountEntry
  OBVIOUS
<1>2. mounts' = [i \in 1..Len(mounts) |-> m(i)]
  BY <1>1
<1>3. ASSUME NEW i \in 1..Len(mounts)
      PROVE  m(i) \in MountEntry /\ m(i).dir = mounts[i].dir
             /\ m(i).rw = (mounts[i].rw /\ mounts[i].dir # d)
  <2>1. mounts[i] \in MountEntry
    BY <1>1
  <2>2. mounts[i].rw \in BOOLEAN
    BY <2>1 DEF MountEntry
  <2> DEFINE v == mounts[i].rw /\ mounts[i].dir # d
  <2>3. v \in BOOLEAN
    OBVIOUS
  <2> HIDE DEF v
  <2>4. [mounts[i] EXCEPT !.rw = v] \in MountEntry
        /\ [mounts[i] EXCEPT !.rw = v].dir = mounts[i].dir /\ [mounts[i] EXCEPT !.rw = v].rw = v
    BY <2>1, <2>3 DEF MountEntry
  <2> QED  BY <2>4 DEF v
<1> HIDE DEF m
<1>4. /\ DOMAIN mounts' = 1..Len(mounts) /\ \A i \in 1..Len(mounts) : mounts'[i] = m(i)
      /\ mounts' \in Seq(MountEntry)
  BY <1>1, <1>2, <1>3, IsASeq
<1>5. Distinct => Distinct'
  BY ONLY <1>1, <1>3, <1>4 DEF Distinct
<1>6. ASSUME NEW e PROVE e \in RwDirs' <=> e \in RwDirs /\ e # d
  <2>1. e \in RwDirs' <=> \E i \in 1..Len(mounts) : m(i).rw /\ m(i).dir = e
    BY ONLY <1>4 DEF RwDirs, RwMounts
  <2>2. e \in RwDirs <=> \E i \in 1..Len(mounts) : mounts[i].rw /\ mounts[i].dir = e
    BY ONLY <1>1 DEF RwDirs, RwMounts
  <2> QED  BY ONLY <1>3, <2>1, <2>2
<1> QED  BY <1>4, <1>5, <1>6

-----------------------------------------------------------------------------
(***************************************************************************)
(* What the steps of a helper do to it.                                    *)
(***************************************************************************)
\* A helper starts.
LEMMA StartIs ==
    ASSUME Types, NEW h \in Helper, NEW r \in Requests, Start(h, r)
    PROVE  /\ \E x \in {"prepare", "uprepare"}, n \in Attrs, a \in {FALSE} :
                 /\ Now(h, x, "NORMAL_MOUNT", NoAttrs, n, a, "none", 0)
                 /\ n.gcpid = NoPid /\ n.pp = r.pp /\ n.nogc = r.nogc
           /\ helper'[h].req = r
<1> DEFINE x == IF r.op = "mount" THEN "prepare" ELSE "uprepare"
           n == [NoAttrs EXCEPT !.pp = r.pp, !.nogc = r.nogc]
           z == Idle(r)
           q == [z EXCEPT !.pc = x, !.new = n]
<1>1. helper' = [helper EXCEPT ![h] = q]
  BY DEF Start
<1>2. r.pp \in Period \cup {NoPeriod} /\ r.nogc \in BOOLEAN
  BY AttrFields
<1>3. n \in Attrs /\ n.gcpid = NoPid /\ n.pp = r.pp /\ n.nogc = r.nogc
  BY <1>2, FreshAttrs
<1>4. /\ z \in HelperRecord /\ z.req = r /\ z.type = "NORMAL_MOUNT" /\ z.old = NoAttrs
      /\ z.alive = FALSE /\ z.launch = "none" /\ z.res = 0
  BY IdleIs
<1>5. x \in {"prepare", "uprepare"} /\ x \in Places
  BY DEF Places
<1> HIDE DEF x, n, z
<1>6. /\ q \in HelperRecord /\ q.pc = x /\ q.new = n /\ q.req = z.req /\ q.type = z.type
      /\ q.old = z.old /\ q.alive = z.alive /\ q.launch = z.launch /\ q.res = z.res
  BY <1>3, <1>4, <1>5 DEF HelperRecord
<1> HIDE DEF q
<1>7. Now(h, q.pc, q.type, q.old, q.new, q.alive, q.launch, q.res) /\ helper'[h].req = q.req
  BY <1>1, <1>6, Replaced DEF Types
<1>8. Now(h, x, "NORMAL_MOUNT", NoAttrs, n, z.alive, "none", 0) /\ helper'[h].req = r
  BY <1>4, <1>6, <1>7
<1>9. z.alive \in {FALSE}
  BY <1>4
<1> QED  BY <1>3, <1>5, <1>8, <1>9

\* ... and is through.
LEMMA EndIs ==
    ASSUME Types, NEW h \in Helper, End(h)
    PROVE  Now(h, "idle", "NORMAL_MOUNT", NoAttrs, NoAttrs, Idle(AnyRequest).alive, "none", 0)
<1> DEFINE z == Idle(AnyRequest)
<1>1. AnyRequest \in Requests
  BY RequestsAssumption DEF AnyRequest
<1>2. /\ z \in HelperRecord /\ z.pc = "idle" /\ z.type = "NORMAL_MOUNT" /\ z.old = NoAttrs
      /\ z.new = NoAttrs /\ z.launch = "none" /\ z.res = 0
  BY <1>1, IdleIs
<1>3. helper' = [helper EXCEPT ![h] = z]
  BY DEF End
<1> HIDE DEF z
<1>4. Now(h, z.pc, z.type, z.old, z.new, z.alive, z.launch, z.res)
  BY <1>2, <1>3, Replaced DEF Types
<1> QED  BY <1>2, <1>4 DEF z

\* nilfs_prepare_mount() passes without a look at the cleaner ...
Passes(req) == req.bind \/ RwMounts = {} \/ (req.ro /\ ~req.remount)

\* ... or meets a read-write mount, and may report and pass over it.
RwDir == mounts[nilfs_find_rw_mount].dir
Reports(req) == ~req.remount \/ RwDir # req.dir

\* What nilfs_prepare_mount() does to the helper, the daemons and excused.
LEMMA PrepareIs ==
    ASSUME Types, NEW h \in Helper, nilfs_prepare_mount(h)
    PROVE  LET hp == helper[h]
               stops == ~Reports(hp.req) /\ utab[RwDir].gcpid # NoPid
           IN
           /\ helper'[h].req = hp.req
           /\ Passes(hp.req) =>
                 /\ Now(h, "domount", hp.type, hp.old, hp.new, hp.alive, hp.launch, hp.res)
                 /\ UNCHANGED execVars /\ excused' = excused
           /\ ~Passes(hp.req) =>
                 /\ \E t \in MountTypes :
                       /\ Now(h, IF stops THEN "wait" ELSE "domount", t,
                              IF hp.req.remount THEN utab[RwDir] ELSE hp.old,
                              hp.new, hp.alive, hp.launch, hp.res)
                       /\ ~hp.req.remount => t = hp.type
                 /\ excused' = excused \cup
                       IF Reports(hp.req) /\ (hp.req.remount \/ ~Mounted(hp.req.dir))
                       THEN {"overlooked"} ELSE {}
                 /\ stops => SigTerm(utab[RwDir].gcpid)
                 /\ ~stops => UNCHANGED execVars
<1> DEFINE hp == helper[h]
           req == hp.req
           stops == ~Reports(req) /\ utab[RwDir].gcpid # NoPid
<1>1. hp \in HelperRecord /\ helper \in [Helper -> HelperRecord]
  BY DEF Types
<1>2. req \in Requests /\ hp.type \in MountTypes /\ hp.old \in Attrs
  BY <1>1, HelperFields
<1>3. CASE Passes(req)
  <2>1. Goto(h, "domount") /\ UNCHANGED <<execVars, excused>>
    BY <1>3 DEF nilfs_prepare_mount, Passes
  <2>2. /\ Now(h, "domount", hp.type, hp.old, hp.new, hp.alive, hp.launch, hp.res)
        /\ helper'[h].req = hp.req
    BY <1>1, <2>1, GotoIs DEF Places
  <2> QED  BY <1>3, <2>1, <2>2
<1>4. CASE ~Passes(req)
  <2> DEFINE t == IF ~req.remount THEN hp.type
                  ELSE IF req.ro THEN "RW2RO_REMOUNT" ELSE "RW2RW_REMOUNT"
             o == IF req.remount THEN utab[RwDir] ELSE hp.old
             x == IF stops THEN "wait" ELSE "domount"
             q == [hp EXCEPT !.type = t, !.old = o, !.pc = x]
  <2>1. RwDir \in Dir
    BY <1>4, FoundRw, DirsAre DEF Types, Passes, RwDir
  <2>2. utab[RwDir] \in Attrs
    BY <2>1 DEF Types
  <2>3. helper' = [helper EXCEPT ![h] = q]
    BY <1>1, <1>4 DEF nilfs_prepare_mount, Passes, Reports, RwDir
  <2>4. /\ excused' = excused \cup IF Reports(req) /\ (req.remount \/ ~Mounted(req.dir))
                                   THEN {"overlooked"} ELSE {}
        /\ stops => SigTerm(utab[RwDir].gcpid)
        /\ ~stops => UNCHANGED execVars
    BY <1>4 DEF nilfs_prepare_mount, Passes, Reports, RwDir
  <2>5. t \in MountTypes /\ o \in Attrs /\ x \in Places /\ (~req.remount => t = hp.type)
    BY <1>2, <2>2 DEF MountTypes, Places
  <2> HIDE DEF t, o, x, hp, stops
  <2>6. /\ q \in HelperRecord /\ q.pc = x /\ q.new = hp.new /\ q.req = hp.req /\ q.type = t
        /\ q.old = o /\ q.alive = hp.alive /\ q.launch = hp.launch /\ q.res = hp.res
    BY <1>1, <2>5 DEF HelperRecord
  <2> HIDE DEF q
  <2>7. Now(h, q.pc, q.type, q.old, q.new, q.alive, q.launch, q.res) /\ helper'[h].req = q.req
    BY <1>1, <2>3, <2>6, Replaced
  <2>8. Now(h, x, t, o, hp.new, hp.alive, hp.launch, hp.res) /\ helper'[h].req = hp.req
    BY <2>6, <2>7
  <2> QED  BY <1>4, <2>4, <2>5, <2>8 DEF hp, stops, x, o
<1> QED  BY <1>3, <1>4

\* A mount(2) or umount(2) that fails: new attributes, with the old period.
LEMMA FailureIs ==
    ASSUME Types, NEW h \in Helper, NEW x \in Places,
           helper' = [helper EXCEPT ![h].res = -1,
                                    ![h].new = [NoAttrs EXCEPT !.pp = helper[h].old.pp],
                                    ![h].pc = x]
    PROVE  LET hp == helper[h] IN
           /\ helper'[h].req = hp.req
           /\ \E n \in Attrs :
                 /\ Now(h, x, hp.type, hp.old, n, hp.alive, hp.launch, -1)
                 /\ n.gcpid = NoPid /\ n.pp = hp.old.pp /\ n.nogc = FALSE
<1> DEFINE hp == helper[h]
           n == [NoAttrs EXCEPT !.pp = hp.old.pp]
           q == [hp EXCEPT !.res = -1, !.new = n, !.pc = x]
<1>1. hp \in HelperRecord /\ helper \in [Helper -> HelperRecord]
  BY DEF Types
<1>2. hp.old.pp \in Period \cup {NoPeriod} /\ FALSE \in BOOLEAN
  BY <1>1, HelperFields, AttrFields
<1>3. n \in Attrs /\ n.gcpid = NoPid /\ n.pp = hp.old.pp /\ n.nogc = FALSE
  BY <1>2, FreshAttrs
<1>4. helper' = [helper EXCEPT ![h] = q]
  BY <1>1
<1> HIDE DEF n, hp
<1>5. /\ q \in HelperRecord /\ q.pc = x /\ q.new = n /\ q.req = hp.req /\ q.type = hp.type
      /\ q.old = hp.old /\ q.alive = hp.alive /\ q.launch = hp.launch /\ q.res = -1
  BY <1>1, <1>3 DEF HelperRecord
<1> HIDE DEF q
<1>6. Now(h, q.pc, q.type, q.old, q.new, q.alive, q.launch, q.res) /\ helper'[h].req = q.req
  BY <1>1, <1>4, <1>5, Replaced
<1>7. Now(h, x, hp.type, hp.old, n, hp.alive, hp.launch, -1) /\ helper'[h].req = hp.req
  BY <1>5, <1>6
<1> QED  BY <1>3, <1>7 DEF hp

\* The outcomes of nilfs_launch_cleanerd().
LEMMA LaunchedIs ==
    ASSUME Types, NEW h \in Helper, nilfs_launch_cleanerd(h)
    PROVE  LET hp == helper[h]
               pp == LaunchPeriod(h)
           IN
           /\ helper'[h].req = hp.req /\ pp \in Period \cup {NoPeriod}
           /\ LaunchNext(hp.pc) \in {"finalize", "reattr", "ureattr"}
           /\ hp.pc \in {"launch", "restart", "urestart"}
           /\ \/ /\ Now(h, IF hp.pc = "launch" THEN "finalize" ELSE "done", hp.type, hp.old,
                        hp.new, hp.alive, "refused", hp.res)
                 /\ UNCHANGED execVars
              \/ \E n \in Attrs :
                    /\ Now(h, LaunchNext(hp.pc), hp.type, hp.old, n, hp.alive, "silent", hp.res)
                    /\ n.gcpid = hp.new.gcpid /\ n.pp = pp /\ n.nogc = hp.new.nogc
                    /\ UNCHANGED execVars
              \/ \E n \in Attrs, p \in FreshPid :
                    /\ Now(h, LaunchNext(hp.pc), hp.type, hp.old, n, hp.alive, "started", hp.res)
                    /\ n.gcpid = p /\ n.pp = pp /\ n.nogc = hp.new.nogc
                    /\ LaunchStarts(p, hp.req.dir, pp)
<1> DEFINE hp == helper[h]
           pp == LaunchPeriod(h)
           nx == LaunchNext(hp.pc)
<1>1. hp \in HelperRecord /\ helper \in [Helper -> HelperRecord]
  BY DEF Types
<1>2. hp.new \in Attrs /\ hp.old \in Attrs
  BY <1>1, HelperFields
<1>3. pp \in Period \cup {NoPeriod}
  BY <1>2, AttrFields DEF LaunchPeriod
<1>4. hp.pc \in {"launch", "restart", "urestart"}
  BY DEF nilfs_launch_cleanerd, Launching, At
<1>5. nx \in {"finalize", "reattr", "ureattr"} /\ nx \in Places
  BY <1>4 DEF LaunchNext, Places
<1>6. ASSUME NEW l \in Launches, NEW x \in Places, NEW n \in Attrs, NEW q,
             q = [hp EXCEPT !.launch = l, !.new = n, !.pc = x],
             helper' = [helper EXCEPT ![h] = q]
      PROVE  /\ Now(h, x, hp.type, hp.old, n, hp.alive, l, hp.res)
             /\ helper'[h].req = hp.req
  <2> HIDE DEF hp
  <2>1. /\ q \in HelperRecord /\ q.pc = x /\ q.new = n /\ q.req = hp.req /\ q.type = hp.type
        /\ q.old = hp.old /\ q.alive = hp.alive /\ q.launch = l /\ q.res = hp.res
    BY <1>1, <1>6 DEF HelperRecord
  <2>2. Now(h, q.pc, q.type, q.old, q.new, q.alive, q.launch, q.res) /\ helper'[h].req = q.req
    BY <1>1, <1>6, <2>1, Replaced
  <2> QED  BY <2>1, <2>2
<1>7. CASE /\ LaunchRefused
           /\ helper' = [helper EXCEPT ![h].launch = "refused",
                ![h].pc = IF @ = "launch" THEN "finalize" ELSE "done"]
  <2> DEFINE x == IF hp.pc = "launch" THEN "finalize" ELSE "done"
             q == [hp EXCEPT !.launch = "refused", !.pc = x]
             r == [hp EXCEPT !.launch = "refused", !.new = hp.new, !.pc = x]
  <2>1. helper' = [helper EXCEPT ![h] = q]
    BY <1>1, <1>7
  <2>2. x \in Places /\ "refused" \in Launches
    BY DEF Places, Launches
  <2>3. q = r
    BY <1>1 DEF HelperRecord
  <2> HIDE DEF q, x
  <2>4. /\ Now(h, x, hp.type, hp.old, hp.new, hp.alive, "refused", hp.res)
        /\ helper'[h].req = hp.req
    BY <1>2, <1>6, <2>1, <2>2, <2>3
  <2> QED  BY <1>3, <1>4, <1>5, <1>7, <2>4 DEF LaunchRefused, x
<1>8. CASE /\ LaunchSilent
           /\ helper' = [helper EXCEPT ![h].launch = "silent",
                ![h].new.pp = LaunchPeriod(h), ![h].pc = LaunchNext(@)]
  <2> DEFINE n == [hp.new EXCEPT !.pp = pp]
             q == [hp EXCEPT !.launch = "silent", !.new = n, !.pc = nx]
  <2>1. helper' = [helper EXCEPT ![h] = q]
    BY <1>1, <1>8
  <2>2. "silent" \in Launches
    BY DEF Launches
  <2> HIDE DEF pp
  <2>3. /\ n \in Attrs /\ n.gcpid = hp.new.gcpid /\ n.pp = pp /\ n.nogc = hp.new.nogc
    BY <1>2, <1>3 DEF Attrs
  <2> HIDE DEF n, nx
  <2>4. /\ Now(h, nx, hp.type, hp.old, n, hp.alive, "silent", hp.res)
        /\ helper'[h].req = hp.req
    BY <1>5, <1>6, <2>1, <2>2, <2>3
  <2> QED  BY <1>3, <1>4, <1>5, <1>8, <2>3, <2>4 DEF LaunchSilent, nx, pp
<1>9. CASE \E p \in FreshPid :
              /\ LaunchStarts(p, helper[h].req.dir, LaunchPeriod(h))
              /\ helper' = [helper EXCEPT ![h].launch = "started",
                    ![h].new.pp = LaunchPeriod(h), ![h].new.gcpid = p,
                    ![h].pc = LaunchNext(@)]
  <2>1. PICK p \in FreshPid :
              /\ LaunchStarts(p, helper[h].req.dir, LaunchPeriod(h))
              /\ helper' = [helper EXCEPT ![h].launch = "started",
                    ![h].new.pp = LaunchPeriod(h), ![h].new.gcpid = p,
                    ![h].pc = LaunchNext(@)]
    BY <1>9
  <2> DEFINE m == [hp.new EXCEPT !.pp = pp]
             n == [m EXCEPT !.gcpid = p]
             q == [hp EXCEPT !.launch = "started", !.new = n, !.pc = nx]
  <2>2. p \in Pid
    BY DEF FreshPid
  <2>3. helper' = [helper EXCEPT ![h] = q]
    BY <1>1, <2>1
  <2>4. "started" \in Launches
    BY DEF Launches
  <2> HIDE DEF pp
  <2>5. m \in Attrs /\ m.pp = pp /\ m.nogc = hp.new.nogc
    BY <1>2, <1>3 DEF Attrs
  <2> HIDE DEF m
  <2>6. n \in Attrs /\ n.gcpid = p /\ n.pp = pp /\ n.nogc = hp.new.nogc
    BY <2>2, <2>5 DEF Attrs
  <2> HIDE DEF n, nx
  <2>7. /\ Now(h, nx, hp.type, hp.old, n, hp.alive, "started", hp.res)
        /\ helper'[h].req = hp.req
    BY <1>5, <1>6, <2>3, <2>4, <2>6
  <2> QED  BY <1>3, <1>4, <1>5, <2>1, <2>6, <2>7 DEF nx, pp
<1> QED  BY <1>7, <1>8, <1>9 DEF nilfs_launch_cleanerd

\* What nilfs_prepare_umount() does.
LEMMA PrepareUmountIs ==
    ASSUME Types, NEW h \in Helper, nilfs_prepare_umount(h)
    PROVE  LET hp == helper[h]
               old == utab[hp.req.dir]
           IN
           /\ helper'[h].req = hp.req /\ old \in Attrs
           /\ ~Mounted(hp.req.dir) =>
                 /\ Now(h, "done", hp.type, hp.old, hp.new, hp.alive, hp.launch, -1)
                 /\ UNCHANGED execVars
           /\ Mounted(hp.req.dir) =>
                 /\ \E a \in BOOLEAN :
                       /\ Now(h, IF old.gcpid = NoPid THEN "doumount" ELSE "uwait", hp.type,
                              old, hp.new, a, hp.launch, hp.res)
                       /\ a => old.gcpid \in Pid /\ Alive(old.gcpid)
                 /\ old.gcpid = NoPid => UNCHANGED execVars
                 /\ old.gcpid # NoPid => SigTerm(old.gcpid)
<1> DEFINE hp == helper[h]
           old == utab[hp.req.dir]
<1>1. hp \in HelperRecord /\ helper \in [Helper -> HelperRecord]
  BY DEF Types
<1>2. hp.req \in Requests /\ hp.req.dir \in Dir
  BY <1>1, HelperFields, AttrFields
<1>3. old \in Attrs
  BY <1>2 DEF Types
<1>4. CASE ~Mounted(hp.req.dir)
  <2>1. Fail(h) /\ UNCHANGED execVars
    BY <1>4 DEF nilfs_prepare_umount
  <2>2. /\ Now(h, "done", hp.type, hp.old, hp.new, hp.alive, hp.launch, -1)
        /\ helper'[h].req = hp.req
    BY <1>1, <2>1, GotoIs
  <2> QED  BY <1>3, <1>4, <2>1, <2>2
<1>5. CASE Mounted(hp.req.dir)
  <2> DEFINE a == process_is_alive(old.gcpid)
             x == IF old.gcpid = NoPid THEN "doumount" ELSE "uwait"
             q == [hp EXCEPT !.old = old, !.alive = a, !.pc = x]
  <2>1. helper' = [helper EXCEPT ![h] = q]
    BY <1>1, <1>5 DEF nilfs_prepare_umount
  <2>2. (old.gcpid = NoPid => UNCHANGED execVars) /\ (old.gcpid # NoPid => SigTerm(old.gcpid))
    BY <1>5 DEF nilfs_prepare_umount
  <2>3. a \in BOOLEAN /\ x \in Places /\ (a => old.gcpid \in Pid /\ Alive(old.gcpid))
    BY DEF process_is_alive, Alive, Places
  <2> HIDE DEF a, x, hp, old
  <2>4. /\ q \in HelperRecord /\ q.pc = x /\ q.new = hp.new /\ q.req = hp.req /\ q.type = hp.type
        /\ q.old = old /\ q.alive = a /\ q.launch = hp.launch /\ q.res = hp.res
    BY <1>1, <1>3, <2>3 DEF HelperRecord
  <2> HIDE DEF q
  <2>5. Now(h, q.pc, q.type, q.old, q.new, q.alive, q.launch, q.res) /\ helper'[h].req = q.req
    BY <1>1, <2>1, <2>4, Replaced
  <2>6. Now(h, x, hp.type, old, hp.new, a, hp.launch, hp.res) /\ helper'[h].req = hp.req
    BY <2>4, <2>5
  <2> QED  BY <1>3, <1>5, <2>2, <2>3, <2>6 DEF hp, old, x
<1> QED  BY <1>4, <1>5

-----------------------------------------------------------------------------
(***************************************************************************)
(* Types and periods.                                                      *)
(***************************************************************************)
\* A pid that a table or a helper names is not given out again, so that its
\* period stays.
PpKept == \A p \in Pid \ FreshPid : daemon'[p].pp = daemon[p].pp

\* What is recorded stays right.
LEMMA HonestStays ==
    ASSUME Types, PeriodsInv, PpKept
    PROVE  /\ \A d \in Dir : Honest(utab[d], daemon')
           /\ \A k \in Helper : /\ Honest(helper[k].old, daemon')
                                /\ Honest(helper[k].new, daemon')
<1>1. \A d \in Dir : utab[d] \in Attrs
  BY DEF Types
<1>2. \A k \in Helper : helper[k].old \in Attrs /\ helper[k].new \in Attrs
  BY HelperFields DEF Types
<1>3. ASSUME NEW a \in Attrs, Honest(a, daemon), a.gcpid \notin FreshPid
      PROVE  Honest(a, daemon')
  BY <1>3, AttrFields DEF Honest, PpKept
<1>4. \A d \in Dir : utab[d].gcpid \notin FreshPid
  BY DEF FreshPid
<1>5. \A k \in Helper : helper[k].old.gcpid \notin FreshPid /\ helper[k].new.gcpid \notin FreshPid
  BY DEF FreshPid
<1> QED  BY <1>1, <1>2, <1>3, <1>4, <1>5 DEF PeriodsInv, PeriodInv

\* The tables and the daemons of the right types.
OtherTypes ==
    /\ ExecTypes' /\ mounts' \in Seq(MountEntry) /\ utab' \in [Dir -> Attrs]
    /\ excused' \subseteq {"overlooked", "timeout"} /\ fails' \in 0..MaxFail

\* A step of helper h keeps types and periods, if what it notes and records
\* is right.
LEMMA OneHelperSteps ==
    ASSUME Types, PeriodsInv, NEW h \in Helper,
           NEW x, NEW t, NEW o, NEW n, NEW a, NEW l, NEW e, Now(h, x, t, o, n, a, l, e),
           OtherTypes, PpKept, \A d \in Dir : Honest(utab'[d], daemon'),
           Honest(o, daemon'), Honest(n, daemon'),
           x \notin {"finalize", "reattr", "ureattr", "done"} => n.gcpid = NoPid,
           x \in {"prepare", "wait", "domount", "launch"} => n.pp = helper'[h].req.pp,
           x \in {"restart", "urestart"} => n.pp = o.pp
    PROVE  Types' /\ PeriodsInv'
<1>1. Types'
  BY ExecTypesOK DEF Types, OtherTypes, Now, ExecTypes, ExecTypeOK, DaemonRecord
<1>2. ASSUME NEW k \in Helper PROVE PeriodInv(k)'
  <2>1. CASE k = h
    BY <2>1 DEF PeriodInv, Now
  <2>2. CASE k # h
    <3>1. helper'[k] = helper[k]
      BY <2>2 DEF Now
    <3>2. Honest(helper[k].old, daemon') /\ Honest(helper[k].new, daemon')
      BY HonestStays
    <3>3. PeriodInv(k)
      BY DEF PeriodsInv
    <3> QED  BY <3>1, <3>2, <3>3 DEF PeriodInv
  <2> QED  BY <2>1, <2>2
<1> QED  BY <1>1, <1>2 DEF PeriodsInv

\* Daemons that are left alone, or told to stop, keep their periods.
LEMMA DaemonsLeft ==
    ASSUME Types
    PROVE  /\ UNCHANGED execVars => ExecTypes' /\ PpKept
           /\ \A q \in Pid : SigTerm(q) => ExecTypes' /\ PpKept
<1>1. ExecTypes
  BY ExecTypesOK DEF Types
<1>2. UNCHANGED execVars => ExecTypes' /\ PpKept
  BY <1>1 DEF execVars, ExecTypes, PpKept
<1>3. ASSUME NEW q \in Pid, SigTerm(q) PROVE ExecTypes' /\ PpKept
  <2>1. /\ ExecTypes' /\ daemon'[q].pp = daemon[q].pp
        /\ \A p \in Pid : p # q => daemon'[p] = daemon[p]
    BY <1>1, <1>3, SigTermIs
  <2> QED  BY <2>1 DEF PpKept
<1> QED  BY <1>2, <1>3

\* A helper that just goes on.
LEMMA GotoSteps ==
    ASSUME Types, PeriodsInv, NEW h \in Helper, NEW x \in Places, Goto(h, x),
           UNCHANGED <<execVars, utab, fails>>, mounts' \in Seq(MountEntry),
           excused' \subseteq {"overlooked", "timeout"},
           x \notin {"restart", "urestart"},
           x \in {"prepare", "wait", "domount", "launch"} =>
               helper[h].pc \in {"prepare", "wait", "domount", "launch"},
           x \notin {"finalize", "reattr", "ureattr", "done"} =>
               helper[h].pc \notin {"finalize", "reattr", "ureattr", "done"}
    PROVE  Types' /\ PeriodsInv'
<1> DEFINE hp == helper[h]
<1>1. /\ Now(h, x, hp.type, hp.old, hp.new, hp.alive, hp.launch, hp.res)
      /\ helper'[h].req = hp.req
  BY GotoIs DEF Types
<1>2. ExecTypes' /\ PpKept
  BY DaemonsLeft
<1>3. OtherTypes
  BY <1>2 DEF OtherTypes, Types
<1>4. \A d \in Dir : Honest(utab'[d], daemon')
  BY <1>2, HonestStays
<1>5. Honest(hp.old, daemon') /\ Honest(hp.new, daemon')
  BY <1>2, HonestStays
<1>6. PeriodInv(h)
  BY DEF PeriodsInv
<1>7. x \notin {"finalize", "reattr", "ureattr", "done"} => hp.new.gcpid = NoPid
  BY <1>6 DEF PeriodInv
<1>8. x \in {"prepare", "wait", "domount", "launch"} => hp.new.pp = helper'[h].req.pp
  BY <1>1, <1>6 DEF PeriodInv
<1> HIDE DEF hp
<1> QED  BY <1>1, <1>2, <1>3, <1>4, <1>5, <1>7, <1>8, OneHelperSteps

\* Fail() ends a helper.
LEMMA FailSteps ==
    ASSUME Types, PeriodsInv, NEW h \in Helper, Fail(h),
           UNCHANGED <<execVars, mounts, utab, fails>>,
           excused' \subseteq {"overlooked", "timeout"}
    PROVE  Types' /\ PeriodsInv'
<1> DEFINE hp == helper[h]
           e == -1
<1>1. Now(h, "done", hp.type, hp.old, hp.new, hp.alive, hp.launch, e)
  BY GotoIs DEF Types
<1>2. ExecTypes' /\ PpKept
  BY DaemonsLeft
<1>3. OtherTypes
  BY <1>2 DEF OtherTypes, Types
<1>4. \A d \in Dir : Honest(utab'[d], daemon')
  BY <1>2, HonestStays
<1>5. Honest(hp.old, daemon') /\ Honest(hp.new, daemon')
  BY <1>2, HonestStays
<1> HIDE DEF hp, e
<1> QED  BY <1>1, <1>2, <1>3, <1>4, <1>5, OneHelperSteps

\* Start and end of a helper.
LEMMA StartTypes ==
    ASSUME Types, PeriodsInv, NEW h \in Helper,
           (\E r \in Requests : Start(h, r)) \/ End(h)
    PROVE  Types' /\ PeriodsInv'
<1>1. UNCHANGED <<execVars, mounts, utab, excused, fails>>
  BY DEF Start, End
<1>2. ExecTypes' /\ PpKept
  BY <1>1, DaemonsLeft
<1>3. OtherTypes
  BY <1>1, <1>2 DEF OtherTypes, Types
<1>4. \A d \in Dir : Honest(utab'[d], daemon')
  BY <1>1, <1>2, HonestStays
<1>5. NoAttrs.gcpid = NoPid
  BY DEF NoAttrs
<1>6. Honest(NoAttrs, daemon')
  BY <1>5 DEF Honest
<1>7. CASE \E r \in Requests : Start(h, r)
  <2>1. PICK r \in Requests : Start(h, r)
    BY <1>7
  <2>2. PICK x \in {"prepare", "uprepare"}, n \in Attrs, a \in {FALSE} :
           /\ Now(h, x, "NORMAL_MOUNT", NoAttrs, n, a, "none", 0)
           /\ n.gcpid = NoPid /\ n.pp = r.pp
    BY <2>1, StartIs
  <2>3. helper'[h].req = r
    BY <2>1, StartIs
  <2>4. Honest(n, daemon')
    BY <2>2 DEF Honest
  <2> QED  BY <1>2, <1>3, <1>4, <1>6, <2>2, <2>3, <2>4, OneHelperSteps
<1>8. CASE End(h)
  <2> DEFINE a == Idle(AnyRequest).alive
  <2>1. Now(h, "idle", "NORMAL_MOUNT", NoAttrs, NoAttrs, a, "none", 0)
    BY <1>8, EndIs
  <2> HIDE DEF a
  <2> QED  BY <1>2, <1>3, <1>4, <1>5, <1>6, <2>1, OneHelperSteps
<1> QED  BY <1>7, <1>8

\* nilfs_prepare_mount() takes old attributes from utab.
LEMMA PrepareTypes ==
    ASSUME Types, PeriodsInv, NEW h \in Helper, nilfs_prepare_mount(h)
    PROVE  Types' /\ PeriodsInv'
<1> DEFINE hp == helper[h]
           stops == ~Reports(hp.req) /\ utab[RwDir].gcpid # NoPid
           o == IF hp.req.remount THEN utab[RwDir] ELSE hp.old
<1>1. UNCHANGED <<mounts, utab, fails>> /\ hp.pc = "prepare" /\ helper'[h].req = hp.req
  BY PrepareIs DEF nilfs_prepare_mount, At
<1>2. hp \in HelperRecord /\ PeriodInv(h)
  BY DEF Types, PeriodsInv
<1>3. hp.new.gcpid = NoPid /\ hp.new.pp = helper'[h].req.pp
  BY <1>1, <1>2 DEF PeriodInv
<1>4. excused' \subseteq {"overlooked", "timeout"}
  <2>1. \/ excused' = excused
        \/ excused' = excused \cup IF Reports(hp.req) /\ (hp.req.remount \/ ~Mounted(hp.req.dir))
                                   THEN {"overlooked"} ELSE {}
    BY PrepareIs
  <2> QED  BY <2>1 DEF Types
<1>5. CASE Passes(hp.req)
  <2>1. /\ Now(h, "domount", hp.type, hp.old, hp.new, hp.alive, hp.launch, hp.res)
        /\ UNCHANGED execVars
    BY <1>5, PrepareIs
  <2>2. ExecTypes' /\ PpKept
    BY <2>1, DaemonsLeft
  <2>3. OtherTypes
    BY <1>1, <1>4, <2>2 DEF OtherTypes, Types
  <2>4. /\ \A d \in Dir : Honest(utab'[d], daemon')
        /\ Honest(hp.old, daemon') /\ Honest(hp.new, daemon')
    BY <1>1, <2>2, HonestStays
  <2> HIDE DEF hp
  <2> QED  BY <1>3, <2>1, <2>2, <2>3, <2>4, OneHelperSteps
<1>6. CASE ~Passes(hp.req)
  <2> DEFINE x == IF stops THEN "wait" ELSE "domount"
  <2>1. PICK t \in MountTypes : Now(h, x, t, o, hp.new, hp.alive, hp.launch, hp.res)
    BY <1>6, PrepareIs
  <2>2. (stops => SigTerm(utab[RwDir].gcpid)) /\ (~stops => UNCHANGED execVars)
    BY <1>6, PrepareIs
  <2>3. RwDir \in Dir
    BY <1>6, FoundRw, DirsAre DEF Types, Passes, RwDir
  <2>4. utab[RwDir] \in Attrs
    BY <2>3 DEF Types
  <2>5. stops => utab[RwDir].gcpid \in Pid
    BY <2>4, AttrFields
  <2>6. ExecTypes' /\ PpKept
    BY <2>2, <2>5, DaemonsLeft
  <2>7. OtherTypes
    BY <1>1, <1>4, <2>6 DEF OtherTypes, Types
  <2>8. /\ \A d \in Dir : Honest(utab[d], daemon')
        /\ Honest(hp.old, daemon') /\ Honest(hp.new, daemon')
    BY <2>6, HonestStays
  <2>9. Honest(o, daemon') /\ \A d \in Dir : Honest(utab'[d], daemon')
    BY <1>1, <2>3, <2>8
  <2>10. x \in {"wait", "domount"}
    OBVIOUS
  <2> HIDE DEF hp, o, x, stops
  <2> QED  BY <1>3, <2>1, <2>6, <2>7, <2>8, <2>9, <2>10, OneHelperSteps
<1> QED  BY <1>5, <1>6

\* A failure of mount(2) or umount(2).
LEMMA FailureTypes ==
    ASSUME Types, PeriodsInv, NEW h \in Helper, MountFails(h) \/ UmountFails(h)
    PROVE  Types' /\ PeriodsInv'
<1> DEFINE hp == helper[h]
           e == -1
<1>1. UNCHANGED <<execVars, mounts, utab, excused, fails>>
  BY DEF MountFails, UmountFails
<1>2. ExecTypes' /\ PpKept
  BY <1>1, DaemonsLeft
<1>3. OtherTypes
  BY <1>1, <1>2 DEF OtherTypes, Types
<1>4. (\A d \in Dir : Honest(utab'[d], daemon')) /\ Honest(hp.old, daemon')
  BY <1>1, <1>2, HonestStays
<1>5. PICK x \in {"restart", "urestart", "done"} :
         helper' = [helper EXCEPT ![h].res = -1,
                                  ![h].new = [NoAttrs EXCEPT !.pp = helper[h].old.pp],
                                  ![h].pc = x]
  BY DEF MountFails, UmountFails
<1>6. x \in Places
  BY <1>5 DEF Places
<1>7. PICK n \in Attrs : /\ Now(h, x, hp.type, hp.old, n, hp.alive, hp.launch, e)
                         /\ n.gcpid = NoPid /\ n.pp = hp.old.pp
  BY <1>5, <1>6, FailureIs
<1>8. Honest(n, daemon')
  BY <1>7 DEF Honest
<1> HIDE DEF hp, e
<1> QED  BY <1>2, <1>3, <1>4, <1>5, <1>7, <1>8, OneHelperSteps

\* A launch gives a daemon the period the helper notes.
LEMMA LaunchTypes ==
    ASSUME Types, PeriodsInv, NEW h \in Helper, nilfs_launch_cleanerd(h)
    PROVE  Types' /\ PeriodsInv'
<1> DEFINE hp == helper[h]
           pp == LaunchPeriod(h)
           nx == LaunchNext(hp.pc)
<1>1. UNCHANGED <<mounts, utab, excused, fails>>
  BY DEF nilfs_launch_cleanerd
<1>2. /\ hp.pc \in {"launch", "restart", "urestart"} /\ nx \in {"finalize", "reattr", "ureattr"}
      /\ pp \in Period \cup {NoPeriod} /\ helper'[h].req = hp.req
  BY LaunchedIs
<1>3. ExecTypes /\ hp \in HelperRecord /\ PeriodInv(h)
  BY ExecTypesOK DEF Types, PeriodsInv
<1>4. hp.new.gcpid = NoPid /\ hp.req \in Requests /\ hp.req.dir \in Dir
  BY <1>2, <1>3, HelperFields, AttrFields DEF PeriodInv
<1>5. ASSUME UNCHANGED execVars, NEW x \in {"finalize", "reattr", "ureattr", "done"},
             NEW n \in Attrs, NEW l, n.gcpid = hp.new.gcpid,
             Now(h, x, hp.type, hp.old, n, hp.alive, l, hp.res)
      PROVE  Types' /\ PeriodsInv'
  <2>1. ExecTypes' /\ PpKept
    BY <1>5, DaemonsLeft
  <2>2. OtherTypes
    BY <1>1, <2>1 DEF OtherTypes, Types
  <2>3. (\A d \in Dir : Honest(utab'[d], daemon')) /\ Honest(hp.old, daemon')
    BY <1>1, <2>1, HonestStays
  <2>4. Honest(n, daemon')
    BY <1>4, <1>5 DEF Honest
  <2> HIDE DEF hp
  <2> QED  BY <1>5, <2>1, <2>2, <2>3, <2>4, OneHelperSteps
<1>6. CASE /\ Now(h, IF hp.pc = "launch" THEN "finalize" ELSE "done", hp.type, hp.old,
                  hp.new, hp.alive, "refused", hp.res)
           /\ UNCHANGED execVars
  <2> DEFINE x == IF hp.pc = "launch" THEN "finalize" ELSE "done"
  <2>1. hp.new \in Attrs /\ x \in {"finalize", "reattr", "ureattr", "done"}
    BY <1>3, HelperFields
  <2>2. Now(h, x, hp.type, hp.old, hp.new, hp.alive, "refused", hp.res)
    BY <1>6
  <2> HIDE DEF hp, x
  <2> QED  BY <1>5, <1>6, <2>1, <2>2
<1>7. CASE \E n \in Attrs :
              /\ Now(h, nx, hp.type, hp.old, n, hp.alive, "silent", hp.res)
              /\ n.gcpid = hp.new.gcpid /\ n.pp = pp /\ n.nogc = hp.new.nogc
              /\ UNCHANGED execVars
  <2>1. PICK n \in Attrs :
              /\ Now(h, nx, hp.type, hp.old, n, hp.alive, "silent", hp.res)
              /\ n.gcpid = hp.new.gcpid /\ UNCHANGED execVars
    BY <1>7
  <2> HIDE DEF hp, nx
  <2> QED  BY <1>2, <1>5, <2>1
<1>8. CASE \E n \in Attrs, p \in FreshPid :
              /\ Now(h, nx, hp.type, hp.old, n, hp.alive, "started", hp.res)
              /\ n.gcpid = p /\ n.pp = pp /\ n.nogc = hp.new.nogc
              /\ LaunchStarts(p, hp.req.dir, pp)
  <2>1. PICK n \in Attrs, p \in FreshPid :
              /\ Now(h, nx, hp.type, hp.old, n, hp.alive, "started", hp.res)
              /\ n.gcpid = p /\ n.pp = pp
              /\ LaunchStarts(p, hp.req.dir, pp)
    BY <1>8
  <2>2. p \in Pid
    BY DEF FreshPid
  <2> HIDE DEF pp, nx, hp
  <2>3. /\ ExecTypes' /\ daemon'[p].pp = pp
        /\ \A q \in Pid : q # p => daemon'[q] = daemon[q]
    BY <1>2, <1>3, <1>4, <2>1, <2>2, LaunchIs
  <2>4. PpKept
    BY <2>3 DEF PpKept
  <2>5. OtherTypes
    BY <1>1, <2>3 DEF OtherTypes, Types
  <2>6. (\A d \in Dir : Honest(utab'[d], daemon')) /\ Honest(hp.old, daemon')
    BY <1>1, <2>4, HonestStays DEF hp
  <2>7. Honest(n, daemon')
    BY <2>1, <2>3 DEF Honest
  <2> QED  BY <1>2, <2>1, <2>3, <2>4, <2>5, <2>6, <2>7, OneHelperSteps
<1> QED  BY <1>6, <1>7, <1>8, LaunchedIs

\* What nilfs_mount_attrs_update() leaves in utab is as right as what it was
\* given.
LEMMA UpdateIs ==
    ASSUME NEW cur \in Attrs, NEW old \in BOOLEAN, NEW new \in Attrs
    PROVE  LET r == nilfs_mount_attrs_update(cur, old, new) IN
           /\ r \in Attrs
           /\ r = cur \/ r = new \/ r.gcpid = NoPid
           /\ ~new.nogc /\ new.gcpid # NoPid => r = new
           /\ new.gcpid = NoPid => r.gcpid = NoPid \/ r = cur
           /\ new.gcpid = NoPid /\ old => r.gcpid = NoPid
<1> DEFINE z == [NoAttrs EXCEPT !.nogc = TRUE]
<1>1. /\ z \in Attrs /\ z.gcpid = NoPid
      /\ NoAttrs \in Attrs /\ NoAttrs.gcpid = NoPid
  BY DEF NoAttrs, Attrs
<1> HIDE DEF z
<1>2. nilfs_mount_attrs_update(cur, old, new) =
         IF new.nogc THEN z ELSE IF new.gcpid # NoPid THEN new ELSE IF old THEN NoAttrs ELSE cur
  BY DEF nilfs_mount_attrs_update, z
<1>3. new.nogc \in BOOLEAN
  BY AttrFields
<1> QED  BY <1>1, <1>2, <1>3

\* The record is written.
LEMMA FinalizeTypes ==
    ASSUME Types, PeriodsInv, NEW h \in Helper, Finalize(h) \/ UmountFinalize(h)
    PROVE  Types' /\ PeriodsInv'
<1> DEFINE hp == helper[h]
           d == hp.req.dir
<1>1. UNCHANGED <<execVars, mounts, excused, fails>> /\ Goto(h, "done")
  BY DEF Finalize, UmountFinalize
<1>2. ExecTypes' /\ PpKept
  BY <1>1, DaemonsLeft
<1>3. /\ \A e \in Dir : Honest(utab[e], daemon')
      /\ Honest(hp.old, daemon') /\ Honest(hp.new, daemon')
  BY <1>2, HonestStays
<1>4. hp \in HelperRecord /\ utab \in [Dir -> Attrs] /\ "done" \in Places
  BY DEF Types, Places
<1>5. hp.req \in Requests /\ d \in Dir /\ hp.new \in Attrs
  BY <1>4, HelperFields, AttrFields
<1>6. /\ Now(h, "done", hp.type, hp.old, hp.new, hp.alive, hp.launch, hp.res)
      /\ helper'[h].req = hp.req
  BY <1>1, <1>4, GotoIs DEF Types
<1>7. utab' \in [Dir -> Attrs] /\ \A e \in Dir : Honest(utab'[e], daemon')
  <2> HIDE DEF d
  <2>1. ASSUME NEW r \in Attrs, utab' = [utab EXCEPT ![d] = r], Honest(r, daemon')
        PROVE  utab' \in [Dir -> Attrs] /\ \A e \in Dir : Honest(utab'[e], daemon')
    <3>1. utab' \in [Dir -> Attrs]
      BY <1>4, <2>1
    <3>2. \A e \in Dir : utab'[e] = IF e = d THEN r ELSE utab[e]
      BY <1>4, <1>5, <2>1
    <3> QED  BY <1>3, <2>1, <3>1, <3>2
  <2>2. CASE Finalize(h)
    <3> DEFINE o == hp.pc # "finalize" \/ hp.req.remount
               r == nilfs_mount_attrs_update(utab[d], o, hp.new)
    <3>1. utab' = [utab EXCEPT ![d] = r]
      BY <2>2 DEF Finalize, d
    <3>2. utab[d] \in Attrs /\ o \in BOOLEAN
      BY <1>4, <1>5
    <3> HIDE DEF o
    <3>3. r \in Attrs /\ (r = utab[d] \/ r = hp.new \/ r.gcpid = NoPid)
      BY <1>5, <3>2, UpdateIs
    <3> HIDE DEF r
    <3>4. Honest(r, daemon')
      BY <1>3, <1>5, <3>3 DEF Honest
    <3> QED  BY <2>1, <3>1, <3>3, <3>4
  <2>3. CASE UmountFinalize(h) /\ utab' = utab
    BY <1>3, <1>4, <2>3
  <2>4. CASE UmountFinalize(h) /\ utab' # utab
    <3>1. utab' = [utab EXCEPT ![d] = NoAttrs]
      BY <2>4 DEF UmountFinalize, d
    <3>2. NoAttrs \in Attrs /\ NoAttrs.gcpid = NoPid
      BY DEF NoAttrs, Attrs
    <3> QED  BY <2>1, <3>1, <3>2 DEF Honest
  <2> QED  BY <2>2, <2>3, <2>4
<1>8. OtherTypes
  BY <1>1, <1>2, <1>7 DEF OtherTypes, Types
<1> HIDE DEF hp
<1> QED  BY <1>2, <1>3, <1>6, <1>7, <1>8, OneHelperSteps

\* nilfs_prepare_umount() takes old attributes from utab.
LEMMA PrepareUmountTypes ==
    ASSUME Types, PeriodsInv, NEW h \in Helper, nilfs_prepare_umount(h)
    PROVE  Types' /\ PeriodsInv'
<1> DEFINE hp == helper[h]
           old == utab[hp.req.dir]
           x == IF old.gcpid = NoPid THEN "doumount" ELSE "uwait"
<1>1. UNCHANGED <<mounts, utab, excused, fails>> /\ hp.pc = "uprepare"
  BY DEF nilfs_prepare_umount, At
<1>2. hp \in HelperRecord /\ PeriodInv(h)
  BY DEF Types, PeriodsInv
<1>3. hp.new.gcpid = NoPid /\ hp.req \in Requests /\ hp.req.dir \in Dir
  BY <1>1, <1>2, HelperFields, AttrFields DEF PeriodInv
<1>4. CASE ~Mounted(hp.req.dir)
  <2>1. Fail(h) /\ UNCHANGED execVars
    BY <1>4 DEF nilfs_prepare_umount
  <2> QED  BY <1>1, <2>1, FailSteps DEF Types
<1>5. CASE Mounted(hp.req.dir)
  <2>1. PICK a \in BOOLEAN : Now(h, x, hp.type, old, hp.new, a, hp.launch, hp.res)
    BY <1>5, PrepareUmountIs
  <2>2. (old.gcpid = NoPid => UNCHANGED execVars) /\ (old.gcpid # NoPid => SigTerm(old.gcpid))
    BY <1>5, PrepareUmountIs
  <2>3. old \in Attrs
    BY <1>3 DEF Types
  <2>4. old.gcpid # NoPid => old.gcpid \in Pid
    BY <2>3, AttrFields
  <2>5. ExecTypes' /\ PpKept
    BY <2>2, <2>4, DaemonsLeft
  <2>6. OtherTypes
    BY <1>1, <2>5 DEF OtherTypes, Types
  <2>7. /\ \A d \in Dir : Honest(utab[d], daemon')
        /\ Honest(hp.old, daemon') /\ Honest(hp.new, daemon')
    BY <2>5, HonestStays
  <2>8. Honest(old, daemon') /\ \A d \in Dir : Honest(utab'[d], daemon')
    BY <1>1, <1>3, <2>7
  <2>9. x \in {"doumount", "uwait"}
    OBVIOUS
  <2> HIDE DEF hp, old, x
  <2> QED  BY <1>3, <2>1, <2>5, <2>6, <2>7, <2>8, <2>9, OneHelperSteps
<1> QED  BY <1>4, <1>5

\* The steps that only go on: the waits, the system calls that succeed, and a
\* mount that needs no cleaner.
LEMMA GoingOnTypes ==
    ASSUME Types, PeriodsInv, NEW h \in Helper,
           \/ PrepareFails(h) \/ WaitEnds(h) \/ WaitTimesOut(h) \/ SkipLaunch(h)
           \/ MountSucceeds(h) \/ UmountSucceeds(h) \/ UmountTurnsReadOnly(h)
    PROVE  Types' /\ PeriodsInv'
<1> DEFINE hp == helper[h]
<1>1. /\ UNCHANGED <<execVars, utab, fails>> /\ mounts \in Seq(MountEntry)
      /\ excused \subseteq {"overlooked", "timeout"}
  BY DEF PrepareFails, WaitEnds, WaitTimesOut, SkipLaunch, MountSucceeds, UmountSucceeds,
         UmountTurnsReadOnly, Types
<1>2. excused' \subseteq {"overlooked", "timeout"}
  BY <1>1 DEF PrepareFails, WaitEnds, WaitTimesOut, SkipLaunch, MountSucceeds, UmountSucceeds,
         UmountTurnsReadOnly
<1>3. hp.req \in Requests
  BY HelperFields DEF Types
<1>4. mounts' \in Seq(MountEntry)
  <2>1. CASE MountSucceeds(h)
    <3>1. \/ mounts' = mounts
          \/ (Mounted(hp.req.dir) <=> hp.req.remount) /\ mounts' = MountedBy(hp.req)
      BY <2>1 DEF MountSucceeds
    <3> HIDE DEF hp
    <3> QED  BY <1>1, <1>3, <3>1, MountIs
  <2>2. CASE UmountSucceeds(h)
    <3>1. \E i \in DOMAIN mounts : mounts' = RemoveAt(mounts, i)
      BY <2>2 DEF UmountSucceeds
    <3> QED  BY <1>1, <3>1, UmountIs
  <2>3. CASE UmountTurnsReadOnly(h)
    <3>1. mounts' = [i \in DOMAIN mounts |->
                       [mounts[i] EXCEPT !.rw = @ /\ mounts[i].dir # helper[h].req.dir]]
      BY <2>3 DEF UmountTurnsReadOnly
    <3> QED  BY <1>1, <3>1, ReadOnlyIs
  <2> QED  BY <1>1, <2>1, <2>2, <2>3 DEF PrepareFails, WaitEnds, WaitTimesOut, SkipLaunch
<1>5. CASE Fail(h)
  <2>1. mounts' = mounts \/ Goto(h, "launch") \/ Goto(h, "ufinalize")
    BY DEF PrepareFails, WaitEnds, WaitTimesOut, SkipLaunch, MountSucceeds, UmountSucceeds,
           UmountTurnsReadOnly
  <2>2. helper'[h].pc = "done" /\ ~Goto(h, "launch") /\ ~Goto(h, "ufinalize")
    <3>1. helper'[h].pc = "done"
      BY <1>5, GotoIs DEF Types, Now
    <3>2. "launch" \in Places /\ "ufinalize" \in Places
      BY DEF Places
    <3>3. (Goto(h, "launch") => helper'[h].pc = "launch")
          /\ (Goto(h, "ufinalize") => helper'[h].pc = "ufinalize")
      BY <3>2, GotoIs DEF Types, Now
    <3> QED  BY <3>1, <3>3
  <2> QED  BY <1>1, <1>2, <1>5, <2>1, <2>2, FailSteps
<1>6. CASE ~Fail(h)
  <2>1. PICK x \in {"domount", "doumount", "launch", "finalize", "ufinalize"} :
           /\ Goto(h, x)
           /\ x \in {"domount", "launch"} => hp.pc \in {"wait", "domount"}
           /\ x = "doumount" => hp.pc = "uwait"
    BY <1>6 DEF PrepareFails, WaitEnds, WaitTimesOut, SkipLaunch, MountSucceeds, UmountSucceeds,
             UmountTurnsReadOnly, At
  <2>2. x \in Places
    BY DEF Places
  <2>3. x = "ufinalize" => hp.pc = "doumount"
    <3>1. SUFFICES ASSUME x = "ufinalize" PROVE hp.pc = "doumount"
      OBVIOUS
    <3>2. helper'[h].pc = "ufinalize"
      BY <2>1, <2>2, <3>1, GotoIs DEF Types, Now
    <3>3. \A y \in Places : Goto(h, y) => helper'[h].pc = y
      BY GotoIs DEF Types, Now
    <3>4. {"domount", "doumount", "launch", "finalize"} \subseteq Places
      BY DEF Places
    <3> QED  BY <1>6, <3>2, <3>3, <3>4 DEF PrepareFails, WaitEnds, WaitTimesOut, SkipLaunch,
               MountSucceeds, UmountSucceeds, UmountTurnsReadOnly, At
  <2> HIDE DEF hp
  <2> QED  BY <1>1, <1>2, <1>4, <2>1, <2>2, <2>3, GotoSteps DEF hp
<1> QED  BY <1>5, <1>6

\* Every step keeps types and periods.
LEMMA TypesKept ==
    ASSUME IInv, [Next]_vars
    PROVE  IInv'
<1> USE DEF IInv
<1>1. ASSUME NEW h \in Helper, HelperStep(h) PROVE IInv'
  BY <1>1, GoingOnTypes, PrepareTypes, FailureTypes, LaunchTypes, FinalizeTypes,
     PrepareUmountTypes, StartTypes DEF HelperStep
<1>2. ASSUME NEW h \in Helper, NEW r \in Requests, Start(h, r) PROVE IInv'
  BY <1>2, StartTypes
<1>3. CASE Daemons
  <2>1. UNCHANGED <<mounts, utab, helper, excused>>
    BY <1>3 DEF Daemons
  <2>2. ExecTypes' /\ fails' \in 0..MaxFail
    BY <1>3, DaemonsAre
  <2>3. PpKept
    BY <1>3, DaemonsAre DEF PpKept
  <2>4. Types'
    BY <2>1, <2>2, ExecTypesOK DEF Types, ExecTypes, ExecTypeOK, DaemonRecord
  <2>5. PeriodsInv'
    BY <2>1, <2>3, HonestStays DEF PeriodsInv, PeriodInv
  <2> QED  BY <2>4, <2>5
<1>4. CASE UNCHANGED vars
  BY <1>4 DEF vars, Types, ExecTypeOK, PeriodsInv, PeriodInv, Honest
<1> QED  BY <1>1, <1>2, <1>3, <1>4 DEF Next

\* The daemons start with nothing recorded.
LEMMA InitTypes == Init => IInv
<1> SUFFICES ASSUME Init PROVE IInv
  OBVIOUS
<1>1. AnyDir \in Dir /\ AnyRequest \in Requests
  BY DirAssumption, RequestsAssumption DEF AnyDir, AnyRequest
<1>2. Idle(AnyRequest) \in HelperRecord /\ NoAttrs \in Attrs /\ NoAttrs.gcpid = NoPid
      /\ Idle(AnyRequest).pc = "idle" /\ Idle(AnyRequest).old = NoAttrs
      /\ Idle(AnyRequest).new = NoAttrs
  BY <1>1, IdleIs DEF NoAttrs, Attrs
<1>3. ExecTypeOK
  BY <1>1 DEF Init, ExecInit, ExecTypeOK, DaemonState
<1>4. /\ mounts \in Seq(MountEntry) /\ utab \in [Dir -> Attrs] /\ \A d \in Dir : utab[d] = NoAttrs
      /\ helper \in [Helper -> HelperRecord] /\ \A h \in Helper : helper[h] = Idle(AnyRequest)
  BY <1>2 DEF Init
<1>5. excused = {} /\ fails \in 0..MaxFail
  BY RequestsAssumption DEF Init
<1> QED  BY <1>2, <1>3, <1>4, <1>5 DEF IInv, Types, PeriodsInv, PeriodInv, Honest

-----------------------------------------------------------------------------
(***************************************************************************)
(* The period is kept.                                                     *)
(***************************************************************************)
\* A step in which a daemon appears that helper h names is h's launch: no
\* other step makes a daemon with a pid that h has not named before.
LEMMA PeriodStep ==
    ASSUME IInv, [Next]_vars, NEW h \in Helper, NEW p \in Pid,
           Launching(h), daemon[p].st = "none", daemon'[p].st = "start",
           helper'[h].new.gcpid = p, helper[h].old.gcpid # NoPid,
           helper[h].req.pp = NoPeriod
    PROVE  daemon'[p].pp = daemon[helper[h].old.gcpid].pp
<1> DEFINE hp == helper[h]
<1>1. /\ hp.pc \in {"launch", "restart", "urestart"} /\ PeriodInv(h)
      /\ hp \in HelperRecord /\ Types
  BY DEF Launching, At, IInv, PeriodsInv, Types
<1>2. /\ hp.new.gcpid = NoPid /\ hp.old.pp = daemon[hp.old.gcpid].pp
      /\ hp.pc = "launch" => hp.new.pp = hp.req.pp
      /\ hp.pc \in {"restart", "urestart"} => hp.new.pp = hp.old.pp
  BY <1>1 DEF PeriodInv, Honest
<1>3. LaunchPeriod(h) = hp.old.pp
  BY <1>1, <1>2 DEF LaunchPeriod
<1>4. helper'[h].new # hp.new
  BY <1>2, PidAssumption
<1>5. ~Daemons
  BY <1>4 DEF Daemons
<1>6. ~UNCHANGED vars
  BY <1>4 DEF vars
<1>7. PICK k \in Helper : HelperStep(k) \/ \E r \in Requests : Start(k, r)
  BY <1>5, <1>6 DEF Next
<1>8. ~UNCHANGED execVars
  BY DEF execVars
<1>9. /\ ~(\E r \in Requests : Start(k, r)) /\ ~End(k) /\ ~Finalize(k) /\ ~UmountFinalize(k)
      /\ ~MountFails(k) /\ ~UmountFails(k)
      /\ ~PrepareFails(k) /\ ~WaitEnds(k) /\ ~WaitTimesOut(k) /\ ~SkipLaunch(k)
      /\ ~MountSucceeds(k) /\ ~UmountSucceeds(k) /\ ~UmountTurnsReadOnly(k)
  BY <1>8 DEF Start, End, Finalize, UmountFinalize, MountFails, UmountFails, PrepareFails,
     WaitEnds, WaitTimesOut, SkipLaunch, MountSucceeds, UmountSucceeds, UmountTurnsReadOnly
<1>10. ASSUME NEW q \in Pid, SigTerm(q) PROVE FALSE
  <2>1. ExecTypes
    BY <1>1, ExecTypesOK DEF Types
  <2>2. daemon'[q].st \in {"none", "term"} /\ \A s \in Pid : s # q => daemon'[s] = daemon[s]
    BY <1>10, <2>1, SigTermIs
  <2> QED  BY <2>2
<1>11. ~nilfs_prepare_mount(k)
  <2> SUFFICES ASSUME nilfs_prepare_mount(k) PROVE FALSE
    OBVIOUS
  <2>1. ~Passes(helper[k].req)
    BY <1>1, <1>8, PrepareIs
  <2>2. SigTerm(utab[RwDir].gcpid) /\ utab[RwDir].gcpid # NoPid
    BY <1>1, <1>8, <2>1, PrepareIs
  <2>3. RwDir \in Dir
    BY <1>1, <2>1, FoundRw, DirsAre DEF Types, Passes, RwDir
  <2>4. utab[RwDir] \in Attrs
    BY <1>1, <2>3 DEF Types
  <2>5. utab[RwDir].gcpid \in Pid
    BY <2>2, <2>4, AttrFields
  <2> QED  BY <1>10, <2>2, <2>5
<1>12. ~nilfs_prepare_umount(k)
  <2> SUFFICES ASSUME nilfs_prepare_umount(k) PROVE FALSE
    OBVIOUS
  <2> DEFINE old == utab[helper[k].req.dir]
  <2>1. SigTerm(old.gcpid) /\ old.gcpid # NoPid /\ old \in Attrs
    BY <1>1, <1>8, PrepareUmountIs
  <2>2. old.gcpid \in Pid
    BY <2>1, AttrFields
  <2> QED  BY <1>10, <2>1, <2>2
<1>13. nilfs_launch_cleanerd(k)
  BY <1>7, <1>9, <1>11, <1>12 DEF HelperStep
<1>14. PICK n \in Attrs, q \in FreshPid :
          /\ Now(k, LaunchNext(helper[k].pc), helper[k].type, helper[k].old, n, helper[k].alive,
                 "started", helper[k].res)
          /\ LaunchStarts(q, helper[k].req.dir, LaunchPeriod(k))
  BY <1>1, <1>8, <1>13, LaunchedIs
<1>15. k = h
  BY <1>4, <1>14 DEF Now
<1>16. ExecTypes /\ q \in Pid /\ hp.req.dir \in Dir /\ LaunchPeriod(h) \in Period \cup {NoPeriod}
  <2>1. ExecTypes /\ q \in Pid /\ hp.req \in Requests
    BY <1>1, ExecTypesOK, HelperFields DEF Types, FreshPid
  <2> QED  BY <1>1, <1>13, <1>15, <2>1, LaunchedIs, AttrFields
<1>17. daemon'[q].pp = LaunchPeriod(h) /\ \A s \in Pid : s # q => daemon'[s] = daemon[s]
  BY <1>14, <1>15, <1>16, LaunchIs
<1> QED  BY <1>2, <1>3, <1>17

\* A daemon started by a remount or an umount without pp= has the protection
\* period of the daemon that was stopped, whatever other helpers do meanwhile
\* (nilfs_launch_cleanerd, nilfs_mount_attrs_update).
THEOREM PeriodIsKept == Spec => PeriodKept
<1>1. IInv /\ [Next]_vars => IInv'
  BY TypesKept
<1>2. IInv /\ [Next]_vars =>
        [\A h \in Helper, p \in Pid :
          LET hp == helper[h] IN
          /\ Launching(h) /\ daemon[p].st = "none" /\ daemon'[p].st = "start"
          /\ helper'[h].new.gcpid = p
          /\ hp.old.gcpid # NoPid /\ hp.req.pp = NoPeriod
          => daemon'[p].pp = daemon[hp.old.gcpid].pp]_vars
  BY PeriodStep
<1> QED  BY InitTypes, <1>1, <1>2, PTL DEF Spec, PeriodKept

-----------------------------------------------------------------------------
(***************************************************************************)
(* The cleaner stays under control.                                        *)
(***************************************************************************)
\* The one helper, before a step in a run that nothing excuses.
Ready(h) == Types /\ PeriodsInv /\ Helper = {h} /\ PlainRequests /\ Control(h)

\* The fields of the helper and its command line.
LEMMA ReadyFields ==
    ASSUME NEW h, Ready(h)
    PROVE  LET hp == helper[h] IN
           /\ h \in Helper /\ hp \in HelperRecord /\ PeriodInv(h) /\ Types /\ PeriodsInv
           /\ hp.pc \in Places /\ hp.req \in Requests /\ hp.req.dir \in Dir
           /\ ~hp.req.bind /\ (hp.req.fake => hp.req.remount)
           /\ hp.old \in Attrs /\ hp.new \in Attrs /\ utab[hp.req.dir] \in Attrs
           /\ hp.req.remount \in BOOLEAN /\ hp.req.ro \in BOOLEAN /\ hp.req.nogc \in BOOLEAN
           /\ hp.req.fake \in BOOLEAN
<1> DEFINE hp == helper[h]
<1>1. h \in Helper /\ Types /\ PeriodsInv /\ PlainRequests
  BY DEF Ready
<1>2. hp \in HelperRecord /\ PeriodInv(h)
  BY <1>1 DEF Types, PeriodsInv
<1>3. hp.pc \in Places /\ hp.req \in Requests /\ hp.old \in Attrs /\ hp.new \in Attrs
  BY <1>2, HelperFields
<1>4. /\ hp.req.dir \in Dir /\ hp.req.remount \in BOOLEAN /\ hp.req.ro \in BOOLEAN
      /\ hp.req.nogc \in BOOLEAN /\ hp.req.fake \in BOOLEAN
  BY <1>3, AttrFields
<1>5. utab[hp.req.dir] \in Attrs
  BY <1>1, <1>4 DEF Types
<1>6. ~hp.req.bind /\ (hp.req.fake => hp.req.remount)
  BY <1>1, <1>3 DEF PlainRequests
<1> QED  BY <1>1, <1>2, <1>3, <1>4, <1>5, <1>6

\* What stays as it is when tables and daemons are left alone.
LEMMA WorldStays ==
    ASSUME NEW h, Ready(h), UNCHANGED <<execVars, mounts, utab>>
    PROVE  /\ OneDaemon' /\ OneMount' /\ RwDirs' = RwDirs
           /\ daemon' = daemon /\ queue' = queue /\ mounts' = mounts /\ utab' = utab
<1>1. daemon' = daemon /\ queue' = queue /\ mounts' = mounts /\ utab' = utab
  BY DEF execVars
<1>2. OneDaemon /\ OneMount
  BY DEF Ready, Control
<1>3. RwDirs' = RwDirs
  BY <1>1 DEF RwDirs, RwMounts
<1>4. OneDaemon'
  BY <1>1, <1>2 DEF OneDaemon, Alive, Reachable
<1>5. OneMount'
  BY <1>1, <1>2, <1>3 DEF OneMount, Distinct
<1> QED  BY <1>1, <1>3, <1>4, <1>5

\* A helper starts, ends, or gives up before it has done anything.
LEMMA StartControls ==
    ASSUME NEW h, Ready(h), (\E r \in Requests : Start(h, r)) \/ End(h) \/ PrepareFails(h)
    PROVE  Control(h)'
<1> DEFINE hp == helper[h]
           hq == helper'[h]
<1>1. UNCHANGED <<execVars, mounts, utab>>
  BY DEF Start, End, PrepareFails
<1>2. /\ OneDaemon' /\ OneMount' /\ RwDirs' = RwDirs
      /\ daemon' = daemon /\ queue' = queue /\ mounts' = mounts /\ utab' = utab
  BY <1>1, WorldStays
<1>3. h \in Helper /\ Types /\ hp.pc \in Places
  BY ReadyFields
<1>4. DaemonInv(h) /\ LaunchInv(h) /\ NotesInv(h)
  BY DEF Ready, Control
<1>5. /\ hp.pc \in {"idle", "prepare", "done"} /\ hq.pc \in {"idle", "prepare", "uprepare", "done"}
      /\ hq.type = "NORMAL_MOUNT" /\ (hq.res = -1 => hq.pc = "done")
      /\ hq.pc = "prepare" =>
            hq.new.nogc = hq.req.nogc /\ (hq.req.fake => hq.req.dir \in RwDirs)
  <2>1. CASE \E r \in Requests : Start(h, r)
    <3>1. PICK r \in Requests : Start(h, r)
      BY <2>1
    <3>2. hp.pc = "idle" /\ (r.fake => r.dir \in RwDirs)
      BY <3>1 DEF Start, At
    <3>3. PICK x \in {"prepare", "uprepare"}, n \in Attrs, a \in {FALSE} :
             Now(h, x, "NORMAL_MOUNT", NoAttrs, n, a, "none", 0) /\ n.nogc = r.nogc
      BY <1>3, <3>1, StartIs
    <3>4. hq.req = r
      BY <1>3, <3>1, StartIs
    <3> QED  BY <3>2, <3>3, <3>4 DEF Now
  <2>2. CASE End(h)
    <3>1. hp.pc = "done"
      BY <2>2 DEF End, At
    <3>2. Now(h, "idle", "NORMAL_MOUNT", NoAttrs, NoAttrs, Idle(AnyRequest).alive, "none", 0)
      BY <1>3, <2>2, EndIs
    <3>3. hq.pc = "idle" /\ hq.type = "NORMAL_MOUNT" /\ hq.res = 0
      BY <3>2 DEF Now
    <3> QED  BY <3>1, <3>3
  <2>3. CASE PrepareFails(h)
    <3>1. hp.pc = "prepare" /\ Fail(h)
      BY <2>3 DEF PrepareFails, At
    <3>2. Now(h, "done", hp.type, hp.old, hp.new, hp.alive, hp.launch, -1)
      BY <1>3, <3>1, GotoIs DEF Types
    <3> QED  BY <1>4, <3>1, <3>2 DEF Now, NotesInv
  <2> QED  BY <2>1, <2>2, <2>3
<1> HIDE DEF hp, hq
<1>6. DaemonInv(h)'
  BY <1>2, <1>4, <1>5 DEF DaemonInv, Recorded, Running, Alive, hp, hq
<1>7. LaunchInv(h)'
  BY <1>2, <1>5 DEF LaunchInv, Launching, At, hq
<1>8. NotesInv(h)'
  BY <1>5 DEF NotesInv, hq
<1>9. RestartInv(h)'
  BY <1>5 DEF RestartInv, hq
<1> QED  BY <1>2, <1>6, <1>7, <1>8, <1>9 DEF Control

\* SIGTERM leaves one daemon at most, and the tables alone.
LEMMA StopStays ==
    ASSUME NEW h, Ready(h), NEW q \in Pid, SigTerm(q), UNCHANGED <<mounts, utab>>
    PROVE  /\ OneDaemon' /\ OneMount' /\ RwDirs' = RwDirs /\ mounts' = mounts /\ utab' = utab
           /\ \A p \in Pid : Alive(p)' => Alive(p)
           /\ daemon'[q].st # "none" => daemon'[q].st = "term"
           /\ \A p \in Pid : p # q => daemon'[p] = daemon[p]
<1>1. ExecTypes /\ OneDaemon /\ OneMount
  BY ExecTypesOK DEF Ready, Types, Control
<1>2. /\ queue' = queue
      /\ daemon[q].st # "none" => daemon'[q].st = "term"
      /\ daemon[q].st = "none" => daemon'[q].st = "none"
      /\ \A p \in Pid : p # q => daemon'[p] = daemon[p]
  BY <1>1, SigTermIs
<1>3. /\ \A p \in Pid : Alive(p)' => Alive(p)
      /\ daemon'[q].st # "none" => daemon'[q].st = "term"
  BY <1>2 DEF Alive
<1>4. \A p \in Pid : daemon'[p].st = "run" => daemon[p].st = "run"
  BY <1>2
<1>5. OneDaemon'
  BY <1>1, <1>2, <1>3, <1>4 DEF OneDaemon, Reachable
<1>6. RwDirs' = RwDirs
  BY DEF RwDirs, RwMounts
<1>7. OneMount'
  BY <1>1, <1>6 DEF OneMount, Distinct
<1> QED  BY <1>2, <1>3, <1>5, <1>6, <1>7

\* The recorded daemon of the only read-write mount is the one daemon.
LEMMA OnlyRecorded ==
    ASSUME NEW h, Ready(h), NEW d \in RwDirs, NEW p \in Pid, Recorded(p)
    PROVE  RwDirs = {d} /\ daemon[p].dir = d /\ utab[d].gcpid = p
BY DEF Ready, Control, OneMount, Recorded

\* nilfs_prepare_mount() stops the daemon of the mount that is changed.
LEMMA PrepareControls ==
    ASSUME NEW h, Ready(h), nilfs_prepare_mount(h), excused' = {}
    PROVE  Control(h)'
<1> DEFINE hp == helper[h]
           hq == helper'[h]
           req == hp.req
<1>1. /\ h \in Helper /\ Types /\ hp.pc = "prepare" /\ hq.req = hp.req
      /\ UNCHANGED <<mounts, utab>>
      /\ ~req.bind /\ req.remount \in BOOLEAN /\ req.ro \in BOOLEAN /\ req.dir \in Dir
  BY ReadyFields, PrepareIs DEF nilfs_prepare_mount, At
<1>2. DaemonInv(h) /\ LaunchInv(h) /\ NotesInv(h) /\ OneDaemon /\ OneMount
  BY DEF Ready, Control
<1>3. /\ \A p \in Pid : Alive(p) => Recorded(p)
      /\ req.fake => req.dir \in RwDirs
      /\ hp.type = "NORMAL_MOUNT" /\ hp.res # -1 /\ hp.new.nogc = req.nogc
  BY <1>1, <1>2 DEF DaemonInv, LaunchInv, NotesInv
<1>4. RwMounts = {} <=> RwDirs = {}
  BY DEF RwDirs
<1>5. CASE Passes(req) \/ Reports(req)
  <2>1. ~Passes(req) => ~req.remount /\ Mounted(req.dir)
    <3> SUFFICES ASSUME ~Passes(req) PROVE ~req.remount /\ Mounted(req.dir)
      OBVIOUS
    <3>1. excused' = excused \cup
             IF Reports(req) /\ (req.remount \/ ~Mounted(req.dir)) THEN {"overlooked"} ELSE {}
      BY <1>1, PrepareIs
    <3> QED  BY <1>5, <3>1
  <2>2. UNCHANGED execVars /\ hq.pc = "domount" /\ hq.type = "NORMAL_MOUNT"
        /\ hq.new = hp.new /\ hq.res = hp.res
    <3>1. CASE Passes(req)
      <4>1. /\ Now(h, "domount", hp.type, hp.old, hp.new, hp.alive, hp.launch, hp.res)
            /\ UNCHANGED execVars
        BY <1>1, <3>1, PrepareIs
      <4> QED  BY <1>3, <4>1 DEF Now
    <3>2. CASE ~Passes(req)
      <4>1. Reports(req)
        BY <1>5, <3>2
      <4>2. UNCHANGED execVars
        BY <1>1, <3>2, <4>1, PrepareIs
      <4>3. \E t \in MountTypes :
               /\ Now(h, "domount", t, IF req.remount THEN utab[RwDir] ELSE hp.old,
                      hp.new, hp.alive, hp.launch, hp.res)
               /\ ~req.remount => t = hp.type
        BY <1>1, <3>2, <4>1, PrepareIs
      <4> QED  BY <1>3, <2>1, <3>2, <4>2, <4>3 DEF Now
    <3> QED  BY <3>1, <3>2
  <2>3. /\ OneDaemon' /\ OneMount' /\ RwDirs' = RwDirs
        /\ daemon' = daemon /\ queue' = queue /\ mounts' = mounts /\ utab' = utab
    BY <1>1, <2>2, WorldStays
  <2>4. \/ RwDirs = {} \/ (req.ro /\ ~req.remount)
        \/ (~req.remount /\ Mounted(req.dir))
    BY <1>1, <1>4, <2>1 DEF Passes
  <2> HIDE DEF hp, hq, req
  <2>5. DaemonInv(h)'
    BY <1>1, <1>3, <2>2, <2>3, <2>4 DEF DaemonInv, Recorded, Running, Alive, hq, hp, req
  <2>6. LaunchInv(h)'
    BY <1>1, <1>3, <2>2, <2>3, <2>4 DEF LaunchInv, Launching, At, Mounted, hq, hp, req
  <2>7. NotesInv(h)'
    BY <1>1, <1>3, <2>2 DEF NotesInv, hq, hp, req
  <2>8. RestartInv(h)'
    BY <2>2 DEF RestartInv, hq
  <2> QED  BY <2>3, <2>5, <2>6, <2>7, <2>8 DEF Control
<1>6. CASE ~Passes(req) /\ ~Reports(req)
  <2> DEFINE old == utab[req.dir]
  <2>1. req.remount /\ RwDir = req.dir /\ req.dir \in RwDirs
    BY <1>1, <1>6, FoundRw DEF Passes, Reports, Types, RwDir
  <2>2. RwDirs = {req.dir}
    BY <1>2, <2>1 DEF OneMount
  <2>3. old \in Attrs /\ (old.gcpid # NoPid => old.gcpid \in Pid)
    BY ReadyFields, AttrFields
  <2>4. \A p \in Pid : Alive(p) => p = old.gcpid
    BY <1>3, <2>1, OnlyRecorded
  <2>5. CASE old.gcpid = NoPid
    <3>1. UNCHANGED execVars
      BY <1>1, <1>6, <2>1, <2>5, PrepareIs
    <3>2. \E t \in MountTypes :
             Now(h, "domount", t, utab[RwDir], hp.new, hp.alive, hp.launch, hp.res)
      BY <1>1, <1>6, <2>1, <2>5, PrepareIs
    <3>3. hq.pc = "domount" /\ hq.new = hp.new /\ hq.res = hp.res
      BY <3>2 DEF Now
    <3>4. /\ OneDaemon' /\ OneMount' /\ RwDirs' = RwDirs
          /\ daemon' = daemon /\ queue' = queue /\ mounts' = mounts /\ utab' = utab
      BY <1>1, <3>1, WorldStays
    <3>5. \A p \in Pid : ~Alive(p)
      BY <2>4, <2>5, PidAssumption
    <3> HIDE DEF hp, hq, req
    <3>6. DaemonInv(h)'
      BY <3>4, <3>5 DEF DaemonInv, Alive
    <3>7. LaunchInv(h)'
      BY <1>1, <1>3, <2>1, <2>2, <3>3, <3>4 DEF LaunchInv, Launching, At, hq, hp, req
    <3>8. NotesInv(h)'
      BY <1>1, <1>3, <3>3 DEF NotesInv, hq, hp, req
    <3>9. RestartInv(h)'
      BY <3>3 DEF RestartInv, hq
    <3> QED  BY <3>4, <3>6, <3>7, <3>8, <3>9 DEF Control
  <2>6. CASE old.gcpid # NoPid
    <3>1. SigTerm(old.gcpid) /\ old.gcpid \in Pid
      BY <1>1, <1>6, <2>1, <2>3, <2>6, PrepareIs
    <3>2. \E t \in MountTypes :
             Now(h, "wait", t, utab[RwDir], hp.new, hp.alive, hp.launch, hp.res)
      BY <1>1, <1>6, <2>1, <2>6, PrepareIs
    <3>3. hq.pc = "wait" /\ hq.new = hp.new /\ hq.res = hp.res /\ hq.old = old
      BY <2>1, <3>2 DEF Now
    <3>4. /\ OneDaemon' /\ OneMount' /\ RwDirs' = RwDirs /\ mounts' = mounts /\ utab' = utab
          /\ \A p \in Pid : Alive(p)' => Alive(p)
          /\ daemon'[old.gcpid].st # "none" => daemon'[old.gcpid].st = "term"
      BY <1>1, <3>1, StopStays
    <3> HIDE DEF hp, hq, req, old
    <3>6. DaemonInv(h)'
      <4>1. SUFFICES ASSUME NEW p \in Pid, Alive(p)'
                     PROVE  p = hq.old.gcpid /\ daemon'[p].st = "term"
        BY <3>3, <4>1 DEF DaemonInv, hq
      <4>2. daemon'[p].st # "none" /\ p = old.gcpid
        BY <2>4, <3>4, <4>1 DEF Alive
      <4> QED  BY <3>3, <3>4, <4>2
    <3>7. LaunchInv(h)'
      BY <1>1, <1>3, <2>1, <2>2, <3>3, <3>4 DEF LaunchInv, Launching, At, hq, hp, req
    <3>8. NotesInv(h)'
      BY <1>1, <1>3, <3>3 DEF NotesInv, hq, hp, req
    <3>9. RestartInv(h)'
      BY <3>3 DEF RestartInv, hq
    <3> QED  BY <3>4, <3>6, <3>7, <3>8, <3>9 DEF Control
  <2> QED  BY <2>5, <2>6
<1> QED  BY <1>5, <1>6

\* The daemon a helper waited for is gone.
LEMMA WaitControls ==
    ASSUME NEW h, Ready(h), WaitEnds(h)
    PROVE  Control(h)'
<1> DEFINE hp == helper[h]
           hq == helper'[h]
           x == IF hp.pc = "wait" THEN "domount" ELSE "doumount"
<1>1. /\ hp.pc \in {"wait", "uwait"} /\ ~process_is_alive(hp.old.gcpid) /\ Goto(h, x)
      /\ UNCHANGED <<execVars, mounts, utab>>
  BY DEF WaitEnds, At
<1>2. DaemonInv(h) /\ LaunchInv(h) /\ NotesInv(h)
  BY DEF Ready, Control
<1>3. /\ OneDaemon' /\ OneMount' /\ RwDirs' = RwDirs
      /\ daemon' = daemon /\ queue' = queue /\ mounts' = mounts /\ utab' = utab
  BY <1>1, WorldStays
<1>4. h \in Helper /\ Types /\ x \in Places /\ hp.req.remount \in BOOLEAN
  BY ReadyFields DEF Places
<1>5. /\ hq.pc = x /\ hq.type = hp.type /\ hq.old = hp.old /\ hq.new = hp.new
      /\ hq.alive = hp.alive /\ hq.res = hp.res /\ hq.req = hp.req
  BY <1>1, <1>4, GotoIs DEF Types, Now
<1>6. \A p \in Pid : Alive(p) => p # hp.old.gcpid
  BY <1>1 DEF process_is_alive, Alive
<1>7. CASE hp.pc = "wait"
  <2>1. hq.pc = "domount"
    BY <1>5, <1>7
  <2> HIDE DEF hp, hq, x
  <2>2. DaemonInv(h)'
    BY <1>2, <1>3, <1>5, <1>6, <1>7, <2>1 DEF DaemonInv, Recorded, Running, Alive, hp, hq
  <2>3. LaunchInv(h)'
    BY <1>2, <1>3, <1>5, <1>7, <2>1 DEF LaunchInv, Launching, At, hp, hq
  <2>4. NotesInv(h)'
    BY <1>2, <1>5, <1>7, <2>1 DEF NotesInv, hp, hq
  <2>5. RestartInv(h)'
    BY <2>1 DEF RestartInv, hq
  <2> QED  BY <1>3, <2>2, <2>3, <2>4, <2>5 DEF Control
<1>8. CASE hp.pc = "uwait"
  <2>1. hq.pc = "doumount"
    BY <1>5, <1>8
  <2> HIDE DEF hp, hq, x
  <2>2. DaemonInv(h)'
    BY <1>2, <1>3, <1>5, <1>6, <1>8, <2>1 DEF DaemonInv, Recorded, Running, Alive, hp, hq
  <2>3. LaunchInv(h)'
    BY <1>2, <1>3, <1>5, <1>8, <2>1 DEF LaunchInv, Launching, At, hp, hq
  <2>4. NotesInv(h)'
    BY <1>2, <1>5, <1>8, <2>1 DEF NotesInv, hp, hq
  <2>5. RestartInv(h)'
    BY <2>1 DEF RestartInv, hq
  <2> QED  BY <1>3, <2>2, <2>3, <2>4, <2>5 DEF Control
<1> QED  BY <1>1, <1>7, <1>8

\* mount(2) succeeds: the directory is mounted as asked for, and no daemon is
\* left on it.
LEMMA MountControls ==
    ASSUME NEW h, Ready(h), MountSucceeds(h)
    PROVE  Control(h)'
<1> DEFINE hp == helper[h]
           hq == helper'[h]
           req == hp.req
           d == req.dir
<1>1. /\ hp.pc = "domount" /\ Goto(h, "launch") /\ UNCHANGED <<execVars, utab>>
      /\ \/ req.fake /\ mounts' = mounts
         \/ ~req.fake /\ (Mounted(d) <=> req.remount) /\ mounts' = MountedBy(req)
  BY DEF MountSucceeds, At
<1>2. DaemonInv(h) /\ LaunchInv(h) /\ NotesInv(h) /\ OneDaemon /\ OneMount
  BY DEF Ready, Control
<1>3. /\ h \in Helper /\ Types /\ req \in Requests /\ d \in Dir /\ (req.fake => req.remount)
      /\ ~req.bind /\ req.remount \in BOOLEAN /\ req.ro \in BOOLEAN /\ req.fake \in BOOLEAN
  BY ReadyFields
<1>4. /\ hq.pc = "launch" /\ hq.new = hp.new /\ hq.res = hp.res /\ hq.req = hp.req
  <2>1. "launch" \in Places
    BY DEF Places
  <2> QED  BY <1>1, <1>3, <2>1, GotoIs DEF Types, Now
<1>5. daemon' = daemon /\ queue' = queue /\ utab' = utab
  BY <1>1 DEF execVars
<1>6. /\ \A p \in Pid : Alive(p) => Recorded(p) /\ (daemon[p].dir = d => ~req.remount)
      /\ req.fake => d \in RwDirs
      /\ \/ RwDirs = {}
         \/ req.ro /\ ~req.remount
         \/ req.remount /\ RwDirs = {d}
         \/ ~req.remount /\ Mounted(d)
      /\ hp.res # -1 /\ hp.new.nogc = req.nogc
  BY <1>1, <1>2 DEF DaemonInv, LaunchInv, NotesInv
<1>7. \A p \in Pid : Alive(p) => daemon[p].dir # d
  <2> SUFFICES ASSUME NEW p \in Pid, Alive(p), daemon[p].dir = d, ~req.remount PROVE FALSE
    BY <1>3, <1>6
  <2>1. d \in RwDirs /\ ~Mounted(d)
    BY <1>1, <1>3, <1>6 DEF Recorded
  <2> QED  BY <2>1, DirsAre DEF MountedDirs, Mounted, RwDirs, RwMounts
<1>8. /\ \A e, f \in RwDirs' : e = f
      /\ \A e \in RwDirs : e # d => e \in RwDirs'
      /\ ~req.ro => RwDirs' = {d}
      /\ req.fake => d \in RwDirs'
      /\ Distinct'
  <2>1. CASE req.fake /\ mounts' = mounts
    <3>1. RwDirs' = RwDirs
      BY <2>1 DEF RwDirs, RwMounts
    <3>2. Distinct' /\ RwDirs = {d}
      BY <1>2, <1>6, <2>1 DEF OneMount, Distinct
    <3> QED  BY <2>1, <3>1, <3>2
  <2>2. CASE ~req.fake /\ (Mounted(d) <=> req.remount) /\ mounts' = MountedBy(req)
    <3> HIDE DEF hp, req
    <3>1. /\ RwDirs' = (RwDirs \ {req.dir}) \cup (IF req.ro THEN {} ELSE {req.dir})
          /\ Distinct => Distinct'
      BY <1>3, <2>2, MountIs DEF Types
    <3>2. Distinct /\ \A e, f \in RwDirs : e = f
      BY <1>2 DEF OneMount
    <3>3. ~req.ro => RwDirs' = {d}
      BY <1>6, <2>2, <3>1
    <3>4. req.ro => RwDirs' = RwDirs \ {d}
      BY <3>1
    <3> QED  BY <1>3, <2>2, <3>1, <3>2, <3>3, <3>4
  <2> QED  BY <1>1, <2>1, <2>2
<1>9. OneMount'
  BY <1>2, <1>5, <1>8 DEF OneMount
<1>10. OneDaemon'
  BY <1>2, <1>5 DEF OneDaemon, Alive, Reachable
<1> HIDE DEF hp, hq, req, d
<1>11. DaemonInv(h)'
  BY <1>4, <1>5, <1>6, <1>7, <1>8 DEF DaemonInv, Recorded, Running, Alive, hp, hq, req, d
<1>12. ASSUME ~req.ro PROVE NoneAlive' /\ d \in RwDirs'
  <2>1. \A p \in Pid : ~Alive(p)
    <3> SUFFICES ASSUME NEW p \in Pid, Alive(p) PROVE FALSE
      OBVIOUS
    <3>1. daemon[p].dir \in RwDirs /\ daemon[p].dir # d
      BY <1>6, <1>7 DEF Recorded
    <3> QED  BY <1>8, <1>12, <3>1
  <2> QED  BY <1>5, <1>8, <1>12, <2>1 DEF NoneAlive, Alive
<1>13. LaunchInv(h)'
  BY <1>4, <1>8, <1>12 DEF LaunchInv, Launching, At, rungc, hp, hq, req, d
<1>14. NotesInv(h)'
  BY <1>4, <1>6 DEF NotesInv, hp, hq, req
<1>15. RestartInv(h)'
  BY <1>4 DEF RestartInv, hq
<1> QED  BY <1>9, <1>10, <1>11, <1>13, <1>14, <1>15 DEF Control

\* mount(2) or umount(2) fails: the daemon that was stopped is started again,
\* and there is none by then.
LEMMA FailureControls ==
    ASSUME NEW h, Ready(h), MountFails(h) \/ UmountFails(h)
    PROVE  Control(h)'
<1> DEFINE hp == helper[h]
           hq == helper'[h]
<1>1. UNCHANGED <<execVars, mounts, utab>> /\ hp.pc \in {"domount", "doumount"}
  BY DEF MountFails, UmountFails, At
<1>2. DaemonInv(h) /\ LaunchInv(h) /\ NotesInv(h)
  BY DEF Ready, Control
<1>3. /\ OneDaemon' /\ OneMount' /\ RwDirs' = RwDirs
      /\ daemon' = daemon /\ queue' = queue /\ mounts' = mounts /\ utab' = utab
  BY <1>1, WorldStays
<1>4. h \in Helper /\ Types /\ hp.req.remount \in BOOLEAN
  BY ReadyFields
<1>5. \A p \in Pid : Alive(p) => Recorded(p)
  BY <1>1, <1>2 DEF DaemonInv
<1>6. PICK x \in {"restart", "urestart", "done"} :
         /\ helper' = [helper EXCEPT ![h].res = -1,
                                     ![h].new = [NoAttrs EXCEPT !.pp = helper[h].old.pp],
                                     ![h].pc = x]
         /\ x = "restart" => hp.pc = "domount" /\ hp.type # "NORMAL_MOUNT"
         /\ x = "urestart" => /\ hp.pc = "doumount" /\ hp.alive
                              /\ ~process_is_alive(hp.old.gcpid)
         /\ x = "done" /\ hp.pc = "domount" => hp.type = "NORMAL_MOUNT" \/ hp.old.nogc
  BY DEF MountFails, UmountFails, At
<1>7. x \in Places
  BY <1>6 DEF Places
<1>8. hq.req = hp.req /\ \E n \in Attrs :
         /\ Now(h, x, hp.type, hp.old, n, hp.alive, hp.launch, -1) /\ n.nogc = FALSE
  BY <1>4, <1>6, <1>7, FailureIs
<1>9. hq.pc = x /\ hq.type = hp.type /\ hq.old = hp.old /\ ~hq.new.nogc
  BY <1>8 DEF Now
<1>10. x \in {"restart", "urestart"} => NoneAlive /\ hp.req.dir \in RwDirs
  <2>1. CASE x = "restart"
    <3>1. hp.req.remount /\ RwDirs = {hp.req.dir}
      BY <1>2, <1>6, <2>1 DEF LaunchInv
    <3>2. \A p \in Pid : Alive(p) => daemon[p].dir # hp.req.dir
      BY <1>2, <1>6, <2>1, <3>1 DEF DaemonInv
    <3> QED  BY <1>5, <3>1, <3>2 DEF NoneAlive, Recorded
  <2>2. CASE x = "urestart"
    <3>1. \A p \in Pid : Alive(p) => p = hp.old.gcpid
      BY <1>2, <1>6, <2>2 DEF DaemonInv
    <3>2. hp.req.dir \in RwDirs
      BY <1>2, <1>6, <2>2 DEF LaunchInv
    <3> QED  BY <1>6, <2>2, <3>1, <3>2 DEF NoneAlive, process_is_alive, Alive
  <2> QED  BY <2>1, <2>2
<1> HIDE DEF hp, hq
<1>11. DaemonInv(h)'
  BY <1>3, <1>5, <1>9, <1>6 DEF DaemonInv, Recorded, Running, Alive, hq
<1>12. LaunchInv(h)'
  <2>1. NoneAlive => NoneAlive'
    BY <1>3 DEF NoneAlive, Alive
  <2> QED  BY <1>3, <1>6, <1>8, <1>9, <1>10, <2>1 DEF LaunchInv, Launching, At, hp, hq
<1>13. NotesInv(h)'
  <2>1. x = "urestart" => hp.type = "NORMAL_MOUNT"
    BY <1>2, <1>6 DEF NotesInv, hp
  <2> QED  BY <1>6, <1>9, <2>1 DEF NotesInv, hq
<1>14. RestartInv(h)'
  <2>1. x = "done" => hp.type = "NORMAL_MOUNT" \/ hp.old.nogc
    BY <1>1, <1>2, <1>6 DEF NotesInv, hp
  <2> QED  BY <1>9, <2>1 DEF RestartInv, hq
<1> QED  BY <1>3, <1>11, <1>12, <1>13, <1>14 DEF Control

\* A mount that needs no cleaner.
LEMMA SkipControls ==
    ASSUME NEW h, Ready(h), SkipLaunch(h)
    PROVE  Control(h)'
<1> DEFINE hp == helper[h]
           hq == helper'[h]
<1>1. UNCHANGED <<execVars, mounts, utab>> /\ hp.pc = "launch" /\ Goto(h, "finalize")
  BY DEF SkipLaunch, At
<1>2. DaemonInv(h) /\ NotesInv(h)
  BY DEF Ready, Control
<1>3. /\ OneDaemon' /\ OneMount' /\ RwDirs' = RwDirs
      /\ daemon' = daemon /\ queue' = queue /\ mounts' = mounts /\ utab' = utab
  BY <1>1, WorldStays
<1>4. h \in Helper /\ Types /\ PeriodInv(h) /\ "finalize" \in Places
  BY ReadyFields DEF Places
<1>5. hq.pc = "finalize" /\ hq.new = hp.new /\ hq.res = hp.res /\ hq.req = hp.req
  BY <1>1, <1>4, GotoIs DEF Types, Now
<1>6. hp.new.gcpid = NoPid /\ hp.res # -1
  BY <1>1, <1>2, <1>4 DEF PeriodInv, NotesInv
<1> HIDE DEF hp, hq
<1>7. DaemonInv(h)'
  BY <1>1, <1>2, <1>3, <1>5 DEF DaemonInv, Recorded, Running, Alive, hp, hq
<1>8. LaunchInv(h)'
  BY <1>5 DEF LaunchInv, Launching, At, hq
<1>9. NotesInv(h)'
  BY <1>5, <1>6 DEF NotesInv, hq
<1>10. RestartInv(h)'
  BY <1>5 DEF RestartInv, hq
<1> QED  BY <1>3, <1>7, <1>8, <1>9, <1>10 DEF Control

\* A launch that makes no daemon leaves none; one that does makes the only one.
LEMMA LaunchControls ==
    ASSUME NEW h, Ready(h), nilfs_launch_cleanerd(h)
    PROVE  Control(h)'
<1> DEFINE hp == helper[h]
           hq == helper'[h]
           pp == LaunchPeriod(h)
           nx == LaunchNext(hp.pc)
<1>1. /\ h \in Helper /\ Types /\ PeriodInv(h) /\ hp.req \in Requests /\ hp.req.dir \in Dir
      /\ hp.new \in Attrs
  BY ReadyFields
<1>2. /\ UNCHANGED <<mounts, utab>> /\ Launching(h)
  BY DEF nilfs_launch_cleanerd
<1>3. /\ hp.pc \in {"launch", "restart", "urestart"} /\ pp \in Period \cup {NoPeriod}
      /\ hq.req = hp.req
  BY <1>1, LaunchedIs
<1>4. /\ hp.pc = "launch" => nx = "finalize"
      /\ hp.pc = "restart" => nx = "reattr"
      /\ hp.pc = "urestart" => nx = "ureattr"
  BY DEF LaunchNext
<1>5. OneDaemon /\ OneMount /\ LaunchInv(h) /\ NotesInv(h)
  BY DEF Ready, Control
<1>6. NoneAlive /\ hp.req.dir \in RwDirs
  BY <1>2, <1>5 DEF LaunchInv
<1>7. /\ hp.new.gcpid = NoPid /\ ~hp.new.nogc
      /\ hp.pc = "restart" => pp = hp.old.pp
      /\ hp.pc = "launch" => hp.res # -1
      /\ hp.pc = "urestart" => hp.type = "NORMAL_MOUNT"
  <2>1. hp.pc = "launch" => rungc(hp.req)
    BY <1>2 DEF Launching, At
  <2>2. hp.pc = "launch" => hp.new.nogc = hp.req.nogc
    BY <1>5 DEF NotesInv
  <2>3. hp.pc # "launch" => ~hp.new.nogc
    BY <1>3, <1>5 DEF NotesInv
  <2>4. ~hp.new.nogc
    BY <2>1, <2>2, <2>3 DEF rungc
  <2>5. hp.new.gcpid = NoPid /\ (hp.pc = "restart" => pp = hp.old.pp)
    BY <1>1, <1>3 DEF PeriodInv, LaunchPeriod
  <2> QED  BY <1>5, <2>4, <2>5 DEF NotesInv
<1>8. ASSUME UNCHANGED execVars, hq.new.gcpid = NoPid, hq.type = hp.type, hq.res = hp.res,
             \/ hq.launch = "refused" /\ hq.pc = (IF hp.pc = "launch" THEN "finalize" ELSE "done")
             \/ hq.launch = "silent" /\ hq.pc = nx
      PROVE  Control(h)'
  <2>1. /\ OneDaemon' /\ OneMount' /\ RwDirs' = RwDirs
        /\ daemon' = daemon /\ queue' = queue /\ mounts' = mounts /\ utab' = utab
    BY <1>2, <1>8, WorldStays
  <2>2. /\ hq.pc \in {"finalize", "reattr", "ureattr", "done"}
        /\ hq.pc = "finalize" => hq.res # -1
        /\ hq.pc = "ureattr" => hq.type = "NORMAL_MOUNT"
        /\ hq.pc = "reattr" => hq.launch = "silent"
        /\ hq.pc = "done" => hq.launch = "refused"
    BY <1>3, <1>4, <1>7, <1>8
  <2> HIDE DEF hp, hq, nx
  <2>3. DaemonInv(h)'
    BY <1>6, <2>1 DEF DaemonInv, NoneAlive, Alive
  <2>4. LaunchInv(h)'
    BY <2>2 DEF LaunchInv, Launching, At, hq
  <2>5. NotesInv(h)'
    BY <1>8, <2>2 DEF NotesInv, hq
  <2>6. RestartInv(h)'
    BY <2>2 DEF RestartInv, hq
  <2> QED  BY <2>1, <2>3, <2>4, <2>5, <2>6 DEF Control
<1>9. CASE /\ Now(h, IF hp.pc = "launch" THEN "finalize" ELSE "done", hp.type, hp.old,
                  hp.new, hp.alive, "refused", hp.res)
           /\ UNCHANGED execVars
  <2>1. /\ hq.new = hp.new /\ hq.type = hp.type /\ hq.res = hp.res /\ hq.launch = "refused"
        /\ hq.pc = (IF hp.pc = "launch" THEN "finalize" ELSE "done")
    BY <1>9 DEF Now
  <2> QED  BY <1>7, <1>8, <1>9, <2>1
<1>10. CASE \E n \in Attrs :
              /\ Now(h, nx, hp.type, hp.old, n, hp.alive, "silent", hp.res)
              /\ n.gcpid = hp.new.gcpid /\ n.pp = pp /\ n.nogc = hp.new.nogc
              /\ UNCHANGED execVars
  <2> HIDE DEF nx
  <2>1. /\ hq.new.gcpid = hp.new.gcpid /\ hq.type = hp.type /\ hq.res = hp.res
        /\ hq.launch = "silent" /\ hq.pc = nx /\ UNCHANGED execVars
    BY <1>10 DEF Now
  <2> QED  BY <1>7, <1>8, <2>1
<1>11. CASE \E n \in Attrs, p \in FreshPid :
              /\ Now(h, nx, hp.type, hp.old, n, hp.alive, "started", hp.res)
              /\ n.gcpid = p /\ n.pp = pp /\ n.nogc = hp.new.nogc
              /\ LaunchStarts(p, hp.req.dir, pp)
  <2> HIDE DEF nx, pp
  <2>1. PICK p \in FreshPid :
              /\ hq.pc = nx /\ hq.type = hp.type /\ hq.old = hp.old /\ hq.res = hp.res
              /\ hq.launch = "started"
              /\ hq.new.gcpid = p /\ hq.new.pp = pp /\ hq.new.nogc = hp.new.nogc
              /\ LaunchStarts(p, hp.req.dir, pp)
    BY <1>11 DEF Now
  <2>2. p \in Pid /\ \A d \in Dir : utab[d].gcpid # p
    BY DEF FreshPid
  <2>3. ExecTypes
    BY <1>1, ExecTypesOK DEF Types
  <2> HIDE DEF hp, hq
  <2>4. /\ queue' = queue /\ daemon'[p].st = "start" /\ daemon'[p].dir = hp.req.dir
        /\ \A q \in Pid : q # p => daemon'[q] = daemon[q]
    BY <1>1, <1>3, <2>1, <2>2, <2>3, LaunchIs
  <2>5. \A q \in Pid : q # p => ~Alive(q)'
    BY <1>6, <2>4 DEF NoneAlive, Alive
  <2>6. OneDaemon'
    BY <2>4, <2>5 DEF OneDaemon, Alive
  <2>7. RwDirs' = RwDirs /\ utab' = utab
    BY <1>2 DEF RwDirs, RwMounts
  <2>8. OneMount'
    BY <1>2, <1>5, <2>7 DEF OneMount, Distinct
  <2>9. /\ hq.pc \in {"finalize", "reattr", "ureattr"}
        /\ hq.pc = "finalize" => hq.res # -1
        /\ hq.pc = "ureattr" => hq.type = "NORMAL_MOUNT"
        /\ hq.pc = "reattr" => hq.new.pp = hq.old.pp
    BY <1>3, <1>4, <1>7, <2>1
  <2>10. DaemonInv(h)'
    <3> SUFFICES ASSUME NEW q \in Pid, Alive(q)'
                 PROVE  /\ q = hq.new.gcpid /\ Running(q)' /\ daemon'[q].dir = hq.req.dir
                        /\ hq.req.dir \in RwDirs'
      BY <2>9 DEF DaemonInv, hq
    <3>1. q = p
      BY <2>5
    <3> QED  BY <1>3, <1>6, <2>1, <2>4, <2>7, <3>1 DEF Running, hq
  <2>11. LaunchInv(h)'
    BY <2>9 DEF LaunchInv, Launching, At, hq
  <2>12. NotesInv(h)'
    BY <1>7, <2>1, <2>2, <2>7, <2>9, PidAssumption DEF NotesInv, hq
  <2>13. RestartInv(h)'
    BY <2>9 DEF RestartInv, hq
  <2> QED  BY <2>6, <2>8, <2>10, <2>11, <2>12, <2>13 DEF Control
<1> QED  BY <1>1, <1>9, <1>10, <1>11, LaunchedIs

\* The record is written: it names the daemon that was started.
LEMMA FinalizeControls ==
    ASSUME NEW h, Ready(h), Finalize(h)
    PROVE  Control(h)'
<1> DEFINE hp == helper[h]
           hq == helper'[h]
           d == hp.req.dir
           o == hp.pc # "finalize" \/ hp.req.remount
           r == nilfs_mount_attrs_update(utab[d], o, hp.new)
<1>1. /\ hp.pc \in {"finalize", "reattr", "ureattr"} /\ utab' = [utab EXCEPT ![d] = r]
      /\ Goto(h, "done") /\ UNCHANGED <<execVars, mounts>>
  BY DEF Finalize
<1>2. /\ h \in Helper /\ Types /\ d \in Dir /\ hp.new \in Attrs /\ hp.old \in Attrs
      /\ utab[d] \in Attrs /\ o \in BOOLEAN /\ "done" \in Places /\ utab \in [Dir -> Attrs]
  BY ReadyFields DEF Places, Types
<1>3. /\ hq.pc = "done" /\ hq.type = hp.type /\ hq.old = hp.old /\ hq.new = hp.new
      /\ hq.launch = hp.launch /\ hq.res = hp.res /\ hq.req = hp.req
  BY <1>1, <1>2, GotoIs DEF Types, Now
<1>4. OneDaemon /\ OneMount /\ DaemonInv(h) /\ NotesInv(h)
  BY DEF Ready, Control
<1>5. daemon' = daemon /\ queue' = queue /\ RwDirs' = RwDirs /\ mounts' = mounts
  BY <1>1 DEF execVars, RwDirs, RwMounts
<1>6. hp.new.gcpid # NoPid => ~hp.new.nogc /\ \A e \in Dir : utab[e].gcpid # hp.new.gcpid
  BY <1>1, <1>4 DEF NotesInv
<1> HIDE DEF o
<1>7. /\ hp.new.gcpid # NoPid => r = hp.new
      /\ hp.new.gcpid = NoPid => r.gcpid = NoPid \/ r = utab[d]
  BY <1>2, <1>6, UpdateIs
<1> HIDE DEF r, hp, hq, d
<1>8. \A e \in Dir : utab'[e] = IF e = d THEN r ELSE utab[e]
  BY <1>1, <1>2
<1>9. OneMount'
  <2>1. \A e \in Dir : e # d /\ r.gcpid # NoPid => utab[e].gcpid # r.gcpid
    BY <1>2, <1>4, <1>6, <1>7 DEF OneMount
  <2>2. \A e, f \in Dir : utab'[e].gcpid = utab'[f].gcpid /\ utab'[e].gcpid # NoPid => e = f
    BY <1>4, <1>8, <2>1 DEF OneMount
  <2> QED  BY <1>4, <1>5, <2>2 DEF OneMount, Distinct
<1>10. OneDaemon'
  BY <1>4, <1>5 DEF OneDaemon, Alive, Reachable
<1>11. DaemonInv(h)'
  <2>0. \A p \in Pid : daemon[p].dir \in Dir
    BY <1>2, ExecTypesOK DEF Types, ExecTypes, DaemonRecord
  <2> SUFFICES ASSUME NEW p \in Pid, Alive(p)' PROVE Recorded(p)'
    BY <1>3 DEF DaemonInv, hq
  <2>1. Alive(p)
    BY <1>5 DEF Alive
  <2>2. \/ p = hp.new.gcpid /\ Running(p) /\ daemon[p].dir = d /\ d \in RwDirs
        \/ Recorded(p) /\ daemon[p].dir # d
    BY <1>1, <1>4, <2>1 DEF DaemonInv, hp, d
  <2>3. CASE p = hp.new.gcpid /\ Running(p) /\ daemon[p].dir = d /\ d \in RwDirs
    <3>1. utab'[d] = hp.new
      BY <1>2, <1>7, <1>8, <2>3, PidAssumption
    <3> QED  BY <1>5, <2>3, <3>1 DEF Recorded, Running
  <2>4. CASE Recorded(p) /\ daemon[p].dir # d
    BY <1>5, <1>8, <2>0, <2>4 DEF Recorded, Running
  <2> QED  BY <2>2, <2>3, <2>4
<1>12. LaunchInv(h)'
  BY <1>3 DEF LaunchInv, Launching, At, hq
<1>13. NotesInv(h)'
  BY <1>3 DEF NotesInv, hq
<1>14. RestartInv(h)'
  <2> SUFFICES ASSUME hq.res = -1, hq.type # "NORMAL_MOUNT", ~hq.old.nogc
               PROVE  \/ hq.launch \in {"refused", "silent"}
                      \/ /\ hq.launch = "started"
                         /\ utab'[hq.req.dir] = [hq.old EXCEPT !.gcpid = hq.new.gcpid]
    BY DEF RestartInv, hq
  <2>1. hp.pc = "reattr"
    BY <1>1, <1>3, <1>4 DEF NotesInv, hp
  <2>2. /\ hp.launch \in {"silent", "started"}
        /\ hp.launch = "started" => hp.new.gcpid # NoPid /\ hp.new.pp = hp.old.pp
    BY <1>4, <2>1 DEF NotesInv, hp
  <2>3. CASE hp.launch = "started"
    <3>1. utab'[d] = hp.new /\ ~hp.new.nogc /\ hp.new.pp = hp.old.pp /\ ~hp.old.nogc
      BY <1>2, <1>3, <1>6, <1>7, <1>8, <2>2, <2>3
    <3>2. \A a, b \in Attrs : a.pp = b.pp /\ ~a.nogc /\ ~b.nogc => a = [b EXCEPT !.gcpid = a.gcpid]
      BY DEF Attrs
    <3>3. hp.new = [hp.old EXCEPT !.gcpid = hp.new.gcpid]
      BY <1>2, <3>1, <3>2
    <3> QED  BY <1>3, <2>3, <3>1, <3>3 DEF d
  <2> QED  BY <1>3, <2>2, <2>3
<1> QED  BY <1>9, <1>10, <1>11, <1>12, <1>13, <1>14 DEF Control

\* nilfs_prepare_umount() stops the daemon recorded for the directory.
LEMMA PrepareUmountControls ==
    ASSUME NEW h, Ready(h), nilfs_prepare_umount(h)
    PROVE  Control(h)'
<1> DEFINE hp == helper[h]
           hq == helper'[h]
           d == hp.req.dir
           old == utab[d]
<1>1. /\ h \in Helper /\ Types /\ d \in Dir /\ hp.pc = "uprepare" /\ hq.req = hp.req
      /\ UNCHANGED <<mounts, utab>> /\ old \in Attrs
  BY ReadyFields, PrepareUmountIs DEF nilfs_prepare_umount, At
<1>2. OneDaemon /\ OneMount /\ DaemonInv(h) /\ NotesInv(h)
  BY DEF Ready, Control
<1>3. /\ \A p \in Pid : Alive(p) => Recorded(p)
      /\ hp.type = "NORMAL_MOUNT" /\ hp.res # -1
  BY <1>1, <1>2 DEF DaemonInv, NotesInv
<1>4. old.gcpid # NoPid => old.gcpid \in Pid
  BY <1>1, AttrFields
<1>5. \A p \in Pid : Alive(p) => (daemon[p].dir = d <=> p = old.gcpid)
  <2>1. \A p \in Pid : daemon[p].dir \in Dir
    BY <1>1, ExecTypesOK DEF Types, ExecTypes, DaemonRecord
  <2> QED  BY <1>1, <1>2, <1>3, <2>1, PidAssumption DEF Recorded, OneMount
<1>6. CASE ~Mounted(d)
  <2>1. /\ Now(h, "done", hp.type, hp.old, hp.new, hp.alive, hp.launch, -1)
        /\ UNCHANGED execVars
    BY <1>1, <1>6, PrepareUmountIs
  <2>2. hq.pc = "done" /\ hq.type = "NORMAL_MOUNT"
    BY <1>3, <2>1 DEF Now
  <2>3. /\ OneDaemon' /\ OneMount' /\ RwDirs' = RwDirs
        /\ daemon' = daemon /\ queue' = queue /\ mounts' = mounts /\ utab' = utab
    BY <1>1, <2>1, WorldStays
  <2> HIDE DEF hp, hq, d, old
  <2>4. DaemonInv(h)'
    BY <1>3, <2>2, <2>3 DEF DaemonInv, Recorded, Running, Alive, hq
  <2>5. LaunchInv(h)' /\ NotesInv(h)' /\ RestartInv(h)'
    <3>1. LaunchInv(h)'
      BY <2>2 DEF LaunchInv, Launching, At, hq
    <3>2. NotesInv(h)'
      BY <2>2 DEF NotesInv, hq
    <3>3. RestartInv(h)'
      BY <2>2 DEF RestartInv, hq
    <3> QED  BY <3>1, <3>2, <3>3
  <2> QED  BY <2>3, <2>4, <2>5 DEF Control
<1>7. CASE Mounted(d)
  <2> DEFINE x == IF old.gcpid = NoPid THEN "doumount" ELSE "uwait"
  <2>1. PICK a \in BOOLEAN :
           /\ Now(h, x, hp.type, old, hp.new, a, hp.launch, hp.res)
           /\ a => old.gcpid \in Pid /\ Alive(old.gcpid)
    BY <1>1, <1>7, PrepareUmountIs
  <2>2. (old.gcpid = NoPid => UNCHANGED execVars) /\ (old.gcpid # NoPid => SigTerm(old.gcpid))
    BY <1>1, <1>7, PrepareUmountIs
  <2>3. /\ hq.pc = x /\ hq.type = "NORMAL_MOUNT" /\ hq.old = old /\ hq.res # -1
        /\ hq.alive => old.gcpid \in Pid /\ daemon[old.gcpid].st # "none"
    BY <1>3, <2>1 DEF Now, Alive
  <2>4. /\ OneDaemon' /\ OneMount' /\ RwDirs' = RwDirs /\ utab' = utab
        /\ \A p \in Pid : daemon'[p].st # "none" => Alive(p)
        /\ \A p \in Pid : p # old.gcpid => daemon'[p] = daemon[p]
        /\ old.gcpid \in Pid /\ daemon'[old.gcpid].st # "none" =>
              daemon'[old.gcpid].st = "term" /\ old.gcpid # NoPid
    <3>1. CASE old.gcpid = NoPid
      <4>1. /\ OneDaemon' /\ OneMount' /\ RwDirs' = RwDirs
            /\ daemon' = daemon /\ queue' = queue /\ mounts' = mounts /\ utab' = utab
        BY <1>1, <2>2, <3>1, WorldStays
      <4> QED  BY <3>1, <4>1, PidAssumption DEF Alive
    <3>2. CASE old.gcpid # NoPid
      <4> HIDE DEF old, hp
      <4>1. /\ OneDaemon' /\ OneMount' /\ RwDirs' = RwDirs /\ mounts' = mounts /\ utab' = utab
            /\ \A p \in Pid : Alive(p)' => Alive(p)
            /\ daemon'[old.gcpid].st # "none" => daemon'[old.gcpid].st = "term"
            /\ \A p \in Pid : p # old.gcpid => daemon'[p] = daemon[p]
        BY <1>1, <1>4, <2>2, <3>2, StopStays
      <4> QED  BY <3>2, <4>1 DEF Alive
    <3> QED  BY <3>1, <3>2
  <2>5. hq.alive => d \in RwDirs /\ \A p \in Pid : Alive(p) => p = old.gcpid
    <3> SUFFICES ASSUME hq.alive PROVE d \in RwDirs /\ \A p \in Pid : Alive(p) => p = old.gcpid
      OBVIOUS
    <3>1. old.gcpid \in Pid /\ Alive(old.gcpid)
      BY <2>3 DEF Alive
    <3>2. daemon[old.gcpid].dir = d /\ Recorded(old.gcpid)
      BY <1>3, <1>5, <3>1
    <3>3. \A p \in Pid : Alive(p) => p = old.gcpid
      BY <1>2, <3>1 DEF OneDaemon
    <3> QED  BY <3>2, <3>3 DEF Recorded
  <2>6. x \in {"doumount", "uwait"} /\ (x = "doumount" => old.gcpid = NoPid)
    OBVIOUS
  <2> HIDE DEF hp, hq, d, old, x
  <2>7. DaemonInv(h)'
    <3> SUFFICES ASSUME NEW p \in Pid, Alive(p)'
                 PROVE  /\ \/ p = old.gcpid /\ daemon'[p].st = "term" /\ x = "uwait"
                           \/ Recorded(p)' /\ daemon'[p].dir # d
                        /\ hq.alive => p = old.gcpid
      BY <1>1, <2>3, <2>6 DEF DaemonInv, hq, d
    <3>1. daemon'[p].st # "none" /\ Alive(p) /\ Recorded(p)
      BY <1>3, <2>4 DEF Alive
    <3>2. CASE p = old.gcpid
      BY <2>4, <2>6, <3>1, <3>2
    <3>3. CASE p # old.gcpid
      <4>1. daemon'[p] = daemon[p] /\ daemon[p].dir # d
        BY <1>5, <2>4, <3>1, <3>3
      <4>2. ~hq.alive
        BY <2>5, <3>1, <3>3
      <4> QED  BY <2>4, <3>1, <4>1, <4>2 DEF Recorded, Running
    <3> QED  BY <3>2, <3>3
  <2>8. LaunchInv(h)'
    BY <1>1, <2>3, <2>4, <2>5, <2>6 DEF LaunchInv, Launching, At, hq, hp, d
  <2>9. NotesInv(h)'
    BY <2>3, <2>6 DEF NotesInv, hq
  <2>10. RestartInv(h)'
    BY <2>3 DEF RestartInv, hq
  <2> QED  BY <2>4, <2>7, <2>8, <2>9, <2>10 DEF Control
<1> QED  BY <1>6, <1>7

\* The mount goes, or turns read-only; no daemon is left on it.
LEMMA UmountControls ==
    ASSUME NEW h, Ready(h), UmountSucceeds(h) \/ UmountTurnsReadOnly(h)
    PROVE  Control(h)'
<1> DEFINE hp == helper[h]
           hq == helper'[h]
           d == hp.req.dir
<1>1. hp.pc = "doumount" /\ Goto(h, "ufinalize") /\ UNCHANGED <<execVars, utab>>
  BY DEF UmountSucceeds, UmountTurnsReadOnly, At
<1>2. OneDaemon /\ OneMount /\ DaemonInv(h) /\ NotesInv(h)
  BY DEF Ready, Control
<1>3. h \in Helper /\ Types /\ "ufinalize" \in Places
  BY ReadyFields DEF Places
<1>4. hq.pc = "ufinalize" /\ hq.type = hp.type /\ hq.res = hp.res /\ hq.req = hp.req
  BY <1>1, <1>3, GotoIs DEF Types, Now
<1>5. daemon' = daemon /\ queue' = queue /\ utab' = utab
  BY <1>1 DEF execVars
<1>6. Distinct' /\ RwDirs' = RwDirs \ {d}
  <2>0. Distinct /\ mounts \in Seq(MountEntry)
    BY <1>2, <1>3 DEF OneMount, Types
  <2>1. CASE UmountSucceeds(h)
    <3>1. PICK i \in DOMAIN mounts : mounts[i].dir = d /\ mounts' = RemoveAt(mounts, i)
      BY <2>1 DEF UmountSucceeds
    <3> HIDE DEF d
    <3> QED  BY <2>0, <3>1, UmountIs
  <2>2. CASE UmountTurnsReadOnly(h)
    <3>1. mounts' = [i \in DOMAIN mounts |->
                       [mounts[i] EXCEPT !.rw = @ /\ mounts[i].dir # helper[h].req.dir]]
      BY <2>2 DEF UmountTurnsReadOnly
    <3> QED  BY <2>0, <3>1, ReadOnlyIs
  <2> QED  BY <2>1, <2>2
<1>7. OneMount'
  BY <1>2, <1>5, <1>6 DEF OneMount
<1>8. OneDaemon'
  BY <1>2, <1>5 DEF OneDaemon, Alive, Reachable
<1> HIDE DEF hp, hq, d
<1>9. DaemonInv(h)'
  BY <1>1, <1>2, <1>4, <1>5, <1>6 DEF DaemonInv, Recorded, Running, Alive, hp, hq, d
<1>10. LaunchInv(h)'
  BY <1>4 DEF LaunchInv, Launching, At, hq
<1>11. NotesInv(h)'
  BY <1>1, <1>2, <1>4 DEF NotesInv, hp, hq
<1>12. RestartInv(h)'
  BY <1>4 DEF RestartInv, hq
<1> QED  BY <1>7, <1>8, <1>9, <1>10, <1>11, <1>12 DEF Control

\* The record goes with the mount.
LEMMA UmountFinalizeControls ==
    ASSUME NEW h, Ready(h), UmountFinalize(h)
    PROVE  Control(h)'
<1> DEFINE hp == helper[h]
           hq == helper'[h]
           d == hp.req.dir
<1>1. /\ hp.pc = "ufinalize" /\ Goto(h, "done") /\ UNCHANGED <<execVars, mounts>>
      /\ utab' = [utab EXCEPT ![d] = NoAttrs] \/ utab' = utab
  BY DEF UmountFinalize, At
<1>2. OneDaemon /\ OneMount /\ DaemonInv(h) /\ NotesInv(h)
  BY DEF Ready, Control
<1>3. h \in Helper /\ Types /\ "done" \in Places /\ utab \in [Dir -> Attrs] /\ d \in Dir
  BY ReadyFields DEF Places, Types
<1>4. hq.pc = "done" /\ hq.type = hp.type
  BY <1>1, <1>3, GotoIs DEF Types, Now
<1>5. daemon' = daemon /\ queue' = queue /\ RwDirs' = RwDirs /\ mounts' = mounts
  BY <1>1 DEF execVars, RwDirs, RwMounts
<1>6. NoAttrs.gcpid = NoPid
  BY DEF NoAttrs
<1> HIDE DEF d
<1>7. \A e \in Dir : utab'[e] = utab[e] \/ (e = d /\ utab'[e].gcpid = NoPid)
  BY <1>1, <1>3, <1>6
<1>8. OneMount'
  <2>1. \A e, f \in Dir : utab'[e].gcpid = utab'[f].gcpid /\ utab'[e].gcpid # NoPid => e = f
    BY <1>2, <1>7 DEF OneMount
  <2> QED  BY <1>2, <1>5, <2>1 DEF OneMount, Distinct
<1>9. OneDaemon'
  BY <1>2, <1>5 DEF OneDaemon, Alive, Reachable
<1>10. \A p \in Pid : daemon[p].dir \in Dir
  BY <1>3, ExecTypesOK DEF Types, ExecTypes, DaemonRecord
<1> HIDE DEF hp, hq
<1>11. DaemonInv(h)'
  BY <1>1, <1>2, <1>4, <1>5, <1>7, <1>10 DEF DaemonInv, Recorded, Running, Alive, hp, hq, d
<1>12. LaunchInv(h)'
  BY <1>4 DEF LaunchInv, Launching, At, hq
<1>13. NotesInv(h)'
  BY <1>4 DEF NotesInv, hq
<1>14. RestartInv(h)'
  BY <1>1, <1>2, <1>4 DEF RestartInv, NotesInv, hp, hq
<1> QED  BY <1>8, <1>9, <1>11, <1>12, <1>13, <1>14 DEF Control

\* The daemons may open the queue and end whenever they like.
LEMMA DaemonsControl ==
    ASSUME NEW h, Ready(h), Daemons
    PROVE  Control(h)'
<1>1. Types /\ UNCHANGED <<mounts, utab, helper>>
  BY DEF Ready, Daemons
<1>2. PICK q \in Pid :
         /\ daemon[q].st # "none"
         /\ \A p \in Pid : p # q => daemon'[p] = daemon[p]
         /\ \/ /\ daemon[q].st = "start" /\ daemon'[q].st = "run"
               /\ daemon'[q].dir = daemon[q].dir
               /\ queue'.named /\ q \in queue'.by
            \/ daemon'[q].st = "none"
  BY <1>1, DaemonsAre
<1>3. OneDaemon /\ OneMount /\ DaemonInv(h) /\ LaunchInv(h) /\ NotesInv(h) /\ RestartInv(h)
  BY DEF Ready, Control
<1>4. \A p \in Pid : daemon'[p].st # "none" => p = q
  BY <1>2, <1>3 DEF OneDaemon, Alive
<1>5. RwDirs' = RwDirs
  BY <1>1 DEF RwDirs, RwMounts
<1>6. OneMount'
  BY <1>1, <1>3, <1>5 DEF OneMount, Distinct
<1>7. OneDaemon'
  <2>1. \A p \in Pid : daemon'[p].st = "run" => queue'.named /\ p \in queue'.by
    BY <1>2, <1>4
  <2> QED  BY <1>4, <2>1 DEF OneDaemon, Alive, Reachable
<1>8. DaemonInv(h)'
  <2> SUFFICES ASSUME NEW p \in Pid, Alive(p)'
               PROVE  /\ p = q /\ Alive(p) /\ daemon[p].st = "start" /\ daemon'[p].st = "run"
                      /\ daemon'[p].dir = daemon[p].dir
    <3>1. ASSUME NEW p \in Pid, Alive(p)'
          PROVE  /\ Alive(p) /\ daemon[p].st # "term" /\ Running(p)'
                 /\ daemon'[p].dir = daemon[p].dir
      BY <3>1 DEF Running
    <3>2. ASSUME NEW p \in Pid, Alive(p)', Recorded(p) PROVE Recorded(p)'
      BY <1>1, <1>5, <3>1, <3>2 DEF Recorded
    <3> QED  BY <1>1, <1>3, <1>5, <3>1, <3>2 DEF DaemonInv
  <2> QED  BY <1>2, <1>4 DEF Alive
<1>9. LaunchInv(h)'
  <2>1. NoneAlive => NoneAlive'
    BY <1>2 DEF NoneAlive, Alive
  <2> QED  BY <1>1, <1>3, <1>5, <2>1 DEF LaunchInv, Launching, At, Mounted
<1>10. NotesInv(h)' /\ RestartInv(h)'
  BY <1>1, <1>3 DEF NotesInv, RestartInv
<1> QED  BY <1>6, <1>7, <1>8, <1>9, <1>10 DEF Control

\* What a run has been excused for stays.
LEMMA ExcusedGrows ==
    ASSUME [Next]_vars
    PROVE  excused \subseteq excused'
<1>1. ASSUME NEW h \in Helper, HelperStep(h) \/ \E r \in Requests : Start(h, r)
      PROVE  excused \subseteq excused'
  <2>1. CASE nilfs_prepare_mount(h)
    BY <2>1 DEF nilfs_prepare_mount
  <2>2. CASE ~nilfs_prepare_mount(h)
    BY <1>1, <2>2 DEF HelperStep, Start, PrepareFails, WaitEnds, WaitTimesOut, MountSucceeds,
       MountFails, SkipLaunch, nilfs_launch_cleanerd, Finalize, nilfs_prepare_umount,
       UmountSucceeds, UmountTurnsReadOnly, UmountFails, UmountFinalize, End
  <2> QED  BY <2>1, <2>2
<1>2. CASE Daemons \/ UNCHANGED vars
  BY <1>2 DEF Daemons, vars
<1> QED  BY <1>1, <1>2 DEF Next

\* Every step of one helper, or of the daemons, keeps the cleaner under
\* control.
LEMMA ControlKept ==
    ASSUME OneAtATime, PlainRequests, IInv, ControlInv, [Next]_vars
    PROVE  ControlInv'
<1>1. PICK h : Helper = {h}
  BY DEF OneAtATime
<1> SUFFICES ASSUME excused' = {} PROVE Control(h)'
  BY <1>1 DEF ControlInv
<1>2. excused = {}
  BY ExcusedGrows
<1>3. Ready(h)
  BY <1>1, <1>2 DEF Ready, IInv, ControlInv
<1>4. CASE HelperStep(h) \/ \E r \in Requests : Start(h, r)
  <2>1. ~WaitTimesOut(h)
    BY DEF WaitTimesOut
  <2> QED  BY <1>3, <1>4, <2>1, StartControls, PrepareControls, WaitControls, MountControls,
              FailureControls, SkipControls, LaunchControls, FinalizeControls,
              PrepareUmountControls, UmountControls, UmountFinalizeControls DEF HelperStep
<1>5. CASE Daemons
  BY <1>3, <1>5, DaemonsControl
<1>6. CASE UNCHANGED vars
  <2>1. helper' = helper /\ UNCHANGED <<execVars, mounts, utab>>
    BY <1>6 DEF vars, execVars
  <2>2. /\ OneDaemon' /\ OneMount' /\ RwDirs' = RwDirs
        /\ daemon' = daemon /\ queue' = queue /\ mounts' = mounts /\ utab' = utab
    BY <1>3, <2>1, WorldStays
  <2>3. DaemonInv(h) /\ LaunchInv(h) /\ NotesInv(h) /\ RestartInv(h)
    BY <1>3 DEF Ready, Control
  <2>4. DaemonInv(h)'
    BY <2>1, <2>2, <2>3 DEF DaemonInv, Recorded, Running, Alive
  <2>5. LaunchInv(h)'
    BY <2>1, <2>2, <2>3 DEF LaunchInv, Launching, At, NoneAlive, Alive, Mounted
  <2>6. NotesInv(h)' /\ RestartInv(h)'
    BY <2>1, <2>2, <2>3 DEF NotesInv, RestartInv
  <2> QED  BY <2>2, <2>4, <2>5, <2>6 DEF Control
<1> QED  BY <1>1, <1>4, <1>5, <1>6 DEF Next

\* At first there is neither a mount nor a daemon.
LEMMA InitControls == Init => ControlInv
<1> SUFFICES ASSUME Init, NEW h \in Helper PROVE Control(h)
  BY DEF ControlInv
<1>1. AnyRequest \in Requests
  BY RequestsAssumption DEF AnyRequest
<1>2. /\ helper[h].pc = "idle" /\ helper[h].res = 0
  BY <1>1, IdleIs DEF Init
<1>3. \A p \in Pid : daemon[p].st = "none"
  BY DEF Init, ExecInit
<1>4. /\ RwDirs = {} /\ Distinct /\ \A d \in Dir : utab[d].gcpid = NoPid
  BY DEF Init, RwDirs, RwMounts, Distinct, NoAttrs
<1>5. OneDaemon /\ OneMount
  BY <1>3, <1>4 DEF OneDaemon, OneMount, Alive
<1>6. DaemonInv(h)
  BY <1>3 DEF DaemonInv, Alive
<1>7. LaunchInv(h)
  BY <1>2 DEF LaunchInv, Launching, At
<1>8. NotesInv(h)
  BY <1>2 DEF NotesInv
<1>9. RestartInv(h)
  BY <1>2 DEF RestartInv
<1> QED  BY <1>5, <1>6, <1>7, <1>8, <1>9 DEF Control

\* What the invariant says at rest.
LEMMA ControlEnough ==
    ASSUME OneAtATime, IInv, ControlInv
    PROVE  CleanerUnderControl
<1>1. PICK h : Helper = {h}
  BY DEF OneAtATime
<1>2. TypeOK
  BY DEF IInv, Types, TypeOK, MountEntry, HelperRecord, Places, MountTypes, Launches
<1>3. CASE excused = {}
  <2>1. OneDaemon /\ DaemonInv(h) /\ RestartInv(h)
    BY <1>1, <1>3 DEF ControlInv, Control
  <2>2. CleanerRecorded
    BY <1>1, <2>1 DEF CleanerRecorded, Quiet, At, DaemonInv, Recorded, Alive
  <2>3. CleanerReachable
    BY <2>1 DEF CleanerReachable, OneDaemon
  <2>4. FailedRemountRestarts
    BY <1>1, <2>1 DEF FailedRemountRestarts, RestartInv, At
  <2> QED  BY <1>2, <2>2, <2>3, <2>4 DEF CleanerUnderControl
<1>4. CASE excused # {}
  BY <1>2, <1>4 DEF CleanerUnderControl, CleanerRecorded, CleanerReachable, FailedRemountRestarts
<1> QED  BY <1>3, <1>4

\* Helpers that run one after another keep the cleaner under control, however
\* daemons end and whichever system calls fail: between two invocations a
\* running daemon serves a read-write mount and utab names it there, its queue
\* is reachable under its name, and a remount that failed restored the daemon
\* it had stopped (nilfs_prepare_mount, nilfs_do_mount_one,
\* nilfs_update_mount_state, nilfs_do_umount_one).
THEOREM CleanerIsControlled ==
    ASSUME OneAtATime, PlainRequests
    PROVE  Spec => []CleanerUnderControl
<1>1. IInv /\ ControlInv /\ [Next]_vars => (IInv /\ ControlInv)'
  BY TypesKept, ControlKept
<1>2. Init => IInv /\ ControlInv
  BY InitTypes, InitControls
<1>3. IInv /\ ControlInv => CleanerUnderControl
  BY ControlEnough
<1> QED  BY <1>1, <1>2, <1>3, PTL DEF Spec
==============================================================================
