-------------------------------- MODULE Mount --------------------------------
(***************************************************************************)
(* mount.nilfs2 and umount.nilfs2 in the libmount build                    *)
(* (sbin/mount/mount_libmount.c, umount_libmount.c, mount_attrs.c): the    *)
(* kernel's mount table, the attributes kept in utab, the cleaner daemons  *)
(* and one helper invocation after another.  libmount and mount(2) are     *)
(* external: a system call may fail whenever the helper must cope with it. *)
(***************************************************************************)
EXTENDS CleanerExec, SequencesExt

CONSTANTS
    Helper,     \* concurrent invocations of the helpers
    Requests,   \* command lines: see Request
    MaxFail     \* how many daemons may give up by themselves

VARIABLES
    mounts,     \* the kernel's mounts of the device, oldest first
    utab,       \* mount point -> attributes recorded by libmount
    helper,     \* helper -> its progress
    excused,    \* history: departures that a run went through
    fails       \* daemons that gave up so far

vars == <<daemon, queue, mounts, utab, helper, excused, fails>>

Attrs == [gcpid : Pid \cup {NoPid}, pp : Period \cup {NoPeriod}, nogc : BOOLEAN]

\* nilfs_mount_attrs_init
NoAttrs == [gcpid |-> NoPid, pp |-> NoPeriod, nogc |-> FALSE]

Request == [op : {"mount", "umount"}, dir : Dir, ro : BOOLEAN,
            remount : BOOLEAN, bind : BOOLEAN, fake : BOOLEAN,
            nogc : BOOLEAN, pp : Period \cup {NoPeriod},
            rdonly : BOOLEAN, lazy : BOOLEAN]

ASSUME RequestsAssumption ==
    Requests \in (SUBSET Request) \ {{}} /\ MaxFail \in Nat

\* Mutation of Idle: the attributes are not initialized.
NotInit(r) == [pc |-> "idle", req |-> r, type |-> "NORMAL_MOUNT",
               old |-> [gcpid |-> NoPid, pp |-> 0, nogc |-> FALSE],
               new |-> NoAttrs, alive |-> FALSE, launch |-> "none", res |-> 0]

AnyRequest == CHOOSE r \in Requests : TRUE

\* nilfs_mount_attrs_init for both sets of attributes.
Idle(r) == [pc |-> "idle", req |-> r, type |-> "NORMAL_MOUNT", old |-> NoAttrs,
            new |-> NoAttrs, alive |-> FALSE, launch |-> "none", res |-> 0]

TypeOK ==
    /\ ExecTypeOK
    /\ mounts \in Seq([dir : Dir, rw : BOOLEAN])
    /\ utab \in [Dir -> Attrs]
    /\ helper \in [Helper ->
          [pc : {"idle", "prepare", "wait", "domount", "restart", "reattr",
                 "launch", "finalize", "uprepare", "uwait", "doumount",
                 "urestart", "ureattr", "ufinalize", "done"},
           req : Requests,
           type : {"NORMAL_MOUNT", "RW2RO_REMOUNT", "RW2RW_REMOUNT"},
           old : Attrs, new : Attrs, alive : BOOLEAN,
           launch : {"none", "refused", "silent", "started"}, res : {-1, 0}]]
    /\ excused \subseteq {"overlooked", "timeout"}
    /\ fails \in 0 .. MaxFail

Init ==
    /\ ExecInit
    /\ mounts = <<>>
    /\ utab = [d \in Dir |-> NoAttrs]
    /\ helper = [h \in Helper |-> Idle(AnyRequest)]
    /\ excused = {}
    /\ fails = 0

Mounted(d) == \E i \in DOMAIN mounts : mounts[i].dir = d
RwMounts == {i \in DOMAIN mounts : mounts[i].rw}
RwDirs == {mounts[i].dir : i \in RwMounts}

\* The entry a backward search of the table meets first.
nilfs_find_rw_mount == CHOOSE i \in RwMounts : \A j \in RwMounts : j <= i

At(h, pc) == helper[h].pc = pc
Goto(h, pc) == helper' = [helper EXCEPT ![h].pc = pc]
Fail(h) == helper' = [helper EXCEPT ![h].pc = "done", ![h].res = -1]

\* Pids no table and no helper refers to.
FreshPid == {p \in Pid : /\ daemon[p].st = "none"
                         /\ \A d \in Dir : utab[d].gcpid # p
                         /\ \A h \in Helper : p \notin {helper[h].old.gcpid,
                                                        helper[h].new.gcpid}}

-----------------------------------------------------------------------------
\* A helper is started with one of the command lines; -f is for a file system
\* that is already mounted read-write.
Start(h, r) ==
    /\ At(h, "idle")
    /\ r.fake => r.dir \in RwDirs
    /\ helper' = [helper EXCEPT ![h] =
         [Idle(r) EXCEPT !.pc = IF r.op = "mount" THEN "prepare" ELSE "uprepare",
                         !.new = [NoAttrs EXCEPT !.pp = r.pp, !.nogc = r.nogc]]]
    /\ UNCHANGED <<execVars, mounts, utab, excused, fails>>

\* nilfs_prepare_mount, the checks that end in a negative result: libmount
\* cannot prepare the context, or the device cannot be read.
PrepareFails(h) ==
    /\ At(h, "prepare")
    /\ Fail(h)
    /\ UNCHANGED <<execVars, mounts, utab, excused, fails>>

\* Mutation of nilfs_prepare_mount: the signal is sent and not waited for.
prepare_no_wait(h) ==
    LET req == helper[h].req
        rw  == mounts[nilfs_find_rw_mount]
        stop == /\ RwMounts # {} /\ req.remount /\ rw.dir = req.dir
                /\ utab[rw.dir].gcpid # NoPid
    IN
    /\ At(h, "prepare")
    /\ Goto(h, "domount")
    /\ IF stop THEN SigTerm(utab[rw.dir].gcpid) ELSE UNCHANGED execVars
    /\ UNCHANGED <<mounts, utab, excused, fails>>

\* nilfs_prepare_mount.  An overlapping rw-mount and a remount of a different
\* mount point are reported, but the jump to "failed" finds res still 0 from
\* mnt_context_get_mtab(), so the caller goes on to mount.
nilfs_prepare_mount(h) ==
    LET req == helper[h].req
        rw  == mounts[nilfs_find_rw_mount]
        old == utab[rw.dir]
        reported == ~req.remount \/ rw.dir # req.dir
    IN
    /\ At(h, "prepare")
    /\ IF req.bind \/ RwMounts = {} \/ (req.ro /\ ~req.remount)
       THEN /\ Goto(h, "domount")
            /\ UNCHANGED <<execVars, excused>>
       ELSE /\ helper' = [helper EXCEPT
                  ![h].type = IF ~req.remount THEN @
                              ELSE IF req.ro THEN "RW2RO_REMOUNT"
                              ELSE "RW2RW_REMOUNT",
                  ![h].old = IF req.remount THEN old ELSE @,
                  ![h].pc = IF reported \/ old.gcpid = NoPid
                            THEN "domount" ELSE "wait"]
            /\ excused' = excused \cup
                  IF reported /\ (req.remount \/ ~Mounted(req.dir))
                  THEN {"overlooked"} ELSE {}
            /\ IF reported \/ old.gcpid = NoPid
               THEN UNCHANGED execVars
               ELSE SigTerm(old.gcpid)
    /\ UNCHANGED <<mounts, utab, fails>>

\* nilfs_wait_cleanerd saw that the process is gone.
WaitEnds(h) ==
    /\ At(h, "wait") \/ At(h, "uwait")
    /\ ~process_is_alive(helper[h].old.gcpid)
    /\ Goto(h, IF At(h, "wait") THEN "domount" ELSE "doumount")
    /\ UNCHANGED <<execVars, mounts, utab, excused, fails>>

\* Mutation of WaitTimesOut: a remount waits without a limit.
WaitForever(h) ==
    /\ At(h, "uwait")
    /\ process_is_alive(helper[h].old.gcpid)
    /\ excused' = excused \cup {"timeout"}
    /\ Goto(h, "doumount")
    /\ UNCHANGED <<execVars, mounts, utab, fails>>

\* nilfs_wait_cleanerd gave up 8 seconds after the signal: a remount fails, an
\* umount does not look at the result.
WaitTimesOut(h) ==
    /\ At(h, "wait") \/ At(h, "uwait")
    /\ process_is_alive(helper[h].old.gcpid)
    /\ excused' = excused \cup {"timeout"}
    /\ IF At(h, "wait") THEN Fail(h) ELSE Goto(h, "doumount")
    /\ UNCHANGED <<execVars, mounts, utab, fails>>

-----------------------------------------------------------------------------
\* mount(2): refused on a directory that already carries this file system,
\* while a remount needs one.
MountedBy(req) ==
    IF req.remount
    THEN [i \in DOMAIN mounts |->
            IF mounts[i].dir = req.dir THEN [mounts[i] EXCEPT !.rw = ~req.ro]
                                       ELSE mounts[i]]
    ELSE Append(mounts, [dir |-> req.dir, rw |-> ~req.ro])

\* nilfs_do_mount_one, mnt_context_do_mount() returned 0; skipped when faked.
MountSucceeds(h) ==
    LET req == helper[h].req IN
    /\ At(h, "domount")
    /\ IF req.fake THEN UNCHANGED mounts
       ELSE /\ Mounted(req.dir) <=> req.remount
            /\ mounts' = MountedBy(req)
    /\ Goto(h, "launch")
    /\ UNCHANGED <<execVars, utab, excused, fails>>

\* Mutation of MountFails: the new options decide about the restart.
MountFailsByNew(h) ==
    /\ At(h, "domount")
    /\ ~helper[h].req.fake
    /\ helper' = [helper EXCEPT ![h].res = -1,
                                ![h].new = [NoAttrs EXCEPT !.pp = helper[h].old.pp],
                                ![h].pc = IF /\ helper[h].type = "RW2RW_REMOUNT"
                                             /\ ~helper[h].new.nogc
                                          THEN "restart" ELSE "done"]
    /\ UNCHANGED <<execVars, mounts, utab, excused, fails>>

\* nilfs_do_mount_one, the call failed: the daemon that was stopped for a
\* remount is needed again, unless the mount was made with nogc.
MountFails(h) ==
    /\ At(h, "domount")
    /\ ~helper[h].req.fake
    /\ helper' = [helper EXCEPT ![h].res = -1,
                                ![h].new = [NoAttrs EXCEPT !.pp = helper[h].old.pp],
                                ![h].pc = IF /\ helper[h].type # "NORMAL_MOUNT"
                                             /\ ~helper[h].old.nogc
                                          THEN "restart" ELSE "done"]
    /\ UNCHANGED <<execVars, mounts, utab, excused, fails>>

\* nilfs_update_mount_state decides whether a cleaner has to run; a remount
\* without pp= takes over the period of the mount it changes.
rungc(req) == ~req.ro /\ ~req.bind /\ ~req.nogc

LaunchPeriod(h) ==
    IF helper[h].new.pp = NoPeriod THEN helper[h].old.pp ELSE helper[h].new.pp

SkipLaunch(h) ==
    /\ At(h, "launch")
    /\ ~rungc(helper[h].req)
    /\ Goto(h, "finalize")
    /\ UNCHANGED <<execVars, mounts, utab, excused, fails>>

\* The three places that call nilfs_launch_cleanerd, and where each goes on.
LaunchNext(pc) ==
    CASE pc = "launch" -> "finalize" [] pc = "restart" -> "reattr"
      [] pc = "urestart" -> "ureattr"

Launching(h) == \/ At(h, "launch") /\ rungc(helper[h].req)
                \/ At(h, "restart") \/ At(h, "urestart")

\* A refused launch is only reported; only update_mount_state records after it.
nilfs_launch_cleanerd(h) ==
    /\ Launching(h)
    /\ \/ /\ LaunchRefused
          /\ helper' = [helper EXCEPT ![h].launch = "refused",
                ![h].pc = IF @ = "launch" THEN "finalize" ELSE "done"]
       \/ /\ LaunchSilent
          /\ helper' = [helper EXCEPT ![h].launch = "silent",
                ![h].new.pp = LaunchPeriod(h), ![h].pc = LaunchNext(@)]
       \/ \E p \in FreshPid :
             /\ LaunchStarts(p, helper[h].req.dir, LaunchPeriod(h))
             /\ helper' = [helper EXCEPT ![h].launch = "started",
                   ![h].new.pp = LaunchPeriod(h), ![h].new.gcpid = p,
                   ![h].pc = LaunchNext(@)]
    /\ UNCHANGED <<mounts, utab, excused, fails>>

\* Mutation of nilfs_mount_attrs_update: the period is not recorded.
attrs_update_no_pp(cur, hasOld, new) ==
    IF new.nogc THEN [NoAttrs EXCEPT !.nogc = TRUE]
    ELSE IF new.gcpid # NoPid THEN [new EXCEPT !.pp = NoPeriod]
    ELSE IF hasOld THEN NoAttrs ELSE cur

\* nilfs_mount_attrs_update: what utab holds afterwards.  Without a pid the
\* period is not recorded; the dummy attribute "none" clears a former record.
nilfs_mount_attrs_update(cur, hasOld, new) ==
    IF new.nogc THEN [NoAttrs EXCEPT !.nogc = TRUE]
    ELSE IF new.gcpid # NoPid THEN new
    ELSE IF hasOld THEN NoAttrs ELSE cur

\* Mutation of Finalize: the record is written for new mounts and restarts.
FinalizeNew(h) ==
    LET hp == helper[h] IN
    /\ hp.pc \in {"finalize", "reattr", "ureattr"}
    /\ utab' = [utab EXCEPT ![hp.req.dir] =
          IF hp.pc = "finalize" /\ hp.req.remount THEN @ ELSE hp.new]
    /\ Goto(h, "done")
    /\ UNCHANGED <<execVars, mounts, excused, fails>>

\* The attributes are set and mnt_context_finalize_mount() writes utab.
Finalize(h) ==
    LET hp == helper[h] IN
    /\ hp.pc \in {"finalize", "reattr", "ureattr"}
    /\ utab' = [utab EXCEPT ![hp.req.dir] =
          nilfs_mount_attrs_update(@, hp.pc # "finalize" \/ hp.req.remount, hp.new)]
    /\ Goto(h, "done")
    /\ UNCHANGED <<execVars, mounts, excused, fails>>

-----------------------------------------------------------------------------
\* nilfs_prepare_umount and the first half of nilfs_do_umount_one: the
\* recorded daemon is pinged and signalled.
nilfs_prepare_umount(h) ==
    LET req == helper[h].req
        old == utab[req.dir]
    IN
    /\ At(h, "uprepare")
    /\ IF ~Mounted(req.dir)
       THEN Fail(h) /\ UNCHANGED execVars
       ELSE /\ helper' = [helper EXCEPT ![h].old = old,
                 ![h].alive = process_is_alive(old.gcpid),
                 ![h].pc = IF old.gcpid = NoPid THEN "doumount" ELSE "uwait"]
            /\ IF old.gcpid = NoPid THEN UNCHANGED execVars ELSE SigTerm(old.gcpid)
    /\ UNCHANGED <<mounts, utab, excused, fails>>

\* umount(2): an open file keeps the mount busy, and a daemon has one open;
\* a lazy umount detaches anyway.
UmountSucceeds(h) ==
    LET req == helper[h].req IN
    /\ At(h, "doumount")
    /\ \/ req.lazy
       \/ \A p \in Pid : daemon[p].open => daemon[p].dir # req.dir
    /\ \E i \in DOMAIN mounts : mounts[i].dir = req.dir /\ mounts' = RemoveAt(mounts, i)
    /\ Goto(h, "ufinalize")
    /\ UNCHANGED <<execVars, utab, excused, fails>>

\* With -r libmount tries to remount read-only and reports success if it can.
UmountTurnsReadOnly(h) ==
    LET req == helper[h].req IN
    /\ At(h, "doumount")
    /\ req.rdonly
    /\ Mounted(req.dir)
    /\ mounts' = [i \in DOMAIN mounts |->
                    [mounts[i] EXCEPT !.rw = @ /\ mounts[i].dir # req.dir]]
    /\ Goto(h, "ufinalize")
    /\ UNCHANGED <<execVars, utab, excused, fails>>

\* nilfs_do_umount_one, second half: after a failure the daemon is started
\* again only if -r was given and the daemon was alive and has gone.
UmountFails(h) ==
    LET hp == helper[h] IN
    /\ At(h, "doumount")
    /\ helper' = [helper EXCEPT ![h].res = -1,
          ![h].new = [NoAttrs EXCEPT !.pp = hp.old.pp],
          ![h].pc = IF hp.req.rdonly /\ hp.alive /\ ~process_is_alive(hp.old.gcpid)
                    THEN "urestart" ELSE "done"]
    /\ UNCHANGED <<execVars, mounts, utab, excused, fails>>

\* mnt_context_finalize_umount(): the record goes with the mount.  Whether
\* libmount keeps it for a mount left read-only by -r is left open.
UmountFinalize(h) ==
    /\ At(h, "ufinalize")
    /\ \/ utab' = [utab EXCEPT ![helper[h].req.dir] = NoAttrs]
       \/ Mounted(helper[h].req.dir) /\ UNCHANGED utab
    /\ Goto(h, "done")
    /\ UNCHANGED <<execVars, mounts, excused, fails>>

End(h) ==
    /\ At(h, "done")
    /\ helper' = [helper EXCEPT ![h] = Idle(AnyRequest)]
    /\ UNCHANGED <<execVars, mounts, utab, excused, fails>>

-----------------------------------------------------------------------------
Daemons ==
    /\ DaemonStep(RwDirs, fails < MaxFail)
    /\ fails' = fails + IF GaveUp(RwDirs) THEN 1 ELSE 0
    /\ UNCHANGED <<mounts, utab, helper, excused>>

HelperStep(h) ==
    \/ PrepareFails(h) \/ nilfs_prepare_mount(h)
    \/ WaitEnds(h) \/ WaitTimesOut(h)
    \/ MountSucceeds(h) \/ MountFails(h) \/ SkipLaunch(h)
    \/ nilfs_launch_cleanerd(h) \/ Finalize(h)
    \/ nilfs_prepare_umount(h) \/ UmountSucceeds(h) \/ UmountTurnsReadOnly(h)
    \/ UmountFails(h) \/ UmountFinalize(h) \/ End(h)

Next ==
    \/ \E h \in Helper : HelperStep(h) \/ \E r \in Requests : Start(h, r)
    \/ Daemons

\* A started helper keeps running; nothing is assumed of the daemons, which
\* may take for ever to end.
Fairness == \A h \in Helper : WF_vars(HelperStep(h))

Spec == Init /\ [][Next]_vars /\ Fairness

-----------------------------------------------------------------------------
Quiet == \A h \in Helper : At(h, "idle")

\* Between two invocations every daemon that was not told to stop serves a
\* directory that is mounted read-write, and utab names it there, so that the
\* next remount or umount finds and stops it (nilfs_mount_attrs_update and
\* nilfs_do_umount_one).  Excepted are runs in which a wait timed out or a
\* check was reported and passed over.
CleanerRecorded ==
    Quiet /\ excused = {} =>
        \A p \in Pid : daemon[p].st = "run" =>
            /\ utab[daemon[p].dir].gcpid = p
            /\ daemon[p].dir \in RwDirs

\* The queue name leads to the daemon in charge: no earlier daemon is left that
\* would unlink the name it shares, since a helper waits for the one it stops
\* before it starts another.  A wait that times out is excepted.
CleanerReachable ==
    excused = {} =>
        \A p \in Pid : daemon[p].st = "run" => Reachable(p)

\* A remount that failed in mount(2) leaves no mount without its cleaner: the
\* daemon is started again with the period the stopped one had, and recorded,
\* unless the launch itself did not work (nilfs_do_mount_one).
FailedRemountRestarts ==
    \A h \in Helper :
        LET hp == helper[h] IN
        /\ At(h, "done") /\ hp.res = -1 /\ hp.type # "NORMAL_MOUNT"
        /\ ~hp.old.nogc /\ excused = {}
        => \/ hp.launch \in {"refused", "silent"}
           \/ hp.launch = "started" /\ utab[hp.req.dir] = [hp.old EXCEPT !.gcpid = hp.new.gcpid]

\* A daemon started by a remount without pp= runs with the protection period
\* of the daemon the remount stopped, however often it has been replaced.
PeriodKept ==
    [][\A h \in Helper, p \in Pid :
          LET hp == helper[h] IN
          /\ Launching(h) /\ daemon[p].st = "none" /\ daemon'[p].st = "start"
          /\ helper'[h].new.gcpid = p
          /\ hp.old.gcpid # NoPid /\ hp.req.pp = NoPeriod
          => daemon'[p].pp = daemon[hp.old.gcpid].pp]_vars

\* Every invocation ends, also when the daemon it has to stop never does.
HelperEnds == \A h \in Helper : ~At(h, "idle") ~> At(h, "idle")

\* The helper's own message: "multiple rw-mount is not allowed".
RwMountExclusive == Cardinality(RwMounts) <= 1

\* The helpers keep the cleaner under control: a mount has the daemon it is
\* recorded to have, commands reach it, and a failed remount restores it.
CleanerUnderControl == TypeOK /\ CleanerRecorded /\ CleanerReachable /\ FailedRemountRestarts
==============================================================================
