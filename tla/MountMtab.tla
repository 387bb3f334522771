------------------------------ MODULE MountMtab ------------------------------
(***************************************************************************)
(* mount.nilfs2 and umount.nilfs2 in the build without libmount            *)
(* (sbin/mount/mount.nilfs2.c, umount.nilfs2.c, fstab.c): concurrent       *)
(* helpers keep the mounts and the cleaner's pid in /etc/mtab, which they  *)
(* rewrite under the lock file /etc/mtab~, a hard link to a file of their  *)
(* own plus a record lock on it.  A helper may be killed anywhere.         *)
(***************************************************************************)
EXTENDS CleanerExec, SequencesExt

CONSTANTS
    Helper,     \* concurrent helper invocations
    Requests,   \* helper -> the command lines it is given
    None,       \* no lock file, no open file
    MaxStart,   \* how many helpers are started
    MaxKill,    \* how many helpers are killed
    MaxFail     \* how many daemons give up by themselves

VARIABLES
    mounts,     \* directory -> "no", "rw" or "ro": the kernel's mounts
    mtab,       \* the entries of /etc/mtab, oldest first
    lockfile,   \* creator of /etc/mtab~, "stale" if it was killed, or None
    flk,        \* inode of a lock file -> who has the record lock
    helper,     \* helper -> its progress
    excused,    \* history: reasons for mtab or the cleaner to be behind
    starts, kills, fails

counts == <<starts, kills, fails>>
lockVars == <<lockfile, flk>>
vars == <<daemon, queue, mounts, mtab, lockfile, flk, helper, excused, starts, kills, fails>>

Request == [op : {"mount", "umount"}, dir : Dir, ro : BOOLEAN, remount : BOOLEAN,
            nogc : BOOLEAN, pp : Period \cup {NoPeriod}, rdonly : BOOLEAN]

Entry == [dir : Dir, rw : BOOLEAN, gcpid : Pid \cup {NoPid},
          pp : Period \cup {NoPeriod}, nogc : BOOLEAN]

\* Lock file inodes: one per creator, the one left by a killed helper, and the
\* unlinked ones that only waiting helpers still have open.
Inode == Helper \cup {"stale", "dead"}

ASSUME MtabAssumption ==
    /\ None \notin Inode /\ "stale" \notin Helper /\ "dead" \notin Helper
    /\ Requests \in [Helper -> (SUBSET Request) \ {{}}]
    /\ MaxStart \in Nat /\ MaxKill \in Nat /\ MaxFail \in Nat

NoEntry(d) == [dir |-> d, rw |-> FALSE, gcpid |-> NoPid, pp |-> NoPeriod, nogc |-> FALSE]

Idle(h) ==
    LET r == CHOOSE r \in Requests[h] : TRUE IN
    [pc |-> "idle", req |-> r, mc |-> NoEntry(r.dir),
     remount |-> FALSE, alive |-> FALSE, known |-> FALSE,
     edit |-> "none", entry |-> NoEntry(r.dir), copy |-> <<>>,
     fd |-> None, made |-> FALSE, expired |-> FALSE]

TypeOK ==
    /\ ExecTypeOK
    /\ mounts \in [Dir -> {"no", "rw", "ro"}]
    /\ mtab \in Seq(Entry)
    /\ lockfile \in Helper \cup {"stale", None}
    /\ flk \in [Inode -> Helper \cup {None}]
    /\ \A h \in Helper : /\ helper[h].req \in Requests[h]
                         /\ helper[h].mc \in Entry /\ helper[h].entry \in Entry
                         /\ helper[h].copy \in Seq(Entry)
                         /\ helper[h].fd \in Inode \cup {None}
    /\ starts \in 0 .. MaxStart /\ kills \in 0 .. MaxKill /\ fails \in 0 .. MaxFail

Init ==
    /\ ExecInit
    /\ mounts = [d \in Dir |-> "no"]
    /\ mtab = <<>>
    /\ lockfile = None
    /\ flk = [i \in Inode |-> None]
    /\ helper = [h \in Helper |-> Idle(h)]
    /\ excused = {}
    /\ starts = 0 /\ kills = 0 /\ fails = 0

At(h, pc) == helper[h].pc = pc
Goto(h, pc) == helper' = [helper EXCEPT ![h] = IF pc = "exit" THEN Idle(h)
                                                ELSE [@ EXCEPT !.pc = pc]]

\* The helper goes on to change the table: what it knew so far is spent.
Edit(h, edit, entry) ==
    helper' = [helper EXCEPT ![h] = [Idle(h) EXCEPT !.pc = "lk_link",
                  !.req = helper[h].req, !.edit = edit, !.entry = entry]]

Quiet == \A h \in Helper : At(h, "idle")
RwDirs == {d \in Dir : mounts[d] = "rw"}

\* getmntdirbackward(), getmntdevbackward(): the last entry that fits, 0 if none.
getmntdirbackward(tab, d) == SelectLastInSeq(tab, LAMBDA e : e.dir = d)
find_rw_mount(tab) == SelectLastInSeq(tab, LAMBDA e : e.rw)

FreshPid == {p \in Pid : /\ daemon[p].st = "none"
                         /\ \A i \in DOMAIN mtab : mtab[i].gcpid # p
                         /\ \A h \in Helper : p \notin {helper[h].mc.gcpid,
                                                        helper[h].entry.gcpid}}

-----------------------------------------------------------------------------
Start(h, r) ==
    /\ At(h, "idle")
    /\ starts < MaxStart
    /\ starts' = starts + 1
    /\ helper' = [helper EXCEPT ![h] = [Idle(h) EXCEPT !.req = r,
                    !.pc = IF r.op = "mount" THEN "prepare" ELSE "uprepare"]]
    /\ UNCHANGED <<execVars, lockVars, mounts, mtab, excused, kills, fails>>

\* prepare_mount, from the table as it is now.  The checks of an overlapping
\* mount end the helper; a remount stops the recorded daemon.
prepare_mount(h) ==
    LET req == helper[h].req
        at  == getmntdirbackward(mtab, req.dir)
        rw  == find_rw_mount(mtab)
        refused == \/ ~req.remount /\ at # 0
                   \/ ~req.remount /\ ~req.ro /\ rw # 0
                   \/ req.remount /\ rw # 0 /\ mtab[rw].dir # req.dir
        stops == req.remount /\ rw # 0 /\ ~refused
        old == IF rw = 0 THEN NoEntry(req.dir) ELSE mtab[rw]
    IN
    /\ At(h, "prepare")
    /\ helper' = [helper EXCEPT ![h] = IF refused THEN Idle(h) ELSE
          [@ EXCEPT !.known = at # 0, !.mc = old, !.remount = stops,
             !.pc = IF stops /\ old.gcpid # NoPid THEN "wait" ELSE "domount"]]
    /\ IF stops /\ old.gcpid # NoPid THEN SigTerm(old.gcpid) ELSE UNCHANGED execVars
    /\ UNCHANGED <<lockVars, mounts, mtab, excused, counts>>

WaitEnds(h) ==
    /\ At(h, "wait") \/ At(h, "uwait")
    /\ ~process_is_alive(helper[h].mc.gcpid)
    /\ Goto(h, IF At(h, "wait") THEN "domount" ELSE "doumount")
    /\ UNCHANGED <<execVars, lockVars, mounts, mtab, excused, counts>>

WaitTimesOut(h) ==
    /\ At(h, "wait") \/ At(h, "uwait")
    /\ process_is_alive(helper[h].mc.gcpid)
    /\ excused' = excused \cup {"timeout"}
    /\ Goto(h, IF At(h, "wait") THEN "exit" ELSE "doumount")
    /\ UNCHANGED <<execVars, lockVars, mounts, mtab, counts>>

\* do_mount_one, mount(2) succeeded.
MountSucceeds(h) ==
    LET req == helper[h].req IN
    /\ At(h, "domount")
    /\ (mounts[req.dir] # "no") <=> req.remount
    /\ mounts' = [mounts EXCEPT ![req.dir] = IF req.ro THEN "ro" ELSE "rw"]
    /\ Goto(h, "launch")
    /\ UNCHANGED <<execVars, lockVars, mtab, excused, counts>>

\* do_mount_one, mount(2) failed: after a remount the daemon comes back.
MountFails(h) ==
    /\ At(h, "domount")
    /\ Goto(h, IF helper[h].remount /\ ~helper[h].mc.nogc
               THEN "restart" ELSE "exit")
    /\ UNCHANGED <<execVars, lockVars, mounts, mtab, excused, counts>>

rungc(req) == ~req.ro /\ ~req.nogc

\* Mutation of NewEntry: the daemon's pid is left out.
NewEntryNoPid(h, pid) ==
    LET req == helper[h].req IN
    [dir |-> req.dir, rw |-> ~req.ro, gcpid |-> NoPid, nogc |-> req.nogc,
     pp |-> helper[h].mc.pp]

\* Mutation of NewEntry: the pid is not formatted as one.
NewEntryRaw(h, pid) ==
    LET req == helper[h].req IN
    [dir |-> req.dir, rw |-> ~req.ro, gcpid |-> 0, nogc |-> req.nogc,
     pp |-> helper[h].mc.pp]

\* What update_mount_state writes into the entry; fix_extra_opts_string drops
\* pp= when no daemon runs.
NewEntry(h, pid) ==
    LET req == helper[h].req IN
    [dir |-> req.dir, rw |-> ~req.ro, gcpid |-> pid, nogc |-> req.nogc,
     pp |-> IF ~rungc(req) THEN NoPeriod
            ELSE IF req.pp = NoPeriod THEN helper[h].mc.pp ELSE req.pp]

\* update_mount_state up to the table: the entry is added if prepare_mount did
\* not see one for this mount, and replaced otherwise.
Record(h, pid) ==
    Edit(h, IF helper[h].known THEN "set" ELSE "add", NewEntry(h, pid))

update_mount_state(h) ==
    /\ At(h, "launch")
    /\ \/ ~rungc(helper[h].req) /\ Record(h, NoPid) /\ UNCHANGED execVars
       \/ rungc(helper[h].req) /\ Record(h, NoPid) /\ LaunchSilent
       \/ /\ rungc(helper[h].req)
          /\ \E p \in FreshPid : /\ LaunchStarts(p, helper[h].req.dir, NewEntry(h, p).pp)
                                 /\ Record(h, p)
    /\ UNCHANGED <<lockVars, mounts, mtab, excused, counts>>

\* The daemon is started again after a failed remount or a busy umount; the
\* old options keep their place in the entry, with the new pid.
Restart(h) ==
    /\ At(h, "restart")
    /\ \/ /\ LaunchRefused
          /\ Goto(h, "exit")
       \/ /\ LaunchSilent
          /\ Edit(h, "set", [helper[h].mc EXCEPT !.gcpid = NoPid])
       \/ \E p \in FreshPid :
             /\ LaunchStarts(p, helper[h].req.dir, helper[h].mc.pp)
             /\ Edit(h, "set", [helper[h].mc EXCEPT !.gcpid = p])
    /\ UNCHANGED <<lockVars, mounts, mtab, excused, counts>>

-----------------------------------------------------------------------------
\* umount_dir and the first part of umount_one: a recorded daemon of a
\* writable mount is stopped, and the result of the wait is not looked at.
umount_dir(h) ==
    LET at  == getmntdirbackward(mtab, helper[h].req.dir)
        old == IF at = 0 THEN NoEntry(helper[h].req.dir) ELSE mtab[at]
        stops == old.rw /\ old.gcpid # NoPid
    IN
    /\ At(h, "uprepare")
    /\ helper' = [helper EXCEPT ![h].mc = old,
          ![h].alive = stops /\ process_is_alive(old.gcpid),
          ![h].pc = IF stops THEN "uwait" ELSE "doumount"]
    /\ IF stops THEN SigTerm(old.gcpid) ELSE UNCHANGED execVars
    /\ UNCHANGED <<lockVars, mounts, mtab, excused, counts>>

\* umount(2) succeeded, or failed because nothing is mounted there (EINVAL):
\* the entry goes.
UmountSucceeds(h) ==
    LET d == helper[h].req.dir IN
    /\ At(h, "doumount")
    /\ \A p \in Pid : daemon[p].open => daemon[p].dir # d
    /\ mounts' = [mounts EXCEPT ![d] = "no"]
    /\ Edit(h, "del", NoEntry(d))
    /\ UNCHANGED <<execVars, lockVars, mtab, excused, counts>>

\* umount(2) failed.  With -r a read-only remount is tried after EBUSY and
\* recorded; without it the daemon comes back if it was stopped here.  Any
\* other error ends the helper.
UmountFails(h) ==
    LET hp == helper[h] IN
    /\ At(h, "doumount")
    /\ mounts[hp.req.dir] # "no"
    /\ \/ /\ hp.req.rdonly
          /\ mounts' = [mounts EXCEPT ![hp.req.dir] = "ro"]
          /\ Edit(h, "set", NoEntry(hp.req.dir))
       \/ Goto(h, "exit") /\ UNCHANGED mounts
       \/ /\ ~hp.req.rdonly
          /\ Goto(h, IF hp.alive /\ ~process_is_alive(hp.mc.gcpid)
                     THEN "restart" ELSE "exit")
          /\ UNCHANGED mounts
    /\ UNCHANGED <<execVars, lockVars, mtab, excused, counts>>

-----------------------------------------------------------------------------
\* exit() after die(): atexit() runs unlock_mtab.
Unlocked(h) ==
    IF helper[h].made
    THEN /\ lockfile' = None
         /\ flk' = [flk EXCEPT ![h] = None]
         /\ helper' = [k \in Helper |->
               IF k = h THEN Idle(h)
               ELSE IF helper[k].fd = h THEN [helper[k] EXCEPT !.fd = "dead"]
               ELSE helper[k]]
    ELSE /\ flk' = [i \in Inode |-> IF flk[i] = h THEN None ELSE flk[i]]
         /\ Goto(h, "exit")
         /\ UNCHANGED lockfile

Die(h) ==
    /\ Unlocked(h)
    /\ excused' = excused \cup {"table"}
    /\ UNCHANGED <<execVars, mounts, mtab, counts>>

\* lock_mtab cannot create its own file or the link.
LockRefused(h) ==
    /\ At(h, "lk_link")
    /\ Die(h)

\* Mutation of LockLink: the lock file is created, not linked.
LockCreat(h) ==
    /\ At(h, "lk_link")
    /\ lockfile' = IF lockfile = None THEN h ELSE lockfile
    /\ helper' = [helper EXCEPT ![h].made = TRUE, ![h].pc = "lk_open"]
    /\ UNCHANGED <<execVars, flk, mounts, mtab, excused, counts>>

\* lock_mtab: link(mtab~<pid>, mtab~) succeeds for one helper only.
LockLink(h) ==
    /\ At(h, "lk_link")
    /\ lockfile' = IF lockfile = None THEN h ELSE lockfile
    /\ helper' = [helper EXCEPT ![h].made = lockfile = None, ![h].pc = "lk_open"]
    /\ UNCHANGED <<execVars, flk, mounts, mtab, excused, counts>>

\* Mutation of LockOpen: the time limit holds for a deleted file only.
LockOpenForever(h) ==
    LET made == helper[h].made IN
    /\ At(h, "lk_open")
    /\ IF helper[h].expired /\ lockfile = None THEN Die(h)
       ELSE /\ helper' = [helper EXCEPT ![h].fd = lockfile,
                  ![h].pc = IF lockfile = None THEN "lk_link"
                            ELSE IF made THEN "lk_claim" ELSE "lk_wait"]
            /\ UNCHANGED <<execVars, lockVars, mounts, mtab, excused, counts>>

\* lock_mtab: the file may have gone since, then the link is tried again until
\* the time is up; a file somebody else made is waited for until then.
LockOpen(h) ==
    LET made == helper[h].made IN
    /\ At(h, "lk_open")
    /\ IF helper[h].expired /\ ~(made /\ lockfile # None) THEN Die(h)
       ELSE /\ helper' = [helper EXCEPT ![h].fd = lockfile,
                  ![h].pc = IF lockfile = None THEN "lk_link"
                            ELSE IF made THEN "lk_claim" ELSE "lk_wait"]
            /\ UNCHANGED <<execVars, lockVars, mounts, mtab, excused, counts>>

\* lock_mtab, we made the link: the record lock is claimed, and done without
\* if a waiting helper happens to have it.
LockClaim(h) ==
    /\ At(h, "lk_claim")
    /\ flk' = [flk EXCEPT ![h] = IF @ = None THEN h ELSE @]
    /\ Goto(h, "read")
    /\ UNCHANGED <<execVars, lockfile, mounts, mtab, excused, counts>>

\* lock_mtab, someone else made the link: F_SETLKW on the file that was opened,
\* a short sleep, close, and another try.
LockWait(h) ==
    LET i == helper[h].fd IN
    /\ \/ /\ At(h, "lk_wait")
          /\ i = "dead" \/ flk[i] = None
          /\ flk' = IF i = "dead" THEN flk ELSE [flk EXCEPT ![i] = h]
          /\ Goto(h, "lk_sleep")
       \/ /\ At(h, "lk_sleep")
          /\ flk' = [j \in Inode |-> IF flk[j] = h THEN None ELSE flk[j]]
          /\ helper' = [helper EXCEPT ![h].fd = None, ![h].pc = "lk_link"]
    /\ UNCHANGED <<execVars, lockfile, mounts, mtab, excused, counts>>

\* The alarm interrupts F_SETLKW and lock_mtab gives up.  mount.nilfs2 has all
\* signals blocked meanwhile, SIGALRM too, and goes on waiting.
LockAlarm(h) ==
    /\ At(h, "lk_wait") /\ helper[h].expired
    /\ helper[h].req.op = "umount"
    /\ helper[h].fd # "dead" /\ flk[helper[h].fd] # None
    /\ Die(h)

\* The monotonic clock passes 30 seconds after the first attempt.
Expire(h) ==
    /\ helper[h].pc \in {"lk_link", "lk_open", "lk_wait", "lk_sleep"}
    /\ ~helper[h].expired
    /\ helper' = [helper EXCEPT ![h].expired = TRUE]
    /\ UNCHANGED <<execVars, lockVars, mounts, mtab, excused, counts>>

\* update_mtab, the lock held: the table is read again; update_mtab_entry
\* opens it for appending.
ReadMtab(h) ==
    /\ At(h, "read")
    /\ helper' = [helper EXCEPT ![h].copy = mtab, ![h].pc = "write"]
    /\ UNCHANGED <<execVars, lockVars, mounts, mtab, excused, counts>>

\* Mutation of Edited: an umount drops the last entry of the table.
EditedLast(tab, d, edit, entry) ==
    LET i == getmntdirbackward(tab, d) IN
    IF edit = "del" THEN IF i = 0 THEN tab ELSE SubSeq(tab, 1, Len(tab) - 1)
    ELSE IF i = 0 THEN Append(tab, entry) ELSE [tab EXCEPT ![i] = entry]

\* update_mtab: the last entry of the directory is dropped or gets new
\* options; an unknown directory gets an entry.
Edited(tab, d, edit, entry) ==
    LET i == getmntdirbackward(tab, d) IN
    IF edit = "del" THEN IF i = 0 THEN tab
                         ELSE SubSeq(tab, 1, i - 1) \o SubSeq(tab, i + 1, Len(tab))
    ELSE IF i = 0 THEN Append(tab, entry) ELSE [tab EXCEPT ![i] = entry]

\* The new table replaces the old one by rename(); adding a line appends to
\* the file itself.  A full disk leaves the table as it was.
WriteMtab(h) ==
    LET hp == helper[h] IN
    /\ At(h, "write")
    /\ \/ /\ mtab' = IF hp.edit = "add" THEN Append(mtab, hp.entry)
                     ELSE Edited(hp.copy, hp.req.dir, hp.edit, hp.entry)
          /\ UNCHANGED excused
       \/ UNCHANGED mtab /\ excused' = excused \cup {"table"}
    /\ helper' = [helper EXCEPT ![h].pc = "unlock", ![h].copy = <<>>]
    /\ UNCHANGED <<execVars, lockVars, mounts, counts>>

\* Mutation of unlock_mtab: the file is closed and not unlinked.
unlock_no_unlink(h) ==
    /\ At(h, "unlock")
    /\ flk' = [flk EXCEPT ![h] = None]
    /\ Goto(h, "exit")
    /\ UNCHANGED <<execVars, lockfile, mounts, mtab, excused, counts>>

unlock_mtab(h) ==
    /\ At(h, "unlock")
    /\ Unlocked(h)
    /\ UNCHANGED <<execVars, mounts, mtab, excused, counts>>

-----------------------------------------------------------------------------
\* SIGKILL: the record lock goes with the process, the lock file stays.
Kill(h) ==
    /\ kills < MaxKill
    /\ ~At(h, "idle")
    /\ kills' = kills + 1
    /\ excused' = excused \cup {"table"}
    /\ lockfile' = IF lockfile = h THEN "stale" ELSE lockfile
    /\ flk' = [i \in Inode |->
          LET o == IF i = "stale" /\ lockfile = h THEN flk[h] ELSE flk[i]
          IN IF o = h \/ (i = h /\ lockfile = h) THEN None ELSE o]
    /\ helper' = [k \in Helper |->
          IF k = h THEN Idle(h)
          ELSE IF helper[k].fd = h THEN [helper[k] EXCEPT !.fd = "stale"]
          ELSE helper[k]]
    /\ UNCHANGED <<execVars, mounts, mtab, starts, fails>>

Daemons ==
    /\ DaemonStep(RwDirs, fails < MaxFail)
    /\ fails' = fails + IF GaveUp(RwDirs) THEN 1 ELSE 0
    /\ UNCHANGED <<lockVars, mounts, mtab, helper, excused, starts, kills>>

HelperStep(h) ==
    \/ prepare_mount(h) \/ WaitEnds(h) \/ WaitTimesOut(h)
    \/ MountSucceeds(h) \/ MountFails(h) \/ update_mount_state(h) \/ Restart(h)
    \/ umount_dir(h) \/ UmountSucceeds(h) \/ UmountFails(h)
    \/ LockRefused(h) \/ LockLink(h) \/ LockOpen(h) \/ LockClaim(h) \/ LockWait(h) \/ LockAlarm(h)
    \/ ReadMtab(h) \/ WriteMtab(h) \/ unlock_mtab(h)

Next ==
    \/ \E h \in Helper : \/ HelperStep(h) \/ Expire(h) \/ Kill(h)
                         \/ \E r \in Requests[h] : Start(h, r)
    \/ Daemons

\* A started helper keeps running and time passes.
Fairness == \A h \in Helper : WF_vars(HelperStep(h)) /\ WF_vars(Expire(h))

Spec == Init /\ [][Next]_vars /\ Fairness

-----------------------------------------------------------------------------
Locked(h) == helper[h].pc \in {"read", "write", "unlock"}

\* "we proceed only if it was us that created the lock" (fstab.c): two helpers
\* never rewrite /etc/mtab at the same time, with files deleted under waiting
\* helpers and helpers killed.
MtabExclusive ==
    \A h, k \in Helper : Locked(h) /\ Locked(k) => h = k

\* Between invocations the table lists exactly the kernel's mounts, each once
\* and as it is mounted: no update is lost to a concurrent one, unless a helper
\* was killed, gave up or could not write.
MtabMirrorsKernel ==
    Quiet /\ "table" \notin excused =>
        \A d \in Dir :
            LET at == {i \in DOMAIN mtab : mtab[i].dir = d}
            IN  IF mounts[d] = "no" THEN at = {}
                ELSE \E i \in at : at = {i} /\ mtab[i].rw = (mounts[d] = "rw")

\* The lock file is left behind only by a helper that was killed: whoever made
\* the link removes it, whichever way it leaves (unlock_mtab, atexit).
LockHasOwner ==
    /\ lockfile \in Helper => helper[lockfile].made
    /\ lockfile = "stale" => kills > 0

\* Between invocations a working daemon is named by the entry of its mount, so
\* that umount can stop it before it detaches the file system.
CleanerInMtab ==
    Quiet /\ excused = {} =>
        \A p \in Pid : daemon[p].st = "run" =>
            \E i \in DOMAIN mtab : mtab[i].gcpid = p /\ mtab[i].dir = daemon[p].dir

\* Every helper returns, also behind a lock file that nobody will remove.
HelperReturns == \A h \in Helper : ~At(h, "idle") ~> At(h, "idle")

\* The lock of lock_mtab() works: one owner at a time, who removes it.
MtabLocked == TypeOK /\ MtabExclusive /\ LockHasOwner

\* /etc/mtab tells the truth between invocations, of mounts and of cleaners.
MtabTrue == MtabMirrorsKernel /\ CleanerInMtab
==============================================================================
