-------------------------------- MODULE FsOpen --------------------------------
(***************************************************************************)
(* nilfs_open() of lib/nilfs.c: from a device, a directory, both or none   *)
(* to a device descriptor, a mount point descriptor and the semaphore of   *)
(* the cleaners.  The mount table is looked up by name, and changes        *)
(* between the look-ups and the opening of what they returned.             *)
(***************************************************************************)
EXTENDS Integers, SequencesExt

CONSTANTS
    FsReal,        \* device file names, and the device each leads to
    FsDirs,        \* mount points
    MaxMounts,     \* entries of the mount table
    MaxMountChanges

\* "none" stands for a name not given, "other" for another file system.
ASSUME FsAssumption ==
    /\ "none" \notin DOMAIN FsReal /\ "other" \notin {FsReal[n] : n \in DOMAIN FsReal}
    /\ MaxMounts \in Nat /\ MaxMountChanges \in Nat

VARIABLES
    mtable,        \* /proc/mounts: [fs, name, dir, opt]
    fso            \* struct nilfs, and the progress of nilfs_open()

fsoVars == <<mtable, fso>>
FsNames == DOMAIN FsReal
FsEntries ==
    [fs : {"nilfs"}, name : FsNames, dir : FsDirs, opt : {"rw", "ro"}]
    \cup [fs : {"other"}, name : {"none"}, dir : FsDirs, opt : {"rw"}]

FsoInit ==
    /\ mtable \in BoundedSeq(FsEntries, MaxMounts)
    /\ \E dev \in FsNames \cup {"none"}, dir \in FsDirs \cup {"none"},
          raw, gclk \in BOOLEAN, mode \in {"none", "rdonly", "rdwr"} :
          /\ raw \/ mode # "none"
          /\ gclk => mode # "none"
          /\ fso = [pc |-> "raw", dev |-> dev, dir |-> dir, raw |-> raw, mode |-> mode,
                    gclk |-> gclk, n_dev |-> "none", n_ioc |-> "none", devfd |-> "none",
                    iocfd |-> "none", sem |-> "none", changes |-> 0]

FsoOff == mtable = <<>> /\ fso = [pc |-> "off"]

\* out_fd
FsoFail == fso' = [fso EXCEPT !.pc = "failed", !.devfd = "none", !.iocfd = "none"]

\* nilfs_find_fs(): the last entry that matches.
find_fs(opt) ==
    SelectLastInSeq(mtable, LAMBDA e :
        /\ e.fs = "nilfs" /\ e.opt = opt
        /\ fso.dir # "none" => e.dir = fso.dir
        /\ fso.dev # "none" => FsReal[e.name] = FsReal[fso.dev])

\* NILFS_OPEN_RAW
FsoOpenRaw ==
    LET k == find_fs("rw") IN
    /\ fso.pc = "raw"
    /\ \/ ~fso.raw /\ fso' = [fso EXCEPT !.pc = "find"]
       \/ /\ fso.raw /\ (fso.dev # "none" \/ k > 0)
          /\ LET name == IF fso.dev # "none" THEN fso.dev ELSE mtable[k].name IN
             fso' = [fso EXCEPT !.pc = "find", !.n_dev = name, !.devfd = FsReal[name],
                                !.n_ioc = IF fso.dev # "none" THEN @ ELSE mtable[k].dir]
       \* nothing found, cannot open or read, or unknown features
       \/ fso.raw /\ FsoFail
    /\ UNCHANGED mtable

\* NILFS_OPEN_RDONLY, NILFS_OPEN_RDWR: a writable mount, if there is one.
FsoFind ==
    LET rw == find_fs("rw")
        k  == IF rw = 0 /\ fso.mode = "rdonly" THEN find_fs("ro") ELSE rw
    IN
    /\ fso.pc = "find"
    /\ IF fso.mode = "none" THEN fso' = [fso EXCEPT !.pc = "opened"]
       ELSE IF k = 0 THEN FsoFail
       ELSE fso' = [fso EXCEPT !.pc = "open", !.n_dev = mtable[k].name, !.n_ioc = mtable[k].dir]
    /\ UNCHANGED mtable

\* What is reached through a mount point: the mount on top.
FsAt(dir) ==
    LET k == SelectLastInSeq(mtable, LAMBDA e : e.dir = dir)
    IN IF k = 0 \/ mtable[k].fs = "other" THEN "other" ELSE FsReal[mtable[k].name]

\* Mutation of same_device: whatever is found there.
same_device_any(fs) == TRUE

\* st_dev of the mount point against st_rdev of the device.
same_device(fs) == fs = FsReal[fso.n_dev]

\* open(), stat(), fstat(), and nilfs_open_sem(), whose name is made of the
\* number of the device and not of its name.
FsoOpenIoc ==
    LET fs == FsAt(fso.n_ioc) IN
    /\ fso.pc = "open"
    /\ \/ /\ same_device(fs)
          /\ fso' = [fso EXCEPT !.pc = "opened", !.iocfd = fs,
                                !.sem = IF fso.gclk THEN FsReal[fso.n_dev] ELSE @]
       \/ FsoFail
    /\ UNCHANGED mtable

\* nilfs_close()
FsoClose ==
    /\ fso.pc = "opened"
    /\ fso' = [fso EXCEPT !.pc = "closed", !.devfd = "none", !.iocfd = "none", !.sem = "none"]
    /\ UNCHANGED mtable

\* Somebody mounts, or unmounts what is on top.
MountsChange ==
    /\ fso.pc \in {"raw", "find", "open"} /\ fso.changes < MaxMountChanges
    /\ \/ \E e \in FsEntries : Len(mtable) < MaxMounts /\ mtable' = Append(mtable, e)
       \/ \E k \in DOMAIN mtable :
            /\ \A j \in DOMAIN mtable : j > k => mtable[j].dir # mtable[k].dir
            /\ mtable' = RemoveAt(mtable, k)
    /\ fso' = [fso EXCEPT !.changes = @ + 1]

FsoNext == FsoOpenRaw \/ FsoFind \/ FsoOpenIoc \/ FsoClose \/ MountsChange

FsoSpec == FsoInit /\ [][FsoNext]_fsoVars

-----------------------------------------------------------------------------
\* What was opened belongs together, although names were looked up and opened
\* at different times and mounts may hide one another: the mount point is one
\* of the device asked for, the lock is the lock of that device, and so is the
\* device descriptor (opened by directory, only if no mount changed since);
\* nothing stays open after a failure.
OpenedTogether ==
    /\ fso.pc = "opened" /\ fso.mode # "none" =>
          /\ fso.iocfd # "other"
          /\ fso.dev # "none" => fso.iocfd = FsReal[fso.dev]
          /\ fso.gclk => fso.sem = fso.iocfd
          /\ fso.raw /\ (fso.dev # "none" \/ fso.changes = 0) => fso.devfd = fso.iocfd
    /\ fso.pc = "failed" => fso.devfd = "none" /\ fso.iocfd = "none"
===============================================================================
