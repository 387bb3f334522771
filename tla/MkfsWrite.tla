------------------------------- MODULE MkfsWrite -------------------------------
(***************************************************************************)
(* mkfs.nilfs2: what it asks before it writes, and the order in which the  *)
(* old contents are erased and the new ones written.  Writes go to the     *)
(* page cache, from where they reach the device in any order; only fsync() *)
(* orders them.  The system may go down at any moment.                     *)
(***************************************************************************)
EXTENDS OfflineDevice

CONSTANT
    LogBlocks      \* blocks of the initial log, a sequence

\* The log is at least its summary block, and apart from the super blocks.
ASSUME LogAssumption ==
    /\ LogBlocks \in Seq(ToSet(LogBlocks)) /\ LogBlocks # <<>>
    /\ ToSet(LogBlocks) \cap {"boot", "sb1", "sb2"} = {}

VARIABLES
    cache,         \* contents of the regions as read() returns them
    disk,          \* ... and on the device
    mkw            \* options and progress of mkfs.nilfs2

Regions == {"boot", "sb1", "sb2"} \cup ToSet(LogBlocks)
mkwVars == <<cache, disk, mkw>>

\* Options (nflag: -n, discard: not -K, force: -f); the signature of a boot
\* sector the device begins with, if any, alone or followed by more data; the
\* answer to the question.
MkwInit ==
    /\ OdevInit
    /\ cache = [r \in Regions |-> "old"] /\ disk = cache
    /\ \E opts \in [nflag : BOOLEAN, discard : BOOLEAN, force : BOOLEAN,
                    bssig : {"none", "exact", "more"}, answer : {"y", "n"}] :
        mkw = [opts |-> opts, pc |-> "check", next |-> LogBlocks, wasmounted |-> FALSE]

MkwOff == cache = <<>> /\ disk = <<>> /\ mkw = [pc |-> "off"]

MkwGo(pc) == mkw' = [mkw EXCEPT !.pc = pc]
MkwStep(from, to) == mkw.pc = from /\ MkwGo(to)

-----------------------------------------------------------------------------
\* main(): check_mount(); the device is opened without O_EXCL.
MkwCheck ==
    /\ mkw.pc = "check"
    /\ mkw' = [mkw EXCEPT !.pc = IF check_mount = "yes" THEN "refused" ELSE "confirm",
                          !.wasmounted = check_mount = "yes"]
    /\ UNCHANGED <<cache, disk, odev>>

\* check_safety_of_device_overwrite(): asks if it finds anything; if it
\* cannot look, it does not ask.
MkwConfirm(found) ==
    /\ mkw.pc = "confirm"
    /\ MkwGo(IF ~mkw.opts.force /\ found /\ mkw.opts.answer = "n" THEN "refused"
             ELSE IF mkw.opts.nflag THEN "done" ELSE "discard")
    /\ UNCHANGED <<cache, disk, odev>>

\* device_has_boot_sector(): compares 32 bits, of which the signature is 16.
device_has_boot_sector == mkw.opts.bssig = "exact"

\* Mutation of erased: everything from the beginning on.
erased_all == Regions

\* erase_disk(): what lies between start and end.
erased == IF device_has_boot_sector THEN Regions \ {"boot"} ELSE Regions

Put(f, S, v) == [r \in Regions |-> IF r \in S THEN v ELSE f[r]]

\* nilfs_mkfs_discard_range(): may fail, may leave anything.
MkwDiscard ==
    /\ mkw.pc = "discard"
    /\ \/ MkwGo("tail") /\ UNCHANGED <<cache, disk>>
       \/ /\ mkw.opts.discard
          /\ \E zeroes \in BOOLEAN :
                /\ cache' = Put(cache, erased, IF zeroes THEN "zero" ELSE "junk")
                /\ disk' = Put(disk, erased, IF zeroes THEN "zero" ELSE "junk")
                /\ MkwGo(IF zeroes THEN "segments" ELSE "tail")
    /\ UNCHANGED odev

\* erase_disk_range(): the tail (the secondary super block is there), then
\* the head.
MkwErase(from, S, to) ==
    /\ MkwStep(from, to)
    /\ cache' = Put(cache, S, "zero")
    /\ UNCHANGED <<disk, odev>>

\* write_disk(): the blocks of the segment, in order.
MkwSegment ==
    /\ mkw.pc = "segments"
    /\ cache' = Put(cache, {Head(mkw.next)}, "new")
    /\ mkw' = [mkw EXCEPT !.next = Tail(@), !.pc = IF Len(mkw.next) = 1 THEN "sync" ELSE @]
    /\ UNCHANGED <<disk, odev>>

\* Mutation of MkwSync: the first call is left out.
MkwSyncLast(from, to) ==
    /\ MkwStep(from, to)
    /\ disk' = IF from = "sync" THEN disk ELSE cache
    /\ UNCHANGED <<cache, odev>>

\* fsync()
MkwSync(from, to) ==
    /\ MkwStep(from, to)
    /\ disk' = cache
    /\ UNCHANGED <<cache, odev>>

\* The primary super block, then the secondary one.
MkwSuper(from, sb, to) ==
    /\ MkwStep(from, to)
    /\ cache' = Put(cache, {sb}, "new")
    /\ UNCHANGED <<disk, odev>>

\* Any write and any fsync() may fail: cannot_rw_device() gives up.
MkwFails ==
    /\ mkw.pc \in {"tail", "head", "segments", "sync", "sb1", "sb2", "sync2"}
    /\ MkwGo("failed")
    /\ UNCHANGED <<cache, disk, odev>>

\* The page cache is written back, in any order, even when mkfs is gone.
Writeback ==
    /\ mkw.pc # "off"
    /\ \E r \in Regions : cache[r] # disk[r] /\ disk' = [disk EXCEPT ![r] = cache[r]]
    /\ UNCHANGED <<cache, mkw, odev>>

\* The system goes down: what is not on the device is lost.
PowerLoss ==
    /\ mkw.pc \notin {"off", "down"}
    /\ cache' = disk /\ MkwGo(IF mkw.pc \in {"done", "refused"} THEN mkw.pc ELSE "down")
    /\ UNCHANGED <<disk, odev>>

MkwNext ==
    \/ MkwCheck \/ (\E found \in BOOLEAN : MkwConfirm(found)) \/ MkwDiscard
    \/ MkwErase("tail", {"sb2"}, "head") \/ MkwErase("head", erased \ {"sb2"}, "segments")
    \/ MkwSegment \/ MkwSync("sync", "sb1")
    \/ MkwSuper("sb1", "sb1", "sb2") \/ MkwSuper("sb2", "sb2", "sync2")
    \/ MkwSync("sync2", "done")
    \/ MkwFails \/ Writeback \/ PowerLoss

MkwSpec == MkwInit /\ [][MkwNext]_<<mkwVars, odev>>

-----------------------------------------------------------------------------
\* A new super block never reaches the device before the log it points to,
\* nor while one of the old file system is still there (of two super blocks
\* the kernel may take the other): at any moment, whatever the order of the
\* writes, for any error.
FormatOrdered ==
    mkw.pc # "off" => \A s \in {"sb1", "sb2"} : disk[s] = "new" =>
        /\ \A b \in ToSet(LogBlocks) : disk[b] = "new"
        /\ \A t \in {"sb1", "sb2"} : disk[t] # "old"

\* When mkfs says that it succeeded, everything is on the device, and a boot
\* sector it recognised is still there; when it refused, was only asked to
\* show what it would do, or found the device mounted, nothing has changed.
FormatDurable ==
    /\ mkw.pc = "done" /\ ~mkw.opts.nflag =>
          /\ \A r \in Regions \ {"boot"} : disk[r] = "new"
          /\ mkw.opts.bssig = "exact" => disk["boot"] = "old"
    /\ mkw.pc = "refused" \/ (mkw.pc = "done" /\ mkw.opts.nflag) =>
          \A r \in Regions : disk[r] = "old"
    /\ mkw.pc # "off" /\ mkw.wasmounted => mkw.pc = "refused"

\* A format by mkfs is safe at every moment, and complete when it says so.
FormatSafe == FormatOrdered /\ FormatDurable
=================================================================================
