----------------------------- MODULE ToolsProofs ------------------------------
(***************************************************************************)
(* Tools and parts of the daemon that run to their end: mkfs.nilfs2        *)
(* against the loss of power, nilfs-tune against the kernel, nilfs_open()  *)
(* against changes of the mount table, the vector container, the lists of  *)
(* dead blocks of lib/gc.c, the configuration of the cleaner, the walks    *)
(* over the checkpoints, the choice of segments.  The size of the log, the *)
(* names, the options, the lists, the files, the checkpoints, the segments *)
(* and the number of events are arbitrary.                                 *)
(***************************************************************************)
EXTENDS MkfsWrite, SuperBlock, FsOpen, Vector, GcBlocks, CldConfig, CpEnum, Selection,
        NatSets, SequenceTheorems, FiniteSetTheorems, TLAPS

-----------------------------------------------------------------------------
(***************************************************************************)
(* mkfs.nilfs2.                                                            *)
(***************************************************************************)
Log == ToSet(LogBlocks)
Supers == {"sb1", "sb2"}

MkwPc == {"check", "confirm", "refused", "done", "discard", "tail", "head", "segments", "sync",
          "sb1", "sb2", "sync2", "failed", "down"}
MkwOpts == [nflag : BOOLEAN, discard : BOOLEAN, force : BOOLEAN,
            bssig : {"none", "exact", "more"}, answer : {"y", "n"}]
Content == {"old", "zero", "junk", "new"}

MkwTypes ==
    /\ mkw \in [opts : MkwOpts, pc : MkwPc, next : Seq(Log), wasmounted : BOOLEAN]
    /\ cache \in [Regions -> Content] /\ disk \in [Regions -> Content]

\* Nothing written, of what the device held before.
Untouched == \A r \in Regions : cache[r] = "old" /\ disk[r] = "old"

\* Before the log is on the device there is no new super block, not even in
\* the cache; afterwards there is no old one.
SupersInv ==
    \/ \A s \in Supers : cache[s] # "new" /\ disk[s] # "new"
    \/ /\ \A b \in Log : cache[b] = "new" /\ disk[b] = "new"
       /\ \A s \in Supers : cache[s] # "old" /\ disk[s] # "old"

\* What mkfs has written when it comes to each of its steps.
Written ==
    /\ mkw.pc \in {"check", "confirm", "refused", "discard"} => Untouched
    /\ mkw.pc = "head" => cache["sb2"] = "zero"
    /\ mkw.pc \in {"segments", "sync"} => \A s \in Supers : cache[s] = "zero" /\ disk[s] # "new"
    /\ mkw.pc \in {"check", "confirm", "discard", "tail", "head"} =>
          (\A s \in Supers : cache[s] # "new" /\ disk[s] # "new") /\ mkw.next = LogBlocks
    /\ mkw.pc = "segments" =>
          mkw.next # <<>> /\ \A b \in Log : cache[b] = "new" \/ b \in ToSet(mkw.next)
    /\ mkw.pc = "sync" => \A b \in Log : cache[b] = "new"
    /\ mkw.pc \in {"sb1", "sb2", "sync2"} =>
          /\ \A b \in Log : cache[b] = "new" /\ disk[b] = "new"
          /\ \A s \in Supers : cache[s] # "old" /\ disk[s] # "old"
    /\ mkw.pc \in {"sb2", "sync2"} => cache["sb1"] = "new"
    /\ mkw.pc = "sync2" => cache["sb2"] = "new"

\* What mkfs has promised when it ends.
Promised ==
    /\ mkw.pc = "done" /\ ~mkw.opts.nflag =>
          \A r \in Regions \ {"boot"} : cache[r] = "new" /\ disk[r] = "new"
    /\ mkw.pc = "done" /\ mkw.opts.nflag => Untouched
    /\ mkw.pc \notin {"check", "confirm", "refused", "done", "down"} => ~mkw.opts.nflag
    /\ mkw.wasmounted => mkw.pc = "refused"
    /\ mkw.opts.bssig = "exact" => cache["boot"] = "old" /\ disk["boot"] = "old"

\* The inductive invariant.
MkwInv == MkwTypes /\ SupersInv /\ Written /\ Promised

\* The regions of the device, and the log apart from the others.
LEMMA RegionFacts ==
    /\ "boot" \in Regions /\ "sb1" \in Regions /\ "sb2" \in Regions
    /\ Log \subseteq Regions
    /\ "boot" \notin Log /\ "sb1" \notin Log /\ "sb2" \notin Log
    /\ \A r \in Regions : r = "boot" \/ r \in Supers \/ r \in Log
    /\ LogBlocks \in Seq(Log) /\ LogBlocks # <<>>
BY LogAssumption DEF Regions, Log, Supers

\* Put() writes what it is told to, and nothing else.
LEMMA PutIs ==
    ASSUME NEW f \in [Regions -> Content], NEW S, NEW v \in Content
    PROVE  /\ Put(f, S, v) \in [Regions -> Content]
           /\ \A r \in Regions : Put(f, S, v)[r] = IF r \in S THEN v ELSE f[r]
BY DEF Put

\* mkfs goes on to its next step.
LEMMA MkwGoes ==
    ASSUME MkwTypes, NEW x \in MkwPc, MkwGo(x)
    PROVE  /\ mkw' \in [opts : MkwOpts, pc : MkwPc, next : Seq(Log), wasmounted : BOOLEAN]
           /\ mkw'.pc = x /\ mkw'.opts = mkw.opts /\ mkw'.next = mkw.next
           /\ mkw'.wasmounted = mkw.wasmounted
BY DEF MkwTypes, MkwGo

\* The beginning.
LEMMA MkwInitInv == MkwInit => MkwInv
<1> SUFFICES ASSUME MkwInit PROVE MkwInv
  OBVIOUS
<1>1. PICK opts \in MkwOpts : mkw = [opts |-> opts, pc |-> "check", next |-> LogBlocks,
                                     wasmounted |-> FALSE]
  BY DEF MkwInit, MkwOpts
<1>2. cache = [r \in Regions |-> "old"] /\ disk = cache
  BY DEF MkwInit
<1>3. MkwTypes
  BY <1>1, <1>2, RegionFacts DEF MkwTypes, MkwPc, Content
<1>4. Untouched
  BY <1>2 DEF Untouched
<1>5. SupersInv
  BY <1>4, RegionFacts DEF SupersInv, Untouched, Supers
<1>6. Written
  BY <1>1, <1>4, RegionFacts DEF Written, Untouched, Supers
<1>7. Promised
  BY <1>1, <1>4, RegionFacts DEF Promised, Untouched
<1> QED  BY <1>3, <1>5, <1>6, <1>7 DEF MkwInv

\* Before anything is written: the checks, and the question.
LEMMA MkwAsks ==
    ASSUME MkwInv, MkwCheck \/ \E found \in BOOLEAN : MkwConfirm(found)
    PROVE  MkwInv'
<1>1. cache' = cache /\ disk' = disk /\ mkw.pc \in {"check", "confirm"}
  BY DEF MkwCheck, MkwConfirm
<1>2. Untouched'
  BY <1>1 DEF MkwInv, Written, Untouched
<1>3. SupersInv'
  BY <1>2, RegionFacts DEF SupersInv, Untouched, Supers
<1>4. mkw.opts.bssig = "exact" => cache'["boot"] = "old" /\ disk'["boot"] = "old"
  BY <1>1 DEF MkwInv, Promised
<1>5. \A s \in Supers : cache'[s] # "new" /\ disk'[s] # "new"
  BY <1>2, RegionFacts DEF Untouched, Supers
<1>6. ~mkw.wasmounted
  BY <1>1 DEF MkwInv, Promised
<1>7. CASE MkwCheck
  <2>1. /\ mkw' \in [opts : MkwOpts, pc : MkwPc, next : Seq(Log), wasmounted : BOOLEAN]
        /\ mkw'.opts = mkw.opts /\ mkw'.pc \in {"refused", "confirm"}
        /\ mkw'.wasmounted => mkw'.pc = "refused"
        /\ mkw'.next = mkw.next /\ mkw.pc = "check"
    BY <1>7 DEF MkwCheck, MkwInv, MkwTypes, MkwPc
  <2>2. MkwTypes'
    BY <1>1, <2>1 DEF MkwInv, MkwTypes
  <2>3. Written'
    BY <1>2, <1>5, <2>1 DEF Written, MkwInv
  <2>4. Promised'
    BY <1>1, <1>4, <2>1 DEF Promised
  <2> QED  BY <1>3, <2>2, <2>3, <2>4 DEF MkwInv
<1>8. CASE \E found \in BOOLEAN : MkwConfirm(found)
  <2>1. PICK x \in {"refused", "done", "discard"} : /\ MkwGo(x) /\ (x = "done" => mkw.opts.nflag)
                                                    /\ (x = "discard" => ~mkw.opts.nflag)
    BY <1>8 DEF MkwConfirm
  <2>2. /\ mkw' \in [opts : MkwOpts, pc : MkwPc, next : Seq(Log), wasmounted : BOOLEAN]
        /\ mkw'.pc = x /\ mkw'.opts = mkw.opts /\ mkw'.next = mkw.next
        /\ mkw'.wasmounted = mkw.wasmounted
    BY <2>1, MkwGoes DEF MkwInv, MkwPc
  <2>3. mkw.next = LogBlocks
    BY <1>8 DEF MkwInv, Written, MkwConfirm
  <2>4. MkwTypes'
    BY <1>1, <2>2 DEF MkwInv, MkwTypes
  <2>5. Written'
    BY <1>2, <1>5, <2>2, <2>3 DEF Written
  <2>6. Promised'
    BY <1>2, <1>4, <1>6, <2>1, <2>2 DEF Promised
  <2> QED  BY <1>3, <2>4, <2>5, <2>6 DEF MkwInv
<1> QED  BY <1>7, <1>8

\* What is erased leaves a recognised boot sector alone, and no super block.
LEMMA ErasedIs ==
    /\ Supers \subseteq erased /\ erased \subseteq Regions
    /\ mkw.opts.bssig = "exact" => "boot" \notin erased
BY RegionFacts DEF erased, device_has_boot_sector, Supers

\* The discard of the whole device, if it is asked for and works.
LEMMA MkwDiscards ==
    ASSUME MkwInv, MkwDiscard
    PROVE  MkwInv'
<1>1. mkw.pc = "discard" /\ MkwTypes
  BY DEF MkwDiscard, MkwInv
<1>2. /\ ~mkw.wasmounted /\ ~mkw.opts.nflag /\ (\A s \in Supers : cache[s] # "new" /\ disk[s] # "new")
      /\ mkw.next = LogBlocks
      /\ mkw.opts.bssig = "exact" => cache["boot"] = "old" /\ disk["boot"] = "old"
  BY <1>1 DEF MkwInv, Written, Promised
<1>3. CASE MkwGo("tail") /\ UNCHANGED <<cache, disk>>
  <2>1. /\ mkw' \in [opts : MkwOpts, pc : MkwPc, next : Seq(Log), wasmounted : BOOLEAN]
        /\ mkw'.pc = "tail" /\ mkw'.opts = mkw.opts /\ mkw'.next = mkw.next
        /\ mkw'.wasmounted = mkw.wasmounted
    BY <1>1, <1>3, MkwGoes DEF MkwPc
  <2>2. MkwTypes'
    BY <1>1, <1>3, <2>1 DEF MkwTypes
  <2>3. SupersInv' /\ Written' /\ Promised'
    BY <1>2, <1>3, <2>1 DEF SupersInv, Written, Promised
  <2> QED  BY <2>2, <2>3 DEF MkwInv
<1>4. CASE \E zeroes \in BOOLEAN :
               /\ cache' = Put(cache, erased, IF zeroes THEN "zero" ELSE "junk")
               /\ disk' = Put(disk, erased, IF zeroes THEN "zero" ELSE "junk")
               /\ MkwGo(IF zeroes THEN "segments" ELSE "tail")
  <2>1. PICK zeroes \in BOOLEAN :
            /\ cache' = Put(cache, erased, IF zeroes THEN "zero" ELSE "junk")
            /\ disk' = Put(disk, erased, IF zeroes THEN "zero" ELSE "junk")
            /\ MkwGo(IF zeroes THEN "segments" ELSE "tail")
    BY <1>4
  <2> DEFINE v == IF zeroes THEN "zero" ELSE "junk"
             x == IF zeroes THEN "segments" ELSE "tail"
  <2>2. v \in Content /\ v # "new" /\ v # "old" /\ x \in MkwPc
    BY DEF Content, MkwPc
  <2>3. x = "segments" => v = "zero"
    OBVIOUS
  <2>4. x \in {"segments", "tail"}
    OBVIOUS
  <2>5. cache' = Put(cache, erased, v) /\ disk' = Put(disk, erased, v) /\ MkwGo(x)
    BY <2>1
  <2> HIDE DEF v, x
  <2>6. /\ mkw' \in [opts : MkwOpts, pc : MkwPc, next : Seq(Log), wasmounted : BOOLEAN]
        /\ mkw'.pc = x /\ mkw'.opts = mkw.opts /\ mkw'.next = mkw.next
        /\ mkw'.wasmounted = mkw.wasmounted
    BY <1>1, <2>2, <2>5, MkwGoes
  <2>7. /\ cache' \in [Regions -> Content] /\ disk' \in [Regions -> Content]
        /\ \A r \in Regions : cache'[r] = IF r \in erased THEN v ELSE cache[r]
        /\ \A r \in Regions : disk'[r] = IF r \in erased THEN v ELSE disk[r]
    BY <1>1, <2>2, <2>5, PutIs DEF MkwTypes
  <2>8. \A s \in Supers : cache'[s] = v /\ disk'[s] = v
    BY <2>7, ErasedIs
  <2>9. mkw.opts.bssig = "exact" => cache'["boot"] = "old" /\ disk'["boot"] = "old"
    BY <1>2, <2>7, ErasedIs, RegionFacts
  <2>10. LogBlocks # <<>> /\ \A b \in Log : b \in ToSet(LogBlocks)
    BY RegionFacts DEF Log
  <2>11. MkwTypes'
    BY <2>6, <2>7 DEF MkwTypes
  <2>12. SupersInv' /\ Promised'
    BY <1>2, <2>2, <2>4, <2>6, <2>8, <2>9 DEF SupersInv, Promised
  <2>13. Written'
    BY <1>2, <2>2, <2>3, <2>4, <2>6, <2>8, <2>10 DEF Written
  <2> QED  BY <2>11, <2>12, <2>13 DEF MkwInv
<1> QED  BY <1>3, <1>4 DEF MkwDiscard

\* A write to the cache between two steps: the pieces the invariant consists
\* of, for the regions S that get the content v.
LEMMA MkwPuts ==
    ASSUME MkwInv, NEW S, NEW v \in Content, NEW x \in MkwPc,
           MkwGo(x), cache' = Put(cache, S, v), disk' = disk
    PROVE  /\ MkwTypes' /\ mkw'.pc = x /\ mkw'.opts = mkw.opts /\ mkw'.next = mkw.next
           /\ mkw'.wasmounted = mkw.wasmounted
           /\ \A r \in Regions : cache'[r] = IF r \in S THEN v ELSE cache[r]
<1>1. /\ mkw' \in [opts : MkwOpts, pc : MkwPc, next : Seq(Log), wasmounted : BOOLEAN]
      /\ mkw'.pc = x /\ mkw'.opts = mkw.opts /\ mkw'.next = mkw.next
      /\ mkw'.wasmounted = mkw.wasmounted
  BY MkwGoes DEF MkwInv
<1>2. /\ cache' \in [Regions -> Content]
      /\ \A r \in Regions : cache'[r] = IF r \in S THEN v ELSE cache[r]
  BY PutIs DEF MkwInv, MkwTypes
<1> QED  BY <1>1, <1>2 DEF MkwInv, MkwTypes

\* The tail of the device is erased, then the head: no super block is left in
\* the cache.
LEMMA MkwErases ==
    ASSUME MkwInv,
           MkwErase("tail", {"sb2"}, "head") \/ MkwErase("head", erased \ {"sb2"}, "segments")
    PROVE  MkwInv'
<1>1. mkw.pc \in {"tail", "head"} /\ disk' = disk
  BY DEF MkwErase, MkwStep
<1>2. /\ ~mkw.wasmounted /\ ~mkw.opts.nflag /\ (\A s \in Supers : cache[s] # "new" /\ disk[s] # "new")
      /\ mkw.next = LogBlocks
      /\ mkw.opts.bssig = "exact" => cache["boot"] = "old" /\ disk["boot"] = "old"
  BY <1>1 DEF MkwInv, Written, Promised
<1>3. LogBlocks # <<>> /\ \A b \in Log : b \in ToSet(LogBlocks)
  BY RegionFacts DEF Log
<1>4. CASE MkwErase("tail", {"sb2"}, "head")
  <2>1. /\ MkwTypes' /\ mkw'.pc = "head" /\ mkw'.opts = mkw.opts /\ mkw'.next = mkw.next
        /\ mkw'.wasmounted = mkw.wasmounted
        /\ \A r \in Regions : cache'[r] = IF r \in {"sb2"} THEN "zero" ELSE cache[r]
    BY <1>4, MkwPuts DEF MkwErase, MkwStep, MkwPc, Content
  <2>2. /\ \A s \in Supers : cache'[s] # "new" /\ disk'[s] # "new"
        /\ cache'["sb2"] = "zero" /\ cache'["boot"] = cache["boot"]
    BY <1>1, <1>2, <2>1, RegionFacts DEF Supers
  <2> QED  BY <1>1, <1>2, <2>1, <2>2 DEF MkwInv, SupersInv, Written, Promised
<1>5. CASE MkwErase("head", erased \ {"sb2"}, "segments")
  <2>1. /\ MkwTypes' /\ mkw'.pc = "segments" /\ mkw'.opts = mkw.opts /\ mkw'.next = mkw.next
        /\ mkw'.wasmounted = mkw.wasmounted
        /\ \A r \in Regions : cache'[r] = IF r \in erased \ {"sb2"} THEN "zero" ELSE cache[r]
    BY <1>5, MkwPuts DEF MkwErase, MkwStep, MkwPc, Content
  <2>2. cache["sb2"] = "zero"
    BY <1>5 DEF MkwErase, MkwStep, MkwInv, Written
  <2>3. cache'["sb2"] = "zero" /\ cache'["sb1"] = "zero"
    BY <2>1, <2>2, RegionFacts, ErasedIs DEF Supers
  <2>4. \A s \in Supers : cache'[s] = "zero" /\ disk'[s] # "new"
    BY <1>1, <1>2, <2>3 DEF Supers
  <2>5. mkw.opts.bssig = "exact" => cache'["boot"] = "old" /\ disk'["boot"] = "old"
    BY <1>1, <1>2, <2>1, RegionFacts, ErasedIs
  <2>6. Written'
    BY <1>2, <1>3, <2>1, <2>4 DEF Written
  <2> QED  BY <1>2, <2>1, <2>4, <2>5, <2>6 DEF MkwInv, SupersInv, Promised
<1> QED  BY <1>4, <1>5

\* The next block of the log.
LEMMA MkwSegments ==
    ASSUME MkwInv, MkwSegment
    PROVE  MkwInv'
<1>1. /\ mkw.pc = "segments" /\ mkw.next \in Seq(Log) /\ mkw.next # <<>>
      /\ ~mkw.wasmounted /\ ~mkw.opts.nflag /\ disk' = disk /\ cache' = Put(cache, {Head(mkw.next)}, "new")
      /\ mkw.opts.bssig = "exact" => cache["boot"] = "old" /\ disk["boot"] = "old"
      /\ \A s \in Supers : cache[s] = "zero" /\ disk[s] # "new"
      /\ \A b \in Log : cache[b] = "new" \/ b \in ToSet(mkw.next)
  <2>1. mkw.pc = "segments" /\ disk' = disk /\ cache' = Put(cache, {Head(mkw.next)}, "new")
    BY DEF MkwSegment
  <2>2. mkw.next \in Seq(Log)
    BY DEF MkwInv, MkwTypes
  <2>3. /\ mkw.next # <<>> /\ (\A s \in Supers : cache[s] = "zero" /\ disk[s] # "new")
        /\ \A b \in Log : cache[b] = "new" \/ b \in ToSet(mkw.next)
    BY <2>1 DEF MkwInv, Written
  <2>4. /\ ~mkw.wasmounted /\ ~mkw.opts.nflag
        /\ mkw.opts.bssig = "exact" => cache["boot"] = "old" /\ disk["boot"] = "old"
    BY <2>1 DEF MkwInv, Promised
  <2> QED  BY <2>1, <2>2, <2>3, <2>4
<1>2. /\ Head(mkw.next) \in Log /\ Tail(mkw.next) \in Seq(Log)
      /\ Len(mkw.next) = 1 => Tail(mkw.next) = <<>>
      /\ Len(mkw.next) # 1 => Tail(mkw.next) # <<>>
  <2>1. /\ Head(mkw.next) \in Log /\ Tail(mkw.next) \in Seq(Log)
        /\ Len(Tail(mkw.next)) = Len(mkw.next) - 1
    BY <1>1, HeadTailProperties
  <2>2. Len(mkw.next) \in Nat
    BY <1>1
  <2>3. Tail(mkw.next) = <<>> <=> Len(Tail(mkw.next)) = 0
    BY <2>1, EmptySeq
  <2> QED  BY <2>1, <2>2, <2>3
<1>3. \A b \in ToSet(mkw.next) : b = Head(mkw.next) \/ b \in ToSet(Tail(mkw.next))
  <2>1. SUFFICES ASSUME NEW i \in DOMAIN mkw.next
                 PROVE  mkw.next[i] = Head(mkw.next) \/ mkw.next[i] \in ToSet(Tail(mkw.next))
    BY DEF ToSet
  <2>2. CASE i = 1
    BY <1>1, <2>2
  <2>3. CASE i # 1
    <3>1. i - 1 \in DOMAIN Tail(mkw.next) /\ Tail(mkw.next)[i - 1] = mkw.next[i]
      BY <1>1, <2>3
    <3> QED  BY <3>1 DEF ToSet
  <2> QED  BY <2>2, <2>3
<1>4. /\ mkw' \in [opts : MkwOpts, pc : MkwPc, next : Seq(Log), wasmounted : BOOLEAN]
      /\ mkw'.next = Tail(mkw.next) /\ mkw'.opts = mkw.opts
      /\ mkw'.wasmounted = mkw.wasmounted
      /\ mkw'.pc = IF Len(mkw.next) = 1 THEN "sync" ELSE "segments"
  BY <1>1, <1>2 DEF MkwSegment, MkwInv, MkwTypes, MkwPc
<1>5. "new" \in Content /\ cache \in [Regions -> Content]
  BY DEF Content, MkwInv, MkwTypes
<1>6. /\ cache' \in [Regions -> Content]
      /\ \A r \in Regions : cache'[r] = IF r \in {Head(mkw.next)} THEN "new" ELSE cache[r]
  BY <1>1, <1>5, PutIs
<1>7. MkwTypes'
  BY <1>1, <1>4, <1>6 DEF MkwInv, MkwTypes
<1>8. /\ cache'["boot"] = cache["boot"] /\ \A s \in Supers : cache'[s] = cache[s]
  BY <1>2, <1>6, RegionFacts DEF Supers
<1>9. \A b \in Log : cache'[b] = "new" \/ b \in ToSet(Tail(mkw.next))
  BY <1>1, <1>3, <1>6, RegionFacts
<1>10. Len(mkw.next) = 1 => \A b \in Log : cache'[b] = "new"
  BY <1>2, <1>9 DEF ToSet
<1>11. Written'
  BY <1>1, <1>2, <1>4, <1>8, <1>9, <1>10 DEF Written
<1>12. SupersInv' /\ Promised'
  BY <1>1, <1>4, <1>8 DEF SupersInv, Promised
<1> QED  BY <1>7, <1>11, <1>12 DEF MkwInv

\* The first fsync(): the log is on the device before a super block is made.
\* The second one: all of it is.
LEMMA MkwSyncs ==
    ASSUME MkwInv, MkwSync("sync", "sb1") \/ MkwSync("sync2", "done")
    PROVE  MkwInv'
<1>1. mkw.pc \in {"sync", "sync2"} /\ cache' = cache /\ disk' = cache
  BY DEF MkwSync, MkwStep
<1>2. ~mkw.wasmounted /\ ~mkw.opts.nflag /\ (mkw.opts.bssig = "exact" => cache["boot"] = "old")
  BY <1>1 DEF MkwInv, Promised
<1>3. CASE MkwSync("sync", "sb1")
  <2>1. /\ mkw' \in [opts : MkwOpts, pc : MkwPc, next : Seq(Log), wasmounted : BOOLEAN]
        /\ mkw'.pc = "sb1" /\ mkw'.opts = mkw.opts /\ mkw'.wasmounted = mkw.wasmounted
    BY <1>3, MkwGoes DEF MkwSync, MkwStep, MkwInv, MkwPc
  <2>2. (\A b \in Log : cache[b] = "new") /\ \A s \in Supers : cache[s] = "zero"
    BY <1>3 DEF MkwSync, MkwStep, MkwInv, Written
  <2>3. MkwTypes'
    BY <1>1, <2>1 DEF MkwInv, MkwTypes
  <2> QED  BY <1>1, <1>2, <2>1, <2>2, <2>3 DEF MkwInv, SupersInv, Written, Promised
<1>4. CASE MkwSync("sync2", "done")
  <2>1. /\ mkw' \in [opts : MkwOpts, pc : MkwPc, next : Seq(Log), wasmounted : BOOLEAN]
        /\ mkw'.pc = "done" /\ mkw'.opts = mkw.opts /\ mkw'.wasmounted = mkw.wasmounted
    BY <1>4, MkwGoes DEF MkwSync, MkwStep, MkwInv, MkwPc
  <2>2. /\ \A b \in Log : cache[b] = "new"
        /\ cache["sb1"] = "new" /\ cache["sb2"] = "new"
    BY <1>4 DEF MkwSync, MkwStep, MkwInv, Written
  <2>3. \A s \in Supers : cache[s] = "new"
    BY <2>2 DEF Supers
  <2>4. \A r \in Regions \ {"boot"} : cache[r] = "new"
    BY <2>2, <2>3, RegionFacts
  <2>5. MkwTypes'
    BY <1>1, <2>1 DEF MkwInv, MkwTypes
  <2>6. SupersInv'
    BY <1>1, <2>2, <2>3 DEF SupersInv
  <2>7. Written'
    BY <2>1 DEF Written
  <2>8. Promised'
    BY <1>1, <1>2, <2>1, <2>2, <2>4 DEF Promised
  <2> QED  BY <2>5, <2>6, <2>7, <2>8 DEF MkwInv
<1> QED  BY <1>3, <1>4

\* The super blocks, one after the other.
LEMMA MkwSupers ==
    ASSUME MkwInv, MkwSuper("sb1", "sb1", "sb2") \/ MkwSuper("sb2", "sb2", "sync2")
    PROVE  MkwInv'
<1>1. mkw.pc \in {"sb1", "sb2"} /\ disk' = disk
  BY DEF MkwSuper, MkwStep
<1>2. /\ ~mkw.wasmounted /\ ~mkw.opts.nflag
      /\ mkw.opts.bssig = "exact" => cache["boot"] = "old" /\ disk["boot"] = "old"
      /\ \A b \in Log : cache[b] = "new" /\ disk[b] = "new"
      /\ \A s \in Supers : cache[s] # "old" /\ disk[s] # "old"
  BY <1>1 DEF MkwInv, Written, Promised
<1>3. CASE MkwSuper("sb1", "sb1", "sb2")
  <2>1. /\ MkwTypes' /\ mkw'.pc = "sb2" /\ mkw'.opts = mkw.opts
        /\ mkw'.wasmounted = mkw.wasmounted
        /\ \A r \in Regions : cache'[r] = IF r \in {"sb1"} THEN "new" ELSE cache[r]
    BY <1>3, MkwPuts DEF MkwSuper, MkwStep, MkwPc, Content
  <2>2. /\ cache'["sb1"] = "new" /\ cache'["boot"] = cache["boot"]
        /\ \A b \in Log : cache'[b] = "new" /\ disk'[b] = "new"
    BY <1>1, <1>2, <2>1, RegionFacts
  <2>3. \A s \in Supers : cache'[s] # "old" /\ disk'[s] # "old"
    BY <1>1, <1>2, <2>1, RegionFacts DEF Supers
  <2> QED  BY <1>1, <1>2, <2>1, <2>2, <2>3 DEF MkwInv, SupersInv, Written, Promised
<1>4. CASE MkwSuper("sb2", "sb2", "sync2")
  <2>1. /\ MkwTypes' /\ mkw'.pc = "sync2" /\ mkw'.opts = mkw.opts
        /\ mkw'.wasmounted = mkw.wasmounted
        /\ \A r \in Regions : cache'[r] = IF r \in {"sb2"} THEN "new" ELSE cache[r]
    BY <1>4, MkwPuts DEF MkwSuper, MkwStep, MkwPc, Content
  <2>2. cache["sb1"] = "new"
    BY <1>4 DEF MkwSuper, MkwStep, MkwInv, Written
  <2>3. /\ cache'["sb1"] = "new" /\ cache'["sb2"] = "new" /\ cache'["boot"] = cache["boot"]
        /\ \A b \in Log : cache'[b] = "new" /\ disk'[b] = "new"
    BY <1>1, <1>2, <2>1, <2>2, RegionFacts
  <2>4. \A s \in Supers : cache'[s] # "old" /\ disk'[s] # "old"
    BY <1>1, <1>2, <2>3 DEF Supers
  <2> QED  BY <1>1, <1>2, <2>1, <2>3, <2>4 DEF MkwInv, SupersInv, Written, Promised
<1> QED  BY <1>3, <1>4

\* mkfs gives up: what it had to be careful about is still true.
LEMMA MkwGivesUp ==
    ASSUME MkwInv, MkwFails
    PROVE  MkwInv'
<1>1. /\ mkw.pc \in {"tail", "head", "segments", "sync", "sb1", "sb2", "sync2"}
      /\ cache' = cache /\ disk' = disk
  BY DEF MkwFails
<1>2. /\ mkw' \in [opts : MkwOpts, pc : MkwPc, next : Seq(Log), wasmounted : BOOLEAN]
      /\ mkw'.pc = "failed" /\ mkw'.opts = mkw.opts /\ mkw'.wasmounted = mkw.wasmounted
  BY MkwGoes DEF MkwFails, MkwInv, MkwPc
<1>3. ~mkw.wasmounted
  BY <1>1 DEF MkwInv, Promised
<1>4. MkwTypes'
  BY <1>1, <1>2 DEF MkwInv, MkwTypes
<1>5. SupersInv'
  BY <1>1 DEF MkwInv, SupersInv
<1>6. Written'
  BY <1>2 DEF Written
<1>7. Promised'
  BY <1>1, <1>2, <1>3 DEF MkwInv, Promised
<1> QED  BY <1>4, <1>5, <1>6, <1>7 DEF MkwInv

\* The page cache reaches the device region by region, in any order.
LEMMA MkwWriteback ==
    ASSUME MkwInv, Writeback
    PROVE  MkwInv'
<1>1. PICK r \in Regions : cache[r] # disk[r] /\ disk' = [disk EXCEPT ![r] = cache[r]]
  BY DEF Writeback
<1>2. cache' = cache /\ mkw' = mkw
  BY DEF Writeback
<1>3. cache \in [Regions -> Content] /\ disk \in [Regions -> Content]
  BY DEF MkwInv, MkwTypes
<1>4. \A q \in Regions : disk'[q] = disk[q] \/ disk'[q] = cache[q]
  BY <1>1, <1>3
<1>5. MkwTypes'
  BY <1>1, <1>2, <1>3 DEF MkwInv, MkwTypes
<1>6. \A s \in Supers \cup Log \cup {"boot"} : s \in Regions
  BY RegionFacts DEF Supers
<1>7. SupersInv'
  BY <1>2, <1>4, <1>6 DEF MkwInv, SupersInv
<1>8. Untouched => Untouched'
  BY <1>2, <1>4 DEF Untouched
<1>9. Written'
  BY <1>2, <1>4, <1>6, <1>8 DEF MkwInv, Written
<1>10. Promised'
  BY <1>2, <1>4, <1>6, <1>8 DEF MkwInv, Promised
<1> QED  BY <1>5, <1>7, <1>9, <1>10 DEF MkwInv

\* Power fails: the cache is what the device has.
LEMMA MkwPowerLoss ==
    ASSUME MkwInv, PowerLoss
    PROVE  MkwInv'
<1>1. cache' = disk /\ disk' = disk
  BY DEF PowerLoss
<1>2. PICK x \in MkwPc :
          MkwGo(x) /\ x = (IF mkw.pc \in {"done", "refused"} THEN mkw.pc ELSE "down")
  BY DEF PowerLoss, MkwPc
<1>3. /\ mkw' \in [opts : MkwOpts, pc : MkwPc, next : Seq(Log), wasmounted : BOOLEAN]
      /\ mkw'.pc = x /\ mkw'.opts = mkw.opts /\ mkw'.wasmounted = mkw.wasmounted
  BY <1>2, MkwGoes DEF MkwInv
<1>4. MkwTypes'
  BY <1>1, <1>3 DEF MkwInv, MkwTypes
<1>5. SupersInv'
  BY <1>1 DEF MkwInv, SupersInv
<1>6. Untouched => Untouched'
  BY <1>1 DEF Untouched
<1>7. x = "refused" => Untouched
  BY <1>2 DEF MkwInv, Written
<1>8. Written'
  BY <1>2, <1>3, <1>6, <1>7 DEF Written
<1>9. Promised'
  BY <1>1, <1>2, <1>3, <1>6 DEF MkwInv, Promised
<1> QED  BY <1>4, <1>5, <1>8, <1>9 DEF MkwInv

\* Every step keeps the invariant.
LEMMA MkwNextInv == MkwInv /\ [MkwNext]_<<mkwVars, odev>> => MkwInv'
<1> SUFFICES ASSUME MkwInv, [MkwNext]_<<mkwVars, odev>> PROVE MkwInv'
  OBVIOUS
<1>1. CASE UNCHANGED <<mkwVars, odev>>
  <2>1. cache' = cache /\ disk' = disk /\ mkw' = mkw
    BY <1>1 DEF mkwVars
  <2> QED  BY <2>1 DEF MkwInv, MkwTypes, SupersInv, Written, Promised, Untouched
<1>2. CASE MkwNext
  BY <1>2, MkwAsks, MkwDiscards, MkwErases, MkwSegments, MkwSyncs, MkwSupers, MkwGivesUp,
     MkwWriteback, MkwPowerLoss DEF MkwNext
<1> QED  BY <1>1, <1>2

\* mkfs.nilfs2 is safe against the loss of power, failing writes and any
\* order in which the page cache reaches the device, for an initial log of any
\* length: a new super block is never there without its log or together with
\* an old one, and what mkfs reports at its end is what is on the device.
THEOREM FormatIsSafe == MkwSpec => []FormatSafe
<1>1. MkwInit => MkwInv
  BY MkwInitInv
<1>2. MkwInv /\ [MkwNext]_<<mkwVars, odev>> => MkwInv'
  BY MkwNextInv
<1>3. MkwInv => FormatSafe
  <2> SUFFICES ASSUME MkwInv PROVE FormatSafe
    OBVIOUS
  <2>1. FormatOrdered
    BY DEF MkwInv, SupersInv, FormatOrdered, Supers, Log
  <2>2. FormatDurable
    BY DEF MkwInv, Written, Promised, Untouched, FormatDurable
  <2> QED  BY <2>1, <2>2 DEF FormatSafe
<1> QED  BY <1>1, <1>2, <1>3, PTL DEF MkwSpec

-----------------------------------------------------------------------------
(***************************************************************************)
(* nilfs-tune.                                                             *)
(***************************************************************************)
Mask == SUBSET {"label", "features"}

IsSb(s) ==
    /\ s = [label |-> s.label, features |-> s.features, cno |-> s.cno,
            magic |-> s.magic, sum |-> s.sum]
    /\ s.magic \in BOOLEAN

IsPair(f) == f = [i \in 1..2 |-> f[i]] /\ \A i \in 1..2 : IsSb(f[i])

SbTypes ==
    /\ IsPair(sbs)
    /\ tune = [pc |-> tune.pc, mask |-> tune.mask, force |-> tune.force,
               fs_features |-> tune.fs_features, word |-> tune.word, sbp |-> tune.sbp, sbps |-> tune.sbps,
               ret |-> tune.ret, commits |-> tune.commits, first |-> tune.first,
               wrote |-> tune.wrote, wasmounted |-> tune.wasmounted, since |-> tune.since]
    /\ tune.pc \in {"check", "read", "edit", "reread", "write1", "write2", "exit"}
    /\ tune.mask \in Mask /\ tune.force \in BOOLEAN /\ tune.fs_features \in TuneEdits
    /\ IsSb(tune.sbp) /\ IsPair(tune.sbps)
    /\ tune.commits \in Nat /\ tune.since \in Nat /\ tune.word \in Nat \ {0}
    /\ tune.wrote \in BOOLEAN /\ tune.wasmounted \in BOOLEAN

\* The copy i, if there is one, has what nilfs-tune was asked to write.
Tuned(i) ==
    sbs[i].magic =>
        /\ sbs[i].sum
        /\ "label" \in tune.mask => sbs[i].label = tune.sbp.label
        /\ "features" \in tune.mask => sbs[i].features = tune.sbp.features

\* The copies in memory, while they wait to be written: the kernel may have
\* committed since, and has not otherwise touched the copies on the device.
Reread ==
    /\ tune.pc \in {"write1", "write2"} =>
          /\ \A i \in 1..2 : tune.sbps[i].magic = sbs[i].magic
          /\ tune.since <= tune.commits
    /\ tune.pc = "write1" /\ tune.commits = tune.since => \A i \in 1..2 : tune.sbps[i] = sbs[i]
    /\ tune.pc = "write2" /\ tune.commits = tune.since => tune.sbps[2] = sbs[2]

\* What has been written, and what was found before.
TuneInv ==
    /\ tune.pc \in {"edit", "reread", "write1", "write2"} =>
          tune.mask # {} /\ ("label" \in tune.mask => tune.sbp.label = "b")
    /\ tune.pc = "write2" => Tuned(1)
    /\ tune.pc = "exit" /\ tune.ret = "ok" /\ tune.mask # {} =>
          Tuned(1) /\ Tuned(2) /\ ("label" \in tune.mask => tune.sbp.label = "b")
    /\ tune.wrote => /\ tune.pc \in {"write2", "exit"} /\ tune.mask # {}
                     /\ tune.pc = "exit" => tune.ret \in {"ok", "cannot write", "killed"}
    /\ tune.wasmounted => tune.force \/ tune.mask = {}

\* The features that nilfs-tune may not change, in every copy there is.
Fixed(s, first) == s.features \ ok_features = first.features \ ok_features
ClearsAll == \E k \in DOMAIN tune.fs_features : tune.fs_features[k].name = "none"

FeaturesInv ==
    /\ tune.first[2].features = tune.first[1].features
    /\ ~ClearsAll =>
          /\ \A i \in 1..2 : Fixed(sbs[i], tune.first[1])
          /\ tune.pc \in {"edit", "reread", "write1", "write2"} => Fixed(tune.sbp, tune.first[1])
          /\ tune.pc \in {"write1", "write2"} => \A i \in 1..2 : Fixed(tune.sbps[i], tune.first[1])

\* The inductive invariant.
SbInv == SbTypes /\ Reread /\ TuneInv /\ FeaturesInv

\* A copy of the super block with its label and its features replaced.
LEMMA SbLabelled ==
    ASSUME NEW s, IsSb(s), NEW l, NEW f
    PROVE  /\ [s EXCEPT !.label = l, !.features = f] =
                 [label |-> l, features |-> f, cno |-> s.cno, magic |-> s.magic, sum |-> s.sum]
           /\ s.magic \in BOOLEAN
<1> DEFINE lab == s.label  fea == s.features  cno == s.cno  mag == s.magic  sum == s.sum
<1>1. s = [label |-> lab, features |-> fea, cno |-> cno, magic |-> mag, sum |-> sum]
  BY DEF IsSb
<1>2. mag \in BOOLEAN /\ cno = s.cno /\ mag = s.magic /\ sum = s.sum
  BY DEF IsSb
<1> HIDE DEF lab, fea, cno, mag, sum
<1> DEFINE t1 == [s EXCEPT !.label = l]
<1>3. t1 = [label |-> l, features |-> fea, cno |-> cno, magic |-> mag, sum |-> sum]
  BY <1>1
<1>4. [t1 EXCEPT !.features = f] =
        [label |-> l, features |-> f, cno |-> cno, magic |-> mag, sum |-> sum]
  <2> HIDE DEF t1
  <2> QED  BY <1>3
<1> QED  BY <1>2, <1>4

\* The same with a new checksum.
LEMMA SbSummed ==
    ASSUME NEW s, IsSb(s), NEW l, NEW f, NEW g
    PROVE  /\ [s EXCEPT !.label = l, !.features = f, !.sum = g] =
                 [label |-> l, features |-> f, cno |-> s.cno, magic |-> s.magic, sum |-> g]
           /\ s.magic \in BOOLEAN
<1> DEFINE lab == s.label  fea == s.features  cno == s.cno  mag == s.magic  sum == s.sum
<1>1. s = [label |-> lab, features |-> fea, cno |-> cno, magic |-> mag, sum |-> sum]
  BY DEF IsSb
<1>2. mag \in BOOLEAN /\ cno = s.cno /\ mag = s.magic
  BY DEF IsSb
<1> HIDE DEF lab, fea, cno, mag, sum
<1> DEFINE t2 == [s EXCEPT !.label = l, !.features = f]
<1>3. t2 = [label |-> l, features |-> f, cno |-> cno, magic |-> mag, sum |-> s.sum]
  BY <1>2, SbLabelled
<1>4. [t2 EXCEPT !.sum = g] =
        [label |-> l, features |-> f, cno |-> cno, magic |-> mag, sum |-> g]
  <2> HIDE DEF t2
  <2> QED  BY <1>3
<1> QED  BY <1>2, <1>4

\* A copy the kernel has committed to.
LEMMA SbCommitted ==
    ASSUME NEW s, IsSb(s), NEW c, NEW g
    PROVE  [s EXCEPT !.cno = c, !.sum = g] =
             [label |-> s.label, features |-> s.features, cno |-> c, magic |-> s.magic, sum |-> g]
<1> DEFINE lab == s.label  fea == s.features  cno == s.cno  mag == s.magic  sum == s.sum
<1>1. s = [label |-> lab, features |-> fea, cno |-> cno, magic |-> mag, sum |-> sum]
  BY DEF IsSb
<1>2. lab = s.label /\ fea = s.features /\ mag = s.magic
  OBVIOUS
<1> HIDE DEF lab, fea, cno, mag, sum
<1> DEFINE u1 == [s EXCEPT !.cno = c]
<1>3. u1 = [label |-> lab, features |-> fea, cno |-> c, magic |-> mag, sum |-> sum]
  BY <1>1
<1>4. [u1 EXCEPT !.sum = g] =
        [label |-> lab, features |-> fea, cno |-> c, magic |-> mag, sum |-> g]
  <2> HIDE DEF u1
  <2> QED  BY <1>3
<1> QED  BY <1>2, <1>4

\* The beginning.
LEMMA SbInitInv == SbInit => SbInv
<1> SUFFICES ASSUME SbInit PROVE SbInv
  OBVIOUS
<1>1. PICK f \in {{}, {"FEATURE_R5"}}, n \in {<<1, 2>>, <<2, 1>>}, m \in [1..2 -> BOOLEAN],
           s \in [1..2 -> BOOLEAN] :
           sbs = [i \in 1..2 |-> SbCopy("a", f, n[i], m[i], s[i])]
  BY DEF SbInit
<1>2. \A i \in 1..2 : sbs[i] = [label |-> "a", features |-> f, cno |-> n[i], magic |-> m[i],
                                sum |-> s[i]]
  BY <1>1 DEF SbCopy
<1>3. IsPair(sbs)
  BY <1>1, <1>2 DEF IsPair, IsSb
<1>4. PICK mask \in Mask, force \in BOOLEAN, e \in TuneEdits :
        tune = [pc |-> "check", mask |-> mask, force |-> force, fs_features |-> e, word |-> 1,
                sbp |-> sbs[1], sbps |-> sbs, ret |-> "none", commits |-> 0,
                first |-> sbs, wrote |-> FALSE, wasmounted |-> FALSE, since |-> 0]
  BY DEF SbInit, Mask
<1>5. SbTypes
  BY <1>3, <1>4 DEF SbTypes, IsPair
<1>6. Reread /\ TuneInv
  BY <1>4 DEF Reread, TuneInv
<1>7. FeaturesInv
  BY <1>2, <1>4 DEF FeaturesInv, Fixed
<1> QED  BY <1>5, <1>6, <1>7 DEF SbInv

\* A step of the tool that does not write changes its progress alone.
LEMMA TuneGoesOn ==
    ASSUME SbInv, sbs' = sbs,
           TuneCheck \/ TuneEdit \/ nilfs_edit_feature \/ TuneReread \/ TuneKilled
    PROVE  SbInv'
<1>1. SbTypes
  BY DEF SbInv
<1>a. ASSUME tune'.first = tune.first, tune'.fs_features = tune.fs_features,
             tune'.pc \in {"edit", "reread"} => ClearsAll \/ Fixed(tune'.sbp, tune.first[1]),
             tune'.pc \notin {"write1", "write2"}
      PROVE  FeaturesInv'
  BY <1>a DEF SbInv, FeaturesInv, Fixed, ClearsAll
<1>2. ASSUME NEW ret, TuneExit(ret), tune.pc \in {"check", "read", "edit", "reread"} \/ ret = "killed",
             ret # "ok" \/ tune.mask = {}
      PROVE  SbInv'
  <2>1. tune' = [tune EXCEPT !.pc = "exit", !.ret = ret]
    BY <1>2 DEF TuneExit
  <2>2. /\ SbTypes' /\ tune'.pc = "exit" /\ tune'.ret = ret /\ tune'.mask = tune.mask
        /\ tune'.wrote = tune.wrote /\ tune'.wasmounted = tune.wasmounted
        /\ tune'.force = tune.force /\ tune'.first = tune.first
        /\ tune'.fs_features = tune.fs_features
    BY <1>1, <2>1 DEF SbTypes
  <2>3. tune.wrote => tune.mask # {} /\ ret = "killed"
    BY <1>2 DEF SbInv, TuneInv
  <2>4. Reread'
    BY <2>2 DEF Reread
  <2>5. TuneInv'
    BY <1>2, <2>2, <2>3 DEF SbInv, TuneInv
  <2>6. FeaturesInv'
    BY <1>a, <2>2
  <2> QED  BY <2>2, <2>4, <2>5, <2>6 DEF SbInv
<1>3. CASE TuneKilled
  BY <1>2, <1>3 DEF TuneKilled
<1>4. CASE TuneCheck
  <2>1. CASE TuneExit("mounted") \/ TuneExit("cannot check")
    BY <1>2, <1>4, <2>1 DEF TuneCheck
  <2>2. CASE /\ tune' = [tune EXCEPT !.pc = "read", !.wasmounted = check_mount = "yes"]
             /\ ~(~tune.force /\ tune.mask # {} /\ check_mount = "yes")
    <3>1. tune.pc = "check" /\ ~tune.wrote
      BY <1>1, <1>4 DEF TuneCheck, SbInv, TuneInv, SbTypes
    <3>2. /\ SbTypes' /\ tune'.pc = "read" /\ tune'.mask = tune.mask
          /\ tune'.wrote = tune.wrote /\ tune'.wasmounted = (check_mount = "yes")
          /\ tune'.force = tune.force /\ tune'.first = tune.first
          /\ tune'.fs_features = tune.fs_features
      BY <1>1, <2>2 DEF SbTypes
    <3>3. FeaturesInv'
      BY <1>a, <3>2
    <3> QED  BY <2>2, <3>1, <3>2, <3>3 DEF SbInv, Reread, TuneInv
  <2> QED  BY <1>4, <2>1, <2>2 DEF TuneCheck
<1>5. CASE TuneEdit
  <2>1. tune.pc = "read" /\ ~tune.wrote
    BY <1>1, <1>5 DEF TuneEdit, SbInv, TuneInv, SbTypes
  <2> DEFINE sbp == IF sb_read(1) THEN sbs[1] ELSE sbs[2]
             l   == IF "label" \in tune.mask THEN "b" ELSE sbp.label
             new == [sbp EXCEPT !.label = l]
             pc  == IF "features" \in tune.mask THEN "edit" ELSE "reread"
  <2>2. \/ TuneExit("cannot open")
        \/ tune.mask = {} /\ TuneExit("ok")
        \/ tune.mask # {} /\ tune' = [tune EXCEPT !.pc = pc, !.sbp = new]
    BY <1>5 DEF TuneEdit
  <2>3. IsSb(sbp) /\ (ClearsAll \/ Fixed(sbp, tune.first[1]))
    BY <1>1 DEF SbTypes, IsPair, SbInv, FeaturesInv
  <2>4. pc \in {"edit", "reread"} /\ ("label" \in tune.mask => l = "b")
    OBVIOUS
  <2> HIDE DEF sbp, l, pc
  <2>5. IsSb(new) /\ new.label = l /\ new.features = sbp.features
    <3> DEFINE fea == sbp.features  cno == sbp.cno  mag == sbp.magic  sum == sbp.sum
    <3>1. sbp = [label |-> sbp.label, features |-> fea, cno |-> cno, magic |-> mag, sum |-> sum]
      BY <2>3 DEF IsSb
    <3>2. mag \in BOOLEAN
      BY <2>3 DEF IsSb
    <3> HIDE DEF fea, cno, mag, sum
    <3>3. new = [label |-> l, features |-> fea, cno |-> cno, magic |-> mag, sum |-> sum]
      BY <3>1
    <3> HIDE DEF new
    <3>4. IsSb(new) /\ new.label = l /\ new.features = fea
      BY <3>2, <3>3 DEF IsSb
    <3> QED  BY <3>4 DEF fea
  <2> HIDE DEF new
  <2>6. CASE tune.mask # {} /\ tune' = [tune EXCEPT !.pc = pc, !.sbp = new]
    <3>1. /\ SbTypes' /\ tune'.pc = pc /\ tune'.mask = tune.mask /\ tune'.sbp = new
          /\ tune'.wrote = tune.wrote /\ tune'.wasmounted = tune.wasmounted
          /\ tune'.force = tune.force /\ tune'.first = tune.first
          /\ tune'.fs_features = tune.fs_features
      BY <1>1, <2>4, <2>5, <2>6 DEF SbTypes
    <3>2. ClearsAll \/ Fixed(new, tune.first[1])
      BY <2>3, <2>5 DEF Fixed
    <3>3. FeaturesInv'
      BY <1>a, <2>4, <3>1, <3>2
    <3> QED  BY <2>1, <2>4, <2>5, <2>6, <3>1, <3>3 DEF SbInv, Reread, TuneInv
  <2>7. CASE TuneExit("cannot open") \/ (tune.mask = {} /\ TuneExit("ok"))
    BY <1>2, <2>1, <2>7
  <2> QED  BY <2>2, <2>6, <2>7
<1>b. CASE nilfs_edit_feature
  <2>1. tune.pc = "edit" /\ ~tune.wrote
    BY <1>1, <1>b DEF nilfs_edit_feature, SbInv, TuneInv, SbTypes
  <2>2. CASE tune' = [tune EXCEPT !.pc = "reread"]
    <3>1. /\ SbTypes' /\ tune'.pc = "reread" /\ tune'.mask = tune.mask /\ tune'.sbp = tune.sbp
          /\ tune'.wrote = tune.wrote /\ tune'.wasmounted = tune.wasmounted
          /\ tune'.force = tune.force /\ tune'.first = tune.first
          /\ tune'.fs_features = tune.fs_features
      BY <1>1, <2>2 DEF SbTypes
    <3>2. ClearsAll \/ Fixed(tune.sbp, tune.first[1])
      BY <2>1 DEF SbInv, FeaturesInv
    <3>3. FeaturesInv'
      BY <1>a, <3>1, <3>2
    <3> QED  BY <2>1, <3>1, <3>3 DEF SbInv, Reread, TuneInv
  <2> DEFINE w  == tune.fs_features[tune.word]
             ed == edit_one(tune.sbp.features, w)
             new == [tune.sbp EXCEPT !.features = ed.set]
             k  == tune.word + 1
  <2>3. CASE ed.ret # "ok" /\ TuneExit(ed.ret)
    <3> HIDE DEF ed
    <3> QED  BY <1>2, <2>1, <2>3
  <2>4. CASE /\ ~(tune.word > Len(tune.fs_features)) /\ ed.ret = "ok"
             /\ tune' = [tune EXCEPT !.word = k, !.sbp = new]
    <3>1. IsSb(tune.sbp) /\ (ClearsAll \/ Fixed(tune.sbp, tune.first[1])) /\ tune.word \in Nat \ {0}
      BY <1>1, <2>1 DEF SbTypes, SbInv, FeaturesInv
    <3>2. tune.word \in DOMAIN tune.fs_features
      <4>1. tune.fs_features \in Seq([neg : BOOLEAN, name : STRING])
        BY <1>1, TuneAssumption DEF SbTypes
      <4>2. DOMAIN tune.fs_features = 1 .. Len(tune.fs_features) /\ Len(tune.fs_features) \in Nat
        BY <4>1, LenProperties
      <4> QED  BY <2>4, <3>1, <4>2
    <3>3. ClearsAll \/ ed.set \ ok_features = tune.sbp.features \ ok_features
      <4>1. CASE w.name = "none"
        BY <3>2, <4>1 DEF ClearsAll
      <4>2. CASE w.name # "none" /\ w.name \in ok_features
        <5> DEFINE nm == w.name  F == tune.sbp.features
        <5>1. ed.set = F \ {nm} \/ ed.set = F \cup {nm}
          BY <2>4, <4>2 DEF edit_one
        <5>2. nm \in ok_features
          BY <4>2
        <5> HIDE DEF nm, F, ed
        <5>3. ed.set \ ok_features = F \ ok_features
          BY <5>1, <5>2
        <5> QED  BY <5>3 DEF F
      <4>3. w.name = "none" \/ w.name \in ok_features
        BY <2>4 DEF edit_one
      <4> QED  BY <4>1, <4>2, <4>3
    <3> DEFINE f == ed.set
    <3>4. IsSb(new) /\ new.label = tune.sbp.label /\ new.features = f
      <4> DEFINE lab == tune.sbp.label  cno == tune.sbp.cno  mag == tune.sbp.magic  sum == tune.sbp.sum
      <4>1. new = [tune.sbp EXCEPT !.features = f]
        OBVIOUS
      <4>2. tune.sbp = [label |-> lab, features |-> tune.sbp.features, cno |-> cno, magic |-> mag, sum |-> sum]
        BY <3>1 DEF IsSb
      <4>3. mag \in BOOLEAN
        BY <3>1 DEF IsSb
      <4> HIDE DEF lab, cno, mag, sum, f, new
      <4>4. new = [label |-> lab, features |-> f, cno |-> cno, magic |-> mag, sum |-> sum]
        BY <4>1, <4>2
      <4>5. IsSb(new) /\ new.label = lab /\ new.features = f
        BY <4>3, <4>4 DEF IsSb
      <4> QED  BY <4>5 DEF lab
    <3>5. k \in Nat \ {0}
      BY <3>1
    <3> HIDE DEF w, ed, new, k
    <3>6. /\ SbTypes' /\ tune'.pc = "edit" /\ tune'.mask = tune.mask /\ tune'.sbp = new
          /\ tune'.wrote = tune.wrote /\ tune'.wasmounted = tune.wasmounted
          /\ tune'.force = tune.force /\ tune'.first = tune.first
          /\ tune'.fs_features = tune.fs_features
      BY <1>1, <2>1, <2>4, <3>4, <3>5 DEF SbTypes
    <3>7. ClearsAll \/ Fixed(new, tune.first[1])
      BY <3>1, <3>3, <3>4 DEF Fixed
    <3>8. FeaturesInv'
      BY <1>a, <3>6, <3>7
    <3> QED  BY <2>1, <3>4, <3>6, <3>8 DEF SbInv, Reread, TuneInv
  <2> QED  BY <1>b, <2>2, <2>3, <2>4 DEF nilfs_edit_feature
<1>6. CASE TuneReread
  <2>1. tune.pc = "reread" /\ ~tune.wrote
    BY <1>1, <1>6 DEF TuneReread, SbInv, TuneInv, SbTypes
  <2>2. CASE TuneExit("cannot write")
    BY <1>2, <2>1, <2>2
  <2>3. CASE tune' = [tune EXCEPT !.pc = "write1", !.sbps = sbs, !.since = tune.commits]
    <3>1. /\ SbTypes' /\ tune'.pc = "write1" /\ tune'.mask = tune.mask /\ tune'.sbp = tune.sbp
          /\ tune'.sbps = sbs /\ tune'.since = tune.commits /\ tune'.commits = tune.commits
          /\ tune'.wrote = tune.wrote /\ tune'.wasmounted = tune.wasmounted
          /\ tune'.force = tune.force /\ tune'.first = tune.first
          /\ tune'.fs_features = tune.fs_features
      BY <1>1, <2>3 DEF SbTypes
    <3>2. Reread'
      BY <1>1, <3>1 DEF Reread, SbTypes
    <3>3. FeaturesInv'
      BY <2>1, <3>1 DEF SbInv, FeaturesInv, ClearsAll
    <3> QED  BY <2>1, <3>1, <3>2, <3>3 DEF SbInv, TuneInv
  <2> QED  BY <1>6, <2>2, <2>3 DEF TuneReread
<1> QED  BY <1>3, <1>4, <1>5, <1>b, <1>6

\* A copy is written: its own contents, with the fields asked for replaced.
LEMMA TuneWrites ==
    ASSUME SbInv, NEW i \in 1..2, TuneWrite(i), tune.sbps[i].magic
    PROVE  /\ IsSb(masked(i)) /\ masked(i).sum = TRUE
           /\ masked(i).cno = tune.sbps[i].cno /\ masked(i).magic = tune.sbps[i].magic
           /\ masked(i).label =
                 IF "label" \in tune.mask THEN tune.sbp.label ELSE tune.sbps[i].label
           /\ masked(i).features =
                 IF "features" \in tune.mask THEN tune.sbp.features ELSE tune.sbps[i].features
<1> DEFINE l == IF "label" \in tune.mask THEN tune.sbp.label ELSE tune.sbps[i].label
           f == IF "features" \in tune.mask THEN tune.sbp.features ELSE tune.sbps[i].features
           g == TRUE
           s == tune.sbps[i]
<1>1. IsSb(s)
  BY DEF SbInv, SbTypes, IsPair
<1>2. masked(i) = [s EXCEPT !.label = l, !.features = f, !.sum = g]
  BY DEF masked
<1>3. g = TRUE
  OBVIOUS
<1> HIDE DEF l, f, g, s
<1>4. /\ [s EXCEPT !.label = l, !.features = f, !.sum = g] =
           [label |-> l, features |-> f, cno |-> s.cno,
            magic |-> s.magic, sum |-> g]
      /\ s.magic \in BOOLEAN
  BY ONLY <1>1, SbSummed
<1>5. masked(i) = [label |-> l, features |-> f, cno |-> s.cno,
                   magic |-> s.magic, sum |-> g]
  BY <1>2, <1>4
<1>6. /\ IsSb(masked(i)) /\ masked(i).sum = g
      /\ masked(i).cno = s.cno /\ masked(i).magic = s.magic
      /\ masked(i).label = l /\ masked(i).features = f
  BY <1>4, <1>5 DEF IsSb
<1> QED  BY <1>3, <1>6 DEF l, f, s

\* Writing a copy keeps the invariant, and leaves alone what it must.
LEMMA WriteKeeps ==
    ASSUME SbInv, NEW i \in 1..2, TuneWrite(i)
    PROVE  /\ SbInv'
           /\ tune.commits = tune.since => \A j \in 1..2 :
                 /\ sbs'[j].cno = sbs[j].cno /\ sbs'[j].magic = sbs[j].magic
                 /\ "label" \notin tune.mask => sbs'[j].label = sbs[j].label
                 /\ "features" \notin tune.mask => sbs'[j].features = sbs[j].features
<1>1. SbTypes /\ IsPair(sbs) /\ IsPair(tune.sbps)
  BY DEF SbInv, SbTypes
<1>2. tune.pc = IF i = 1 THEN "write1" ELSE "write2"
  BY DEF TuneWrite
<1>3. /\ \A j \in 1..2 : tune.sbps[j].magic = sbs[j].magic
      /\ tune.since <= tune.commits /\ tune.mask # {}
      /\ "label" \in tune.mask => tune.sbp.label = "b"
      /\ tune.commits = tune.since => tune.sbps[i] = sbs[i]
      /\ tune.wasmounted => tune.force
      /\ i = 2 => Tuned(1)
  BY <1>2 DEF SbInv, Reread, TuneInv
<1>4. CASE TuneExit("cannot write") /\ UNCHANGED sbs
  <2>1. tune' = [tune EXCEPT !.pc = "exit", !.ret = "cannot write"]
    BY <1>4 DEF TuneExit
  <2>2. /\ SbTypes' /\ tune'.pc = "exit" /\ tune'.ret = "cannot write" /\ tune'.mask = tune.mask
        /\ tune'.wasmounted = tune.wasmounted /\ tune'.force = tune.force
        /\ tune'.first = tune.first /\ tune'.fs_features = tune.fs_features
    BY <1>1, <1>4, <2>1 DEF SbTypes
  <2>a. FeaturesInv'
    BY <1>4, <2>2 DEF SbInv, FeaturesInv, ClearsAll
  <2>3. SbInv'
    BY <1>3, <2>2, <2>a DEF SbInv, Reread, TuneInv
  <2> QED  BY <1>4, <2>3
<1>5. CASE /\ sbs' = IF tune.sbps[i].magic THEN [sbs EXCEPT ![i] = masked(i)] ELSE sbs
           /\ tune' = [tune EXCEPT !.pc = write_next(i), !.wrote = @ \/ tune.sbps[i].magic,
                                   !.ret = IF write_next(i) = "exit" THEN "ok" ELSE @]
  <2>1. tune.sbps[i].magic =>
           /\ IsSb(masked(i)) /\ masked(i).sum = TRUE
           /\ masked(i).cno = tune.sbps[i].cno /\ masked(i).magic = tune.sbps[i].magic
           /\ masked(i).label =
                 IF "label" \in tune.mask THEN tune.sbp.label ELSE tune.sbps[i].label
           /\ masked(i).features =
                 IF "features" \in tune.mask THEN tune.sbp.features ELSE tune.sbps[i].features
    BY TuneWrites
  <2>2. /\ sbs'[i] = IF tune.sbps[i].magic THEN masked(i) ELSE sbs[i]
        /\ \A j \in 1..2 : j # i => sbs'[j] = sbs[j]
        /\ sbs' = [j \in 1..2 |-> sbs'[j]]
    BY <1>1, <1>5 DEF IsPair
  <2>3. IsPair(sbs')
    BY <1>1, <2>1, <2>2 DEF IsPair
  <2>4. \A j \in 1..2 : sbs'[j].magic = sbs[j].magic
    BY <1>3, <2>1, <2>2
  <2>5. write_next(i) \in {"write2", "exit"} /\ (write_next(i) = "exit" <=> i = 2)
    BY DEF write_next
  <2>6. tune.sbps[i].magic \in BOOLEAN
    BY <1>1 DEF IsPair, IsSb
  <2>7. /\ SbTypes' /\ tune'.pc = write_next(i) /\ tune'.mask = tune.mask
        /\ tune'.sbp = tune.sbp /\ tune'.sbps = tune.sbps
        /\ tune'.commits = tune.commits /\ tune'.since = tune.since
        /\ tune'.wasmounted = tune.wasmounted /\ tune'.force = tune.force
        /\ tune'.first = tune.first /\ tune'.fs_features = tune.fs_features
        /\ write_next(i) = "exit" => tune'.ret = "ok"
    <3> DEFINE pc == write_next(i)
               wrote == tune.wrote \/ tune.sbps[i].magic
               ret == IF write_next(i) = "exit" THEN "ok" ELSE tune.ret
    <3>1. tune' = [tune EXCEPT !.pc = pc, !.wrote = wrote, !.ret = ret]
      BY <1>1, <1>5 DEF SbTypes
    <3>2. pc \in {"write2", "exit"} /\ wrote \in BOOLEAN /\ (pc = "exit" => ret = "ok")
      BY <1>1, <2>5, <2>6 DEF SbTypes
    <3> HIDE DEF pc, wrote, ret
    <3>3. /\ SbTypes' /\ tune'.pc = pc /\ tune'.mask = tune.mask
          /\ tune'.sbp = tune.sbp /\ tune'.sbps = tune.sbps
          /\ tune'.commits = tune.commits /\ tune'.since = tune.since
          /\ tune'.wasmounted = tune.wasmounted /\ tune'.force = tune.force
          /\ tune'.first = tune.first /\ tune'.fs_features = tune.fs_features
          /\ tune'.ret = ret
      BY <1>1, <2>3, <3>1, <3>2 DEF SbTypes
    <3> QED  BY <3>2, <3>3 DEF pc
  <2>8. Tuned(i)'
    BY <1>3, <2>1, <2>2, <2>4, <2>7 DEF Tuned
  <2>9. i = 2 => Tuned(1)'
    BY <1>3, <2>2, <2>7 DEF Tuned
  <2>10. Reread'
    BY <1>2, <1>3, <2>2, <2>4, <2>5, <2>7 DEF SbInv, Reread
  <2>11. TuneInv'
    <3>1. (i = 1 => Tuned(1)') /\ (i = 2 => Tuned(1)' /\ Tuned(2)')
      BY <2>8, <2>9
    <3>2. i = 1 \/ i = 2
      OBVIOUS
    <3> QED  BY <1>3, <2>5, <2>7, <3>1, <3>2 DEF TuneInv
  <2>12. tune.commits = tune.since => \A j \in 1..2 :
                 /\ sbs'[j].cno = sbs[j].cno /\ sbs'[j].magic = sbs[j].magic
                 /\ "label" \notin tune.mask => sbs'[j].label = sbs[j].label
                 /\ "features" \notin tune.mask => sbs'[j].features = sbs[j].features
    BY <1>3, <2>1, <2>2, <2>4
  <2>13. FeaturesInv'
    <3>1. /\ tune.first[2].features = tune.first[1].features
          /\ ~ClearsAll => /\ \A j \in 1..2 : Fixed(sbs[j], tune.first[1])
                           /\ Fixed(tune.sbp, tune.first[1])
                           /\ \A j \in 1..2 : Fixed(tune.sbps[j], tune.first[1])
      BY <1>2 DEF SbInv, FeaturesInv
    <3>2. ~ClearsAll => \A j \in 1..2 : Fixed(sbs'[j], tune.first[1])
      BY <2>1, <2>2, <3>1 DEF Fixed
    <3>3. ClearsAll' <=> ClearsAll
      BY <2>7 DEF ClearsAll
    <3> QED  BY <2>7, <3>1, <3>2, <3>3 DEF FeaturesInv
  <2> QED  BY <2>7, <2>10, <2>11, <2>12, <2>13 DEF SbInv
<1> QED  BY <1>4, <1>5 DEF TuneWrite

\* The kernel commits to one copy at a time.
LEMMA CommitKeeps ==
    ASSUME SbInv, KernelCommit
    PROVE  SbInv'
<1>1. SbTypes /\ IsPair(sbs)
  BY DEF SbInv, SbTypes
<1>2. PICK i \in 1..2 : sbs' = [sbs EXCEPT ![i].cno = 3 + tune.commits, ![i].sum = TRUE]
  BY DEF KernelCommit
<1> DEFINE s == [sbs[i] EXCEPT !.cno = 3 + tune.commits, !.sum = TRUE]
<1>3. sbs' = [sbs EXCEPT ![i] = s]
  BY <1>1, <1>2 DEF IsPair
<1>4. s = [label |-> sbs[i].label, features |-> sbs[i].features, cno |-> 3 + tune.commits,
           magic |-> sbs[i].magic, sum |-> TRUE]
  <2>1. IsSb(sbs[i])
    BY <1>1 DEF IsPair
  <2> QED  BY <2>1, SbCommitted
<1> HIDE DEF s
<1>5. /\ IsSb(s) /\ s.label = sbs[i].label /\ s.features = sbs[i].features
      /\ s.magic = sbs[i].magic /\ s.sum = TRUE
  BY <1>1, <1>4 DEF IsSb, IsPair
<1>6. /\ sbs'[i] = s /\ (\A j \in 1..2 : j # i => sbs'[j] = sbs[j])
      /\ sbs' = [j \in 1..2 |-> sbs'[j]]
  BY <1>1, <1>3 DEF IsPair
<1>7. IsPair(sbs')
  BY <1>1, <1>5, <1>6 DEF IsPair
<1>8. /\ SbTypes' /\ tune'.pc = tune.pc /\ tune'.mask = tune.mask
      /\ tune'.sbp = tune.sbp /\ tune'.sbps = tune.sbps /\ tune'.ret = tune.ret
      /\ tune'.commits = tune.commits + 1 /\ tune'.since = tune.since
      /\ tune'.wrote = tune.wrote /\ tune'.wasmounted = tune.wasmounted
      /\ tune'.force = tune.force /\ tune'.first = tune.first
      /\ tune'.fs_features = tune.fs_features
  BY <1>1, <1>7 DEF SbTypes, KernelCommit
<1>9. \A j \in 1..2 : /\ sbs'[j].magic = sbs[j].magic /\ sbs'[j].label = sbs[j].label
                      /\ sbs'[j].features = sbs[j].features /\ (sbs[j].sum => sbs'[j].sum)
  BY <1>5, <1>6
<1>10. (Tuned(1) => Tuned(1)') /\ (Tuned(2) => Tuned(2)')
  BY <1>8, <1>9 DEF Tuned
<1>11. tune.commits \in Nat /\ tune.since \in Nat
  BY <1>1 DEF SbTypes
<1>12. Reread'
  BY <1>8, <1>9, <1>11 DEF SbInv, Reread
<1>13. TuneInv'
  BY <1>8, <1>10 DEF SbInv, TuneInv
<1>14. FeaturesInv'
  BY <1>8, <1>9 DEF SbInv, FeaturesInv, Fixed, ClearsAll
<1> QED  BY <1>8, <1>12, <1>13, <1>14 DEF SbInv

\* Every step keeps the invariant.
LEMMA SbNextInv == SbInv /\ [SbNext]_<<sbs, tune, odev>> => SbInv'
<1> SUFFICES ASSUME SbInv, [SbNext]_<<sbs, tune, odev>> PROVE SbInv'
  OBVIOUS
<1>1. CASE sbs' = sbs /\ tune' = tune
  <2>1. SbTypes'
    BY <1>1 DEF SbInv, SbTypes
  <2>2. FeaturesInv'
    BY <1>1 DEF SbInv, FeaturesInv, ClearsAll
  <2> QED  BY <1>1, <2>1, <2>2 DEF SbInv, Reread, TuneInv, Tuned
<1>2. CASE TuneCheck \/ TuneEdit \/ nilfs_edit_feature \/ TuneReread \/ TuneKilled
  <2>1. sbs' = sbs
    BY <1>2 DEF TuneCheck, TuneEdit, nilfs_edit_feature, TuneReread, TuneKilled
  <2> QED  BY <1>2, <2>1, TuneGoesOn
<1>3. CASE \E i \in 1..2 : TuneWrite(i)
  BY <1>3, WriteKeeps
<1>4. CASE KernelCommit
  BY <1>4, CommitKeeps
<1> QED  BY <1>1, <1>2, <1>3, <1>4 DEF SbNext, TuneStep

\* The super block has two copies.
LEMMA TwoCopies == SbInv => Len(sbs) = 2
<1> SUFFICES ASSUME SbInv PROVE Len(sbs) = 2
  OBVIOUS
<1>1. sbs = [i \in 1..2 |-> sbs[i]]
  BY DEF SbInv, SbTypes, IsPair
<1> DEFINE S == {sbs[i] : i \in 1..2}
<1>2. sbs \in [1..2 -> S]
  BY <1>1
<1> HIDE DEF S
<1>3. sbs \in Seq(S) /\ DOMAIN sbs = 1..2
  <2>1. \A i \in 1..2 : sbs[i] \in S
    BY <1>2
  <2>2. 2 \in Nat
    OBVIOUS
  <2>3. [i \in 1..2 |-> sbs[i]] \in Seq(S)
    BY <2>1, <2>2, IsASeq
  <2> QED  BY <1>1, <1>2, <2>3
<1>4. DOMAIN sbs = 1..Len(sbs) /\ Len(sbs) \in Nat
  BY <1>3, LenProperties
<1> QED  BY <1>3, <1>4

\* When nilfs-tune ends, what it reports is what it has done to both copies,
\* whenever the kernel mounts the device and commits meanwhile: success means
\* that every readable copy has the new values, a refusal that nothing was
\* written, and a device found mounted is written only if that was forced.
\* No edit changes a feature that nilfs-tune cannot convert, unless all of them
\* are cleared by "none".
THEOREM TuneIsSound == SbSpec => []TuneSound
<1>1. SbInit => SbInv
  BY SbInitInv
<1>2. SbInv /\ [SbNext]_<<sbs, tune, odev>> => SbInv'
  BY SbNextInv
<1>3. SbInv => TuneAnswer
  <2> SUFFICES ASSUME SbInv, tune.pc = "exit" PROVE TuneAnswer
    BY DEF TuneAnswer
  <2>1. TuneInv
    BY DEF SbInv
  <2>2. ASSUME tune.ret = "ok" /\ tune.mask # {}, NEW i \in 1..2, sbs[i].magic
        PROVE  /\ sbs[i].sum
               /\ "label" \in tune.mask => sbs[i].label = "b"
               /\ "features" \in tune.mask => sbs[i].features = tune.sbp.features
    <3>1. Tuned(1) /\ Tuned(2) /\ ("label" \in tune.mask => tune.sbp.label = "b")
      BY <2>1, <2>2 DEF TuneInv
    <3>2. i = 1 \/ i = 2
      OBVIOUS
    <3> QED  BY <2>2, <3>1, <3>2 DEF Tuned
  <2>3. tune.wrote => tune.ret \in {"ok", "cannot write", "killed"}
    BY <2>1 DEF TuneInv
  <2>4. tune.wrote /\ tune.wasmounted => tune.force
    BY <2>1 DEF TuneInv
  <2> QED  BY <2>2, <2>3, <2>4 DEF TuneAnswer
<1>4. SbInv => TuneFeaturesAllowed
  <2> SUFFICES ASSUME SbInv, ~ClearsAll, NEW i \in 1..2
               PROVE  sbs[i].features \ ok_features = tune.first[i].features \ ok_features
    BY DEF TuneFeaturesAllowed, ClearsAll
  <2>1. tune.first[i].features = tune.first[1].features
    <3>1. i = 1 \/ i = 2
      OBVIOUS
    <3> QED  BY <3>1 DEF SbInv, FeaturesInv
  <2>2. Fixed(sbs[i], tune.first[1])
    BY DEF SbInv, FeaturesInv
  <2> QED  BY <2>1, <2>2 DEF Fixed
<1>5. SbInv => TuneSound
  BY <1>3, <1>4 DEF TuneSound
<1> QED  BY <1>1, <1>2, <1>5, PTL DEF SbSpec

\* nilfs-tune changes the fields it was asked to change and no others, in
\* either copy: the position of the newest log stays what the kernel made it,
\* unless the kernel commits between the second reading and the writing.
THEOREM TuneLosesNoLog == SbSpec => TuneKeepsLogs
<1>1. SbInit => SbInv
  BY SbInitInv
<1>2. SbInv /\ [SbNext]_<<sbs, tune, odev>> => SbInv'
  BY SbNextInv
<1>3. SbInv /\ [SbNext]_<<sbs, tune, odev>> =>
        [\A i \in 1 .. Len(sbs) :
          TuneStep /\ tune.commits = tune.since =>
              /\ sbs'[i].cno = sbs[i].cno /\ sbs'[i].magic = sbs[i].magic
              /\ "label" \notin tune.mask => sbs'[i].label = sbs[i].label
              /\ "features" \notin tune.mask => sbs'[i].features = sbs[i].features
        ]_<<sbs, tune, odev>>
  <2> SUFFICES ASSUME SbInv, NEW i \in 1..Len(sbs), TuneStep, tune.commits = tune.since
               PROVE  /\ sbs'[i].cno = sbs[i].cno /\ sbs'[i].magic = sbs[i].magic
                      /\ "label" \notin tune.mask => sbs'[i].label = sbs[i].label
                      /\ "features" \notin tune.mask => sbs'[i].features = sbs[i].features
    OBVIOUS
  <2>1. i \in 1..2
    BY TwoCopies
  <2>2. CASE TuneCheck \/ TuneEdit \/ nilfs_edit_feature \/ TuneReread \/ TuneKilled
    <3>1. sbs' = sbs
      BY <2>2 DEF TuneCheck, TuneEdit, nilfs_edit_feature, TuneReread, TuneKilled
    <3> QED  BY <3>1
  <2>3. CASE \E k \in 1..2 : TuneWrite(k)
    BY <2>1, <2>3, WriteKeeps
  <2> QED  BY <2>2, <2>3 DEF TuneStep
<1> QED  BY <1>1, <1>2, <1>3, PTL DEF SbSpec, TuneKeepsLogs

-----------------------------------------------------------------------------
(***************************************************************************)
(* nilfs_open().                                                           *)
(***************************************************************************)
FsDevices == {FsReal[n] : n \in FsNames}

FsoRecord ==
    [pc : {"raw", "find", "open", "opened", "failed", "closed"},
     dev : FsNames \cup {"none"}, dir : FsDirs \cup {"none"}, raw : BOOLEAN,
     mode : {"none", "rdonly", "rdwr"}, gclk : BOOLEAN,
     n_dev : FsNames \cup {"none"}, n_ioc : FsDirs \cup {"none"},
     devfd : FsDevices \cup {"none"}, iocfd : FsDevices \cup {"none"},
     sem : FsDevices \cup {"none"}, changes : Nat]

FsoTypes == mtable \in Seq(FsEntries) /\ fso \in FsoRecord

\* The names found, and the device opened by then: the one asked for, or the
\* one the table named, which the same table names again.
NamesInv ==
    /\ fso.pc = "find" /\ fso.raw /\ fso.dev # "none" => fso.devfd = FsReal[fso.dev]
    /\ fso.pc = "find" /\ fso.raw /\ fso.dev = "none" /\ fso.changes = 0 =>
          find_fs("rw") # 0 /\ fso.devfd = FsReal[mtable[find_fs("rw")].name]
    /\ fso.pc = "open" =>
          /\ fso.n_dev \in FsNames /\ fso.mode # "none"
          /\ fso.dev # "none" => FsReal[fso.n_dev] = FsReal[fso.dev]
          /\ fso.raw /\ (fso.dev # "none" \/ fso.changes = 0) => fso.devfd = FsReal[fso.n_dev]

\* The inductive invariant.
FsoInv == FsoTypes /\ NamesInv /\ OpenedTogether

\* A change of one step of nilfs_open() gives a record of the same kind.
LEMMA FsoFields ==
    ASSUME NEW r \in FsoRecord
    PROVE  /\ r.pc \in {"raw", "find", "open", "opened", "failed", "closed"}
           /\ r.dev \in FsNames \cup {"none"} /\ r.dir \in FsDirs \cup {"none"}
           /\ r.raw \in BOOLEAN /\ r.gclk \in BOOLEAN /\ r.mode \in {"none", "rdonly", "rdwr"}
           /\ r.n_dev \in FsNames \cup {"none"} /\ r.n_ioc \in FsDirs \cup {"none"}
           /\ r.devfd \in FsDevices \cup {"none"} /\ r.iocfd \in FsDevices \cup {"none"}
           /\ r.sem \in FsDevices \cup {"none"} /\ r.changes \in Nat
BY DEF FsoRecord

\* A search of the mount table from its end finds a mount of the device, in
\* the directory asked for.
LEMMA FindMatches ==
    ASSUME FsoTypes, NEW opt, find_fs(opt) # 0
    PROVE  LET e == mtable[find_fs(opt)]
           IN /\ e.name \in FsNames /\ e.dir \in FsDirs
              /\ fso.dev # "none" => FsReal[e.name] = FsReal[fso.dev]
<1> DEFINE Fits(e) == /\ e.fs = "nilfs" /\ e.opt = opt
                      /\ fso.dir # "none" => e.dir = fso.dir
                      /\ fso.dev # "none" => FsReal[e.name] = FsReal[fso.dev]
           I == {i \in 1..Len(mtable) : Fits(mtable[i])}
<1>1. mtable \in Seq(FsEntries) /\ Len(mtable) \in Nat
  BY DEF FsoTypes
<1>2. find_fs(opt) = IF I # {} THEN Max(I) ELSE 0
  BY DEF find_fs, SelectLastInSeq
<1>3. I # {} /\ find_fs(opt) = Max(I)
  BY <1>2
<1>4. Max(I) \in I
  <2>1. I \in SUBSET (0..Len(mtable))
    BY <1>1
  <2> HIDE DEF I
  <2>2. \E g \in I : \A t \in I : t <= g
    BY <1>1, <1>3, <2>1, HasGreatest
  <2>3. \A g, t \in I : t <= g <=> g >= t
    BY <1>1, <2>1
  <2> QED  BY <2>2, <2>3 DEF Max
<1> DEFINE e == mtable[find_fs(opt)]
<1>5. e \in FsEntries /\ Fits(e)
  BY <1>1, <1>3, <1>4
<1> HIDE DEF e
<1>6. e \in [fs : {"nilfs"}, name : FsNames, dir : FsDirs, opt : {"rw", "ro"}]
  BY <1>5 DEF FsEntries
<1>7. e.name \in FsNames /\ e.dir \in FsDirs /\ (fso.dev # "none" => FsReal[e.name] = FsReal[fso.dev])
  BY <1>5, <1>6
<1> QED  BY <1>7 DEF e

\* The beginning.
LEMMA FsoInitInv == FsoInit => FsoInv
<1> SUFFICES ASSUME FsoInit PROVE FsoInv
  OBVIOUS
<1>1. mtable \in Seq(FsEntries)
  <2>1. mtable \in UNION {[1..m -> FsEntries] : m \in 0..MaxMounts}
    BY DEF FsoInit, BoundedSeq, SeqOf
  <2>2. PICK m \in 0..MaxMounts : mtable \in [1..m -> FsEntries]
    BY <2>1
  <2>3. m \in Nat
    BY FsAssumption
  <2>4. mtable = [i \in 1..m |-> mtable[i]] /\ \A i \in 1..m : mtable[i] \in FsEntries
    BY <2>2
  <2>5. [i \in 1..m |-> mtable[i]] \in Seq(FsEntries)
    BY <2>3, <2>4, IsASeq
  <2> QED  BY <2>4, <2>5
<1>2. PICK dev \in FsNames \cup {"none"}, dir \in FsDirs \cup {"none"},
           raw \in BOOLEAN, gclk \in BOOLEAN, mode \in {"none", "rdonly", "rdwr"} :
           fso = [pc |-> "raw", dev |-> dev, dir |-> dir, raw |-> raw, mode |-> mode,
                  gclk |-> gclk, n_dev |-> "none", n_ioc |-> "none", devfd |-> "none",
                  iocfd |-> "none", sem |-> "none", changes |-> 0]
  BY DEF FsoInit
<1>3. fso \in FsoRecord
  BY <1>2 DEF FsoRecord
<1>4. fso.pc = "raw"
  BY <1>2
<1> QED  BY <1>1, <1>3, <1>4 DEF FsoInv, FsoTypes, NamesInv, OpenedTogether

\* A failure closes what was opened.
LEMMA FailKeeps ==
    ASSUME FsoTypes, FsoFail, mtable' = mtable
    PROVE  FsoInv'
<1>1. fso' \in FsoRecord /\ fso'.pc = "failed" /\ fso'.devfd = "none" /\ fso'.iocfd = "none"
  BY DEF FsoFail, FsoTypes, FsoRecord
<1> QED  BY <1>1 DEF FsoInv, FsoTypes, NamesInv, OpenedTogether

\* The device file is opened: the one given, or the one the table names.
LEMMA RawKeeps ==
    ASSUME FsoInv, FsoOpenRaw
    PROVE  FsoInv'
<1>1. FsoTypes /\ fso.pc = "raw" /\ mtable' = mtable /\ fso \in FsoRecord
  BY DEF FsoInv, FsoTypes, FsoOpenRaw
<1>2. CASE FsoFail
  BY <1>1, <1>2, FailKeeps
<1>3. CASE ~fso.raw /\ fso' = [fso EXCEPT !.pc = "find"]
  <2>1. fso' \in FsoRecord /\ fso'.pc = "find" /\ fso'.raw = fso.raw
    BY <1>1, <1>3 DEF FsoRecord
  <2> QED  BY <1>1, <1>3, <2>1 DEF FsoInv, FsoTypes, NamesInv, OpenedTogether
<1>4. CASE /\ fso.raw /\ (fso.dev # "none" \/ find_fs("rw") > 0)
           /\ LET name == IF fso.dev # "none" THEN fso.dev ELSE mtable[find_fs("rw")].name IN
              fso' = [fso EXCEPT !.pc = "find", !.n_dev = name, !.devfd = FsReal[name],
                        !.n_ioc = IF fso.dev # "none" THEN @ ELSE mtable[find_fs("rw")].dir]
  <2> DEFINE k == find_fs("rw")
             name == IF fso.dev # "none" THEN fso.dev ELSE mtable[k].name
             dir == IF fso.dev # "none" THEN fso.n_ioc ELSE mtable[k].dir
             fd == FsReal[name]
  <2>1. fso.dev = "none" => k # 0 /\ mtable[k].name \in FsNames /\ mtable[k].dir \in FsDirs
    BY <1>1, <1>4, FindMatches
  <2>2. name \in FsNames /\ dir \in FsDirs \cup {"none"}
    BY <1>1, <2>1, FsoFields
  <2>3. fd \in FsDevices
    BY <2>2 DEF FsDevices
  <2>4. fso' = [fso EXCEPT !.pc = "find", !.n_dev = name, !.devfd = fd, !.n_ioc = dir]
    BY <1>1, <1>4 DEF FsoRecord
  <2>5. /\ fso.dev # "none" => fd = FsReal[fso.dev]
        /\ fso.dev = "none" => fd = FsReal[mtable[k].name]
    OBVIOUS
  <2> HIDE DEF name, dir, fd, k
  <2>6. /\ fso' \in FsoRecord /\ fso'.pc = "find" /\ fso'.dev = fso.dev /\ fso'.dir = fso.dir
        /\ fso'.devfd = fd
    BY <1>1, <2>2, <2>3, <2>4 DEF FsoRecord
  <2>7. find_fs("rw")' = k
    BY <1>1, <2>6 DEF find_fs, SelectLastInSeq, k
  <2>8. NamesInv'
    BY <1>1, <2>1, <2>5, <2>6, <2>7 DEF NamesInv
  <2> QED  BY <1>1, <2>6, <2>8 DEF FsoInv, FsoTypes, OpenedTogether
<1> QED  BY <1>2, <1>3, <1>4 DEF FsoOpenRaw

\* The mount is looked up: of the device given, and by the same table of the
\* device that is open.
LEMMA FindKeeps ==
    ASSUME FsoInv, FsoFind
    PROVE  FsoInv'
<1>1. FsoTypes /\ fso.pc = "find" /\ mtable' = mtable /\ fso \in FsoRecord
  BY DEF FsoInv, FsoTypes, FsoFind
<1> DEFINE rw == find_fs("rw")
           k == IF rw = 0 /\ fso.mode = "rdonly" THEN find_fs("ro") ELSE rw
<1>2. CASE fso.mode = "none"
  <2>1. fso' = [fso EXCEPT !.pc = "opened"]
    BY <1>2 DEF FsoFind
  <2>2. fso' \in FsoRecord /\ fso'.pc = "opened" /\ fso'.mode = "none"
    BY <1>1, <1>2, <2>1 DEF FsoRecord
  <2> QED  BY <1>1, <2>2 DEF FsoInv, FsoTypes, NamesInv, OpenedTogether
<1>3. CASE fso.mode # "none" /\ k = 0
  <2>1. FsoFail
    BY <1>3 DEF FsoFind
  <2> QED  BY <1>1, <2>1, FailKeeps
<1>4. CASE fso.mode # "none" /\ k # 0
  <2> DEFINE name == mtable[k].name  dir == mtable[k].dir
  <2>1. fso' = [fso EXCEPT !.pc = "open", !.n_dev = name, !.n_ioc = dir]
    BY <1>4 DEF FsoFind
  <2>2. /\ name \in FsNames /\ dir \in FsDirs
        /\ fso.dev # "none" => FsReal[name] = FsReal[fso.dev]
    BY <1>1, <1>4, FindMatches
  <2>3. rw # 0 => name = mtable[rw].name
    OBVIOUS
  <2>4. fso.raw /\ (fso.dev # "none" \/ fso.changes = 0) => fso.devfd = FsReal[name]
    <3>1. CASE fso.dev # "none"
      BY <1>1, <2>2, <3>1 DEF FsoInv, NamesInv
    <3>2. CASE fso.dev = "none"
      BY <1>1, <2>3, <3>2 DEF FsoInv, NamesInv
    <3> QED  BY <3>1, <3>2
  <2> HIDE DEF name, dir
  <2>5. /\ fso' \in FsoRecord /\ fso'.pc = "open" /\ fso'.n_dev = name
        /\ fso'.dev = fso.dev /\ fso'.raw = fso.raw /\ fso'.mode = fso.mode
        /\ fso'.changes = fso.changes /\ fso'.devfd = fso.devfd
    BY <1>1, <2>1, <2>2 DEF FsoRecord
  <2>6. NamesInv'
    BY <1>4, <2>2, <2>4, <2>5 DEF NamesInv
  <2> QED  BY <1>1, <2>5, <2>6 DEF FsoInv, FsoTypes, OpenedTogether
<1> QED  BY <1>2, <1>3, <1>4

\* The mount point is opened if it still is a mount of that device.
LEMMA OpenKeeps ==
    ASSUME FsoInv, FsoOpenIoc
    PROVE  FsoInv'
<1>1. FsoTypes /\ fso.pc = "open" /\ mtable' = mtable /\ fso \in FsoRecord
  BY DEF FsoInv, FsoTypes, FsoOpenIoc
<1>2. CASE FsoFail
  BY <1>1, <1>2, FailKeeps
<1>3. CASE /\ same_device(FsAt(fso.n_ioc))
           /\ fso' = [fso EXCEPT !.pc = "opened", !.iocfd = FsAt(fso.n_ioc),
                                 !.sem = IF fso.gclk THEN FsReal[fso.n_dev] ELSE @]
  <2> DEFINE fs == FsReal[fso.n_dev]
             sem == IF fso.gclk THEN FsReal[fso.n_dev] ELSE fso.sem
  <2>1. FsAt(fso.n_ioc) = fs
    BY <1>3 DEF same_device
  <2>2. /\ fso.n_dev \in FsNames
        /\ fso.dev # "none" => fs = FsReal[fso.dev]
        /\ fso.raw /\ (fso.dev # "none" \/ fso.changes = 0) => fso.devfd = fs
    BY <1>1 DEF FsoInv, NamesInv
  <2>3. fs \in FsDevices /\ fs # "other"
    BY <2>2, FsAssumption DEF FsDevices, FsNames
  <2>4. sem \in FsDevices \cup {"none"} /\ (fso.gclk => sem = fs)
    BY <1>1, <2>3, FsoFields
  <2>5. fso' = [fso EXCEPT !.pc = "opened", !.iocfd = fs, !.sem = sem]
    BY <1>1, <1>3, <2>1 DEF FsoRecord
  <2> HIDE DEF fs, sem
  <2>6. /\ fso' \in FsoRecord /\ fso'.pc = "opened" /\ fso'.iocfd = fs /\ fso'.sem = sem
        /\ fso'.dev = fso.dev /\ fso'.raw = fso.raw /\ fso'.gclk = fso.gclk
        /\ fso'.changes = fso.changes /\ fso'.devfd = fso.devfd
    BY <1>1, <2>3, <2>4, <2>5 DEF FsoRecord
  <2>7. OpenedTogether'
    BY <2>2, <2>3, <2>4, <2>6 DEF OpenedTogether
  <2> QED  BY <1>1, <2>6, <2>7 DEF FsoInv, FsoTypes, NamesInv
<1> QED  BY <1>2, <1>3 DEF FsoOpenIoc

\* The mount table changes under the call.
LEMMA ChangeKeeps ==
    ASSUME FsoInv, MountsChange
    PROVE  FsoInv'
<1>1. FsoTypes /\ fso.pc \in {"raw", "find", "open"} /\ fso \in FsoRecord
  BY DEF FsoInv, FsoTypes, MountsChange
<1>2. mtable \in Seq(FsEntries) /\ fso.changes \in Nat
  BY <1>1, FsoFields DEF FsoTypes
<1>3. mtable' \in Seq(FsEntries)
  <2>1. CASE \E e \in FsEntries : mtable' = Append(mtable, e)
    BY <1>2, <2>1
  <2>2. CASE \E k \in DOMAIN mtable : mtable' = RemoveAt(mtable, k)
    <3>1. PICK k \in 1..Len(mtable) : mtable' = RemoveAt(mtable, k)
      BY <1>2, <2>2
    <3>2. Len(mtable) \in Nat /\ k \in Nat
      BY <1>2
    <3>3. /\ \A i \in 1..k - 1 : mtable[i] \in FsEntries
          /\ \A i \in k + 1..Len(mtable) : mtable[i] \in FsEntries
      BY <1>2, <3>2
    <3>4. k - 1 \in Int /\ k + 1 \in Int /\ 1 \in Int /\ Len(mtable) \in Int
      BY <3>2
    <3>5. SubSeq(mtable, 1, k - 1) \in Seq(FsEntries) /\ SubSeq(mtable, k + 1, Len(mtable)) \in Seq(FsEntries)
      BY <1>2, <3>3, <3>4, SubSeqProperties
    <3>6. SubSeq(mtable, 1, k - 1) \o SubSeq(mtable, k + 1, Len(mtable)) \in Seq(FsEntries)
      BY <3>5, ConcatProperties
    <3> QED  BY <3>1, <3>6 DEF RemoveAt
  <2> QED  BY <2>1, <2>2 DEF MountsChange
<1>4. fso' = [fso EXCEPT !.changes = @ + 1]
  BY DEF MountsChange
<1>5. /\ fso' \in FsoRecord /\ fso'.pc = fso.pc /\ fso'.changes = fso.changes + 1
      /\ fso'.dev = fso.dev /\ fso'.raw = fso.raw /\ fso'.mode = fso.mode
      /\ fso'.n_dev = fso.n_dev /\ fso'.devfd = fso.devfd
  BY <1>1, <1>2, <1>4 DEF FsoRecord
<1>6. fso'.changes # 0
  BY <1>2, <1>5
<1>7. NamesInv'
  BY <1>5, <1>6 DEF FsoInv, NamesInv
<1> QED  BY <1>1, <1>3, <1>5, <1>7 DEF FsoInv, FsoTypes, OpenedTogether

\* Every step keeps the invariant.
LEMMA FsoNextInv == FsoInv /\ [FsoNext]_fsoVars => FsoInv'
<1> SUFFICES ASSUME FsoInv, [FsoNext]_fsoVars PROVE FsoInv'
  OBVIOUS
<1>1. CASE FsoClose
  <2>1. fso \in FsoRecord /\ mtable' = mtable /\ mtable \in Seq(FsEntries)
    BY <1>1 DEF FsoClose, FsoInv, FsoTypes
  <2>2. fso' \in FsoRecord /\ fso'.pc = "closed"
    BY <1>1, <2>1 DEF FsoClose, FsoRecord
  <2> QED  BY <2>1, <2>2 DEF FsoInv, FsoTypes, NamesInv, OpenedTogether
<1>2. CASE UNCHANGED fsoVars
  <2>1. mtable' = mtable /\ fso' = fso
    BY <1>2 DEF fsoVars
  <2>2. find_fs("rw")' = find_fs("rw")
    BY <2>1 DEF find_fs, SelectLastInSeq
  <2> QED  BY <2>1, <2>2 DEF FsoInv, FsoTypes, NamesInv, OpenedTogether
<1> QED  BY <1>1, <1>2, RawKeeps, FindKeeps, OpenKeeps, ChangeKeeps DEF FsoNext

\* nilfs_open() puts together what belongs together, whatever the names of
\* the devices, the size of the mount table and its changes during the call:
\* mount point, device descriptor and cleaner lock are of one device, the one
\* asked for, and nothing stays open after a failure.
THEOREM OpenIsCoherent == FsoSpec => []OpenedTogether
<1>1. FsoInit => FsoInv
  BY FsoInitInv
<1>2. FsoInv /\ [FsoNext]_fsoVars => FsoInv'
  BY FsoNextInv
<1>3. FsoInv => OpenedTogether
  BY DEF FsoInv
<1> QED  BY <1>1, <1>2, <1>3, PTL DEF FsoSpec

-----------------------------------------------------------------------------
(***************************************************************************)
(* The vector: the array, the list it stands for, and the sizes on the way *)
(* from one to the next.                                                   *)
(***************************************************************************)
IsArray(data, max) == DOMAIN data = 0 .. max - 1

\* The array data of max elements begins with the ne elements of the list.
Holds(data, list, ne, max) ==
    /\ IsArray(data, max)
    /\ list \in Seq(Nat) /\ ne = Len(list) /\ ne <= max
    /\ \A k \in 1 .. ne : data[k - 1] = list[k]

VecTypes ==
    /\ vec = [pc |-> vec.pc, elemsize |-> vec.elemsize, maxelems |-> vec.maxelems,
              nelems |-> vec.nelems, data |-> vec.data, list |-> vec.list, ops |-> vec.ops,
              index |-> vec.index, n |-> vec.n, size |-> vec.size]
    /\ vec.pc \in {"on", "enlarge", "add"}
    /\ vec.elemsize \in Nat \ {0} /\ vec.maxelems \in Nat /\ vec.nelems \in Nat /\ vec.ops \in Nat
    /\ vec.index \in Nat /\ vec.n \in Nat /\ vec.size \in Nat
    /\ INIT_MAXELEMS * vec.elemsize <= SIZE_MAX

\* The call going on: the size the loop has come to, and the room made.
Calling ==
    /\ vec.pc # "on" => vec.index <= vec.nelems
    /\ vec.pc = "enlarge" => vec.size >= vec.maxelems
    /\ vec.pc = "add" => vec.nelems + vec.n <= vec.maxelems

\* The inductive invariant.
VecInv ==
    /\ VecTypes
    /\ Holds(vec.data, vec.list, vec.nelems, vec.maxelems)
    /\ vec.maxelems * vec.elemsize <= SIZE_MAX
    /\ Calling

\* Up to the limit, the next size can be expressed in bytes.
LEMMA LimitIsSafe ==
    ASSUME NEW s \in Nat, NEW e \in Nat \ {0}, NEW f \in Nat \ {0}, NEW m \in Nat,
           s <= (m \div f) \div e
    PROVE  (s * f) * e <= m
<1> DEFINE q == m \div f
<1>1. q \in Nat /\ q * f <= m
  BY SMT
<1>2. q \div e \in Nat /\ (q \div e) * e <= q
  <2> HIDE DEF q
  <2> QED  BY <1>1, SMT
<1> DEFINE r == q \div e
<1>3. r \in Nat /\ r * e <= q /\ s <= r
  BY <1>2
<1> HIDE DEF q, r
<1>4. s * e <= r * e
  BY <1>3, SMT
<1>5. s * e \in Nat /\ s * e <= q
  BY <1>1, <1>3, <1>4
<1>6. (s * e) * f <= q * f
  BY <1>1, <1>5, SMT
<1>7. (s * e) * f = (s * f) * e
  BY SMT
<1> QED  BY <1>1, <1>5, <1>6, <1>7

\* realloc() to no less keeps what the array holds; the array of a cleared
\* vector may have any size.
LEMMA ReallocHolds ==
    ASSUME NEW d, NEW l, NEW ne \in Nat, NEW m \in Nat, NEW s \in Nat,
           Holds(d, l, ne, m), s >= ne
    PROVE  Holds(Realloc(d, s), l, ne, s)
<1>1. \A k \in 1 .. ne : k - 1 \in DOMAIN d /\ k - 1 \in 0 .. s - 1
  BY DEF Holds, IsArray
<1> QED  BY <1>1 DEF Holds, Realloc, IsArray

LEMMA EmptyHolds ==
    ASSUME NEW d, NEW m \in Nat, IsArray(d, m)
    PROVE  Holds(d, <<>>, 0, m)
BY DEF Holds

\* c elements of a list, from element a on; and one list behind another.
LEMMA SliceIs ==
    ASSUME NEW S, NEW l \in Seq(S), NEW a \in Nat \ {0}, NEW b \in Nat, a <= b + 1, b <= Len(l)
    PROVE  /\ SubSeq(l, a, b) \in Seq(S) /\ Len(SubSeq(l, a, b)) = b + 1 - a
           /\ \A k \in 1 .. b + 1 - a : SubSeq(l, a, b)[k] = l[a + k - 1]
<1>1. \A i \in a .. b : l[i] \in S
  OBVIOUS
<1>2. a \in Int /\ b \in Int /\ b - a + 1 = b + 1 - a /\ (a <= b \/ b + 1 - a = 0)
  OBVIOUS
<1> QED  BY <1>1, <1>2, SubSeqProperties

LEMMA JoinIs ==
    ASSUME NEW S, NEW s \in Seq(S), NEW t \in Seq(S)
    PROVE  /\ s \o t \in Seq(S) /\ Len(s \o t) = Len(s) + Len(t)
           /\ \A k \in 1 .. Len(s) + Len(t) : (s \o t)[k] = IF k <= Len(s) THEN s[k] ELSE t[k - Len(s)]
BY ConcatProperties

\* The list with n elements v inserted behind the first index ones.
Inserted(l, index, n, v) ==
    SubSeq(l, 1, index) \o [k \in 1 .. n |-> v] \o SubSeq(l, index + 1, Len(l))

LEMMA InsertedIs ==
    ASSUME NEW l \in Seq(Nat), NEW index \in 0 .. Len(l), NEW n \in Nat, NEW v \in Nat
    PROVE  /\ Inserted(l, index, n, v) \in Seq(Nat) /\ Len(Inserted(l, index, n, v)) = Len(l) + n
           /\ \A k \in 1 .. Len(l) + n : Inserted(l, index, n, v)[k] =
                 IF k <= index THEN l[k] ELSE IF k <= index + n THEN v ELSE l[k - n]
<1> DEFINE A == SubSeq(l, 1, index)
           B == [k \in 1 .. n |-> v]
           C == SubSeq(l, index + 1, Len(l))
<1>1. A \in Seq(Nat) /\ Len(A) = index /\ \A k \in 1 .. index : A[k] = l[k]
  BY SliceIs
<1>2. B \in Seq(Nat) /\ Len(B) = n /\ \A k \in 1 .. n : B[k] = v
  OBVIOUS
<1>3. /\ C \in Seq(Nat) /\ Len(C) = Len(l) - index
      /\ \A k \in 1 .. Len(l) - index : C[k] = l[index + k]
  <2> DEFINE a == index + 1
             b == Len(l)
  <2>1. a \in Nat \ {0} /\ b \in Nat /\ a <= b + 1 /\ b <= Len(l) /\ b + 1 - a = Len(l) - index
        /\ \A k \in 1 .. Len(l) - index : a + k - 1 = index + k
    OBVIOUS
  <2> HIDE DEF a, b
  <2>2. /\ SubSeq(l, a, b) \in Seq(Nat) /\ Len(SubSeq(l, a, b)) = b + 1 - a
        /\ \A k \in 1 .. b + 1 - a : SubSeq(l, a, b)[k] = l[a + k - 1]
    BY <2>1, SliceIs
  <2>3. C = SubSeq(l, a, b)
    BY DEF a, b
  <2> HIDE DEF C
  <2> QED  BY <2>1, <2>2, <2>3
<1> HIDE DEF A, B, C
<1> DEFINE AB == A \o B
<1> DEFINE c == Len(l) - index
<1>4. c \in Nat /\ index \in Nat /\ index + n \in Nat /\ index + n + c = Len(l) + n /\ index + c = Len(l)
  OBVIOUS
<1> HIDE DEF AB, c
<1>5. /\ AB \in Seq(Nat) /\ Len(AB) = index + n
      /\ \A k \in 1 .. index + n : AB[k] = IF k <= index THEN A[k] ELSE B[k - index]
  <2>1. /\ AB \in Seq(Nat) /\ Len(AB) = Len(A) + Len(B)
        /\ \A k \in 1 .. Len(A) + Len(B) : AB[k] = IF k <= Len(A) THEN A[k] ELSE B[k - Len(A)]
    BY ONLY <1>1, <1>2, JoinIs DEF AB
  <2> QED  BY <1>1, <1>2, <1>4, <2>1
<1>6. \A k \in 1 .. index + n : AB[k] = IF k <= index THEN l[k] ELSE v
  BY <1>1, <1>2, <1>4, <1>5
<1> DEFINE ABC == AB \o C
           w == index + n
<1> HIDE DEF ABC
<1>7. /\ ABC \in Seq(Nat) /\ Len(ABC) = w + c
      /\ \A k \in 1 .. w + c : ABC[k] = IF k <= w THEN AB[k] ELSE C[k - w]
  <2>1. w \in Nat /\ Len(AB) = w /\ C \in Seq(Nat) /\ Len(C) = c
    BY <1>3, <1>4, <1>5 DEF c
  <2> HIDE DEF w
  <2>2. /\ ABC \in Seq(Nat) /\ Len(ABC) = Len(AB) + Len(C)
        /\ \A k \in 1 .. Len(AB) + Len(C) : ABC[k] = IF k <= Len(AB) THEN AB[k] ELSE C[k - Len(AB)]
    BY ONLY <1>5, <2>1, JoinIs DEF ABC
  <2> QED  BY <1>4, <2>1, <2>2
<1>8. ASSUME NEW k \in 1 .. Len(l) + n
      PROVE  ABC[k] = IF k <= index THEN l[k] ELSE IF k <= index + n THEN v ELSE l[k - n]
  <2>1. CASE k <= index + n
    <3>1. k \in 1 .. index + n /\ k \in 1 .. w + c
      BY <1>4, <2>1
    <3>2. ABC[k] = AB[k]
      BY <1>7, <2>1, <3>1
    <3>3. AB[k] = IF k <= index THEN l[k] ELSE v
      BY <1>6, <3>1
    <3> QED  BY <2>1, <3>2, <3>3
  <2>2. CASE k > index + n
    <3>1. /\ k \in 1 .. w + c /\ k - w \in 1 .. c /\ index + (k - w) = k - n
          /\ ~(k <= w) /\ ~(k <= index)
      BY <1>4, <2>2
    <3>2. ABC[k] = C[k - w]
      BY <1>7, <3>1
    <3>3. C[k - w] = l[index + (k - w)]
      BY <1>3, <3>1 DEF c
    <3> QED  BY <3>1, <3>2, <3>3
  <2> QED  BY <2>1, <2>2
<1>9. Len(ABC) = Len(l) + n
  BY <1>4, <1>7
<1>10. ABC = Inserted(l, index, n, v)
  BY DEF A, B, C, AB, ABC, Inserted
<1> QED  BY <1>7, <1>8, <1>9, <1>10

\* The list without the n elements behind the first index ones.
Deleted(l, index, n) == SubSeq(l, 1, index) \o SubSeq(l, index + n + 1, Len(l))

IsDeleted(S, new, l, index, n) ==
    /\ new \in Seq(S) /\ Len(new) = Len(l) - n
    /\ \A k \in 1 .. Len(l) - n : new[k] = IF k <= index THEN l[k] ELSE l[k + n]

LEMMA DeletedIs ==
    ASSUME NEW S, NEW l \in Seq(S), NEW index \in Nat, NEW n \in Nat, index + n <= Len(l)
    PROVE  IsDeleted(S, Deleted(l, index, n), l, index, n)
<1> DEFINE A == SubSeq(l, 1, index)
           C == SubSeq(l, index + n + 1, Len(l))
<1>1. A \in Seq(S) /\ Len(A) = index /\ \A k \in 1 .. index : A[k] = l[k]
  BY SliceIs
<1>2. /\ C \in Seq(S) /\ Len(C) = Len(l) - (index + n)
      /\ \A k \in 1 .. Len(l) - (index + n) : C[k] = l[index + n + k]
  <2> DEFINE a == index + n + 1
             b == Len(l)
  <2>1. a \in Nat \ {0} /\ b \in Nat /\ a <= b + 1 /\ b <= Len(l) /\ b + 1 - a = Len(l) - (index + n)
        /\ \A k \in 1 .. Len(l) - (index + n) : a + k - 1 = index + n + k
    OBVIOUS
  <2> HIDE DEF a, b
  <2>2. /\ SubSeq(l, a, b) \in Seq(S) /\ Len(SubSeq(l, a, b)) = b + 1 - a
        /\ \A k \in 1 .. b + 1 - a : SubSeq(l, a, b)[k] = l[a + k - 1]
    BY <2>1, SliceIs
  <2>3. C = SubSeq(l, a, b)
    BY DEF a, b
  <2> HIDE DEF C
  <2> QED  BY <2>1, <2>2, <2>3
<1> HIDE DEF A, C
<1> DEFINE AC == A \o C
           c == Len(l) - (index + n)
<1>3. /\ AC \in Seq(S) /\ Len(AC) = index + c
      /\ \A k \in 1 .. index + c : AC[k] = IF k <= index THEN A[k] ELSE C[k - index]
  <2>1. c \in Nat /\ Len(C) = c
    BY <1>2
  <2> HIDE DEF c, AC
  <2>2. /\ AC \in Seq(S) /\ Len(AC) = Len(A) + Len(C)
        /\ \A k \in 1 .. Len(A) + Len(C) : AC[k] = IF k <= Len(A) THEN A[k] ELSE C[k - Len(A)]
    BY ONLY <1>1, <1>2, JoinIs DEF AC
  <2> QED  BY <1>1, <2>1, <2>2
<1> HIDE DEF AC
<1>4. ASSUME NEW k \in 1 .. Len(l) - n
      PROVE  AC[k] = IF k <= index THEN l[k] ELSE l[k + n]
  <2>1. CASE k <= index
    <3>1. k \in 1 .. index /\ k \in 1 .. index + c
      BY <2>1
    <3>2. AC[k] = A[k]
      BY <1>3, <2>1, <3>1
    <3> QED  BY <1>1, <2>1, <3>1, <3>2
  <2>2. CASE k > index
    <3>1. k - index \in 1 .. Len(l) - (index + n) /\ index + n + (k - index) = k + n
      BY <2>2
    <3>2. AC[k] = C[k - index]
      BY <1>1, <1>2, <1>3, <2>2
    <3>3. C[k - index] = l[index + n + (k - index)]
      BY <1>2, <3>1
    <3> QED  BY <2>2, <3>1, <3>2, <3>3
  <2> QED  BY <2>1, <2>2
<1>5. Len(AC) = Len(l) - n
  BY <1>1, <1>2, <1>3
<1>6. AC = Deleted(l, index, n)
  BY DEF A, C, AC, Deleted
<1> QED  BY <1>3, <1>4, <1>5, <1>6 DEF IsDeleted

\* memmove() within the array.
LEMMA MemmoveIs ==
    ASSUME NEW d, NEW m \in Nat, IsArray(d, m), NEW to \in Nat, NEW from \in Nat,
           NEW c \in Nat, to + c <= m, from + c <= m
    PROVE  /\ IsArray(Memmove(d, to, from, c), m)
           /\ \A k \in 0 .. m - 1 : Memmove(d, to, from, c)[k] =
                 IF to <= k /\ k < to + c THEN d[from + k - to] ELSE d[k]
<1>1. DOMAIN d = 0 .. m - 1 /\ DOMAIN Memmove(d, to, from, c) = 0 .. m - 1
  BY DEF Memmove, IsArray
<1>2. ASSUME NEW k \in 0 .. m - 1, to <= k, k < to + c
      PROVE  Memmove(d, to, from, c)[k] = d[from + k - to]
  <2>1. from + k - to \in 0 .. from + c - 1 /\ from + k - to \in DOMAIN d /\ k \in to .. to + c - 1
    BY <1>1, <1>2
  <2>2. Realloc(d, from + c)[from + k - to] = d[from + k - to]
    BY <2>1 DEF Realloc
  <2>3. k \in DOMAIN d
    BY <1>1
  <2> QED  BY <2>1, <2>2, <2>3 DEF Memmove
<1>3. ASSUME NEW k \in 0 .. m - 1, ~(to <= k /\ k < to + c)
      PROVE  Memmove(d, to, from, c)[k] = d[k]
  <2>1. k \in DOMAIN d /\ ~(k \in to .. to + c - 1)
    BY <1>1, <1>3
  <2> QED  BY <2>1 DEF Memmove
<1> QED  BY <1>1, <1>2, <1>3 DEF IsArray

\* Elements inserted where there is room.
LEMMA InsertHolds ==
    ASSUME NEW d, NEW l, NEW ne \in Nat, NEW m \in Nat, Holds(d, l, ne, m),
           NEW index \in 0 .. ne, NEW n \in Nat, NEW v \in Nat, ne + n <= m
    PROVE  Holds(Store(IF index < ne THEN Memmove(d, index + n, index, ne - index) ELSE d, index, n, v),
                 Inserted(l, index, n, v), ne + n, m)
<1> DEFINE M == IF index < ne THEN Memmove(d, index + n, index, ne - index) ELSE d
           L == Inserted(l, index, n, v)
           S == Store(M, index, n, v)
<1>1. l \in Seq(Nat) /\ ne = Len(l) /\ IsArray(d, m)
  BY DEF Holds
<1>2. /\ L \in Seq(Nat) /\ Len(L) = ne + n
      /\ \A k \in 1 .. ne + n :
            L[k] = IF k <= index THEN l[k] ELSE IF k <= index + n THEN v ELSE l[k - n]
  <2>1. index \in 0 .. Len(l)
    BY <1>1
  <2>2. /\ L \in Seq(Nat) /\ Len(L) = Len(l) + n
        /\ \A k \in 1 .. Len(l) + n :
              L[k] = IF k <= index THEN l[k] ELSE IF k <= index + n THEN v ELSE l[k - n]
    <3> HIDE DEF M, S
    <3> QED  BY ONLY <1>1, <2>1, n \in Nat, v \in Nat, InsertedIs
  <2> HIDE DEF L, M, S
  <2> QED  BY <1>1, <2>2
<1>3. /\ IsArray(M, m)
      /\ \A k \in 0 .. ne + n - 1 : M[k] = IF index + n <= k THEN d[k - n] ELSE d[k]
  <2>1. CASE index < ne
    <3> DEFINE to == index + n
               c == ne - index
               MM == Memmove(d, to, index, c)
    <3>1. to \in Nat /\ c \in Nat /\ to + c <= m /\ index + c <= m /\ to + c = ne + n
      BY <2>1
    <3>2. /\ IsArray(MM, m)
          /\ \A k \in 0 .. m - 1 : MM[k] = IF to <= k /\ k < to + c THEN d[index + k - to] ELSE d[k]
      <4>1. index \in Nat /\ IsArray(d, m)
        BY <1>1
      <4> HIDE DEF to, c, M, L, S, MM
      <4>2. /\ IsArray(Memmove(d, to, index, c), m)
            /\ \A k \in 0 .. m - 1 : Memmove(d, to, index, c)[k] =
                  IF to <= k /\ k < to + c THEN d[index + k - to] ELSE d[k]
        BY ONLY <3>1, <4>1, m \in Nat, MemmoveIs
      <4> QED  BY <4>2 DEF MM
    <3> HIDE DEF MM
    <3>3. ASSUME NEW k \in 0 .. ne + n - 1
          PROVE  MM[k] = IF index + n <= k THEN d[k - n] ELSE d[k]
      <4>1. k \in 0 .. m - 1 /\ k < to + c /\ index + k - to = k - n
        BY <2>1, <3>1
      <4> QED  BY <3>2, <4>1
    <3>4. M = MM
      BY <2>1 DEF MM
    <3> QED  BY <3>2, <3>3, <3>4
  <2>2. CASE ~(index < ne)
    <3>1. M = d
      BY <2>2
    <3>2. \A k \in 0 .. ne + n - 1 : ~(index + n <= k)
      BY <2>2
    <3> QED  BY <1>1, <3>1, <3>2
  <2> QED  BY <2>1, <2>2
<1> HIDE DEF M, L
<1>4. IsArray(S, m)
  BY <1>3 DEF Store, IsArray
<1>5. ASSUME NEW k \in 1 .. ne + n
      PROVE  S[k - 1] = L[k]
  <2>1. k - 1 \in 0 .. ne + n - 1 /\ k - 1 \in 0 .. m - 1
    OBVIOUS
  <2>2. S[k - 1] = IF k - 1 \in index .. index + n - 1 THEN v ELSE M[k - 1]
    BY <1>3, <2>1 DEF Store, IsArray
  <2>3. CASE k <= index
    <3>1. M[k - 1] = d[k - 1] /\ ~(k - 1 \in index .. index + n - 1) /\ k \in 1 .. ne
      BY <1>3, <2>1, <2>3
    <3> QED  BY <1>2, <2>2, <2>3, <3>1 DEF Holds
  <2>4. CASE index < k /\ k <= index + n
    BY <1>2, <2>2, <2>4
  <2>5. CASE index + n < k
    <3>1. index + n <= k - 1 /\ ~(k - 1 \in index .. index + n - 1) /\ k - n \in 1 .. ne
          /\ ~(k <= index) /\ ~(k <= index + n) /\ k - 1 - n = k - n - 1
      BY <2>5
    <3>2. S[k - 1] = d[k - n - 1]
      BY <1>3, <2>1, <2>2, <3>1
    <3>3. d[k - n - 1] = l[k - n]
      BY <3>1 DEF Holds
    <3> QED  BY <1>2, <3>1, <3>2, <3>3
  <2> QED  BY <2>3, <2>4, <2>5
<1>6. Holds(S, L, ne + n, m)
  <2> HIDE DEF S
  <2> QED  BY <1>2, <1>4, <1>5 DEF Holds
<1> QED  BY <1>6 DEF M, L, S

\* Elements deleted that are there.
LEMMA DeleteHolds ==
    ASSUME NEW d, NEW l, NEW ne \in Nat, NEW m \in Nat, Holds(d, l, ne, m),
           NEW index \in Nat, NEW n \in Nat, index + n <= ne
    PROVE  Holds(IF index + n < ne THEN Memmove(d, index, index + n, ne - (index + n)) ELSE d,
                 Deleted(l, index, n), ne - n, m)
<1> DEFINE M == IF index + n < ne THEN Memmove(d, index, index + n, ne - (index + n)) ELSE d
           L == Deleted(l, index, n)
<1>1. l \in Seq(Nat) /\ ne = Len(l) /\ IsArray(d, m) /\ ne <= m
  BY DEF Holds
<1>2. /\ L \in Seq(Nat) /\ Len(L) = ne - n
      /\ \A k \in 1 .. ne - n : L[k] = IF k <= index THEN l[k] ELSE l[k + n]
  <2>1. l \in Seq(Nat) /\ index \in Nat /\ n \in Nat /\ index + n <= Len(l)
    BY <1>1
  <2>2. IsDeleted(Nat, L, l, index, n)
    BY ONLY <2>1, DeletedIs
  <2> QED  BY <1>1, <2>2 DEF IsDeleted
<1>3. /\ IsArray(M, m)
      /\ \A k \in 0 .. ne - n - 1 : M[k] = IF index <= k THEN d[k + n] ELSE d[k]
  <2>1. CASE index + n < ne
    <3> DEFINE c == ne - (index + n)
               MM == Memmove(d, index, index + n, c)
    <3>1. c \in Nat /\ index + c <= m /\ index + n + c <= m /\ index + n \in Nat
      BY <1>1, <2>1
    <3>2. /\ IsArray(MM, m)
          /\ \A k \in 0 .. m - 1 :
                MM[k] = IF index <= k /\ k < index + c THEN d[index + n + k - index] ELSE d[k]
      <4> DEFINE from == index + n
      <4>1. from \in Nat /\ from + c <= m
        BY <3>1
      <4> HIDE DEF c, from
      <4>2. /\ IsArray(Memmove(d, index, from, c), m)
            /\ \A k \in 0 .. m - 1 : Memmove(d, index, from, c)[k] =
                  IF index <= k /\ k < index + c THEN d[from + k - index] ELSE d[k]
        BY ONLY <1>1, <3>1, <4>1, m \in Nat, index \in Nat, MemmoveIs
      <4> QED  BY <4>2 DEF from
    <3> HIDE DEF MM
    <3>3. ASSUME NEW k \in 0 .. ne - n - 1
          PROVE  MM[k] = IF index <= k THEN d[k + n] ELSE d[k]
      <4>1. k \in 0 .. m - 1 /\ k < index + c /\ index + n + k - index = k + n
        BY <1>1, <2>1
      <4> QED  BY <3>2, <4>1
    <3>4. M = MM
      BY <2>1 DEF MM
    <3> QED  BY <3>2, <3>3, <3>4
  <2>2. CASE ~(index + n < ne)
    <3>1. M = d
      BY <2>2
    <3>2. \A k \in 0 .. ne - n - 1 : ~(index <= k)
      BY <2>2
    <3> QED  BY <1>1, <3>1, <3>2
  <2> QED  BY <2>1, <2>2
<1> HIDE DEF M, L
<1>4. ASSUME NEW k \in 1 .. ne - n
      PROVE  M[k - 1] = L[k]
  <2>1. k - 1 \in 0 .. ne - n - 1 /\ k \in 1 .. ne /\ k + n \in 1 .. ne /\ k - 1 + n = k + n - 1
    OBVIOUS
  <2>2. d[k - 1] = l[k] /\ d[k + n - 1] = l[k + n]
    <3>1. \A j \in 1 .. ne : d[j - 1] = l[j]
      BY DEF Holds
    <3> QED
      BY ONLY <2>1, <3>1
  <2> QED  BY <1>2, <1>3, <2>1, <2>2
<1>5. Holds(M, L, ne - n, m)
  BY <1>1, <1>2, <1>3, <1>4 DEF Holds
<1> QED  BY <1>5 DEF M, L

\* The beginning.
LEMMA VecInitInv == VecInit => VecInv
<1> SUFFICES ASSUME VecInit PROVE VecInv
  OBVIOUS
<1>1. PICK e \in VecElemSizes :
        vec = [pc |-> "on", elemsize |-> e, maxelems |-> INIT_MAXELEMS, nelems |-> 0,
               data |-> [k \in 0 .. INIT_MAXELEMS - 1 |-> 0], list |-> <<>>, ops |-> 0,
               index |-> 0, n |-> 0, size |-> 0]
  BY DEF VecInit
<1>2. e \in Nat \ {0} /\ INIT_MAXELEMS \in Nat /\ INIT_MAXELEMS * e <= SIZE_MAX
  BY VecAssumption
<1>3. VecTypes /\ Calling /\ vec.maxelems * vec.elemsize <= SIZE_MAX
  BY <1>1, <1>2 DEF VecTypes, Calling
<1>4. IsArray(vec.data, INIT_MAXELEMS) /\ vec.list = <<>> /\ vec.nelems = 0
      /\ vec.maxelems = INIT_MAXELEMS
  BY <1>1 DEF IsArray
<1>5. Holds(vec.data, vec.list, vec.nelems, vec.maxelems)
  BY <1>2, <1>4, EmptyHolds
<1> QED  BY <1>3, <1>5 DEF VecInv

\* A step that leaves the array and the list alone.
LEMMA VecIdles ==
    ASSUME VecInv, NEW pc \in {"on", "enlarge", "add"}, NEW index \in Nat, NEW n \in Nat, NEW size \in Nat,
           vec' = [vec EXCEPT !.pc = pc, !.index = index, !.n = n, !.size = size],
           pc # "on" => index <= vec.nelems,
           pc = "enlarge" => size >= vec.maxelems,
           pc = "add" => vec.nelems + n <= vec.maxelems
    PROVE  VecInv'
<1>1. VecTypes
  BY DEF VecInv
<1>2. /\ VecTypes'
      /\ vec'.pc = pc /\ vec'.index = index /\ vec'.n = n /\ vec'.size = size
      /\ vec'.data = vec.data /\ vec'.list = vec.list /\ vec'.nelems = vec.nelems
      /\ vec'.maxelems = vec.maxelems /\ vec'.elemsize = vec.elemsize
  BY <1>1 DEF VecTypes
<1>3. Calling'
  BY <1>2 DEF Calling
<1> QED  BY <1>2, <1>3 DEF VecInv

\* nilfs_vector_enlarge(): the next size, or the array of that size.
LEMMA VecEnlarges ==
    ASSUME VecInv, nilfs_vector_enlarge
    PROVE  VecInv'
<1>1. VecTypes /\ Calling /\ vec.pc = "enlarge" /\ FACTOR \in Nat \ {0} /\ SIZE_MAX \in Nat
  BY VecAssumption DEF VecInv, nilfs_vector_enlarge
<1>2. /\ vec.size \in Nat /\ vec.maxelems \in Nat /\ vec.nelems \in Nat /\ vec.n \in Nat
      /\ vec.elemsize \in Nat \ {0} /\ vec.size >= vec.maxelems /\ vec.index <= vec.nelems
  BY <1>1 DEF VecTypes, Calling
<1> DEFINE size == vec.size * FACTOR
<1>3. size \in Nat /\ size >= vec.size
  BY <1>1, <1>2, SMT
<1>4. CASE VecFailed
  <2>1. vec' = [vec EXCEPT !.pc = "on", !.index = 0, !.n = 0, !.size = 0]
    BY <1>4 DEF VecFailed
  <2> QED  BY <2>1, VecIdles
<1>5. CASE vec' = [vec EXCEPT !.size = size]
  <2> HIDE DEF size
  <2>1. vec' = [vec EXCEPT !.pc = "enlarge", !.index = vec.index, !.n = vec.n, !.size = size]
    BY <1>1, <1>5 DEF VecTypes
  <2>2. size >= vec.maxelems /\ vec.index \in Nat
    BY <1>1, <1>2, <1>3 DEF VecTypes
  <2> QED  BY <1>2, <1>3, <2>1, <2>2, VecIdles
<1>6. CASE vec.size <= nelems_limit /\ ~(size < vec.nelems + vec.n) /\ Enlarged(size)
  <2>1. vec.size <= (SIZE_MAX \div FACTOR) \div vec.elemsize
    BY <1>6 DEF nelems_limit
  <2>2. size * vec.elemsize <= SIZE_MAX
    BY <1>1, <1>2, <2>1, LimitIsSafe
  <2> HIDE DEF size
  <2> DEFINE data == Realloc(vec.data, size)
  <2>3. vec' = [vec EXCEPT !.pc = "add", !.maxelems = size, !.data = data]
    BY <1>6 DEF Enlarged
  <2>4. Holds(data, vec.list, vec.nelems, size)
    <3>1. Holds(vec.data, vec.list, vec.nelems, vec.maxelems) /\ size >= vec.nelems
      BY <1>2, <1>3 DEF VecInv, Holds
    <3> QED  BY <1>2, <1>3, <3>1, ReallocHolds
  <2> HIDE DEF data
  <2>5. /\ VecTypes'
        /\ vec'.pc = "add" /\ vec'.index = vec.index /\ vec'.n = vec.n /\ vec'.data = data
        /\ vec'.list = vec.list /\ vec'.nelems = vec.nelems /\ vec'.maxelems = size
        /\ vec'.elemsize = vec.elemsize
    BY <1>1, <1>3, <2>3 DEF VecTypes
  <2>6. Calling'
    BY <1>2, <1>3, <1>6, <2>5 DEF Calling
  <2> QED  BY <2>2, <2>4, <2>5, <2>6 DEF VecInv
<1> HIDE DEF size
<1>7. nelems_limit \in Int
  BY <1>1, <1>2, SMT DEF nelems_limit
<1>8. \/ VecFailed \/ vec' = [vec EXCEPT !.size = size]
      \/ vec.size <= nelems_limit /\ ~(size < vec.nelems + vec.n) /\ Enlarged(size)
  BY <1>2, <1>7 DEF nilfs_vector_enlarge, size
<1> QED  BY <1>4, <1>5, <1>6, <1>8

\* A call that adds elements begins.
LEMMA VecAdds ==
    ASSUME VecInv, NEW index \in 0 .. vec.nelems, NEW n \in Nat, Adding(index, n)
    PROVE  VecInv'
<1>1. vec.nelems \in Nat /\ vec.maxelems \in Nat
  BY DEF VecInv, VecTypes
<1> DEFINE pc == IF vec.nelems + n > vec.maxelems THEN "enlarge" ELSE "add"
<1>2. vec' = [vec EXCEPT !.pc = pc, !.index = index, !.n = n, !.size = vec.maxelems]
  BY DEF Adding
<1>3. /\ pc \in {"on", "enlarge", "add"} /\ index \in Nat /\ index <= vec.nelems
      /\ vec.maxelems >= vec.maxelems /\ (pc = "add" => vec.nelems + n <= vec.maxelems)
  BY <1>1
<1> HIDE DEF pc
<1> QED  BY <1>1, <1>2, <1>3, VecIdles

\* The elements are added, in the room there is.
LEMMA VecAdded ==
    ASSUME VecInv, AddElements
    PROVE  VecInv'
<1>1. VecTypes /\ Calling /\ vec.pc = "add" /\ Holds(vec.data, vec.list, vec.nelems, vec.maxelems)
      /\ vec.maxelems * vec.elemsize <= SIZE_MAX
  BY DEF VecInv, AddElements
<1>2. /\ vec.maxelems \in Nat /\ vec.nelems \in Nat /\ vec.n \in Nat /\ vec.index \in 0 .. vec.nelems
      /\ vec.nelems + vec.n <= vec.maxelems /\ Value \in Nat /\ vec.ops \in Nat
  BY <1>1 DEF VecTypes, Calling, Value
<1> DEFINE moved == IF vec.index < vec.nelems
                    THEN Memmove(vec.data, vec.index + vec.n, vec.index, vec.nelems - vec.index) ELSE vec.data
           data == Store(moved, vec.index, vec.n, Value)
           list == Inserted(vec.list, vec.index, vec.n, Value)
           ne   == vec.nelems + vec.n
           ops  == vec.ops + 1
<1>3. Holds(data, list, ne, vec.maxelems)
  BY ONLY <1>1, <1>2, InsertHolds
<1>4. vec' = [vec EXCEPT !.pc = "on", !.nelems = ne, !.ops = ops, !.data = data, !.list = list,
                         !.index = 0, !.n = 0, !.size = 0]
  BY DEF AddElements, Inserted
<1>5. ne \in Nat /\ ops \in Nat
  BY <1>2
<1> HIDE DEF moved, data, list, ne, ops
<1>6. /\ VecTypes' /\ Calling'
      /\ vec'.data = data /\ vec'.list = list /\ vec'.nelems = ne
      /\ vec'.maxelems = vec.maxelems /\ vec'.elemsize = vec.elemsize
  BY <1>1, <1>4, <1>5 DEF VecTypes, Calling
<1> QED  BY <1>1, <1>3, <1>6 DEF VecInv

\* Elements are deleted: the range lies within the list.
LEMMA VecDeletes ==
    ASSUME VecInv, NEW index \in 0 .. vec.nelems, NEW n \in Nat, index + n <= SIZE_MAX,
           nilfs_vector_delete_elements(index, n)
    PROVE  VecInv'
<1>1. VecTypes /\ Calling /\ vec.pc = "on" /\ Holds(vec.data, vec.list, vec.nelems, vec.maxelems)
      /\ vec.maxelems * vec.elemsize <= SIZE_MAX /\ SIZE_MAX \in Nat
  BY VecAssumption DEF VecInv, nilfs_vector_delete_elements, Op
<1>2. vec.maxelems \in Nat /\ vec.nelems \in Nat /\ vec.ops \in Nat /\ vec.elemsize \in Nat \ {0}
  BY <1>1 DEF VecTypes
<1>3. vec.nelems <= SIZE_MAX
  <2>1. vec.nelems <= vec.maxelems
    BY <1>1 DEF Holds
  <2>2. vec.maxelems <= vec.maxelems * vec.elemsize
    BY <1>2, SMT
  <2>3. vec.maxelems * vec.elemsize \in Nat
    BY <1>2, SMT
  <2> QED  BY <1>1, <1>2, <2>1, <2>2, <2>3
<1> DEFINE last == (index + n - 1) % (SIZE_MAX + 1)
           data == IF last < vec.nelems - 1
                   THEN Memmove(vec.data, index, index + n, vec.nelems - (index + n)) ELSE vec.data
           list == Deleted(vec.list, index, n)
           ne   == vec.nelems - n
           ops  == vec.ops + 1
<1>4. last < vec.nelems
  BY DEF nilfs_vector_delete_elements
<1>5. vec' = [vec EXCEPT !.data = data, !.nelems = ne, !.ops = ops, !.list = list]
  BY DEF nilfs_vector_delete_elements, Deleted
<1>6. last = index + n - 1
  <2>1. CASE index + n = 0
    <3>1. last = SIZE_MAX
      BY <1>1, <2>1, SMT
    <3> QED  BY <1>1, <1>2, <1>3, <1>4, <3>1
  <2>2. CASE index + n # 0
    BY <1>1, <2>2, SMT
  <2> QED  BY <2>1, <2>2
<1>7. index \in Nat /\ index + n <= vec.nelems /\ (last < vec.nelems - 1 <=> index + n < vec.nelems)
  BY <1>2, <1>4, <1>6
<1>8. data = IF index + n < vec.nelems
             THEN Memmove(vec.data, index, index + n, vec.nelems - (index + n)) ELSE vec.data
  BY <1>7
<1>9. Holds(data, list, ne, vec.maxelems)
  <2> HIDE DEF last
  <2>1. Holds(IF index + n < vec.nelems
              THEN Memmove(vec.data, index, index + n, vec.nelems - (index + n)) ELSE vec.data,
              list, ne, vec.maxelems)
    BY ONLY <1>1, <1>2, <1>7, n \in Nat, DeleteHolds
  <2> QED  BY <1>8, <2>1
<1>10. ne \in Nat /\ ops \in Nat
  BY <1>2, <1>7
<1> HIDE DEF last, data, list, ne, ops
<1>11. /\ VecTypes' /\ Calling'
       /\ vec'.data = data /\ vec'.list = list /\ vec'.nelems = ne
       /\ vec'.maxelems = vec.maxelems /\ vec'.elemsize = vec.elemsize
  BY <1>1, <1>5, <1>10 DEF VecTypes, Calling
<1> QED  BY <1>1, <1>9, <1>11 DEF VecInv

\* The vector is cleared, and its array shrunk or not.
LEMMA VecClears ==
    ASSUME VecInv, nilfs_vector_clear
    PROVE  VecInv'
<1>1. VecTypes /\ Calling /\ vec.pc = "on" /\ Holds(vec.data, vec.list, vec.nelems, vec.maxelems)
      /\ vec.maxelems * vec.elemsize <= SIZE_MAX /\ INIT_MAXELEMS \in Nat
  BY VecAssumption DEF VecInv, nilfs_vector_clear, Op
<1>2. PICK shrink \in BOOLEAN :
        vec' = [vec EXCEPT !.maxelems = IF shrink THEN INIT_MAXELEMS ELSE @,
                           !.data = IF shrink THEN Realloc(@, INIT_MAXELEMS) ELSE @,
                           !.nelems = 0, !.list = <<>>, !.ops = @ + 1]
  BY DEF nilfs_vector_clear
<1> DEFINE max == IF shrink THEN INIT_MAXELEMS ELSE vec.maxelems
           data == IF shrink THEN Realloc(vec.data, INIT_MAXELEMS) ELSE vec.data
           ops == vec.ops + 1
<1>3. vec' = [vec EXCEPT !.maxelems = max, !.data = data, !.nelems = 0, !.list = <<>>, !.ops = ops]
  BY <1>2
<1>4. max \in Nat /\ ops \in Nat /\ max * vec.elemsize <= SIZE_MAX
  BY <1>1 DEF VecTypes
<1>5. IsArray(data, max)
  BY <1>1 DEF IsArray, Realloc, Holds
<1> HIDE DEF max, data, ops
<1>6. Holds(data, <<>>, 0, max)
  BY <1>4, <1>5, EmptyHolds
<1>7. /\ VecTypes' /\ Calling'
      /\ vec'.data = data /\ vec'.list = <<>> /\ vec'.nelems = 0
      /\ vec'.maxelems = max /\ vec'.elemsize = vec.elemsize
  BY <1>1, <1>3, <1>4 DEF VecTypes, Calling
<1> QED  BY <1>4, <1>6, <1>7 DEF VecInv

LEMMA VecNextInv == VecInv /\ [VecNext]_vec => VecInv'
<1> SUFFICES ASSUME VecInv, [VecNext]_vec PROVE VecInv'
  OBVIOUS
<1>0. vec.nelems \in Nat /\ VecCounts \subseteq Nat
  BY VecAssumption DEF VecInv, VecTypes
<1>1. CASE nilfs_vector_get_new_element
  <2>1. vec.nelems \in 0 .. vec.nelems /\ 1 \in Nat /\ Adding(vec.nelems, 1)
    BY <1>0, <1>1 DEF nilfs_vector_get_new_element
  <2> QED  BY <2>1, VecAdds
<1>2. ASSUME NEW index \in 0 .. vec.nelems, NEW n \in VecCounts, nilfs_vector_insert_elements(index, n)
      PROVE  VecInv'
  BY <1>0, <1>2, VecAdds DEF nilfs_vector_insert_elements
<1>3. ASSUME NEW index \in 0 .. vec.nelems, NEW n \in VecCounts, index + n <= SIZE_MAX,
             nilfs_vector_delete_elements(index, n)
      PROVE  VecInv'
  BY <1>0, <1>3, VecDeletes
<1>4. CASE UNCHANGED vec
  BY <1>4 DEF VecInv, VecTypes, Calling
<1> QED  BY <1>1, <1>2, <1>3, <1>4, VecEnlarges, VecAdded, VecClears DEF VecNext

\* The array is the list its user made, whatever the sizes, the order of the
\* calls and the failures of realloc(): lib/vector.c never loses an element,
\* never stores outside its array, and never asks for a size that overflows.
THEOREM VectorHoldsList == VecSpec => []VectorIsList
<1>1. VecInv => VectorIsList
  BY DEF VecInv, Holds, VectorIsList
<1> QED  BY <1>1, VecInitInv, VecNextInv, PTL DEF VecSpec

-----------------------------------------------------------------------------
(***************************************************************************)
(* The lists of nilfs_toss_vdescs() and nilfs_unify_period().              *)
(***************************************************************************)
IsCall(g) ==
    g = [pc |-> g.pc, in |-> g.in, ss |-> g.ss, protect |-> g.protect, last_hit |-> g.last_hit,
         i |-> g.i, j |-> g.j, low |-> g.low, high |-> g.high, vdescv |-> g.vdescv,
         vblocknrv |-> g.vblocknrv, periodv |-> g.periodv]

GcbTypes ==
    /\ IsCall(gcb)
    /\ gcb.pc \in {"toss", "search", "unify", "done", "failed"}
    /\ gcb.in \in [1 .. GcNBlocks -> GcBlockKinds]
    /\ gcb.ss \in Seq(Nat) /\ InOrder(gcb.ss)
    /\ gcb.protect \in Nat /\ gcb.last_hit \in Nat
    /\ gcb.i \in Nat /\ gcb.j \in Nat /\ gcb.low \in Nat /\ gcb.high \in Int
    /\ gcb.vdescv \in Seq(1 .. GcNBlocks) /\ gcb.vblocknrv \in Seq(1 .. GcNBlocks)
    /\ gcb.periodv \in Seq(Nat \X Nat)

\* Every block is in the vector or on the list to free, in order, and those on
\* the list are dead.
Lists(in, p, ss, v, nrs) ==
    /\ InOrder(v) /\ InOrder(nrs)
    /\ \A b \in DOMAIN nrs : ~Shown(in[nrs[b]], p, ss)
    /\ \A k \in 1 .. GcNBlocks : k \in Range(v) \/ k \in Range(nrs)

\* In the vector, live blocks are followed by the run of dead ones, and by
\* those still to be looked at, behind all that are on the list.
Walked(in, p, ss, v, nrs, i, j) ==
    /\ i <= j /\ (j <= Len(v) \/ (i = j /\ j = Len(v) + 1))
    /\ \A a \in DOMAIN v : a <= i => Shown(in[v[a]], p, ss)
    /\ \A a \in DOMAIN v : i < a /\ a <= j => v[a] \in Range(nrs)
    /\ \A a \in DOMAIN v : j < a => \A b \in DOMAIN nrs : nrs[b] < v[a]

\* The binary search drops what is in front of the period or behind it.
Sought(d, ss, low, high) ==
    /\ low <= Len(ss) /\ -1 <= high /\ high < Len(ss)
    /\ \A x \in DOMAIN ss : x <= low => ss[x] < d.ps
    /\ \A x \in DOMAIN ss : x > high + 1 => ss[x] >= d.pe

Hit(ss, hit) == hit # 0 => hit \in Range(ss)

Forward(pv) == \A k \in DOMAIN pv : pv[k][1] <= pv[k][2]
ByStart(pv) == \A a, b \in DOMAIN pv : a < b => pv[a][1] <= pv[b][1]
Apart(pv, i) == \A k \in DOMAIN pv : k <= i /\ k < Len(pv) => pv[k][2] < pv[k + 1][1]

\* Periods in front of the base are apart from the next one, those between it
\* and the target are within it.
Unified(pv, i, j) ==
    /\ i < j /\ i <= Len(pv) /\ (j <= Len(pv) \/ j = i + 1)
    /\ ByStart(pv) /\ Apart(pv, i)
    /\ \A a \in DOMAIN pv : i + 1 < a /\ a <= j => pv[a][2] <= pv[i + 1][2]

TossInv ==
    /\ Lists(gcb.in, gcb.protect, gcb.ss, gcb.vdescv, gcb.vblocknrv)
    /\ Hit(gcb.ss, gcb.last_hit)
    /\ gcb.pc \in {"toss", "search"} =>
          Walked(gcb.in, gcb.protect, gcb.ss, gcb.vdescv, gcb.vblocknrv, gcb.i, gcb.j)
    /\ gcb.pc = "search" => InRun /\ judged = "search" /\ Sought(vdesc, gcb.ss, gcb.low, gcb.high)
    /\ gcb.pc \in {"unify", "done"} =>
          \A a \in DOMAIN gcb.vdescv : Shown(gcb.in[gcb.vdescv[a]], gcb.protect, gcb.ss)

PeriodInv ==
    /\ Forward(gcb.periodv)
    /\ Covered(gcb.periodv) = Given(gcb.in, gcb.vblocknrv)
    /\ gcb.pc = "unify" => Unified(gcb.periodv, gcb.i, gcb.j)
    /\ gcb.pc = "done" => Apart(gcb.periodv, Len(gcb.periodv))

GcbInv == GcbTypes /\ TossInv /\ PeriodInv

\* What nilfs_vdesc_is_live() says without a search is right.
LEMMA JudgedRight ==
    ASSUME NEW d \in GcBlockKinds, NEW p \in Nat, NEW ss \in Seq(Nat), InOrder(ss),
           NEW hit \in Nat, Hit(ss, hit)
    PROVE  /\ vdesc_is_live(d, p, ss, hit) = "live" => Shown(d, p, ss)
           /\ vdesc_is_live(d, p, ss, hit) = "dead" => ~Shown(d, p, ss)
           /\ vdesc_is_live(d, p, ss, hit) = "search" =>
                 /\ d.cno # 0 /\ d.pe # d.cno /\ d.pe # CNO_MAX /\ d.pe <= p
                 /\ Len(ss) > 0
<1>1. /\ d.cno \in Nat /\ d.ps \in Nat /\ d.pe \in Nat
      /\ d.cno # 0 => d.ps > 0 /\ d.ps <= d.pe
      /\ CNO_MAX \in Nat
  BY GcAssumption
<1> DEFINE n == Len(ss)
<1>2. n \in Nat /\ DOMAIN ss = 1 .. n /\ \A x \in 1 .. n : ss[x] \in Nat
  OBVIOUS
<1>3. Range(ss) = {ss[x] : x \in 1 .. n}
  BY <1>2 DEF Range
<1> HIDE DEF n
<1>4. CASE d.cno = 0
  BY <1>4 DEF vdesc_is_live, Shown
<1>5. CASE d.cno # 0 /\ d.pe = d.cno
  BY <1>5 DEF vdesc_is_live, Shown
<1>6. CASE d.cno # 0 /\ d.pe # d.cno /\ (d.pe = CNO_MAX \/ d.pe > p)
  BY <1>6 DEF vdesc_is_live, Shown
<1>7. CASE /\ d.cno # 0 /\ d.pe # d.cno /\ ~(d.pe = CNO_MAX \/ d.pe > p)
           /\ n = 0 \/ d.ps > ss[n] \/ d.pe <= ss[1]
  <2>1. ASSUME NEW x \in 1 .. n PROVE ~(ss[x] >= d.ps /\ ss[x] <= d.pe - 1)
    <3>1. n \in 1 .. n /\ 1 \in 1 .. n /\ (x = n \/ x < n) /\ (x = 1 \/ 1 < x) /\ n # 0
      BY <1>2
    <3>2. ss[x] \in Nat /\ ss[n] \in Nat /\ ss[1] \in Nat
      BY <1>2, <3>1
    <3>3. (x < n => ss[x] < ss[n]) /\ (1 < x => ss[1] < ss[x])
      BY <1>2, <3>1 DEF InOrder
    <3>4. ss[x] <= ss[n] /\ ss[1] <= ss[x]
      BY <3>1, <3>2, <3>3
    <3>5. d.ps > ss[n] \/ d.pe <= ss[1]
      BY <1>7, <3>1
    <3> QED  BY <1>1, <3>2, <3>4, <3>5
  <2>2. ~Shown(d, p, ss)
    BY <1>1, <1>2, <1>3, <1>7, <2>1 DEF Shown
  <2>3. vdesc_is_live(d, p, ss, hit) = "dead"
    BY <1>7 DEF vdesc_is_live, n
  <2> QED  BY <2>2, <2>3
<1>8. CASE /\ d.cno # 0 /\ d.pe # d.cno /\ ~(d.pe = CNO_MAX \/ d.pe > p)
           /\ ~(n = 0 \/ d.ps > ss[n] \/ d.pe <= ss[1])
           /\ hit >= d.ps /\ hit < d.pe
  <2>1. hit \in Range(ss) /\ hit \in d.ps .. d.pe - 1
    BY <1>1, <1>8 DEF Hit
  <2>2. Shown(d, p, ss)
    BY <1>8, <2>1 DEF Shown
  <2>3. vdesc_is_live(d, p, ss, hit) = "live"
    BY <1>8 DEF vdesc_is_live, n
  <2> QED  BY <2>2, <2>3
<1>9. CASE /\ d.cno # 0 /\ d.pe # d.cno /\ ~(d.pe = CNO_MAX \/ d.pe > p)
           /\ ~(n = 0 \/ d.ps > ss[n] \/ d.pe <= ss[1])
           /\ ~(hit >= d.ps /\ hit < d.pe)
  <2>1. vdesc_is_live(d, p, ss, hit) = "search"
    BY <1>9 DEF vdesc_is_live, n
  <2> QED  BY <1>1, <1>2, <1>9, <2>1 DEF n
<1> QED  BY <1>4, <1>5, <1>6, <1>7, <1>8, <1>9

\* The binary search: a round keeps what is known, an empty interval means that
\* no snapshot is in the period.
LEMMA SoughtUp ==
    ASSUME NEW d, d.ps \in Nat, d.pe \in Nat, NEW ss \in Seq(Nat), InOrder(ss),
           NEW low \in Nat, NEW high \in Int, low <= high, Sought(d, ss, low, high)
    PROVE  LET m == (low + high) \div 2
           IN  /\ m \in Nat /\ m + 1 \in DOMAIN ss
               /\ ss[m + 1] < d.ps => Sought(d, ss, m + 1, high)
               /\ ss[m + 1] >= d.pe => Sought(d, ss, low, m - 1)
<1> DEFINE m == (low + high) \div 2
<1>1. m \in Nat /\ low <= m /\ m <= high
  OBVIOUS
<1> HIDE DEF m
<1>2. Len(ss) \in Nat /\ DOMAIN ss = 1 .. Len(ss) /\ \A x \in DOMAIN ss : ss[x] \in Nat
  OBVIOUS
<1>3. m + 1 \in DOMAIN ss
  BY <1>1, <1>2 DEF Sought
<1>4. ASSUME ss[m + 1] < d.ps PROVE Sought(d, ss, m + 1, high)
  <2>1. ASSUME NEW x \in DOMAIN ss, x <= m + 1 PROVE ss[x] < d.ps
    <3>1. x = m + 1 \/ ss[x] < ss[m + 1]
      BY <1>1, <1>2, <1>3, <2>1 DEF InOrder
    <3> QED  BY <1>2, <1>3, <1>4, <3>1
  <2> QED  BY <1>1, <1>2, <1>3, <2>1 DEF Sought
<1>5. ASSUME ss[m + 1] >= d.pe PROVE Sought(d, ss, low, m - 1)
  <2>1. ASSUME NEW x \in DOMAIN ss, x > m PROVE ss[x] >= d.pe
    <3>1. x = m + 1 \/ ss[m + 1] < ss[x]
      BY <1>1, <1>2, <1>3, <2>1 DEF InOrder
    <3> QED  BY <1>2, <1>3, <1>5, <3>1
  <2> QED  BY <1>1, <1>2, <1>3, <2>1 DEF Sought
<1> QED  BY <1>1, <1>3, <1>4, <1>5 DEF m

LEMMA SoughtInVain ==
    ASSUME NEW d, d.ps \in Nat, d.pe \in Nat, NEW ss \in Seq(Nat), NEW low \in Nat,
           NEW high \in Int, low > high, Sought(d, ss, low, high)
    PROVE  \A s \in Range(ss) : s \notin d.ps .. d.pe - 1
<1>1. ASSUME NEW x \in DOMAIN ss PROVE ss[x] \notin d.ps .. d.pe - 1
  <2>1. x \in Nat /\ ss[x] \in Nat /\ (x <= low \/ x > high + 1)
    OBVIOUS
  <2> QED  BY <2>1 DEF Sought
<1> QED  BY <1>1 DEF Range

LEMMA SeqIs ==
    ASSUME NEW S, NEW s \in Seq(S)
    PROVE  Len(s) \in Nat /\ DOMAIN s = 1 .. Len(s) /\ \A k \in DOMAIN s : s[k] \in S
OBVIOUS

\* Cutting the run of dead blocks out of the vector.
LEMMA CutOut ==
    ASSUME NEW in, NEW p, NEW ss, NEW v \in Seq(1 .. GcNBlocks), NEW nrs \in Seq(1 .. GcNBlocks),
           NEW i \in Nat, NEW j \in Nat, Lists(in, p, ss, v, nrs), Walked(in, p, ss, v, nrs, i, j),
           i < Len(v), j < Len(v) => Shown(in[v[j + 1]], p, ss)
    PROVE  LET new == IF j > i THEN DeleteAt(v, i, j - i) ELSE v
           IN  /\ new \in Seq(1 .. GcNBlocks) /\ Lists(in, p, ss, new, nrs)
               /\ Walked(in, p, ss, new, nrs, i + 1, i + 1)
<1> DEFINE new == IF j > i THEN DeleteAt(v, i, j - i) ELSE v
           B == 1 .. GcNBlocks
           n == j - i
<1>0. /\ Len(v) \in Nat /\ DOMAIN v = 1 .. Len(v) /\ \A a \in DOMAIN v : v[a] \in B
      /\ i <= j /\ j <= Len(v) /\ n \in Nat /\ i + n = j /\ n <= Len(v)
  <2>1. Len(v) \in Nat /\ DOMAIN v = 1 .. Len(v) /\ \A a \in DOMAIN v : v[a] \in B
    BY SeqIs
  <2>2. i <= j /\ (j <= Len(v) \/ (i = j /\ j = Len(v) + 1))
    BY DEF Walked
  <2> QED  BY <2>1, <2>2
<1> HIDE DEF B
<1>1. /\ new \in Seq(B) /\ Len(new) = Len(v) - n
      /\ \A k \in 1 .. Len(v) - n : new[k] = IF k <= i THEN v[k] ELSE v[k + n]
  <2>1. CASE j > i
    <3> HIDE DEF n
    <3>1. v \in Seq(B) /\ i \in Nat /\ n \in Nat /\ i + n <= Len(v)
      BY <1>0 DEF B
    <3>2. IsDeleted(B, Deleted(v, i, n), v, i, n)
      BY ONLY <3>1, DeletedIs
    <3>3. new = Deleted(v, i, n)
      BY <2>1 DEF n, DeleteAt, Deleted
    <3> QED  BY <3>2, <3>3 DEF IsDeleted
  <2>2. CASE ~(j > i)
    <3>1. new = v /\ n = 0
      BY <1>0, <2>2
    <3>2. v \in Seq(B)
      BY DEF B
    <3> QED  BY <1>0, <3>1, <3>2
  <2> QED  BY <2>1, <2>2
<1> HIDE DEF new, n
<1> DEFINE from(k) == IF k <= i THEN k ELSE k + n
<1>2. /\ DOMAIN new = 1 .. Len(v) - n
      /\ \A k \in DOMAIN new : from(k) \in DOMAIN v /\ new[k] = v[from(k)]
  <2>1. DOMAIN new = 1 .. Len(v) - n
    BY <1>0, <1>1
  <2>2. ASSUME NEW k \in DOMAIN new PROVE from(k) \in DOMAIN v /\ new[k] = v[from(k)]
    <3>1. k \in 1 .. Len(v) - n
      BY <2>1
    <3>2. from(k) \in DOMAIN v
      BY <1>0, <3>1
    <3>3. new[k] = v[from(k)]
      BY <1>1, <3>1
    <3> QED  BY <3>2, <3>3
  <2> QED  BY <2>1, <2>2
<1>3. \A a, b \in DOMAIN new : a < b => from(a) < from(b)
  BY <1>0, <1>2
<1>4. InOrder(new)
  <2>1. \A a, b \in DOMAIN v : a < b => v[a] < v[b]
    BY DEF Lists, InOrder
  <2> HIDE DEF from
  <2> QED  BY <1>2, <1>3, <2>1 DEF InOrder
<1>5. ASSUME NEW k \in 1 .. GcNBlocks PROVE k \in Range(new) \/ k \in Range(nrs)
  <2>1. CASE k \in Range(nrs)
    BY <2>1
  <2>2. CASE k \notin Range(nrs)
    <3>1. PICK a \in DOMAIN v : v[a] = k
      BY <2>2 DEF Lists, Range
    <3>2. ~(i < a /\ a <= j)
      BY <2>2, <3>1 DEF Walked
    <3>3. CASE a <= i
      <4>1. a \in DOMAIN new /\ from(a) = a
        BY <1>0, <1>2, <3>3
      <4> QED  BY <1>2, <3>1, <4>1 DEF Range
    <3>4. CASE a > j
      <4>1. a - n \in DOMAIN new /\ from(a - n) = a
        BY <1>0, <1>2, <3>4
      <4> HIDE DEF from
      <4>2. new[a - n] = k
        BY <1>2, <3>1, <4>1
      <4> QED  BY <4>1, <4>2 DEF Range
    <3> QED  BY <1>0, <3>2, <3>3, <3>4
  <2> QED  BY <2>1, <2>2
<1>6. Lists(in, p, ss, new, nrs)
  BY <1>4, <1>5 DEF Lists
<1>7. \A a \in DOMAIN new : a <= i + 1 => Shown(in[new[a]], p, ss)
  <2> SUFFICES ASSUME NEW a \in DOMAIN new, a <= i + 1 PROVE Shown(in[new[a]], p, ss)
    OBVIOUS
  <2>1. CASE a <= i
    <3>1. from(a) = a /\ a \in DOMAIN v
      BY <1>2, <2>1
    <3> QED  BY <1>2, <2>1, <3>1 DEF Walked
  <2>2. CASE a = i + 1
    <3>1. from(a) = j + 1 /\ j + 1 \in DOMAIN v
      BY <1>0, <1>2, <2>2
    <3>2. j < Len(v)
      BY <1>0, <3>1
    <3> HIDE DEF from
    <3> QED  BY <1>2, <3>1, <3>2
  <2> QED  BY <1>0, <1>2, <2>1, <2>2
<1>8. \A a \in DOMAIN new : i + 1 < a => \A b \in DOMAIN nrs : nrs[b] < new[a]
  <2> SUFFICES ASSUME NEW a \in DOMAIN new, i + 1 < a PROVE \A b \in DOMAIN nrs : nrs[b] < new[a]
    OBVIOUS
  <2>1. from(a) > j /\ from(a) \in DOMAIN v
    BY <1>0, <1>2
  <2> HIDE DEF from
  <2> QED  BY <1>2, <2>1 DEF Walked
<1>9. i + 1 <= Len(new) \/ i + 1 = Len(new) + 1
  BY <1>0, <1>1
<1>10. Walked(in, p, ss, new, nrs, i + 1, i + 1)
  BY <1>0, <1>2, <1>7, <1>8, <1>9 DEF Walked
<1> QED  BY <1>1, <1>6, <1>10 DEF new, B

\* Another dead block is put on the list.
LEMMA PutOnList ==
    ASSUME NEW in, NEW p, NEW ss, NEW v \in Seq(1 .. GcNBlocks), NEW nrs \in Seq(1 .. GcNBlocks),
           NEW i \in Nat, NEW j \in Nat, Lists(in, p, ss, v, nrs), Walked(in, p, ss, v, nrs, i, j),
           i < Len(v), j < Len(v), ~Shown(in[v[j + 1]], p, ss)
    PROVE  /\ Append(nrs, v[j + 1]) \in Seq(1 .. GcNBlocks)
           /\ Range(Append(nrs, v[j + 1])) = Range(nrs) \cup {v[j + 1]}
           /\ Lists(in, p, ss, v, Append(nrs, v[j + 1]))
           /\ Walked(in, p, ss, v, Append(nrs, v[j + 1]), i, j + 1)
<1> DEFINE k == v[j + 1]
           new == Append(nrs, k)
<1>0. /\ Len(v) \in Nat /\ DOMAIN v = 1 .. Len(v) /\ j + 1 \in DOMAIN v /\ k \in 1 .. GcNBlocks
      /\ \A a \in DOMAIN v : v[a] \in Int
      /\ i <= j
  <2>1. Len(v) \in Nat /\ DOMAIN v = 1 .. Len(v) /\ \A a \in DOMAIN v : v[a] \in 1 .. GcNBlocks
    BY SeqIs
  <2>2. j + 1 \in DOMAIN v
    BY <2>1
  <2>3. \A a \in DOMAIN v : v[a] \in Int
    BY <2>1, GcAssumption
  <2>4. i <= j
    BY DEF Walked
  <2> QED  BY <2>1, <2>2, <2>3, <2>4
<1>1. /\ Len(nrs) \in Nat /\ DOMAIN nrs = 1 .. Len(nrs)
      /\ \A b \in DOMAIN nrs : nrs[b] \in Int /\ nrs[b] < k
  <2>1. /\ Len(nrs) \in Nat /\ DOMAIN nrs = 1 .. Len(nrs)
        /\ \A b \in DOMAIN nrs : nrs[b] \in 1 .. GcNBlocks
    BY SeqIs
  <2>2. j < j + 1
    OBVIOUS
  <2>3. \A b \in DOMAIN nrs : nrs[b] < v[j + 1]
    BY ONLY <1>0, <2>2, Walked(in, p, ss, v, nrs, i, j) DEF Walked
  <2>4. \A b \in DOMAIN nrs : nrs[b] \in Int
    BY <2>1, GcAssumption
  <2> QED  BY <2>1, <2>3, <2>4
<1> HIDE DEF k
<1>2. /\ new \in Seq(1 .. GcNBlocks) /\ DOMAIN new = 1 .. Len(nrs) + 1
      /\ \A b \in DOMAIN nrs : new[b] = nrs[b]
      /\ new[Len(nrs) + 1] = k
  BY <1>0, <1>1
<1> HIDE DEF new
<1>3. Range(new) = Range(nrs) \cup {k}
  <2>1. ASSUME NEW x \in Range(new) PROVE x \in Range(nrs) \cup {k}
    <3>1. PICK b \in 1 .. Len(nrs) + 1 : x = new[b]
      BY <1>2 DEF Range
    <3>2. b \in DOMAIN nrs \/ b = Len(nrs) + 1
      BY <1>1
    <3> QED  BY <1>2, <3>1, <3>2 DEF Range
  <2>2. ASSUME NEW x \in Range(nrs) \cup {k} PROVE x \in Range(new)
    <3>1. DOMAIN nrs \subseteq DOMAIN new /\ Len(nrs) + 1 \in DOMAIN new
      BY <1>1, <1>2
    <3> QED  BY <1>2, <3>1 DEF Range
  <2> QED  BY <2>1, <2>2
<1>4. InOrder(new)
  <2> SUFFICES ASSUME NEW a \in DOMAIN new, NEW b \in DOMAIN new, a < b PROVE new[a] < new[b]
    BY DEF InOrder
  <2>1. a \in DOMAIN nrs /\ (b \in DOMAIN nrs \/ b = Len(nrs) + 1)
    BY <1>1, <1>2
  <2> QED  BY <1>1, <1>2, <2>1 DEF Lists, InOrder
<1>5. ASSUME NEW b \in DOMAIN new PROVE ~Shown(in[new[b]], p, ss)
  <2>1. b \in DOMAIN nrs \/ b = Len(nrs) + 1
    BY <1>1, <1>2
  <2> QED  BY <1>2, <2>1 DEF Lists, k
<1>6. Lists(in, p, ss, v, new)
  BY <1>3, <1>4, <1>5 DEF Lists
<1>7. ASSUME NEW a \in DOMAIN v, i < a, a <= j + 1 PROVE v[a] \in Range(new)
  <2>1. a <= j \/ a = j + 1
    BY <1>0, <1>7
  <2> QED  BY <1>3, <1>7, <2>1 DEF Walked, k
<1>8. ASSUME NEW a \in DOMAIN v, j + 1 < a, NEW b \in DOMAIN new PROVE new[b] < v[a]
  <2>1. k < v[a]
    BY <1>0, <1>8 DEF Lists, InOrder, k
  <2>2. b \in DOMAIN nrs \/ b = Len(nrs) + 1
    BY <1>1, <1>2
  <2>3. j < a
    BY <1>0, <1>8
  <2> QED  BY <1>2, <1>8, <2>1, <2>2, <2>3 DEF Walked
<1>9. Walked(in, p, ss, v, new, i, j + 1)
  BY <1>0, <1>7, <1>8 DEF Walked
<1> QED  BY <1>2, <1>3, <1>6, <1>9 DEF new, k

\* Periods, and the checkpoints in them.
Period == Nat \X Nat

Within(c, x) == c \in x[1] .. x[2] - 1

LEMMA WithinGrows ==
    ASSUME NEW x, NEW y, NEW c, Within(c, x), y[1] <= x[1], x[2] <= y[2],
           x[1] \in Nat, x[2] \in Nat, y[1] \in Nat, y[2] \in Nat
    PROVE  Within(c, y)
<1>1. \A a, b, d, e \in Nat : \A n \in a .. b - 1 : d <= a /\ b <= e => n \in d .. e - 1
  OBVIOUS
<1>2. c \in x[1] .. x[2] - 1
  BY DEF Within
<1>3. c \in y[1] .. y[2] - 1
  BY ONLY <1>1, <1>2, y[1] <= x[1], x[2] <= y[2],
          x[1] \in Nat, x[2] \in Nat, y[1] \in Nat, y[2] \in Nat, Zenon
<1> QED  BY <1>3 DEF Within

LEMMA InCovered ==
    ASSUME NEW pv, NEW c
    PROVE  c \in Covered(pv) <=> \E k \in DOMAIN pv : Within(c, pv[k])
BY DEF Covered, Within

LEMMA InGiven ==
    ASSUME NEW in, NEW nrs, NEW c
    PROVE  c \in Given(in, nrs) <=> \E k \in Range(nrs) : in[k].cno # 0 /\ c \in in[k].ps .. in[k].pe - 1
BY DEF Given

LEMMA PeriodsIs ==
    ASSUME NEW pv \in Seq(Period)
    PROVE  /\ Len(pv) \in Nat /\ DOMAIN pv = 1 .. Len(pv)
           /\ \A k \in DOMAIN pv : pv[k] \in Period /\ pv[k][1] \in Nat /\ pv[k][2] \in Nat
<1>1. Len(pv) \in Nat /\ DOMAIN pv = 1 .. Len(pv) /\ \A k \in DOMAIN pv : pv[k] \in Period
  BY SeqIs
<1>2. \A x \in Period : x[1] \in Nat /\ x[2] \in Nat
  BY DEF Period
<1> QED  BY <1>1, <1>2

LEMMA PeriodAdded ==
    ASSUME NEW pv \in Seq(Period), Forward(pv), NEW s \in Nat, NEW e \in Nat, s <= e
    PROVE  /\ Append(pv, <<s, e>>) \in Seq(Period) /\ Forward(Append(pv, <<s, e>>))
           /\ Covered(Append(pv, <<s, e>>)) = Covered(pv) \cup (s .. e - 1)
<1> DEFINE x == <<s, e>>
           new == Append(pv, x)
<1>1. x \in Period /\ x[1] = s /\ x[2] = e
  BY DEF Period
<1>2. Len(pv) \in Nat /\ DOMAIN pv = 1 .. Len(pv)
  BY PeriodsIs
<1> HIDE DEF x
<1>3. /\ new \in Seq(Period) /\ DOMAIN new = 1 .. Len(pv) + 1
      /\ \A k \in DOMAIN pv : new[k] = pv[k]
      /\ new[Len(pv) + 1] = x
  BY <1>1, <1>2
<1> HIDE DEF new
<1>4. \A k \in DOMAIN new : k \in DOMAIN pv \/ k = Len(pv) + 1
  BY <1>2, <1>3
<1>5. DOMAIN pv \subseteq DOMAIN new /\ Len(pv) + 1 \in DOMAIN new
  BY <1>2, <1>3
<1>6. Forward(new)
  BY <1>1, <1>3, <1>4 DEF Forward
<1>7. ASSUME NEW c PROVE c \in Covered(new) <=> c \in Covered(pv) \/ c \in s .. e - 1
  <2>1. Within(c, x) <=> c \in s .. e - 1
    BY <1>1 DEF Within
  <2>2. (\E k \in DOMAIN new : Within(c, new[k])) <=> (\E k \in DOMAIN pv : Within(c, pv[k])) \/ Within(c, x)
    BY <1>3, <1>4, <1>5
  <2> QED  BY <2>1, <2>2, InCovered
<1>8. Covered(new) = Covered(pv) \cup (s .. e - 1)
  BY <1>7
<1> QED  BY <1>3, <1>6, <1>8 DEF new, x

LEMMA GivenAdded ==
    ASSUME NEW in, NEW nrs, NEW new, NEW k, Range(new) = Range(nrs) \cup {k}
    PROVE  /\ in[k].cno # 0 => Given(in, new) = Given(in, nrs) \cup (in[k].ps .. in[k].pe - 1)
           /\ in[k].cno = 0 => Given(in, new) = Given(in, nrs)
<1>1. ASSUME NEW c
      PROVE  c \in Given(in, new) <=> \/ c \in Given(in, nrs)
                                      \/ in[k].cno # 0 /\ c \in in[k].ps .. in[k].pe - 1
  BY InGiven
<1> QED  BY <1>1

\* Sorting.
LEMMA PeriodsSorted ==
    ASSUME NEW pv \in Seq(Period), Forward(pv), NEW perm \in Bijection(DOMAIN pv, DOMAIN pv), NEW new,
           new = [k \in DOMAIN pv |-> pv[perm[k]]]
    PROVE  new \in Seq(Period) /\ Forward(new) /\ Covered(new) = Covered(pv)
<1>1. Len(pv) \in Nat /\ DOMAIN pv = 1 .. Len(pv) /\ \A k \in DOMAIN pv : pv[k] \in Period
  BY PeriodsIs
<1>2. /\ \A k \in DOMAIN pv : perm[k] \in DOMAIN pv
      /\ \A x \in DOMAIN pv : \E k \in DOMAIN pv : perm[k] = x
  BY DEF Bijection, Surjection, Injection
<1>3. new \in [1 .. Len(pv) -> Period]
  BY <1>1, <1>2
<1>4. new \in Seq(Period)
  BY <1>1, <1>3
<1>5. DOMAIN new = DOMAIN pv /\ \A k \in DOMAIN pv : new[k] = pv[perm[k]]
  OBVIOUS
<1>6. Forward(new)
  BY <1>2, <1>5 DEF Forward
<1>7. ASSUME NEW c PROVE c \in Covered(new) <=> c \in Covered(pv)
  <2>1. (\E k \in DOMAIN new : Within(c, new[k])) <=> (\E k \in DOMAIN pv : Within(c, pv[k]))
    BY <1>2, <1>5
  <2> QED  BY <2>1, InCovered
<1> QED  BY <1>4, <1>6, <1>7

\* A target that the base reaches goes into it.
LEMMA PeriodMerged ==
    ASSUME NEW pv \in Seq(Period), Forward(pv), NEW i \in Nat, NEW j \in Nat, Unified(pv, i, j),
           i < Len(pv), j < Len(pv), pv[i + 1][2] >= pv[j + 1][1], NEW new,
           new = [pv EXCEPT ![i + 1] = <<pv[i + 1][1], merged(pv[i + 1], pv[j + 1])>>]
    PROVE  /\ new \in Seq(Period) /\ Forward(new) /\ Covered(new) = Covered(pv)
           /\ Unified(new, i, j + 1)
<1> DEFINE m == merged(pv[i + 1], pv[j + 1])
           x == <<pv[i + 1][1], m>>
<1>1. /\ Len(pv) \in Nat /\ DOMAIN pv = 1 .. Len(pv)
      /\ \A k \in DOMAIN pv : pv[k] \in Period /\ pv[k][1] \in Nat /\ pv[k][2] \in Nat
  BY PeriodsIs
<1>2. i + 1 \in DOMAIN pv /\ j + 1 \in DOMAIN pv /\ i < j
  BY <1>1 DEF Unified
<1>3. /\ m \in Nat /\ m >= pv[i + 1][2] /\ m >= pv[j + 1][2]
      /\ m = pv[i + 1][2] \/ m = pv[j + 1][2]
  BY <1>1, <1>2 DEF merged
<1>4. pv[i + 1][1] <= pv[i + 1][2] /\ pv[i + 1][1] <= pv[j + 1][1] /\ pv[j + 1][1] <= pv[j + 1][2]
  <2>1. i + 1 < j + 1
    BY <1>2
  <2> QED  BY <1>2, <2>1 DEF Forward, Unified, ByStart
<1> HIDE DEF m
<1>5. x \in Period /\ x[1] = pv[i + 1][1] /\ x[2] = m
  BY <1>1, <1>2, <1>3 DEF Period
<1>6. new = [pv EXCEPT ![i + 1] = x]
  BY DEF m
<1> HIDE DEF x
<1>7. /\ new \in [1 .. Len(pv) -> Period]
      /\ DOMAIN new = DOMAIN pv /\ new[i + 1] = x /\ \A k \in DOMAIN pv : k # i + 1 => new[k] = pv[k]
  BY <1>1, <1>2, <1>5, <1>6
<1>8. new \in Seq(Period) /\ Len(new) = Len(pv)
  <2>1. new \in Seq(Period)
    BY <1>1, <1>7
  <2>2. Len(new) \in Nat /\ DOMAIN new = 1 .. Len(new)
    BY <2>1, PeriodsIs
  <2> QED  BY <1>1, <1>7, <2>1, <2>2
<1>9. \A k \in DOMAIN pv : new[k][1] = pv[k][1] /\ (k # i + 1 => new[k][2] = pv[k][2])
  BY <1>5, <1>7
<1>10. Forward(new)
  <2>1. new[i + 1][1] <= new[i + 1][2]
    BY <1>1, <1>2, <1>3, <1>4, <1>5, <1>7
  <2> QED  BY <1>7, <1>9, <2>1 DEF Forward
<1>11. ASSUME NEW c PROVE c \in Covered(new) <=> c \in Covered(pv)
  <2>1. Within(c, pv[i + 1]) => Within(c, x)
    BY <1>1, <1>2, <1>3, <1>5 DEF Within
  <2>2. Within(c, x) => Within(c, pv[i + 1]) \/ Within(c, pv[j + 1])
    BY <1>1, <1>2, <1>3, <1>4, <1>5 DEF Within
  <2>3. c \in Covered(new) => c \in Covered(pv)
    <3> SUFFICES ASSUME c \in Covered(new) PROVE c \in Covered(pv)
      OBVIOUS
    <3>1. PICK k \in DOMAIN new : Within(c, new[k])
      BY InCovered
    <3> QED  BY <1>2, <1>7, <2>1, <2>2, <3>1, InCovered
  <2>4. c \in Covered(pv) => c \in Covered(new)
    BY <1>2, <1>7, <2>1, InCovered
  <2> QED  BY <2>3, <2>4
<1>12. Unified(new, i, j + 1)
  <2>1. ByStart(new)
    BY <1>7, <1>9 DEF Unified, ByStart
  <2>2. Apart(new, i)
    <3> SUFFICES ASSUME NEW k \in DOMAIN new, k <= i, k < Len(new) PROVE new[k][2] < new[k + 1][1]
      BY DEF Apart
    <3>1. k # i + 1 /\ k + 1 \in DOMAIN pv /\ k \in DOMAIN pv /\ k < Len(pv)
      BY <1>1, <1>7, <1>8
    <3> QED  BY <1>9, <3>1 DEF Unified, Apart
  <2>3. ASSUME NEW a \in DOMAIN new, i + 1 < a, a <= j + 1 PROVE new[a][2] <= new[i + 1][2]
    <3>1. a \in DOMAIN pv /\ a # i + 1 /\ (a <= j \/ a = j + 1)
      BY <1>1, <1>7, <2>3
    <3>2. new[a][2] = pv[a][2] /\ new[i + 1][2] = m
      BY <1>5, <1>7, <1>9, <3>1
    <3>3. CASE a <= j
      <4>1. pv[a][2] <= pv[i + 1][2]
        BY <2>3, <3>1, <3>3 DEF Unified
      <4> QED  BY <1>1, <1>2, <1>3, <3>1, <3>2, <4>1
    <3>4. CASE a = j + 1
      BY <1>3, <3>2, <3>4
    <3> QED  BY <3>1, <3>3, <3>4
  <2>4. i < j + 1 /\ i <= Len(new) /\ j + 1 <= Len(new)
    BY <1>1, <1>2, <1>8
  <2> QED  BY <2>1, <2>2, <2>3, <2>4 DEF Unified
<1> QED  BY <1>8, <1>10, <1>11, <1>12

\* What is within the base is cut out, and the next one becomes the base.
LEMMA PeriodsCut ==
    ASSUME NEW pv \in Seq(Period), Forward(pv), NEW i \in Nat, NEW j \in Nat, Unified(pv, i, j),
           i < Len(pv), ~(j < Len(pv) /\ pv[i + 1][2] >= pv[j + 1][1]), NEW new,
           new = IF j > i + 1 THEN DeleteAt(pv, i + 1, j - i - 1) ELSE pv
    PROVE  /\ new \in Seq(Period) /\ Forward(new) /\ Covered(new) = Covered(pv)
           /\ Unified(new, i + 1, i + 2)
<1> DEFINE n == j - i - 1
           b == i + 1
<1>0. /\ Len(pv) \in Nat /\ DOMAIN pv = 1 .. Len(pv)
      /\ \A k \in DOMAIN pv : pv[k] \in Period /\ pv[k][1] \in Nat /\ pv[k][2] \in Nat
  BY PeriodsIs
<1>1. n \in Nat /\ b \in Nat /\ b + n = j /\ j <= Len(pv) /\ b <= j /\ b \in DOMAIN pv
  <2>1. i < j /\ (j <= Len(pv) \/ j = i + 1)
    BY DEF Unified
  <2> QED  BY <1>0, <2>1
<1>2. IsDeleted(Period, new, pv, b, n)
  <2>1. CASE j > i + 1
    <3> HIDE DEF n, b
    <3>1. IsDeleted(Period, Deleted(pv, b, n), pv, b, n)
      BY <1>1, DeletedIs
    <3>2. new = Deleted(pv, b, n)
      BY <2>1 DEF n, b, DeleteAt, Deleted
    <3> QED  BY <3>1, <3>2
  <2>2. CASE ~(j > i + 1)
    <3>1. new = pv /\ n = 0
      BY <1>1, <2>2
    <3> QED  BY <1>0, <3>1 DEF IsDeleted
  <2> QED  BY <2>1, <2>2
<1> DEFINE from(k) == IF k <= b THEN k ELSE k + n
<1>3. new \in Seq(Period) /\ Len(new) = Len(pv) - n /\ DOMAIN new = 1 .. Len(pv) - n
  <2>1. new \in Seq(Period) /\ Len(new) = Len(pv) - n
    BY <1>2 DEF IsDeleted
  <2>2. Len(new) \in Nat /\ DOMAIN new = 1 .. Len(new)
    BY <2>1, PeriodsIs
  <2> QED  BY <2>1, <2>2
<1>4. \A k \in DOMAIN new : from(k) \in DOMAIN pv /\ new[k] = pv[from(k)]
  <2> SUFFICES ASSUME NEW k \in DOMAIN new PROVE from(k) \in DOMAIN pv /\ new[k] = pv[from(k)]
    OBVIOUS
  <2>1. k \in 1 .. Len(pv) - n
    BY <1>3
  <2> HIDE DEF n, b
  <2>2. from(k) \in DOMAIN pv
    BY <1>0, <1>1, <2>1
  <2>3. new[k] = pv[from(k)]
    BY <1>2, <2>1 DEF IsDeleted
  <2> QED  BY <2>2, <2>3
<1>5. \A k \in DOMAIN pv : ~(b < k /\ k <= j) => \E a \in DOMAIN new : from(a) = k
  <2> SUFFICES ASSUME NEW k \in DOMAIN pv, ~(b < k /\ k <= j) PROVE \E a \in DOMAIN new : from(a) = k
    OBVIOUS
  <2> HIDE DEF n, b
  <2>0. k \in 1 .. Len(pv)
    BY <1>0
  <2>1. CASE k <= b
    <3>1. k \in 1 .. Len(pv) - n
      BY ONLY <1>0, <1>1, <2>0, <2>1
    <3>2. k \in DOMAIN new
      BY <1>3, <3>1
    <3> QED  BY <2>1, <3>2
  <2>2. CASE k > j
    <3>1. k - n \in 1 .. Len(pv) - n /\ ~(k - n <= b) /\ k - n + n = k
      BY <1>0, <1>1, <2>0, <2>2
    <3>2. k - n \in DOMAIN new /\ from(k - n) = k
      BY <1>3, <3>1
    <3> QED  BY <3>2
  <2> QED  BY <1>0, <1>1, <2>1, <2>2
<1>6. \A a, k \in DOMAIN new : a < k => from(a) < from(k)
  BY <1>1, <1>3
<1>7. b \in DOMAIN new /\ from(b) = b
  BY <1>0, <1>1, <1>3
<1> HIDE DEF from, n
<1>8. Forward(new)
  BY <1>4 DEF Forward
<1>9. ASSUME NEW c PROVE c \in Covered(new) <=> c \in Covered(pv)
  <2>1. c \in Covered(new) => c \in Covered(pv)
    BY <1>4, InCovered
  <2>2. ASSUME NEW k \in DOMAIN pv, Within(c, pv[k]) PROVE \E a \in DOMAIN new : Within(c, new[a])
    <3>1. CASE b < k /\ k <= j
      <4>1. pv[b][1] <= pv[k][1] /\ pv[k][2] <= pv[b][2]
        BY <1>1, <3>1 DEF Unified, ByStart
      <4>2. Within(c, pv[b])
        <5>1. /\ pv[b][1] \in Nat /\ pv[b][2] \in Nat
              /\ pv[k][1] \in Nat /\ pv[k][2] \in Nat
          BY <1>0, <1>1
        <5> QED  BY ONLY <2>2, <4>1, <5>1, WithinGrows
      <4> HIDE DEF b
      <4> QED  BY <1>4, <1>7, <4>2
    <3>2. CASE ~(b < k /\ k <= j)
      BY <1>4, <1>5, <2>2, <3>2
    <3> QED  BY <3>1, <3>2
  <2>3. c \in Covered(pv) => c \in Covered(new)
    BY <2>2, InCovered
  <2> QED  BY <2>1, <2>3
<1>10. ByStart(new)
  BY <1>4, <1>6 DEF Unified, ByStart
<1>11. Apart(new, b)
  <2> SUFFICES ASSUME NEW k \in DOMAIN new, k <= b, k < Len(new) PROVE new[k][2] < new[k + 1][1]
    BY DEF Apart
  <2>1. k \in Nat /\ k + 1 \in DOMAIN new /\ from(k) = k
    BY <1>1, <1>3 DEF from
  <2>2. new[k] = pv[k] /\ new[k + 1] = pv[from(k + 1)] /\ from(k + 1) \in DOMAIN pv /\ k \in DOMAIN pv
    BY <1>4, <2>1
  <2>3. CASE k < b
    <3>1. from(k + 1) = k + 1 /\ k <= i /\ k < Len(pv)
      BY <1>0, <1>1, <2>1, <2>2, <2>3 DEF from
    <3> QED  BY <2>2, <3>1 DEF Unified, Apart
  <2>4. CASE k = b
    <3>1. from(k + 1) = j + 1
      BY <1>1, <2>4 DEF from
    <3>2. j < Len(pv)
      BY <1>0, <1>1, <2>2, <3>1
    <3>3. pv[i + 1][2] < pv[j + 1][1]
      BY <1>0, <1>1, <2>2, <3>1, <3>2
    <3> QED  BY <2>2, <2>4, <3>1, <3>3
  <2> QED  BY <1>1, <2>1, <2>3, <2>4
<1>12. ASSUME NEW a \in DOMAIN new, b + 1 < a, a <= i + 2 PROVE FALSE
  <2>1. a \in Int
    BY <1>3
  <2> QED  BY ONLY i \in Nat, <1>12, <2>1
<1>13. i + 1 < i + 2 /\ i + 1 <= Len(new)
  BY ONLY i \in Nat, j \in Nat, <1>0, <1>1, <1>3
<1>14. Unified(new, i + 1, i + 2)
  BY <1>10, <1>11, <1>12, <1>13 DEF Unified
<1> QED  BY <1>3, <1>8, <1>9, <1>14

\* The descriptor looked at.
LEMMA DescIs ==
    ASSUME GcbTypes, gcb.j < Len(gcb.vdescv)
    PROVE  /\ gcb.vdescv[gcb.j + 1] \in 1 .. GcNBlocks /\ vdesc \in GcBlockKinds
           /\ vdesc.cno \in Nat /\ vdesc.ps \in Nat /\ vdesc.pe \in Nat
           /\ vdesc.cno # 0 => vdesc.ps <= vdesc.pe
<1>1. /\ Len(gcb.vdescv) \in Nat /\ DOMAIN gcb.vdescv = 1 .. Len(gcb.vdescv)
      /\ \A k \in DOMAIN gcb.vdescv : gcb.vdescv[k] \in 1 .. GcNBlocks
  <2>1. gcb.vdescv \in Seq(1 .. GcNBlocks)
    BY DEF GcbTypes
  <2> QED  BY ONLY <2>1, SeqIs
<1>2. gcb.vdescv[gcb.j + 1] \in 1 .. GcNBlocks
  <2>1. gcb.j \in Nat
    BY DEF GcbTypes
  <2>2. gcb.j + 1 \in DOMAIN gcb.vdescv
    BY <1>1, <2>1
  <2> QED  BY <1>1, <2>2
<1>3. vdesc \in GcBlockKinds
  BY <1>2 DEF GcbTypes, vdesc
<1> HIDE DEF vdesc
<1> QED  BY <1>2, <1>3, GcAssumption

LEMMA GcbStarts ==
    ASSUME GcbInit
    PROVE  GcbInv
<1>1. PICK in \in [1 .. GcNBlocks -> GcBlockKinds], p \in GcProtects, n \in 0 .. Cardinality(GcSnapshots) :
        \E ss \in [1 .. n -> GcSnapshots] :
            /\ InOrder(ss)
            /\ gcb = [pc |-> "toss", in |-> in, ss |-> ss, protect |-> p, last_hit |-> 0, i |-> 0, j |-> 0,
                      low |-> 0, high |-> 0, vdescv |-> [k \in 1 .. GcNBlocks |-> k],
                      vblocknrv |-> <<>>, periodv |-> <<>>]
  BY DEF GcbInit
<1>2. PICK ss \in [1 .. n -> GcSnapshots] :
            /\ InOrder(ss)
            /\ gcb = [pc |-> "toss", in |-> in, ss |-> ss, protect |-> p, last_hit |-> 0, i |-> 0, j |-> 0,
                      low |-> 0, high |-> 0, vdescv |-> [k \in 1 .. GcNBlocks |-> k],
                      vblocknrv |-> <<>>, periodv |-> <<>>]
  BY <1>1
<1>3. n \in Nat
  BY GcAssumption, FS_CardinalityType
<1>4. ss \in Seq(Nat)
  <2>1. ss \in [1 .. n -> Nat]
    BY GcAssumption
  <2> QED  BY <1>3, <2>1
<1> DEFINE v == [k \in 1 .. GcNBlocks |-> k]
<1>5. /\ GcNBlocks \in Nat /\ v \in Seq(1 .. GcNBlocks) /\ Len(v) = GcNBlocks
      /\ DOMAIN v = 1 .. GcNBlocks /\ \A k \in 1 .. GcNBlocks : v[k] = k
  BY GcAssumption
<1> HIDE DEF v
<1>6. /\ gcb.pc = "toss" /\ gcb.in = in /\ gcb.ss = ss /\ gcb.protect = p /\ gcb.last_hit = 0
      /\ gcb.i = 0 /\ gcb.j = 0 /\ gcb.low = 0 /\ gcb.high = 0 /\ gcb.vdescv = v
      /\ gcb.vblocknrv = <<>> /\ gcb.periodv = <<>>
  BY <1>2 DEF v
<1>7. GcbTypes
  <2>1. IsCall(gcb)
    BY <1>2 DEF IsCall
  <2>2. p \in Nat /\ <<>> \in Seq(1 .. GcNBlocks) /\ <<>> \in Seq(Nat \X Nat)
    BY GcAssumption
  <2> QED  BY <1>2, <1>4, <1>5, <1>6, <2>1, <2>2 DEF GcbTypes
<1>8. DOMAIN <<>> = {} /\ Range(<<>>) = {}
  BY DEF Range
<1>9. Lists(in, p, ss, v, <<>>)
  <2>1. \A k \in 1 .. GcNBlocks : k \in Range(v)
    BY <1>5 DEF Range
  <2>2. InOrder(v)
    BY <1>5 DEF InOrder
  <2> QED  BY <1>8, <2>1, <2>2 DEF Lists, InOrder
<1>10. Walked(in, p, ss, v, <<>>, 0, 0)
  BY <1>5, <1>8 DEF Walked
<1>11. TossInv
  BY <1>6, <1>9, <1>10 DEF TossInv, Hit
<1>12. Covered(<<>>) = {} /\ Given(in, <<>>) = {} /\ Forward(<<>>)
  BY <1>8 DEF Covered, Given, Forward
<1>13. PeriodInv
  BY <1>6, <1>12 DEF PeriodInv
<1> QED  BY <1>7, <1>11, <1>13 DEF GcbInv

LEMMA SearchStarts ==
    ASSUME GcbInv, StartSearch
    PROVE  GcbInv'
<1> USE DEF GcbInv
<1>1. /\ gcb'.pc = "search" /\ gcb'.in = gcb.in /\ gcb'.ss = gcb.ss /\ gcb'.protect = gcb.protect
      /\ gcb'.last_hit = gcb.last_hit /\ gcb'.i = gcb.i /\ gcb'.j = gcb.j /\ gcb'.low = 0
      /\ gcb'.high = Len(gcb.ss) - 1 /\ gcb'.vdescv = gcb.vdescv /\ gcb'.vblocknrv = gcb.vblocknrv
      /\ gcb'.periodv = gcb.periodv
      /\ IsCall(gcb')
  BY DEF StartSearch, GcbTypes, IsCall
<1>2. gcb.pc = "toss" /\ InRun /\ judged = "search"
  BY DEF StartSearch
<1>3. Len(gcb.ss) \in Nat /\ DOMAIN gcb.ss = 1 .. Len(gcb.ss)
  BY SeqIs DEF GcbTypes
<1>4. GcbTypes'
  BY <1>1, <1>3 DEF GcbTypes
<1>5. Len(gcb.ss) > 0
  <2>1. vdesc \in GcBlockKinds
    BY <1>2, DescIs DEF InRun
  <2> QED  BY <1>2, <2>1, JudgedRight DEF judged, GcbTypes, TossInv
<1>6. Sought(vdesc, gcb.ss, 0, Len(gcb.ss) - 1)
  BY <1>3, <1>5 DEF Sought
<1>7. InRun' /\ judged' = "search" /\ Sought(vdesc', gcb'.ss, gcb'.low, gcb'.high)
  <2>1. vdesc' = vdesc
    BY <1>1 DEF vdesc
  <2>2. InRun' /\ judged' = judged
    BY <1>1, <1>2, <2>1 DEF InRun, judged
  <2> QED  BY <1>1, <1>2, <1>6, <2>1, <2>2
<1>8. TossInv'
  BY <1>1, <1>2, <1>7 DEF TossInv
<1>9. PeriodInv'
  BY <1>1, <1>2 DEF PeriodInv
<1> QED  BY <1>4, <1>8, <1>9

LEMMA SearchGoesOn ==
    ASSUME GcbInv, SearchUp \/ SearchDown
    PROVE  GcbInv'
<1> USE DEF GcbInv
<1>1. /\ gcb'.pc = "search" /\ gcb'.in = gcb.in /\ gcb'.ss = gcb.ss /\ gcb'.protect = gcb.protect
      /\ gcb'.last_hit = gcb.last_hit /\ gcb'.i = gcb.i /\ gcb'.j = gcb.j
      /\ gcb'.vdescv = gcb.vdescv /\ gcb'.vblocknrv = gcb.vblocknrv /\ gcb'.periodv = gcb.periodv
      /\ \/ gcb.ss[middle + 1] < vdesc.ps /\ gcb'.low = middle + 1 /\ gcb'.high = gcb.high
         \/ gcb.ss[middle + 1] >= vdesc.pe /\ gcb'.low = gcb.low /\ gcb'.high = middle - 1
      /\ IsCall(gcb')
  BY DEF SearchUp, SearchDown, GcbTypes, IsCall
<1>2. gcb.pc = "search" /\ gcb.low <= gcb.high
  BY DEF SearchUp, SearchDown
<1>3. InRun /\ judged = "search" /\ Sought(vdesc, gcb.ss, gcb.low, gcb.high)
  BY <1>2 DEF TossInv
<1>4. vdesc.ps \in Nat /\ vdesc.pe \in Nat
  BY <1>3, DescIs DEF InRun
<1>5. /\ middle \in Nat
      /\ gcb.ss[middle + 1] < vdesc.ps => Sought(vdesc, gcb.ss, middle + 1, gcb.high)
      /\ gcb.ss[middle + 1] >= vdesc.pe => Sought(vdesc, gcb.ss, gcb.low, middle - 1)
  BY <1>2, <1>3, <1>4, SoughtUp DEF middle, GcbTypes
<1>6. GcbTypes'
  <2>1. gcb'.low \in Nat /\ gcb'.high \in Int
    <3>1. middle + 1 \in Nat /\ middle - 1 \in Int
      BY <1>5
    <3> HIDE DEF middle
    <3> QED  BY <1>1, <3>1 DEF GcbTypes
  <2> QED  BY <1>1, <2>1 DEF GcbTypes
<1>7. Sought(vdesc, gcb.ss, gcb'.low, gcb'.high)
  BY <1>1, <1>5
<1>8. InRun' /\ judged' = "search" /\ Sought(vdesc', gcb'.ss, gcb'.low, gcb'.high)
  <2>1. vdesc' = vdesc
    BY <1>1 DEF vdesc
  <2>2. InRun' /\ judged' = judged
    BY <1>1, <1>3, <2>1 DEF InRun, judged
  <2> QED  BY <1>1, <1>3, <1>7, <2>1, <2>2
<1>9. TossInv'
  BY <1>1, <1>2, <1>8 DEF TossInv
<1>10. PeriodInv'
  BY <1>1, <1>2 DEF PeriodInv
<1> QED  BY <1>6, <1>9, <1>10

LEMMA DeadTossed ==
    ASSUME GcbInv, TossDead
    PROVE  GcbInv'
<1> USE DEF GcbInv
<1>1. gcb.pc \in {"toss", "search"} /\ InRun /\ ~Shown(vdesc, gcb.protect, gcb.ss)
  <2>1. CASE gcb.pc = "toss" /\ InRun /\ judged = "dead"
    <3>1. vdesc \in GcBlockKinds
      BY <2>1, DescIs DEF InRun
    <3> QED  BY <2>1, <3>1, JudgedRight DEF judged, GcbTypes, TossInv
  <2>2. CASE gcb.pc = "search" /\ gcb.low > gcb.high
    <3>1. InRun /\ judged = "search" /\ Sought(vdesc, gcb.ss, gcb.low, gcb.high)
      BY <2>2 DEF TossInv
    <3>2. vdesc \in GcBlockKinds /\ vdesc.cno \in Nat /\ vdesc.ps \in Nat /\ vdesc.pe \in Nat
      BY <3>1, DescIs DEF InRun
    <3>3. /\ vdesc.cno # 0 /\ vdesc.pe # vdesc.cno /\ vdesc.pe # CNO_MAX /\ vdesc.pe <= gcb.protect
      BY <3>1, <3>2, JudgedRight DEF judged, GcbTypes, TossInv
    <3>4. \A s \in Range(gcb.ss) : s \notin vdesc.ps .. vdesc.pe - 1
      BY <2>2, <3>1, <3>2, SoughtInVain DEF GcbTypes
    <3>5. ~(vdesc.pe > gcb.protect)
      BY <3>2, <3>3 DEF GcbTypes
    <3> QED  BY <2>2, <3>1, <3>3, <3>4, <3>5 DEF Shown
  <2> QED  BY <2>1, <2>2 DEF TossDead
<1> DEFINE k == gcb.vdescv[gcb.j + 1]
           new == Append(gcb.vblocknrv, k)
<1>2. /\ k \in 1 .. GcNBlocks /\ vdesc \in GcBlockKinds
      /\ vdesc.cno \in Nat /\ vdesc.ps \in Nat /\ vdesc.pe \in Nat
      /\ vdesc.cno # 0 => vdesc.ps <= vdesc.pe
  BY <1>1, DescIs DEF InRun
<1>3. vdesc = gcb.in[k]
  BY DEF vdesc
<1>4. CASE gcb' = [gcb EXCEPT !.pc = "failed"]
  <2>1. /\ gcb'.pc = "failed" /\ gcb'.in = gcb.in /\ gcb'.ss = gcb.ss /\ gcb'.protect = gcb.protect
        /\ gcb'.last_hit = gcb.last_hit /\ gcb'.i = gcb.i /\ gcb'.j = gcb.j
        /\ gcb'.low = gcb.low /\ gcb'.high = gcb.high
        /\ gcb'.vdescv = gcb.vdescv /\ gcb'.vblocknrv = gcb.vblocknrv /\ gcb'.periodv = gcb.periodv
        /\ IsCall(gcb')
    BY <1>4 DEF GcbTypes, IsCall
  <2>2. GcbTypes'
    BY <2>1 DEF GcbTypes
  <2>3. TossInv'
    BY <2>1 DEF TossInv
  <2>4. PeriodInv'
    BY <2>1 DEF PeriodInv
  <2> QED  BY <2>2, <2>3, <2>4
<1>5. CASE gcb' = [gcb EXCEPT !.pc = "toss", !.j = @ + 1, !.vblocknrv = Append(@, gcb.vdescv[gcb.j + 1]),
                              !.periodv = IF vdesc.cno # 0 THEN Append(@, <<vdesc.ps, vdesc.pe>>) ELSE @]
  <2> DEFINE pv == IF vdesc.cno # 0 THEN Append(gcb.periodv, <<vdesc.ps, vdesc.pe>>) ELSE gcb.periodv
  <2>1. /\ gcb'.pc = "toss" /\ gcb'.in = gcb.in /\ gcb'.ss = gcb.ss /\ gcb'.protect = gcb.protect
        /\ gcb'.last_hit = gcb.last_hit /\ gcb'.i = gcb.i /\ gcb'.j = gcb.j + 1
        /\ gcb'.low = gcb.low /\ gcb'.high = gcb.high
        /\ gcb'.vdescv = gcb.vdescv /\ gcb'.vblocknrv = new /\ gcb'.periodv = pv
        /\ IsCall(gcb')
    <3> HIDE DEF vdesc
    <3> QED  BY <1>5 DEF GcbTypes, IsCall
  <2>2. /\ gcb.vdescv \in Seq(1 .. GcNBlocks) /\ gcb.vblocknrv \in Seq(1 .. GcNBlocks)
        /\ gcb.i \in Nat /\ gcb.j \in Nat /\ gcb.i < Len(gcb.vdescv) /\ gcb.j < Len(gcb.vdescv)
        /\ Lists(gcb.in, gcb.protect, gcb.ss, gcb.vdescv, gcb.vblocknrv)
        /\ Walked(gcb.in, gcb.protect, gcb.ss, gcb.vdescv, gcb.vblocknrv, gcb.i, gcb.j)
        /\ ~Shown(gcb.in[gcb.vdescv[gcb.j + 1]], gcb.protect, gcb.ss)
    BY <1>1 DEF GcbTypes, TossInv, InRun, vdesc
  <2>3. /\ new \in Seq(1 .. GcNBlocks)
        /\ Range(new) = Range(gcb.vblocknrv) \cup {k}
        /\ Lists(gcb.in, gcb.protect, gcb.ss, gcb.vdescv, new)
        /\ Walked(gcb.in, gcb.protect, gcb.ss, gcb.vdescv, new, gcb.i, gcb.j + 1)
    BY ONLY <2>2, PutOnList
  <2> HIDE DEF new, k, vdesc, pv
  <2>4. pv \in Seq(Period) /\ Forward(pv) /\ Covered(pv) = Given(gcb.in, new)
    <3>1. gcb.periodv \in Seq(Period) /\ Forward(gcb.periodv) /\ Covered(gcb.periodv) = Given(gcb.in, gcb.vblocknrv)
      BY DEF Period, GcbTypes, PeriodInv
    <3>2. /\ vdesc.cno # 0 => Given(gcb.in, new) = Given(gcb.in, gcb.vblocknrv) \cup (vdesc.ps .. vdesc.pe - 1)
          /\ vdesc.cno = 0 => Given(gcb.in, new) = Given(gcb.in, gcb.vblocknrv)
      <4> DEFINE in == gcb.in
                 nrs == gcb.vblocknrv
      <4>1. Range(new) = Range(nrs) \cup {k} /\ vdesc = in[k]
        BY <1>3, <2>3
      <4> HIDE DEF in, nrs
      <4>2. /\ in[k].cno # 0 => Given(in, new) = Given(in, nrs) \cup (in[k].ps .. in[k].pe - 1)
            /\ in[k].cno = 0 => Given(in, new) = Given(in, nrs)
        BY ONLY <4>1, GivenAdded
      <4> QED  BY <4>1, <4>2 DEF in, nrs
    <3>3. CASE vdesc.cno # 0
      <4>1. pv = Append(gcb.periodv, <<vdesc.ps, vdesc.pe>>)
        BY <3>3 DEF pv
      <4>2. vdesc.ps \in Nat /\ vdesc.pe \in Nat /\ vdesc.ps <= vdesc.pe
        BY <1>2, <3>3
      <4>3. /\ pv \in Seq(Period) /\ Forward(pv)
            /\ Covered(pv) = Covered(gcb.periodv) \cup (vdesc.ps .. vdesc.pe - 1)
        BY ONLY <3>1, <4>1, <4>2, PeriodAdded
      <4> QED  BY <3>1, <3>2, <3>3, <4>3
    <3>4. CASE vdesc.cno = 0
      BY <3>1, <3>2, <3>4 DEF pv
    <3> QED  BY <3>3, <3>4
  <2>5. GcbTypes'
    BY <2>1, <2>3, <2>4 DEF GcbTypes, Period
  <2>6. TossInv'
    BY <2>1, <2>3 DEF TossInv
  <2>7. PeriodInv'
    BY <2>1, <2>4 DEF PeriodInv
  <2> QED  BY <2>5, <2>6, <2>7
<1> QED  BY <1>4, <1>5 DEF TossDead

LEMMA RunEnded ==
    ASSUME GcbInv, TossRun
    PROVE  GcbInv'
<1> USE DEF GcbInv
<1>1. PICK hit : /\ gcb.pc \in {"toss", "search"} /\ gcb.i < Len(gcb.vdescv) /\ EndRun(hit)
                 /\ hit \in Nat /\ Hit(gcb.ss, hit)
                 /\ gcb.j < Len(gcb.vdescv) => Shown(vdesc, gcb.protect, gcb.ss)
  <2>0. gcb.last_hit \in Nat /\ Hit(gcb.ss, gcb.last_hit)
    BY DEF GcbTypes, TossInv
  <2>1. CASE gcb.pc = "toss" /\ InRun /\ judged = "live" /\ EndRun(gcb.last_hit)
    <3>1. vdesc \in GcBlockKinds
      BY <2>1, DescIs DEF InRun
    <3>2. Shown(vdesc, gcb.protect, gcb.ss)
      BY <2>1, <3>1, JudgedRight DEF judged, GcbTypes, TossInv
    <3> QED  BY <2>0, <2>1, <3>2 DEF InRun
  <2>2. CASE /\ gcb.pc = "search" /\ gcb.low <= gcb.high
             /\ gcb.ss[middle + 1] \in vdesc.ps .. vdesc.pe - 1
             /\ EndRun(gcb.ss[middle + 1])
    <3>1. InRun /\ judged = "search" /\ Sought(vdesc, gcb.ss, gcb.low, gcb.high)
      BY <2>2 DEF TossInv
    <3>2. vdesc \in GcBlockKinds /\ vdesc.ps \in Nat /\ vdesc.pe \in Nat
      BY <3>1, DescIs DEF InRun
    <3>3. vdesc.cno # 0 /\ vdesc.pe # vdesc.cno
      BY <3>1, <3>2, JudgedRight DEF judged, GcbTypes, TossInv
    <3>4. middle + 1 \in DOMAIN gcb.ss
      BY <2>2, <3>1, <3>2, SoughtUp DEF middle, GcbTypes
    <3>5. gcb.ss[middle + 1] \in Nat /\ gcb.ss[middle + 1] \in Range(gcb.ss)
      BY <3>4, SeqIs DEF Range, GcbTypes
    <3>6. Shown(vdesc, gcb.protect, gcb.ss)
      BY <2>2, <3>3, <3>5 DEF Shown
    <3> QED  BY <2>2, <3>1, <3>5, <3>6 DEF InRun, Hit
  <2>3. CASE /\ gcb.pc = "toss" /\ gcb.i < Len(gcb.vdescv) /\ gcb.j >= Len(gcb.vdescv)
             /\ EndRun(gcb.last_hit)
    <3>1. ~(gcb.j < Len(gcb.vdescv))
      <4>1. gcb.j \in Nat /\ Len(gcb.vdescv) \in Nat
        BY SeqIs DEF GcbTypes
      <4> QED  BY <2>3, <4>1
    <3> QED  BY <2>0, <2>3, <3>1
  <2> QED  BY <2>1, <2>2, <2>3 DEF TossRun
<1> DEFINE new == IF gcb.j > gcb.i THEN DeleteAt(gcb.vdescv, gcb.i, gcb.j - gcb.i) ELSE gcb.vdescv
<1>2. /\ gcb'.pc = "toss" /\ gcb'.in = gcb.in /\ gcb'.ss = gcb.ss /\ gcb'.protect = gcb.protect
      /\ gcb'.last_hit = hit /\ gcb'.i = gcb.i + 1 /\ gcb'.j = gcb.i + 1
      /\ gcb'.low = gcb.low /\ gcb'.high = gcb.high
      /\ gcb'.vdescv = new /\ gcb'.vblocknrv = gcb.vblocknrv /\ gcb'.periodv = gcb.periodv
      /\ IsCall(gcb')
  BY <1>1 DEF EndRun, GcbTypes, IsCall
<1>3. /\ gcb.vdescv \in Seq(1 .. GcNBlocks) /\ gcb.vblocknrv \in Seq(1 .. GcNBlocks)
      /\ gcb.i \in Nat /\ gcb.j \in Nat /\ gcb.i < Len(gcb.vdescv)
      /\ Lists(gcb.in, gcb.protect, gcb.ss, gcb.vdescv, gcb.vblocknrv)
      /\ Walked(gcb.in, gcb.protect, gcb.ss, gcb.vdescv, gcb.vblocknrv, gcb.i, gcb.j)
      /\ gcb.j < Len(gcb.vdescv) => Shown(gcb.in[gcb.vdescv[gcb.j + 1]], gcb.protect, gcb.ss)
  BY <1>1 DEF GcbTypes, TossInv, vdesc
<1>4. /\ new \in Seq(1 .. GcNBlocks) /\ Lists(gcb.in, gcb.protect, gcb.ss, new, gcb.vblocknrv)
      /\ Walked(gcb.in, gcb.protect, gcb.ss, new, gcb.vblocknrv, gcb.i + 1, gcb.i + 1)
  BY ONLY <1>3, CutOut
<1> HIDE DEF new
<1>5. GcbTypes'
  BY <1>1, <1>2, <1>4 DEF GcbTypes
<1>6. TossInv'
  BY <1>1, <1>2, <1>4 DEF TossInv
<1>7. PeriodInv'
  BY <1>2 DEF PeriodInv
<1> QED  BY <1>5, <1>6, <1>7

LEMMA UnifyStarts ==
    ASSUME GcbInv, UnifySort
    PROVE  GcbInv'
<1> USE DEF GcbInv
<1>1. gcb.pc = "toss" /\ gcb.i >= Len(gcb.vdescv)
  BY DEF UnifySort
<1> DEFINE sorted(perm) == [k \in DOMAIN gcb.periodv |-> gcb.periodv[perm[k]]]
<1>2. PICK perm \in Bijection(DOMAIN gcb.periodv, DOMAIN gcb.periodv) :
        /\ \A a, b \in DOMAIN sorted(perm) : a < b => sorted(perm)[a][1] <= sorted(perm)[b][1]
        /\ gcb' = [gcb EXCEPT !.pc = "unify", !.periodv = sorted(perm), !.i = 0, !.j = 1]
  BY DEF UnifySort
<1> DEFINE pv == sorted(perm)
<1>3. /\ gcb'.pc = "unify" /\ gcb'.in = gcb.in /\ gcb'.ss = gcb.ss /\ gcb'.protect = gcb.protect
      /\ gcb'.last_hit = gcb.last_hit /\ gcb'.i = 0 /\ gcb'.j = 1
      /\ gcb'.low = gcb.low /\ gcb'.high = gcb.high
      /\ gcb'.vdescv = gcb.vdescv /\ gcb'.vblocknrv = gcb.vblocknrv /\ gcb'.periodv = pv
      /\ IsCall(gcb')
  <2> HIDE DEF sorted
  <2> QED  BY <1>2 DEF GcbTypes, IsCall
<1>4. gcb.periodv \in Seq(Period) /\ Forward(gcb.periodv)
  BY DEF Period, GcbTypes, PeriodInv
<1>5. ByStart(pv)
  BY <1>2 DEF ByStart
<1>6. pv \in Seq(Period) /\ Forward(pv) /\ Covered(pv) = Covered(gcb.periodv)
  <2>1. pv = [k \in DOMAIN gcb.periodv |-> gcb.periodv[perm[k]]]
    OBVIOUS
  <2> HIDE DEF sorted
  <2> QED  BY ONLY <1>2, <1>4, <2>1, PeriodsSorted
<1> HIDE DEF sorted
<1>7. GcbTypes'
  BY <1>3, <1>6 DEF GcbTypes, Period
<1>8. TossInv'
  <2>1. \A a \in DOMAIN gcb.vdescv : Shown(gcb.in[gcb.vdescv[a]], gcb.protect, gcb.ss)
    <3>1. Len(gcb.vdescv) \in Nat /\ DOMAIN gcb.vdescv = 1 .. Len(gcb.vdescv) /\ gcb.i \in Nat
      BY SeqIs DEF GcbTypes
    <3>2. \A a \in DOMAIN gcb.vdescv : a <= gcb.i
      BY <1>1, <3>1
    <3> QED  BY <1>1, <3>2 DEF TossInv, Walked
  <2> QED  BY <1>3, <2>1 DEF TossInv
<1>9. Unified(pv, 0, 1)
  <2>1. Len(pv) \in Nat /\ DOMAIN pv = 1 .. Len(pv)
    BY <1>6, PeriodsIs
  <2>2. Apart(pv, 0)
    BY <2>1 DEF Apart
  <2>3. \A a \in DOMAIN pv : ~(0 + 1 < a /\ a <= 1)
    BY <2>1
  <2> QED  BY <1>5, <2>1, <2>2, <2>3 DEF Unified
<1>10. PeriodInv'
  BY <1>3, <1>6, <1>9 DEF PeriodInv
<1> QED  BY <1>7, <1>8, <1>10

\* A step of nilfs_unify_period() after the sorting: only the periods change.
LEMMA UnifyKept ==
    ASSUME GcbInv, gcb.pc = "unify", NEW pc \in {"unify", "done"}, NEW i \in Nat, NEW j \in Nat, NEW pv,
           pv \in Seq(Period), Forward(pv), Covered(pv) = Covered(gcb.periodv),
           pc = "unify" => Unified(pv, i, j), pc = "done" => Apart(pv, Len(pv)),
           gcb' = [gcb EXCEPT !.pc = pc, !.i = i, !.j = j, !.periodv = pv]
    PROVE  GcbInv'
<1> USE DEF GcbInv
<1>1. /\ gcb'.pc = pc /\ gcb'.in = gcb.in /\ gcb'.ss = gcb.ss /\ gcb'.protect = gcb.protect
      /\ gcb'.last_hit = gcb.last_hit /\ gcb'.i = i /\ gcb'.j = j
      /\ gcb'.low = gcb.low /\ gcb'.high = gcb.high
      /\ gcb'.vdescv = gcb.vdescv /\ gcb'.vblocknrv = gcb.vblocknrv /\ gcb'.periodv = pv
      /\ IsCall(gcb')
  BY DEF GcbTypes, IsCall
<1>2. GcbTypes'
  BY <1>1 DEF GcbTypes, Period
<1>3. TossInv'
  BY <1>1 DEF TossInv
<1>4. PeriodInv'
  BY <1>1 DEF PeriodInv
<1> QED  BY <1>2, <1>3, <1>4

LEMMA UnifyGoesOn ==
    ASSUME GcbInv, UnifyMerge \/ UnifyCut \/ UnifyEnd
    PROVE  GcbInv'
<1> DEFINE pv == gcb.periodv
           i == gcb.i
           j == gcb.j
<1>1. /\ gcb.pc = "unify" /\ pv \in Seq(Period) /\ Forward(pv) /\ i \in Nat /\ j \in Nat
      /\ Unified(pv, i, j)
  BY DEF GcbInv, GcbTypes, PeriodInv, Period, UnifyMerge, UnifyCut, UnifyEnd, InUnify
<1>2. CASE UnifyMerge
  <2> DEFINE new == [pv EXCEPT ![i + 1] = <<pv[i + 1][1], merged(pv[i + 1], pv[j + 1])>>]
  <2>1. /\ i < Len(pv) /\ j < Len(pv) /\ pv[i + 1][2] >= pv[j + 1][1]
        /\ gcb' = [gcb EXCEPT !.j = j + 1, !.periodv = new]
    BY <1>2 DEF UnifyMerge, InUnify, Reaches
  <2> HIDE DEF pv, i, j
  <2>2. /\ new \in Seq(Period) /\ Forward(new) /\ Covered(new) = Covered(pv)
        /\ Unified(new, i, j + 1)
    BY ONLY <1>1, <2>1, PeriodMerged
  <2> HIDE DEF new
  <2>3. gcb' = [gcb EXCEPT !.pc = "unify", !.i = i, !.j = j + 1, !.periodv = new]
    BY <1>1, <2>1 DEF GcbInv, GcbTypes, i, IsCall
  <2>4. j + 1 \in Nat
    BY <1>1
  <2> QED  BY <1>1, <2>2, <2>3, <2>4, UnifyKept DEF pv
<1>3. CASE UnifyCut
  <2> DEFINE new == IF j > i + 1 THEN DeleteAt(pv, i + 1, j - i - 1) ELSE pv
  <2>1. /\ i < Len(pv) /\ ~(j < Len(pv) /\ pv[i + 1][2] >= pv[j + 1][1])
        /\ gcb' = [gcb EXCEPT !.periodv = new, !.i = i + 1, !.j = i + 2]
    BY <1>3 DEF UnifyCut, InUnify, Reaches
  <2> HIDE DEF pv, i, j
  <2>2. /\ new \in Seq(Period) /\ Forward(new) /\ Covered(new) = Covered(pv)
        /\ Unified(new, i + 1, i + 2)
    BY ONLY <1>1, <2>1, PeriodsCut
  <2> HIDE DEF new
  <2>3. gcb' = [gcb EXCEPT !.pc = "unify", !.i = i + 1, !.j = i + 2, !.periodv = new]
    BY <1>1, <2>1 DEF GcbInv, GcbTypes, IsCall
  <2>4. i + 1 \in Nat /\ i + 2 \in Nat
    BY <1>1
  <2> QED  BY <1>1, <2>2, <2>3, <2>4, UnifyKept DEF pv
<1>4. CASE UnifyEnd
  <2>1. i >= Len(pv) /\ gcb' = [gcb EXCEPT !.pc = "done"]
    BY <1>4 DEF UnifyEnd
  <2>2. Apart(pv, Len(pv))
    <3>1. Len(pv) \in Nat /\ DOMAIN pv = 1 .. Len(pv)
      BY <1>1, PeriodsIs
    <3>2. i = Len(pv)
      BY <1>1, <2>1, <3>1 DEF Unified
    <3> QED  BY <1>1, <3>2 DEF Unified
  <2>3. gcb' = [gcb EXCEPT !.pc = "done", !.i = i, !.j = j, !.periodv = pv]
    BY <2>1 DEF GcbInv, GcbTypes, IsCall
  <2> HIDE DEF pv, i, j
  <2>4. Covered(pv) = Covered(gcb.periodv)
    BY DEF pv
  <2> QED  BY <1>1, <2>2, <2>3, <2>4, UnifyKept
<1> QED  BY <1>2, <1>3, <1>4

LEMMA GcbStep ==
    ASSUME GcbInv, [GcbNext]_gcb
    PROVE  GcbInv'
<1>1. CASE GcbNext
  BY <1>1, SearchStarts, SearchGoesOn, DeadTossed, RunEnded, UnifyStarts, UnifyGoesOn DEF GcbNext
<1>2. CASE UNCHANGED gcb
  BY <1>2 DEF GcbInv, GcbTypes, TossInv, PeriodInv, InRun, judged, vdesc
<1> QED  BY <1>1, <1>2

LEMMA ListsAre ==
    ASSUME GcbInv
    PROVE  ListsExact
<1> USE DEF GcbInv
<1> DEFINE live == {k \in 1 .. GcNBlocks : Shown(gcb.in[k], gcb.protect, gcb.ss)}
<1>1. /\ \A a \in DOMAIN gcb.vdescv : gcb.vdescv[a] \in 1 .. GcNBlocks
      /\ \A b \in DOMAIN gcb.vblocknrv : gcb.vblocknrv[b] \in 1 .. GcNBlocks
  <2>1. gcb.vdescv \in Seq(1 .. GcNBlocks) /\ gcb.vblocknrv \in Seq(1 .. GcNBlocks)
    BY DEF GcbTypes
  <2> QED  BY ONLY <2>1, SeqIs
<1>2. /\ InOrder(gcb.vdescv) /\ InOrder(gcb.vblocknrv)
      /\ \A b \in DOMAIN gcb.vblocknrv : ~Shown(gcb.in[gcb.vblocknrv[b]], gcb.protect, gcb.ss)
      /\ \A k \in 1 .. GcNBlocks : k \in Range(gcb.vdescv) \/ k \in Range(gcb.vblocknrv)
  BY DEF TossInv, Lists
<1>3. ASSUME gcb.pc \in {"unify", "done"}
      PROVE  Range(gcb.vdescv) = live /\ Range(gcb.vblocknrv) = (1 .. GcNBlocks) \ live
  <2>1. \A a \in DOMAIN gcb.vdescv : Shown(gcb.in[gcb.vdescv[a]], gcb.protect, gcb.ss)
    BY <1>3 DEF TossInv
  <2> QED  BY <1>1, <1>2, <2>1 DEF Range
<1>4. TossExact
  BY <1>2, <1>3 DEF TossExact
<1>5. ASSUME gcb.pc = "done" PROVE UnifyExact
  <2>1. Covered(gcb.periodv) = Given(gcb.in, gcb.vblocknrv)
    BY DEF PeriodInv
  <2>2. Len(gcb.periodv) \in Nat /\ DOMAIN gcb.periodv = 1 .. Len(gcb.periodv)
    BY SeqIs DEF GcbTypes
  <2>3. ASSUME NEW k \in 1 .. Len(gcb.periodv) - 1 PROVE gcb.periodv[k][2] < gcb.periodv[k + 1][1]
    <3>1. k \in DOMAIN gcb.periodv /\ k <= Len(gcb.periodv) /\ k < Len(gcb.periodv)
      BY <2>2
    <3> QED  BY <1>5, <3>1 DEF PeriodInv, Apart
  <2>4. ASSUME NEW c \in Covered(gcb.periodv) PROVE c < gcb.protect /\ c \notin Range(gcb.ss)
    <3>1. PICK k \in Range(gcb.vblocknrv) : gcb.in[k].cno # 0 /\ c \in gcb.in[k].ps .. gcb.in[k].pe - 1
      BY <2>1, InGiven
    <3> DEFINE d == gcb.in[k]
    <3>2. k \in 1 .. GcNBlocks /\ ~Shown(d, gcb.protect, gcb.ss)
      BY <1>1, <1>2 DEF Range
    <3>3. d \in GcBlockKinds /\ gcb.protect \in Nat
      BY <3>2 DEF GcbTypes
    <3> HIDE DEF d
    <3>4. /\ d.cno \in Nat /\ d.ps \in Nat /\ d.pe \in Nat /\ d.cno # 0 /\ c \in d.ps .. d.pe - 1
          /\ d.pe = d.cno => d.ps = d.pe
      BY <3>1, <3>3, GcAssumption DEF d
    <3>5. d.pe # d.cno /\ c < d.pe
      BY <3>4
    <3>6. ~(d.pe > gcb.protect) /\ c \notin Range(gcb.ss)
      BY <3>2, <3>4, <3>5 DEF Shown
    <3> QED  BY <3>3, <3>4, <3>5, <3>6
  <2> QED  BY <2>1, <2>3, <2>4 DEF UnifyExact
<1>6. UnifyExact
  BY <1>5 DEF UnifyExact
<1> QED  BY <1>4, <1>6 DEF ListsExact

\* ListsExact: for any number of blocks, snapshots and periods, nilfs_toss_vdescs()
\* leaves exactly the live blocks in the vector it walks and cuts, the numbers on
\* the list to free are exactly the dead ones, and nilfs_unify_period() leaves
\* periods that cover what those of the dead file blocks did, apart from each
\* other, without a snapshot or a protected checkpoint in them.
THEOREM ListsAreExact == GcbSpec => []ListsExact
<1>1. GcbInit => GcbInv
  BY GcbStarts
<1>2. GcbInv /\ [GcbNext]_gcb => GcbInv'
  BY GcbStep
<1>3. GcbInv => ListsExact
  BY ListsAre
<1> QED  BY <1>1, <1>2, <1>3, PTL DEF GcbSpec

-----------------------------------------------------------------------------
(***************************************************************************)
(* The configuration of the cleaner.                                       *)
(***************************************************************************)
\* A configuration has all its parameters, and never too many segments per pass.
IsConfig(c) ==
    /\ c = [k \in CldKeys |-> c[k]]
    /\ c.nsegments_per_clean \in 0 .. NSEGMENTS_PER_CLEAN_MAX

IsReload(g) ==
    /\ g = [pc |-> g.pc, config |-> g.config, inuse |-> g.inuse, override |-> g.override,
            pos |-> g.pos, ret |-> g.ret, before |-> g.before, edited |-> g.edited,
            reloads |-> g.reloads]
    /\ g.pc \in {"stat", "open", "read", "apply", "end", "exit"}
    /\ g.ret \in {"none", "ok", "refused"} /\ g.edited \in BOOLEAN
    /\ g.pos \in Nat \ {0} /\ g.reloads \in Nat /\ IsConfig(g.config)

\* Every parameter is as the first n lines have it, and none of those stops.
ReadTo(config, f, n) ==
    /\ n \in 0 .. Len(f)
    /\ \A j \in 1 .. n : ~line_stops(f[j])
    /\ \A k \in CldKeys : AsWritten(config, k, f, n)

ReadAll(config, f) == \A k \in CldKeys : AsWritten(config, k, f, Len(f))

\* The values in use are those of the configuration, with the option -p.
UsedAs(g) ==
    /\ g.inuse = Applied(g.config)
    /\ g.ret # "none" /\ g.override # ULONG_MAX => g.config.protection_period = g.override

\* What a reading that no editor has disturbed has done at each of its steps.
Undisturbed(file, g) ==
    /\ g.pc = "open" => file.there /\ g.pos = 1 /\ g.config = cld_default
    /\ g.pc = "read" => file.there /\ ReadTo(g.config, file.lines, g.pos - 1)
    /\ g.pc = "apply" => ReadAll(g.config, file.lines)

Reloading(file, g) ==
    /\ g.pc = "stat" => g.pos = 1 /\ ~g.edited /\ g.before = g.config /\ UsedAs(g)
    /\ ~g.edited => Undisturbed(file, g)
    /\ g.pc = "end" =>
        /\ UsedAs(g) /\ g.ret # "none"
        /\ g.ret = "refused" => g.config = g.before
        /\ g.ret = "ok" /\ ~g.edited => \A k \in CldKeys :
              k # "protection_period" \/ g.override = ULONG_MAX =>
                  AsWritten(g.config, k, file.lines, Len(file.lines))

CldInv == conffile \in Conffiles /\ IsReload(cld) /\ Reloading(conffile, cld)

\* What a line that can be parsed has.
FineLine(l) ==
    l.ok =>
        /\ l.kw \in NumKeys => l.arg \in Nat
        /\ l.kw \in SegsKeys \cup BlksKeys =>
              l.arg.num \in Nat /\ l.arg.unit \in {"none", "%"} \cup DOMAIN unit_bytes

\* CldAssumption, for the lines of a file that is there or not.
LEMMA FilesFine ==
    ASSUME NEW file \in Conffiles
    PROVE  /\ Len(file.lines) \in Nat
           /\ \A i \in 1 .. Len(file.lines) : FineLine(file.lines[i])
<1>1. CASE file = NoConf
  BY <1>1 DEF NoConf
<1>2. CASE \E f \in CldFiles : file = CldFile(f)
  <2>1. PICK f \in CldFiles : file = CldFile(f)
    BY <1>2
  <2>2. file.lines = f
    BY <2>1 DEF CldFile
  <2> QED
    BY <2>2, CldAssumption DEF FineLine
<1> QED
  BY <1>1, <1>2 DEF Conffiles

\* nilfs_cldconfig_handle_keyword() leaves a configuration, within its bound.
LEMMA HandleKeeps ==
    ASSUME NEW config, IsConfig(config), NEW l, FineLine(l)
    PROVE  IsConfig(handle_keyword(config, l))
<1>1. CASE ~line_good(l)
  BY <1>1 DEF handle_keyword
<1>2. CASE line_good(l)
  <2> DEFINE new == [config EXCEPT ![l.kw] = line_value(l)]
  <2>1. handle_keyword(config, l) = new
    BY <1>2 DEF handle_keyword
  <2>2. new = [k \in CldKeys |-> new[k]]
    BY DEF IsConfig
  <2>3. CASE l.kw = "nsegments_per_clean"
    <3>1. l.arg \in Nat
      BY <1>2, <2>3 DEF FineLine, line_good, NumKeys, SegsKeys, BlksKeys, FlagKeys
    <3>2. line_value(l) \in 0 .. NSEGMENTS_PER_CLEAN_MAX
      BY <3>1, <2>3 DEF line_value, NumKeys, SegsKeys, BlksKeys, NSEGMENTS_PER_CLEAN_MAX
    <3>3. new.nsegments_per_clean = line_value(l)
      BY <2>3 DEF IsConfig, CldKeys, NumKeys
    <3> QED
      BY <2>1, <2>2, <3>2, <3>3 DEF IsConfig
  <2>4. CASE l.kw # "nsegments_per_clean"
    <3>1. new.nsegments_per_clean = config.nsegments_per_clean
      BY <2>4 DEF IsConfig
    <3> QED
      BY <2>1, <2>2, <3>1 DEF IsConfig
  <2> QED
    BY <2>3, <2>4
<1> QED
  BY <1>1, <1>2

\* It sets the parameter of its line, and no other.
LEMMA HandleSets ==
    ASSUME NEW config, IsConfig(config), NEW l, NEW k \in CldKeys
    PROVE  handle_keyword(config, l)[k] =
               IF l.kw = k /\ line_good(l) THEN line_value(l) ELSE config[k]
  BY DEF handle_keyword, IsConfig

\* A line read in: the parameters are as one more line has them.
LEMMA ReadLine ==
    ASSUME NEW config, IsConfig(config), NEW f, Len(f) \in Nat, NEW n \in Nat, n < Len(f),
           ReadTo(config, f, n), ~line_stops(f[n + 1])
    PROVE  ReadTo(handle_keyword(config, f[n + 1]), f, n + 1)
<1> DEFINE new == handle_keyword(config, f[n + 1])
<1>1. n + 1 \in 0 .. Len(f) /\ \A j \in 1 .. n + 1 : ~line_stops(f[j])
  BY DEF ReadTo
<1>2. ASSUME NEW k \in CldKeys
      PROVE  AsWritten(new, k, f, n + 1)
  <2>1. AsWritten(config, k, f, n)
    BY DEF ReadTo
  <2>2. CASE f[n + 1].kw = k /\ line_good(f[n + 1])
    <3>1. Sets(f, k, n + 1)
      BY <2>2, <1>1 DEF Sets
    <3>2. SetLast(f, k, n + 1, n + 1)
      BY <3>1 DEF SetLast
    <3>3. new[k] = line_value(f[n + 1])
      BY <2>2, HandleSets
    <3> HIDE DEF new
    <3> QED
      BY <3>2, <3>3 DEF AsWritten
  <2>3. CASE ~(f[n + 1].kw = k /\ line_good(f[n + 1]))
    <3>1. ~Sets(f, k, n + 1)
      BY <2>3 DEF Sets
    <3>2. new[k] = config[k]
      BY <2>3, HandleSets
    <3> HIDE DEF new
    <3>3. CASE NeverSet(f, k, n) /\ config[k] = cld_default[k]
      <4>1. NeverSet(f, k, n + 1)
        BY <3>1, <3>3 DEF NeverSet
      <4> QED
        BY <4>1, <3>2, <3>3 DEF AsWritten
    <3>4. CASE \E i \in 1 .. n : SetLast(f, k, i, n) /\ config[k] = line_value(f[i])
      <4>1. PICK i \in 1 .. n : SetLast(f, k, i, n) /\ config[k] = line_value(f[i])
        BY <3>4
      <4>2. SetLast(f, k, i, n + 1)
        BY <4>1, <3>1 DEF SetLast
      <4> QED
        BY <4>1, <4>2, <3>2 DEF AsWritten
    <3> QED
      BY <2>1, <3>3, <3>4 DEF AsWritten
  <2> QED
    BY <2>2, <2>3
<1> QED
  BY <1>1, <1>2 DEF ReadTo

\* The end of the file, or a line that stops the reading: no later one is reached.
LEMMA ReadStops ==
    ASSUME NEW config, NEW f, Len(f) \in Nat, NEW n \in Nat, ReadTo(config, f, n),
           n = Len(f) \/ line_stops(f[n + 1])
    PROVE  ReadAll(config, f)
<1> SUFFICES ASSUME NEW k \in CldKeys
             PROVE  AsWritten(config, k, f, Len(f))
  BY DEF ReadAll
<1>1. AsWritten(config, k, f, n) /\ n <= Len(f)
  BY DEF ReadTo
<1>2. \A j \in n + 1 .. Len(f) : ~Sets(f, k, j)
  BY DEF Sets
<1>3. CASE NeverSet(f, k, n) /\ config[k] = cld_default[k]
  <2>1. NeverSet(f, k, Len(f))
    BY <1>2, <1>3 DEF NeverSet
  <2> QED
    BY <2>1, <1>3 DEF AsWritten
<1>4. CASE \E i \in 1 .. n : SetLast(f, k, i, n) /\ config[k] = line_value(f[i])
  <2>1. PICK i \in 1 .. n : SetLast(f, k, i, n) /\ config[k] = line_value(f[i])
    BY <1>4
  <2>2. i \in 1 .. Len(f) /\ SetLast(f, k, i, Len(f))
    BY <1>1, <1>2, <2>1 DEF SetLast
  <2> QED
    BY <2>1, <2>2 DEF AsWritten
<1> QED
  BY <1>1, <1>3, <1>4 DEF AsWritten

\* The defaults are what no line at all says.
LEMMA DefaultRead ==
    ASSUME NEW f, Len(f) \in Nat
    PROVE  ReadTo(cld_default, f, 0)
  BY DEF ReadTo, AsWritten, NeverSet

\* The defaults, and the cleared object, are configurations.
LEMMA DefaultIs == IsConfig(cld_default) /\ IsConfig(NoConfig)
  BY DEF IsConfig, cld_default, NoConfig, NSEGMENTS_PER_CLEAN_MAX, CldKeys, TimeKeys, SegsKeys,
         BlksKeys, NumKeys, FlagKeys, NameKeys

\* The invariant of the reading holds when the daemon starts.
LEMMA CldStarts == CldInit => CldInv
<1> SUFFICES ASSUME CldInit
             PROVE  CldInv
  OBVIOUS
<1>1. IsConfig(NoConfig)
  BY DefaultIs
<1>2. PICK o \in CldOverride :
          cld = [pc |-> "stat", config |-> NoConfig, inuse |-> Applied(NoConfig), override |-> o,
                 pos |-> 1, ret |-> "none", before |-> NoConfig, edited |-> FALSE, reloads |-> 0]
  BY DEF CldInit
<1>3. IsReload(cld)
  BY <1>1, <1>2 DEF IsReload
<1>4. Reloading(conffile, cld)
  BY <1>2 DEF Reloading, UsedAs, Undisturbed
<1> QED
  BY <1>3, <1>4 DEF CldInv, CldInit

\* stat(): the file is refused, or the defaults are set.
LEMMA CldStatStep == CldInv /\ CldStat => CldInv'
<1> SUFFICES ASSUME CldInv, CldStat
             PROVE  CldInv'
  OBVIOUS
<1> USE DEF CldInv
<1>1. CASE ~conffile.there
  <2>1. cld' = [cld EXCEPT !.pc = IF cld.ret = "none" THEN "exit" ELSE "end", !.ret = "refused"]
    BY <1>1 DEF CldStat
  <2>2. IsReload(cld')
    BY <2>1 DEF IsReload
  <2>3. Reloading(conffile, cld')
    BY <2>1 DEF CldStat, IsReload, Reloading, UsedAs, Undisturbed
  <2> QED
    BY <2>2, <2>3 DEF CldStat
<1>2. CASE conffile.there
  <2>1. cld' = [cld EXCEPT !.pc = "open", !.config = cld_default]
    BY <1>2 DEF CldStat, cld_reset, IsReload
  <2>2. IsReload(cld')
    BY <2>1, DefaultIs DEF IsReload
  <2>3. Reloading(conffile, cld')
    <3>1. cld.pc = "stat" /\ cld.pos = 1
      BY DEF CldStat, Reloading
    <3>2. cld'.pc = "open" /\ cld'.pos = 1 /\ cld'.config = cld_default
      BY <2>1, <3>1 DEF IsReload
    <3> QED
      BY <1>2, <3>2 DEF Reloading, Undisturbed
  <2> QED
    BY <2>2, <2>3 DEF CldStat
<1> QED
  BY <1>1, <1>2

\* fopen(): the reading starts with no line read, or does not start.
LEMMA CldOpenStep == CldInv /\ CldOpen => CldInv'
<1> SUFFICES ASSUME CldInv, CldOpen
             PROVE  CldInv'
  OBVIOUS
<1> USE DEF CldInv
<1>1. CASE cld' = [cld EXCEPT !.pc = IF ~conffile.there THEN "apply" ELSE "read"]
  <2>1. IsReload(cld')
    BY <1>1 DEF IsReload
  <2>2. ASSUME ~cld.edited
        PROVE  Undisturbed(conffile, cld')
    <3>1. conffile.there /\ cld.pos = 1 /\ cld.config = cld_default
      BY <2>2 DEF CldOpen, Reloading, Undisturbed
    <3>2. ReadTo(cld_default, conffile.lines, 0)
      BY FilesFine, DefaultRead
    <3>3. cld'.pc = "read" /\ cld'.pos - 1 = 0 /\ cld'.config = cld_default
      BY <1>1, <3>1 DEF IsReload
    <3> QED
      BY <3>1, <3>2, <3>3 DEF Undisturbed
  <2>3. Reloading(conffile, cld')
    BY <1>1, <2>2 DEF IsReload, Reloading
  <2> QED
    BY <2>1, <2>3 DEF CldOpen
<1>2. CASE cld' = [cld EXCEPT !.pc = "apply", !.edited = TRUE]
  <2>1. IsReload(cld')
    BY <1>2 DEF IsReload
  <2>2. Reloading(conffile, cld')
    BY <1>2 DEF IsReload, Reloading
  <2> QED
    BY <2>1, <2>2 DEF CldOpen
<1> QED
  BY <1>1, <1>2 DEF CldOpen

\* A line is read, or the reading ends.
LEMMA CldReadStep == CldInv /\ CldRead => CldInv'
<1> SUFFICES ASSUME CldInv, CldRead
             PROVE  CldInv'
  OBVIOUS
<1> USE DEF CldInv
<1> DEFINE f == conffile.lines
           l == f[cld.pos]
<1>0. Len(f) \in Nat /\ cld.pos \in Nat \ {0}
  BY FilesFine DEF IsReload
<1>1. CASE cld.pos > Len(f) \/ line_stops(l)
  <2>1. cld' = [cld EXCEPT !.pc = "apply"]
    BY <1>1 DEF CldRead
  <2>2. IsReload(cld')
    BY <2>1 DEF IsReload
  <2>3. ASSUME ~cld.edited
        PROVE  ReadAll(cld.config, f)
    <3>1. ReadTo(cld.config, f, cld.pos - 1)
      BY <2>3 DEF CldRead, Reloading, Undisturbed
    <3>2. cld.pos - 1 \in 0 .. Len(f)
      BY <3>1 DEF ReadTo
    <3>3. cld.pos - 1 = Len(f) \/ line_stops(f[(cld.pos - 1) + 1])
      BY <1>0, <1>1, <3>2
    <3> QED
      BY <1>0, <3>1, <3>2, <3>3, ReadStops
  <2>4. Reloading(conffile, cld')
    BY <2>1, <2>3 DEF IsReload, Reloading, Undisturbed
  <2> QED
    BY <2>2, <2>4 DEF CldRead
<1>2. CASE ~(cld.pos > Len(f)) /\ ~line_stops(l)
  <2>1. cld' = [cld EXCEPT !.config = handle_keyword(@, l), !.pos = @ + 1]
    BY <1>2 DEF CldRead
  <2>2. IsReload(cld')
    <3>1. cld'.pos \in Nat \ {0}
      BY <2>1 DEF IsReload
    <3>2. CASE cld.pos \in 1 .. Len(f)
      <4>1. IsConfig(handle_keyword(cld.config, l))
        BY <3>2, FilesFine, HandleKeeps DEF IsReload
      <4> QED
        BY <2>1, <3>1, <4>1 DEF IsReload
    <3> QED
      BY <1>0, <1>2, <3>2
  <2>3. ASSUME ~cld.edited
        PROVE  Undisturbed(conffile, cld')
    <3>1. ReadTo(cld.config, f, cld.pos - 1) /\ conffile.there
      BY <2>3 DEF CldRead, Reloading, Undisturbed
    <3>2. cld.pos - 1 \in Nat /\ cld.pos - 1 < Len(f) /\ (cld.pos - 1) + 1 = cld.pos
      BY <3>1, <1>0, <1>2 DEF ReadTo
    <3>3. ReadTo(handle_keyword(cld.config, l), f, cld.pos)
      BY <1>0, <1>2, <3>1, <3>2, ReadLine DEF IsReload
    <3>4. cld'.pc = "read" /\ cld'.pos = cld.pos + 1 /\ cld'.config = handle_keyword(cld.config, l)
      <4>1. cld.pc = "read"
        BY DEF CldRead
      <4> QED
        BY <2>1, <4>1 DEF IsReload
    <3>5. cld'.pos - 1 = cld.pos
      BY <1>0, <3>4
    <3> QED
      BY <3>1, <3>3, <3>4, <3>5 DEF Undisturbed
  <2>4. Reloading(conffile, cld')
    BY <2>1, <2>3 DEF CldRead, IsReload, Reloading
  <2> QED
    BY <2>2, <2>4 DEF CldRead
<1> QED
  BY <1>1, <1>2

\* The option -p replaces one parameter only.
LEMMA OverrideOnly ==
    ASSUME NEW config, IsConfig(config), NEW v
    PROVE  LET c == [config EXCEPT !.protection_period = v] IN
           /\ IsConfig(c)
           /\ c.protection_period = v
           /\ \A k \in CldKeys : k # "protection_period" => c[k] = config[k]
  BY DEF IsConfig, CldKeys, TimeKeys

\* The option -p, and the values in use.
LEMMA CldApplyStep == CldInv /\ CldApply => CldInv'
<1> SUFFICES ASSUME CldInv, CldApply
             PROVE  CldInv'
  OBVIOUS
<1> USE DEF CldInv
<1> DEFINE v == IF cld.override # ULONG_MAX THEN cld.override ELSE cld.config.protection_period
           c == [cld.config EXCEPT !.protection_period = v]
<1>1. cld' = [cld EXCEPT !.pc = "end", !.ret = "ok", !.config = c, !.inuse = Applied(c)]
  BY DEF CldApply
<1>2. /\ IsConfig(c) /\ c.protection_period = v
      /\ \A k \in CldKeys : k # "protection_period" => c[k] = cld.config[k]
  BY OverrideOnly DEF IsReload
<1>3. cld.override = ULONG_MAX => \A k \in CldKeys : c[k] = cld.config[k]
  BY <1>2 DEF IsReload, IsConfig
<1> HIDE DEF c
<1>4. IsReload(cld')
  BY <1>1, <1>2 DEF IsReload
<1>5. /\ cld'.pc = "end" /\ cld'.ret = "ok" /\ cld'.config = c /\ cld'.inuse = Applied(c)
      /\ cld'.override = cld.override /\ cld'.edited = cld.edited
  BY <1>1 DEF IsReload
<1>6. UsedAs(cld')
  BY <1>2, <1>5 DEF UsedAs
<1>7. ASSUME ~cld.edited, NEW k \in CldKeys,
             k # "protection_period" \/ cld.override = ULONG_MAX
      PROVE  AsWritten(c, k, conffile.lines, Len(conffile.lines))
  <2>1. c[k] = cld.config[k]
    BY <1>2, <1>3, <1>7
  <2>2. AsWritten(cld.config, k, conffile.lines, Len(conffile.lines))
    BY <1>7 DEF CldApply, Reloading, Undisturbed, ReadAll
  <2> QED
    BY <2>1, <2>2 DEF AsWritten
<1>8. Reloading(conffile, cld')
  BY <1>5, <1>6, <1>7 DEF Reloading, Undisturbed
<1> QED
  BY <1>4, <1>8 DEF CldApply

\* The next reading starts from what the last one left.
LEMMA CldReloadStep == CldInv /\ CldReload => CldInv'
<1> SUFFICES ASSUME CldInv, CldReload
             PROVE  CldInv'
  OBVIOUS
<1> USE DEF CldInv
<1>1. cld' = [cld EXCEPT !.pc = "stat", !.pos = 1, !.before = cld.config, !.edited = FALSE,
                          !.reloads = cld.reloads + 1]
  BY DEF CldReload
<1>2. IsReload(cld')
  <2>1. cld'.edited \in BOOLEAN
    BY <1>1 DEF IsReload
  <2>2. /\ cld'.pc = "stat" /\ cld'.pos = 1 /\ cld'.ret = cld.ret /\ cld'.config = cld.config
        /\ cld'.reloads \in Nat
    BY <1>1 DEF IsReload
  <2>3. cld' = [pc |-> cld'.pc, config |-> cld'.config, inuse |-> cld'.inuse, override |-> cld'.override,
                pos |-> cld'.pos, ret |-> cld'.ret, before |-> cld'.before, edited |-> cld'.edited,
                reloads |-> cld'.reloads]
    BY <1>1 DEF IsReload
  <2> QED
    BY <2>1, <2>2, <2>3 DEF IsReload
<1>3. UsedAs(cld)
  BY DEF CldReload, Reloading
<1>4. Reloading(conffile, cld')
  <2>1. /\ cld'.pc = "stat" /\ cld'.pos = 1 /\ cld'.edited = FALSE /\ cld'.before = cld.config
        /\ cld'.config = cld.config /\ cld'.inuse = cld.inuse /\ cld'.ret = cld.ret
        /\ cld'.override = cld.override
    BY <1>1 DEF IsReload
  <2>2. UsedAs(cld')
    BY <1>3, <2>1 DEF UsedAs
  <2> QED
    BY <2>1, <2>2 DEF Reloading, Undisturbed
<1> QED
  BY <1>2, <1>4 DEF CldReload

\* An editor: before the file is looked at, it does no harm.
LEMMA CldEditStep == CldInv /\ CldEdit => CldInv'
<1> SUFFICES ASSUME CldInv, CldEdit
             PROVE  CldInv'
  OBVIOUS
<1> USE DEF CldInv
<1>1. cld' = [cld EXCEPT !.edited = (cld.pc # "stat")] /\ conffile' \in Conffiles
  BY DEF CldEdit
<1>2. IsReload(cld')
  BY <1>1 DEF IsReload
<1>3. CASE cld.pc = "stat"
  <2>1. Reloading(conffile', cld')
    BY <1>1, <1>3 DEF IsReload, Reloading, UsedAs, Undisturbed
  <2> QED
    BY <1>1, <1>2, <2>1
<1>4. CASE cld.pc # "stat"
  <2>1. Reloading(conffile', cld')
    BY <1>1, <1>4 DEF CldEdit, IsReload, Reloading
  <2> QED
    BY <1>1, <1>2, <2>1
<1> QED
  BY <1>3, <1>4

\* The rounding up: (b + s - 1) / s is the least number of segments of size s
\* that holds b bytes.
LEMMA CeilingHolds ==
    ASSUME NEW b \in Nat, NEW s \in Nat \ {0}
    PROVE  LET q == (b + s - 1) \div s IN q * s >= b /\ (q - 1) * s < b
<1> DEFINE a == b + s - 1
           q == a \div s
<1>1. a \in Nat
  OBVIOUS
<1>2. q \in Int /\ a = s * q + (a % s) /\ a % s \in 0 .. s - 1
  BY <1>1
<1> HIDE DEF q
<1>3. q * s = s * q /\ (q - 1) * s = s * q - s
  BY <1>2
<1> QED
  BY <1>2, <1>3 DEF q

\* nilfs_convert_size_to_nsegments(): without overflow the segments hold the size.
LEMMA SizeCovered ==
    ASSUME NEW p, p.num \in Nat, p.unit \in DOMAIN unit_bytes,
           p.num * unit_bytes[p.unit] + seg_size <= ULL
    PROVE  Covers(size_to_nsegments(p), p.num * unit_bytes[p.unit])
<1> DEFINE b == p.num * unit_bytes[p.unit]
           s == seg_size
<1>1. p.unit \in {"kB", "KiB", "MB", "MiB"} /\ unit_bytes[p.unit] \in Nat
  BY DEF unit_bytes
<1>2. b \in Nat
  BY <1>1
<1>3. s \in Nat \ {0}
  BY CldAssumption DEF seg_size
<1>4. ULL \in Nat \ {0}
  BY CldAssumption
<1>5. b + s <= ULL
  OBVIOUS
<1>6. size_to_nsegments(p) = (((b % ULL) + s - 1) % ULL) \div s
  BY <1>1 DEF size_to_nsegments, units_to_bytes
<1> HIDE DEF b, s
<1>7. b % ULL = b
  BY ONLY <1>2, <1>3, <1>4, <1>5
<1>8. (b + s - 1) % ULL = b + s - 1
  BY ONLY <1>2, <1>3, <1>4, <1>5
<1>9. size_to_nsegments(p) = (b + s - 1) \div s
  BY ONLY <1>6, <1>7, <1>8
<1>10. LET q == (b + s - 1) \div s IN q * s >= b /\ (q - 1) * s < b
  BY ONLY <1>2, <1>3, CeilingHolds
<1> QED
  BY <1>9, <1>10 DEF Covers, b, s

\* The invariant gives the property: the line a size comes from is the last one.
LEMMA CldMeans == CldInv => ConfigSound
<1> SUFFICES ASSUME CldInv
             PROVE  ConfigSound
  OBVIOUS
<1> USE DEF CldInv
<1>1. ReloadResult
  BY DEF ReloadResult, Reloading, UsedAs
<1>2. cld.config.nsegments_per_clean \in 0 .. NSEGMENTS_PER_CLEAN_MAX
  BY DEF IsReload, IsConfig
<1> DEFINE f == conffile.lines
<1>3. ASSUME cld.pc = "end", cld.ret = "ok", ~cld.edited,
             NEW k \in SegsKeys, NEW i \in 1 .. Len(f), SetLast(f, k, i, Len(f)),
             f[i].arg.unit \in DOMAIN unit_bytes,
             f[i].arg.num * unit_bytes[f[i].arg.unit] + seg_size <= ULL
      PROVE  Covers(cld.config[k], f[i].arg.num * unit_bytes[f[i].arg.unit])
  <2>1. k \in CldKeys /\ k # "protection_period"
    BY DEF SegsKeys, CldKeys
  <2>2. AsWritten(cld.config, k, f, Len(f))
    BY <1>1, <1>3, <2>1 DEF ReloadResult
  <2>3. Len(f) \in Nat /\ FineLine(f[i])
    BY FilesFine
  <2>4. Sets(f, k, i) /\ ~NeverSet(f, k, Len(f))
    BY <1>3 DEF SetLast, NeverSet
  <2>5. PICK j \in 1 .. Len(f) : SetLast(f, k, j, Len(f)) /\ cld.config[k] = line_value(f[j])
    BY <2>2, <2>4 DEF AsWritten
  <2>6. j = i
    BY <1>3, <2>3, <2>4, <2>5 DEF SetLast
  <2>7. f[i].kw = k /\ size_ok(f[i])
    BY <2>4 DEF Sets, line_good, SegsKeys, FlagKeys, BlksKeys
  <2>8. line_value(f[i]) = size_to_nsegments(f[i].arg)
    BY <2>7 DEF line_value, SegsKeys, BlksKeys, NumKeys, FlagKeys
  <2>9. f[i].arg.num \in Nat
    BY <2>3, <2>7 DEF FineLine, size_ok
  <2>10. Covers(size_to_nsegments(f[i].arg), f[i].arg.num * unit_bytes[f[i].arg.unit])
    BY <1>3, <2>9, SizeCovered
  <2> QED
    BY <2>5, <2>6, <2>8, <2>10
<1>4. ConfigBounded
  BY <1>2, <1>3 DEF ConfigBounded
<1> QED
  BY <1>1, <1>4 DEF ConfigSound

\* Whatever the files hold, and however often they are read: a reading of
\* sbin/cldconfig.c gives every parameter the value of its last good line or
\* its default, a refused one changes nothing, and the segments per pass fit
\* the arrays of the daemon.
THEOREM ConfigIsSound == CldSpec => []ConfigSound
<1>1. CldInv /\ UNCHANGED <<conffile, cld>> => CldInv'
  BY DEF CldInv
<1>2. CldInv /\ [CldNext]_<<conffile, cld>> => CldInv'
  BY <1>1, CldStatStep, CldOpenStep, CldReadStep, CldApplyStep, CldReloadStep, CldEditStep
     DEF CldNext
<1> QED
  BY <1>2, CldStarts, CldMeans, PTL DEF CldSpec

-----------------------------------------------------------------------------
(***************************************************************************)
(* Walks over the checkpoints.  The walk is at a place: what lies beyond   *)
(* it, in the order of the walk, has not been fetched; what was fetched    *)
(* and not yet handed on is the batch.  Everything there is to find has    *)
(* been reported, is in the batch or lies beyond.                          *)
(***************************************************************************)
Kinds == {"forward", "backward", "ss_forward", "ss_backward"}
Back(w) == w.kind \in {"backward", "ss_backward"}
Plain(w) == w.kind \in {"forward", "backward"}

Shape(w) ==
    [kind |-> w.kind, cs_cno |-> w.cs_cno, rest |-> w.rest, rns |-> w.rns, eidx |-> w.eidx,
     sidx |-> w.sidx, head |-> w.head, state |-> w.state, v |-> w.v, mincno |-> w.mincno,
     buf |-> w.buf, done |-> w.done, out |-> w.out, range |-> w.range, limit |-> w.limit]

IsWalk(w) ==
    /\ w = Shape(w)
    /\ w.kind \in Kinds /\ w.done \in BOOLEAN
    /\ w.cs_cno \in Nat /\ w.rest \in Nat /\ w.rns \in Int /\ w.eidx \in Nat /\ w.sidx \in Nat
    /\ w.head \in Nat /\ w.v \in Nat \ {0} /\ w.mincno \in Nat /\ w.limit \in Nat
    /\ w.buf \in SUBSET Nat /\ w.range \in SUBSET Nat /\ w.out \in Seq(Nat)

\* In the order of the walk, a comes before c.
Before(w, a, c) == IF Back(w) THEN a > c ELSE a < c

\* Not fetched yet; still to be reported.
Beyond(w, c) ==
    /\ w.kind \in {"ss_forward", "ss_backward"} => w.state # "end"
    /\ IF Back(w) THEN c < w.eidx ELSE c >= w.sidx
Ahead(w, c) == c \in w.buf \/ Beyond(w, c)

Reported(w) == {w.out[i] : i \in 1 .. Len(w.out)}

\* What the walk is for, of the checkpoints that exist.
Wanted(w, live, ss, skip) == IF Plain(w) THEN live \ skip ELSE ss

\* Whatever the direction and the way of the walk.
OutOrdered(w) ==
    /\ \A i, j \in 1 .. Len(w.out) : i < j => Before(w, w.out[i], w.out[j])
    /\ \A i \in 1 .. Len(w.out), c \in Nat : Ahead(w, c) => Before(w, w.out[i], c)
    /\ \A b \in w.buf, c \in Nat : Beyond(w, c) => Before(w, b, c)
    /\ Len(w.out) + w.rest = w.limit

OutInRange(w, live, ss, skip) ==
    /\ \A i \in 1 .. Len(w.out) : w.out[i] \in w.range \/ w.out[i] >= w.cs_cno
    /\ \A b \in w.buf : b \in w.range \/ b >= w.cs_cno \/ (Plain(w) /\ b \in skip)
    /\ \A c \in Wanted(w, live, ss, skip) : Beyond(w, c) /\ c < w.cs_cno => c \in w.range
    /\ Plain(w) => w.range \cap skip = {}

Complete(w, live) ==
    IF w.done
    THEN \A c \in w.range \cap live :
            c \in Reported(w) \/ (w.rest = 0 /\ \A i \in 1 .. Len(w.out) : Before(w, w.out[i], c))
    ELSE /\ w.buf # {} => w.rest > 0
         /\ \A c \in w.range \cap live : c \in Reported(w) \/ Ahead(w, c)

WalkInv(w, live, ss, skip) ==
    OutOrdered(w) /\ OutInRange(w, live, ss, skip) /\ Complete(w, live)

\* What each way needs to know besides.
WayBackward(w) ==
    /\ w.eidx <= w.cs_cno /\ w.state \in {"init", "normal", "accel", "decel"}
    /\ w.head # 0 => w.head >= w.eidx
    /\ w.state \in {"accel", "decel"} => w.head # 0
    /\ w.state \in {"init", "normal"} => w.v <= NCPINFO

WaySsForward(w, ss) ==
    /\ w.state \in {"search", "init", "end"}
    /\ w.state = "init" /\ w.sidx # 0 => w.sidx \in ss

WaySsBackward(w, ss) ==
    /\ w.eidx <= w.cs_cno
    /\ w.state # "end" => Cardinality({c \in ss : c < w.eidx} \cup w.buf) <= w.rns

WayInv(w, live, ss) ==
    /\ w.range \subseteq 1 .. w.cs_cno - 1 /\ w.cs_cno <= next_cp
    /\ ~Plain(w) => w.range \subseteq ss
    /\ \A c \in live : c >= w.mincno
    /\ w.kind = "backward" => WayBackward(w)
    /\ w.kind = "ss_forward" => WaySsForward(w, ss)
    /\ w.kind = "ss_backward" => WaySsBackward(w, ss)

\* The file system: the newest checkpoint exists.
CpFs ==
    /\ next_cp \in Nat /\ cp_live \subseteq 1 .. next_cp - 1 /\ next_cp - 1 \in cp_live
    /\ cp_ss \subseteq cp_live

Walks(w) ==
    /\ IsWalk(w) /\ w.buf \in SUBSET (0 .. next_cp)
    /\ WalkInv(w, cp_live, cp_ss, Skipped) /\ WayInv(w, cp_live, cp_ss)

CpInv == CpFs /\ (walk # NoWalk => Walks(walk))

-----------------------------------------------------------------------------
\* Sets of numbers.
LEMMA MinMax ==
    ASSUME NEW N \in Nat, NEW S \in SUBSET (0 .. N), S # {}
    PROVE  /\ Min(S) \in S /\ \A y \in S : Min(S) <= y
           /\ Max(S) \in S /\ \A y \in S : Max(S) >= y
<1>1. \E x \in S : \A y \in S : x <= y
  <2>1. S \in SUBSET Nat
    OBVIOUS
  <2> QED
    BY <2>1, HasLeast
<1>2. \E x \in S : \A y \in S : y <= x
  BY HasGreatest
<1>3. \A x, y \in S : x >= y <=> y <= x
  OBVIOUS
<1>4. \E x \in S : \A y \in S : x >= y
  BY <1>2, <1>3
<1> QED
  BY <1>1, <1>4 DEF Min, Max

LEMMA Finite ==
    ASSUME NEW N \in Nat, NEW S \in SUBSET (0 .. N)
    PROVE  IsFiniteSet(S) /\ Cardinality(S) \in Nat
<1>1. IsFiniteSet(0 .. N)
  <2>1. 0 \in Int /\ N \in Int
    OBVIOUS
  <2> QED
    BY <2>1, FS_Interval
<1>2. IsFiniteSet(S)
  BY <1>1, FS_Subset
<1> QED
  BY <1>2, FS_CardinalityType

LEMMA Below ==
    ASSUME NEW S, S \subseteq Int, NEW a \in Int, NEW b \in Int,
           \A x \in S : a <= x /\ x < b, a <= b
    PROVE  Cardinality(S) <= b - a
<1>1. IsFiniteSet(a .. b - 1) /\ Cardinality(a .. b - 1) = b - a
  <2>1. b - 1 \in Int
    OBVIOUS
  <2>2. IsFiniteSet(a .. (b - 1)) /\ Cardinality(a .. (b - 1)) = IF a > b - 1 THEN 0 ELSE b - 1 - a + 1
    BY <2>1, FS_Interval
  <2> QED
    BY <2>2
<1>2. S \subseteq a .. b - 1
  OBVIOUS
<1> QED
  BY <1>1, <1>2, FS_Subset

\* The first n: nothing before them is left out, and there are some.
LEMMA FirstClosed ==
    ASSUME NEW N \in Nat, NEW S \in SUBSET (0 .. N), NEW n \in Int, NEW c \in S, c \notin First(S, n),
           NEW g \in First(S, n)
    PROVE  c > g
<1> SUFFICES ASSUME c <= g PROVE FALSE
  BY DEF First
<1> DEFINE X == {d \in S : d < c}
           Y == {d \in S : d < g}
<1>0. S \subseteq Nat /\ g \in S
  BY DEF First
<1>1. X \subseteq Y /\ IsFiniteSet(Y) /\ IsFiniteSet(X)
  <2>1. IsFiniteSet(S)
    BY Finite
  <2>2. X \in SUBSET S /\ Y \in SUBSET S
    OBVIOUS
  <2>3. IsFiniteSet(Y) /\ IsFiniteSet(X)
    BY <2>1, <2>2, FS_Subset
  <2>4. ASSUME NEW d \in X PROVE d \in Y
    <3>1. d \in Nat /\ d < c /\ c \in Nat /\ g \in Nat
      BY <1>0
    <3>2. d < g
      BY ONLY <3>1, c <= g
    <3> QED
      BY <3>2
  <2> QED
    BY <2>3, <2>4
<1>2. Cardinality(X) \in Nat /\ Cardinality(Y) \in Nat /\ Cardinality(X) <= Cardinality(Y)
  BY <1>1, FS_Subset, FS_CardinalityType
<1>3. Cardinality(Y) < n /\ ~(Cardinality(X) < n)
  BY DEF First
<1> QED
  BY ONLY <1>2, <1>3, n \in Int

LEMMA FirstType ==
    ASSUME NEW N \in Nat, NEW S \in SUBSET (0 .. N), NEW n \in Int
    PROVE  First(S, n) \subseteq S /\ IsFiniteSet(First(S, n))
BY Finite, FS_Subset DEF First

LEMMA FirstLeast ==
    ASSUME NEW N \in Nat, NEW S \in SUBSET (0 .. N), NEW n \in Int, n >= 1, S # {}
    PROVE  First(S, n) # {} /\ \A c \in S : Min(First(S, n)) <= c
<1>1. /\ Min(S) \in S /\ \A y \in S : Min(S) <= y
  BY MinMax
<1>2. {d \in S : d < Min(S)} = {}
  <2> SUFFICES ASSUME NEW d \in S, d < Min(S) PROVE FALSE
    OBVIOUS
  <2>1. d \in Nat /\ Min(S) \in Nat /\ Min(S) <= d
    <3> DEFINE m == Min(S)
    <3>1. m \in S /\ m <= d
      BY <1>1
    <3> HIDE DEF m
    <3>2. d \in Nat /\ m \in Nat
      BY <3>1
    <3> QED
      BY <3>1, <3>2 DEF m
  <2> QED
    BY ONLY <2>1, d < Min(S)
<1>3. Min(S) \in First(S, n)
  BY <1>1, <1>2, FS_EmptySet DEF First
<1>4. First(S, n) \in SUBSET (0 .. N) /\ First(S, n) \subseteq S
  BY FirstType
<1>5. Min(First(S, n)) <= Min(S) /\ Min(First(S, n)) \in Nat /\ Min(S) \in Nat
  <2> DEFINE F == First(S, n)
  <2>1. F # {} /\ F \in SUBSET (0 .. N)
    BY <1>3, <1>4
  <2> HIDE DEF F
  <2>2. Min(F) \in F /\ \A y \in F : Min(F) <= y
    BY <2>1, MinMax
  <2>3. Min(S) \in F
    BY <1>3 DEF F
  <2>4. Min(F) <= Min(S) /\ Min(F) \in Nat /\ Min(S) \in Nat
    <3>1. Min(F) <= Min(S)
      BY <2>2, <2>3
    <3>2. Min(F) \in 0 .. N /\ Min(S) \in 0 .. N
      BY <2>1, <2>2, <2>3
    <3> QED
      BY <3>1, <3>2
  <2> QED
    BY <2>4 DEF F
<1>6. \A c \in S : Min(First(S, n)) <= c
  BY <1>1, <1>5
<1> QED
  BY <1>3, <1>6

\* Those of an interval no longer than n are among them.
LEMMA FirstReach ==
    ASSUME NEW N \in Nat, NEW S \in SUBSET (0 .. N), NEW n \in Int, NEW lo \in Int, \A d \in S : d >= lo,
           NEW c \in S, c < lo + n
    PROVE  c \in First(S, n)
<1>0. {d \in S : d < c} \in SUBSET (0 .. N) /\ {d \in S : d < c} \subseteq Int
  <2>1. S \subseteq 0 .. N /\ S \subseteq Int
    OBVIOUS
  <2> QED
    BY <2>1
<1>1. IsFiniteSet({d \in S : d < c})
  BY <1>0, Finite
<1>2. Cardinality({d \in S : d < c}) <= c - lo
  <2>1. c \in Int /\ lo <= c
    OBVIOUS
  <2>2. \A x \in {d \in S : d < c} : lo <= x /\ x < c
    OBVIOUS
  <2> QED
    BY <1>0, <2>1, <2>2, Below
<1>3. Cardinality({d \in S : d < c}) \in Nat
  BY <1>1, FS_CardinalityType
<1>4. Cardinality({d \in S : d < c}) < n
  BY <1>2, <1>3
<1> QED
  BY <1>4 DEF First

\* What a call returns: G, the first n of S from a number on.
Got(S, from, n, G) ==
    /\ G \subseteq S
    /\ \A g \in G : g >= from
    /\ \A c \in S, g \in G : c >= from /\ c \notin G => c > g
    /\ G = {} => \A c \in S : c < from
    /\ G # {} => \A c \in S : c >= from => c >= Min(G)
    /\ G # {} => /\ Min(G) \in G /\ \A g \in G : Min(G) <= g
                 /\ Max(G) \in G /\ \A g \in G : Max(G) >= g
    /\ \A c \in S : c >= from /\ c < from + n => c \in G

LEMMA GotIs ==
    ASSUME NEW N \in Nat, NEW S \in SUBSET (0 .. N), NEW from \in Nat, NEW n \in Nat, n >= 1
    PROVE  Got(S, from, n, First(From(S, from), n))
<1> DEFINE R == From(S, from)
           G == First(R, n)
<1>1. R \in SUBSET (0 .. N) /\ R \subseteq S /\ \A c \in S : c >= from <=> c \in R
  BY DEF From
<1>1a. S \subseteq Nat /\ n \in Int /\ from \in Int
  OBVIOUS
<1> HIDE DEF R
<1>2. G \subseteq R /\ G \in SUBSET (0 .. N)
  BY <1>1a, <1>1, FirstType
<1>3. \A c \in R, g \in G : c \notin G => c > g
  BY <1>1a, <1>1, FirstClosed
<1>4. R # {} => G # {} /\ \A c \in R : Min(G) <= c
  BY <1>1a, <1>1, FirstLeast
<1>5. G # {} => /\ Min(G) \in G /\ \A y \in G : Min(G) <= y
                /\ Max(G) \in G /\ \A y \in G : Max(G) >= y
  BY <1>2, MinMax
<1>6. \A c \in R : c < from + n => c \in G
  <2>1. \A d \in R : d >= from
    BY <1>1
  <2> QED
    BY <1>1a, <1>1, <2>1, FirstReach
<1> HIDE DEF G
<1>7. G \subseteq S /\ \A g \in G : g >= from
  BY <1>1, <1>2
<1>8. \A c \in S, g \in G : c >= from /\ c \notin G => c > g
  BY <1>1, <1>3
<1>9. G = {} => \A c \in S : c < from
  <2> SUFFICES ASSUME G = {}, NEW c \in S PROVE c < from
    OBVIOUS
  <2>1. ~(c >= from) /\ c \in Nat
    BY <1>4, <1>1, <1>1a
  <2> QED
    BY ONLY <2>1, from \in Nat
<1>10. G # {} => \A c \in S : c >= from => c >= Min(G)
  <2> SUFFICES ASSUME G # {}, NEW c \in S, c >= from PROVE c >= Min(G)
    OBVIOUS
  <2>1. Min(G) <= c /\ Min(G) \in S
    BY <1>4, <1>1, <1>5, <1>7
  <2>2. Min(G) \in Nat /\ c \in Nat
    BY <2>1, <1>1a
  <2> QED
    BY ONLY <2>1, <2>2
<1>11. \A c \in S : c >= from /\ c < from + n => c \in G
  BY <1>1, <1>6
<1>12. Got(S, from, n, G)
  BY <1>5, <1>7, <1>8, <1>9, <1>10, <1>11 DEF Got
<1> QED
  BY <1>12 DEF G, R

\* The numbers the file system has.
LEMMA FsNumbers ==
    ASSUME CpFs
    PROVE  /\ next_cp \in Nat /\ cp_live \in SUBSET (0 .. next_cp) /\ cp_ss \in SUBSET (0 .. next_cp)
           /\ \A c \in cp_live : c \in Nat /\ c >= 1 /\ c < next_cp
           /\ \A c \in cp_ss : c \in cp_live /\ c \in Nat /\ c >= 1 /\ c < next_cp
           /\ next_cp - 1 \in cp_live
BY DEF CpFs

\* nilfs_get_cpinfo: the remembered number changes nothing, and stays right.
LEMMA CpinfoIs ==
    ASSUME CpFs, walk.mincno \in Nat, \A c \in cp_live : c >= walk.mincno,
           NEW from \in Nat, NEW n \in Nat, n >= 1
    PROVE  /\ Got(cp_live, from, n, get_cpinfo(from, n).got)
           /\ get_cpinfo(from, n).got \in SUBSET Nat
           /\ get_cpinfo(from, n).mincno \in Nat
           /\ \A c \in cp_live : c >= get_cpinfo(from, n).mincno
<1> DEFINE lo == MaxOf(from, walk.mincno)
           G == First(From(cp_live, lo), n)
           m == IF G # {} /\ lo = walk.mincno THEN Min(G) ELSE walk.mincno
<1>0. next_cp \in Nat /\ cp_live \in SUBSET (0 .. next_cp) /\ \A c \in cp_live : c \in Nat
  BY FsNumbers
<1>1. get_cpinfo(from, n).got = G /\ get_cpinfo(from, n).mincno = m
  BY DEF get_cpinfo
<1>2. From(cp_live, lo) = From(cp_live, from)
  <2>1. ASSUME NEW c \in cp_live PROVE c >= lo <=> c >= from
    <3>1. c \in Nat /\ c >= walk.mincno
      BY <1>0
    <3> QED
      BY <3>1 DEF MaxOf
  <2> QED
    BY <2>1 DEF From
<1>3. Got(cp_live, from, n, G)
  BY <1>0, <1>2, GotIs
<1>4. G \in SUBSET Nat
  BY <1>0, <1>3 DEF Got
<1>5. m \in Nat /\ \A c \in cp_live : c >= m
  <2>1. CASE G # {} /\ lo = walk.mincno
    <3>1. from <= walk.mincno
      BY <2>1 DEF MaxOf
    <3>2. \A c \in cp_live : c >= from
      BY <3>1, <1>0
    <3>3. Min(G) \in G /\ \A c \in cp_live : c >= Min(G)
      BY <3>2, <1>3, <2>1 DEF Got
    <3> QED
      BY <3>3, <1>4, <2>1
  <2>2. CASE ~(G # {} /\ lo = walk.mincno)
    BY <2>2
  <2> QED
    BY <2>1, <2>2
<1> HIDE DEF G, m
<1> QED
  BY <1>1, <1>3, <1>4, <1>5

-----------------------------------------------------------------------------
\* A call: from one place of the walk to another, with what lies between them.
Same(w, w2) ==
    /\ w2.kind = w.kind /\ w2.cs_cno = w.cs_cno /\ w2.rest = w.rest /\ w2.out = w.out
    /\ w2.range = w.range /\ w2.limit = w.limit

Fetched(w, w2, live, ss) ==
    /\ ~w.done /\ ~w2.done /\ w.buf = {} /\ w.rest # 0
    /\ \A b \in w2.buf : Beyond(w, b) /\ b \in (IF Plain(w) THEN live ELSE ss)
    /\ \A c \in Nat : Beyond(w2, c) => Beyond(w, c)
    /\ \A b \in w2.buf, c \in Nat : Beyond(w2, c) => Before(w, b, c)
    /\ \A c \in w.range \cap live : Beyond(w, c) => c \in w2.buf \/ Beyond(w2, c)

LEMMA WalkNumbers ==
    ASSUME NEW w, IsWalk(w)
    PROVE  /\ w.buf \subseteq Nat /\ w.range \subseteq Nat /\ w.out \in Seq(Nat) /\ Len(w.out) \in Nat
           /\ \A i \in 1 .. Len(w.out) : w.out[i] \in Nat
           /\ w.rest \in Nat /\ w.cs_cno \in Nat /\ w.eidx \in Nat /\ w.sidx \in Nat
           /\ w.rns \in Int /\ w.head \in Nat /\ w.v \in Nat \ {0} /\ w.mincno \in Nat
           /\ w.limit \in Nat
<1>1. w.out \in Seq(Nat) /\ w.buf \subseteq Nat /\ w.range \subseteq Nat
  BY DEF IsWalk
<1>2. Len(w.out) \in Nat /\ \A i \in 1 .. Len(w.out) : w.out[i] \in Nat
  BY ONLY <1>1
<1>3. /\ w.rest \in Nat /\ w.cs_cno \in Nat /\ w.eidx \in Nat /\ w.sidx \in Nat
      /\ w.rns \in Int /\ w.head \in Nat /\ w.v \in Nat \ {0} /\ w.mincno \in Nat
      /\ w.limit \in Nat
  BY DEF IsWalk
<1> QED
  BY <1>1, <1>2, <1>3

LEMMA FetchKeeps ==
    ASSUME NEW w, NEW w2, NEW live \in SUBSET Nat, NEW ss \in SUBSET live, NEW skip,
           IsWalk(w), IsWalk(w2), WalkInv(w, live, ss, skip), Same(w, w2), Fetched(w, w2, live, ss)
    PROVE  WalkInv(w2, live, ss, skip)
<1>1. /\ Back(w2) = Back(w) /\ Plain(w2) = Plain(w) /\ Reported(w2) = Reported(w)
      /\ \A a, c \in Nat : Before(w2, a, c) = Before(w, a, c)
      /\ Wanted(w2, live, ss, skip) = Wanted(w, live, ss, skip)
  BY DEF Same, Back, Plain, Reported, Before, Wanted
<1>2. /\ w2.buf \subseteq Nat /\ w.rest \in Nat /\ w.cs_cno \in Nat
      /\ \A i \in 1 .. Len(w.out) : w.out[i] \in Nat
  BY WalkNumbers
<1>3. \A c \in Nat : Ahead(w2, c) => Ahead(w, c)
  BY DEF Ahead, Fetched
<1>4. OutOrdered(w2)
  <2>1. \A i, j \in 1 .. Len(w2.out) : i < j => Before(w2, w2.out[i], w2.out[j])
    BY <1>1, <1>2 DEF Same, WalkInv, OutOrdered
  <2>2. \A i \in 1 .. Len(w2.out), c \in Nat : Ahead(w2, c) => Before(w2, w2.out[i], c)
    BY <1>1, <1>2, <1>3 DEF Same, WalkInv, OutOrdered
  <2>3. \A b \in w2.buf, c \in Nat : Beyond(w2, c) => Before(w2, b, c)
    BY <1>1, <1>2 DEF Fetched
  <2>4. Len(w2.out) + w2.rest = w2.limit
    BY DEF Same, WalkInv, OutOrdered
  <2> QED
    BY <2>1, <2>2, <2>3, <2>4 DEF OutOrdered
<1>5. OutInRange(w2, live, ss, skip)
  <2>0. OutInRange(w, live, ss, skip)
    BY DEF WalkInv
  <2>1. \A i \in 1 .. Len(w2.out) : w2.out[i] \in w2.range \/ w2.out[i] >= w2.cs_cno
    BY <2>0 DEF Same, OutInRange
  <2>2. ASSUME NEW b \in w2.buf PROVE b \in w2.range \/ b >= w2.cs_cno \/ (Plain(w2) /\ b \in skip)
    <3>1. b \in Nat /\ w.cs_cno \in Nat /\ (b >= w.cs_cno \/ b < w.cs_cno)
      BY <1>2
    <3>2. b \in Wanted(w, live, ss, skip) \/ (Plain(w) /\ b \in skip)
      BY DEF Wanted, Fetched
    <3>3. b \in Wanted(w, live, ss, skip) /\ b < w.cs_cno => b \in w.range
      BY <2>0 DEF OutInRange, Fetched
    <3> QED
      BY <3>1, <3>2, <3>3, <1>1 DEF Same
  <2>3. \A c \in Wanted(w2, live, ss, skip) : Beyond(w2, c) /\ c < w2.cs_cno => c \in w2.range
    <3>1. Wanted(w, live, ss, skip) \subseteq Nat
      BY DEF Wanted
    <3> QED
      BY <3>1, <2>0, <1>1 DEF Same, OutInRange, Fetched
  <2>4. Plain(w2) => w2.range \cap skip = {}
    BY <2>0, <1>1 DEF Same, OutInRange
  <2> QED
    BY <2>1, <2>2, <2>3, <2>4 DEF OutInRange
<1>6. Complete(w2, live)
  <2>1. \A c \in w.range \cap live : c \in Reported(w) \/ Ahead(w, c)
    BY DEF WalkInv, Complete, Fetched
  <2>2. \A c \in w2.range \cap live : c \in Reported(w2) \/ Ahead(w2, c)
    BY <2>1, <1>1 DEF Same, Ahead, Fetched
  <2>3. w2.rest > 0
    BY <1>2 DEF Same, Fetched
  <2> QED
    BY <2>2, <2>3 DEF Complete, Fetched
<1> QED
  BY <1>4, <1>5, <1>6 DEF WalkInv

\* The end of a walk: its count is reached, or nothing is left.
LEMMA EndKeeps ==
    ASSUME NEW w, NEW w2, NEW live \in SUBSET Nat, NEW ss \in SUBSET live, NEW skip,
           IsWalk(w), WalkInv(w, live, ss, skip), WayInv(w, live, ss),
           ~w.done, w.buf = {}, w2 = [w EXCEPT !.done = TRUE],
           w.rest = 0 \/ \A c \in w.range \cap live : ~Beyond(w, c)
    PROVE  IsWalk(w2) /\ WalkInv(w2, live, ss, skip) /\ WayInv(w2, live, ss)
<1>1. /\ w2.kind = w.kind /\ w2.cs_cno = w.cs_cno /\ w2.rest = w.rest /\ w2.rns = w.rns
      /\ w2.eidx = w.eidx /\ w2.sidx = w.sidx /\ w2.head = w.head /\ w2.state = w.state
      /\ w2.v = w.v /\ w2.mincno = w.mincno /\ w2.buf = w.buf /\ w2.done = TRUE
      /\ w2.out = w.out /\ w2.range = w.range /\ w2.limit = w.limit
  BY DEF IsWalk, Shape
<1>2. IsWalk(w2)
  <2>1. w2 = Shape(w2)
    <3>1. w = Shape(w)
      BY DEF IsWalk
    <3> QED
      BY <3>1 DEF Shape
  <2> QED
    BY <2>1, <1>1 DEF IsWalk
<1>3. WalkInv(w2, live, ss, skip)
  <2>1. /\ \A a, c : Before(w2, a, c) = Before(w, a, c)
        /\ \A c : Beyond(w2, c) = Beyond(w, c) /\ Ahead(w2, c) = Ahead(w, c)
        /\ Wanted(w2, live, ss, skip) = Wanted(w, live, ss, skip)
        /\ Plain(w2) = Plain(w) /\ Reported(w2) = Reported(w)
    BY <1>1 DEF Before, Back, Beyond, Ahead, Wanted, Plain, Reported
  <2>2. OutOrdered(w2)
    <3>1. OutOrdered(w)
      BY DEF WalkInv
    <3> QED
      BY ONLY <1>1, <2>1, <3>1 DEF OutOrdered
  <2>3. OutInRange(w2, live, ss, skip)
    BY <1>1, <2>1 DEF WalkInv, OutInRange
  <2>4. \A c \in w.range \cap live : c \in Reported(w) \/ Ahead(w, c)
    BY DEF WalkInv, Complete
  <2>5. \A i \in 1 .. Len(w.out), c \in Nat : Ahead(w, c) => Before(w, w.out[i], c)
    BY DEF WalkInv, OutOrdered
  <2>6. Complete(w2, live)
    <3>1. ASSUME NEW c \in w.range \cap live
          PROVE  c \in Reported(w) \/ (w.rest = 0 /\ \A i \in 1 .. Len(w.out) : Before(w, w.out[i], c))
      BY <2>4, <2>5 DEF Ahead
    <3> QED
      BY ONLY <3>1, <1>1, <2>1 DEF Complete
  <2> QED
    BY <2>2, <2>3, <2>6 DEF WalkInv
<1>4. WayInv(w2, live, ss)
  BY <1>1 DEF WayInv, Plain, WayBackward, WaySsForward, WaySsBackward
<1> QED
  BY <1>2, <1>3, <1>4

-----------------------------------------------------------------------------
\* One of what a call returned goes to the callback.
\* The one whose turn it is.
Turn(w, c) == c \in w.buf /\ \A b \in w.buf : b # c => Before(w, c, b)

LEMMA TurnIs ==
    ASSUME CpFs, Walks(walk), walk.buf # {}
    PROVE  Turn(walk, IF Backwards THEN Max(walk.buf) ELSE Min(walk.buf))
<1>1. next_cp \in Nat /\ walk.buf \in SUBSET (0 .. next_cp) /\ walk.buf \subseteq Nat
  BY DEF CpFs, Walks
<1>2. /\ Min(walk.buf) \in walk.buf /\ \A y \in walk.buf : Min(walk.buf) <= y
      /\ Max(walk.buf) \in walk.buf /\ \A y \in walk.buf : Max(walk.buf) >= y
  BY <1>1, MinMax
<1>3. \A x, y \in walk.buf : (x <= y /\ x # y => x < y) /\ (x >= y /\ x # y => x > y)
  BY <1>1
<1> QED
  BY <1>2, <1>3 DEF Turn, Before, Back, Backwards

\* Taken off the batch, shown or not.
LEMMA SkipKeeps ==
    ASSUME NEW w, NEW w2, NEW c, NEW live \in SUBSET Nat, NEW ss \in SUBSET live, NEW skip,
           IsWalk(w), WalkInv(w, live, ss, skip), ~w.done, Turn(w, c),
           w2 = [w EXCEPT !.buf = @ \ {c}], Plain(w), c \in skip
    PROVE  IsWalk(w2) /\ WalkInv(w2, live, ss, skip)
<1>1. /\ w2.kind = w.kind /\ w2.cs_cno = w.cs_cno /\ w2.rest = w.rest /\ w2.rns = w.rns
      /\ w2.eidx = w.eidx /\ w2.sidx = w.sidx /\ w2.head = w.head /\ w2.state = w.state
      /\ w2.v = w.v /\ w2.mincno = w.mincno /\ w2.buf = w.buf \ {c} /\ w2.done = w.done
      /\ w2.out = w.out /\ w2.range = w.range /\ w2.limit = w.limit
  BY DEF IsWalk, Shape
<1>2. IsWalk(w2)
  <2>1. w2 = Shape(w2)
    <3>1. w = Shape(w)
      BY DEF IsWalk
    <3> QED
      BY <3>1 DEF Shape
  <2> QED
    BY <2>1, <1>1 DEF IsWalk
<1>3. /\ \A a, d : Before(w2, a, d) = Before(w, a, d)
      /\ \A d : Beyond(w2, d) = Beyond(w, d)
      /\ \A d : Ahead(w2, d) => Ahead(w, d)
      /\ Wanted(w2, live, ss, skip) = Wanted(w, live, ss, skip)
      /\ Plain(w2) = Plain(w) /\ Reported(w2) = Reported(w)
  BY <1>1 DEF Before, Back, Beyond, Ahead, Wanted, Plain, Reported
<1>4. OutOrdered(w2)
  <2>1. OutOrdered(w) /\ w2.buf \subseteq w.buf
    BY <1>1 DEF WalkInv
  <2> QED
    BY ONLY <1>1, <1>3, <2>1 DEF OutOrdered
<1>5. OutInRange(w2, live, ss, skip)
  <2>1. OutInRange(w, live, ss, skip) /\ w2.buf \subseteq w.buf
    BY <1>1 DEF WalkInv
  <2> QED
    BY ONLY <1>1, <1>3, <2>1 DEF OutInRange
<1>6. Complete(w2, live)
  <2>1. /\ w.buf # {} => w.rest > 0
        /\ \A d \in w.range \cap live : d \in Reported(w) \/ Ahead(w, d)
    BY DEF WalkInv, Complete
  <2>2. c \in w.buf /\ c \notin w.range
    BY DEF Turn, WalkInv, OutInRange
  <2>3. \A d \in w2.range \cap live : d \in Reported(w2) \/ Ahead(w2, d)
    BY <1>1, <1>3, <2>1, <2>2 DEF Ahead
  <2> QED
    BY <1>1, <2>1, <2>2, <2>3 DEF Complete
<1> QED
  BY <1>2, <1>4, <1>5, <1>6 DEF WalkInv

LEMMA ShowKeeps ==
    ASSUME NEW w, NEW w2, NEW c, NEW live \in SUBSET Nat, NEW ss \in SUBSET live, NEW skip,
           IsWalk(w), WalkInv(w, live, ss, skip), ~w.done, Turn(w, c),
           w2 = [w EXCEPT !.buf = @ \ {c}, !.out = Append(@, c), !.rest = w.rest - 1,
                          !.rns = @ - 1, !.v = delta(w.rest - 1), !.done = (w.rest - 1 = 0)],
           Plain(w) => c \notin skip
    PROVE  /\ IsWalk(w2) /\ WalkInv(w2, live, ss, skip)
<1>1. /\ w2.kind = w.kind /\ w2.cs_cno = w.cs_cno /\ w2.rest = w.rest - 1 /\ w2.rns = w.rns - 1
      /\ w2.eidx = w.eidx /\ w2.sidx = w.sidx /\ w2.head = w.head /\ w2.state = w.state
      /\ w2.v = delta(w.rest - 1) /\ w2.mincno = w.mincno /\ w2.buf = w.buf \ {c}
      /\ w2.done = (w.rest - 1 = 0)
      /\ w2.out = Append(w.out, c) /\ w2.range = w.range /\ w2.limit = w.limit
  BY DEF IsWalk, Shape
<1>2. w.rest \in Nat /\ w.rest > 0 /\ c \in w.buf /\ c \in Nat /\ Len(w.out) \in Nat /\ w.out \in Seq(Nat)
  <2>1. c \in w.buf /\ w.buf \subseteq Nat /\ w.rest \in Nat /\ Len(w.out) \in Nat /\ w.out \in Seq(Nat)
    BY WalkNumbers DEF Turn
  <2>2. w.rest > 0
    BY <2>1 DEF WalkInv, Complete
  <2> QED
    BY <2>1, <2>2
<1>2a. w2.done \in BOOLEAN
  BY <1>1
<1>2b. w2.v \in Nat \ {0}
  BY <1>1, <1>2, CpAssumption DEF delta, MinOf, MaxOf
<1>2c. w2.out \in Seq(Nat) /\ w2.rest \in Nat /\ w2.rns \in Int
  <2>1. w.rns \in Int
    BY WalkNumbers
  <2> QED
    BY ONLY <1>1, <1>2, <2>1
<1>3. IsWalk(w2)
  <2>1. w2 = Shape(w2)
    <3>1. w = Shape(w)
      BY DEF IsWalk
    <3> QED
      BY <3>1 DEF Shape
  <2> QED
    BY <2>1, <1>1, <1>2a, <1>2b, <1>2c DEF IsWalk
<1>4. /\ \A a, d : Before(w2, a, d) = Before(w, a, d)
      /\ \A d : Beyond(w2, d) = Beyond(w, d)
      /\ \A d : Ahead(w2, d) => (Ahead(w, d) /\ d # c) \/ Beyond(w, d)
      /\ Wanted(w2, live, ss, skip) = Wanted(w, live, ss, skip)
      /\ Plain(w2) = Plain(w)
  BY <1>1 DEF Before, Back, Beyond, Ahead, Wanted, Plain
<1>5. /\ Len(w2.out) = Len(w.out) + 1 /\ w2.out[Len(w.out) + 1] = c
      /\ \A i \in 1 .. Len(w.out) : w2.out[i] = w.out[i]
      /\ \A i \in 1 .. Len(w2.out) : i \in 1 .. Len(w.out) \/ i = Len(w.out) + 1
  BY ONLY <1>1, <1>2
<1>6. Reported(w2) = Reported(w) \cup {c}
  <2>1. \A x \in Reported(w2) : x \in Reported(w) \cup {c}
    BY <1>5 DEF Reported
  <2>2. \A x \in Reported(w) : x \in Reported(w2)
    <3>1. \A i \in 1 .. Len(w.out) : i \in 1 .. Len(w2.out)
      BY <1>2, <1>5
    <3> QED
      BY <1>5, <3>1 DEF Reported
  <2>3. c \in Reported(w2)
    <3>1. Len(w.out) + 1 \in 1 .. Len(w2.out)
      BY <1>2, <1>5
    <3> QED
      BY <1>5, <3>1 DEF Reported
  <2> QED
    BY <2>1, <2>2, <2>3
<1>7. OutOrdered(w2)
  <2>0. OutOrdered(w)
    BY DEF WalkInv
  <2>1. Ahead(w, c) /\ \A i \in 1 .. Len(w.out) : Before(w, w.out[i], c)
    BY <1>2, <2>0 DEF Ahead, OutOrdered
  <2>2. ASSUME NEW i \in 1 .. Len(w2.out), NEW j \in 1 .. Len(w2.out), i < j
        PROVE  Before(w2, w2.out[i], w2.out[j])
    <3>1. i \in 1 .. Len(w.out)
      BY <2>2, <1>2, <1>5
    <3>2. CASE j \in 1 .. Len(w.out)
      BY <3>1, <3>2, <2>2, <1>4, <1>5, <2>0 DEF OutOrdered
    <3>3. CASE j = Len(w.out) + 1
      BY <3>1, <3>3, <1>4, <1>5, <2>1
    <3> QED
      BY <3>2, <3>3, <1>5
  <2>3. ASSUME NEW i \in 1 .. Len(w2.out), NEW d \in Nat, Ahead(w2, d)
        PROVE  Before(w2, w2.out[i], d)
    <3>1. CASE i \in 1 .. Len(w.out)
      <4>1. Ahead(w, d)
        BY <2>3, <1>4 DEF Ahead
      <4> QED
        BY <3>1, <4>1, <1>4, <1>5, <2>0 DEF OutOrdered
    <3>2. CASE i = Len(w.out) + 1
      <4>1. d \in w2.buf \/ Beyond(w, d)
        BY <2>3, <1>4 DEF Ahead
      <4>2. CASE d \in w2.buf
        <5>1. d \in w.buf /\ d # c
          BY <4>2, <1>1
        <5>2. Before(w, c, d)
          BY <5>1 DEF Turn
        <5> QED
          BY <5>2, <3>2, <1>4, <1>5
      <4>3. CASE Beyond(w, d)
        <5>1. Before(w, c, d)
          BY <4>3, <1>2, <2>0 DEF OutOrdered
        <5> QED
          BY <5>1, <3>2, <1>4, <1>5
      <4> QED
        BY <4>1, <4>2, <4>3
    <3> QED
      BY <3>1, <3>2, <1>5
  <2>4. \A b \in w2.buf, d \in Nat : Beyond(w2, d) => Before(w2, b, d)
    <3>1. w2.buf \subseteq w.buf
      BY <1>1
    <3> QED
      BY <3>1, <1>4, <2>0 DEF OutOrdered
  <2>5. Len(w2.out) + w2.rest = w2.limit
    <3>1. Len(w.out) + w.rest = w.limit
      BY <2>0 DEF OutOrdered
    <3>2. Len(w2.out) = Len(w.out) + 1 /\ w2.rest = w.rest - 1 /\ w2.limit = w.limit
      BY <1>1, <1>5
    <3>3. Len(w.out) \in Nat /\ w.rest \in Nat
      BY <1>2
    <3> QED
      BY ONLY <3>1, <3>2, <3>3
  <2> QED
    BY <2>2, <2>3, <2>4, <2>5 DEF OutOrdered
<1>8. OutInRange(w2, live, ss, skip)
  <2>0. OutInRange(w, live, ss, skip)
    BY DEF WalkInv
  <2>1. c \in w.range \/ c >= w.cs_cno
    BY <1>2, <2>0 DEF OutInRange
  <2>2. ASSUME NEW i \in 1 .. Len(w2.out) PROVE w2.out[i] \in w2.range \/ w2.out[i] >= w2.cs_cno
    <3>1. CASE i \in 1 .. Len(w.out)
      BY <3>1, <1>1, <1>5, <2>0 DEF OutInRange
    <3>2. CASE i = Len(w.out) + 1
      BY <3>2, <1>1, <1>5, <2>1
    <3> QED
      BY <3>1, <3>2, <1>5
  <2>3. \A b \in w2.buf : b \in w2.range \/ b >= w2.cs_cno \/ (Plain(w2) /\ b \in skip)
    BY <1>1, <1>4, <2>0 DEF OutInRange
  <2>4. \A d \in Wanted(w2, live, ss, skip) : Beyond(w2, d) /\ d < w2.cs_cno => d \in w2.range
    BY <1>1, <1>4, <2>0 DEF OutInRange
  <2>5. Plain(w2) => w2.range \cap skip = {}
    BY <1>1, <1>4, <2>0 DEF OutInRange
  <2> QED
    BY <2>2, <2>3, <2>4, <2>5 DEF OutInRange
<1>9. Complete(w2, live)
  <2>1. \A d \in w.range \cap live : d \in Reported(w) \/ Ahead(w, d)
    BY DEF WalkInv, Complete
  <2>2. \A d \in w2.range \cap live : d \in Reported(w2) \/ Ahead(w2, d)
    BY <2>1, <1>1, <1>4, <1>6 DEF Ahead
  <2>3. CASE w2.done
    <3>1. w2.rest = 0
      BY <2>3, <1>1
    <3>2. w2.range \cap live \subseteq Nat
      OBVIOUS
    <3> QED
      BY <2>2, <2>3, <3>1, <3>2, <1>7 DEF Complete, OutOrdered
  <2>4. CASE ~w2.done
    <3>1. ~(w.rest - 1 = 0)
      BY <2>4, <1>1
    <3>2. w2.rest > 0
      BY ONLY <3>1, <1>1, <1>2
    <3> QED
      BY <2>2, <2>4, <3>2 DEF Complete
  <2> QED
    BY <2>3, <2>4
<1> QED
  BY <1>3, <1>7, <1>8, <1>9 DEF WalkInv

LEMMA ReportKeeps ==
    ASSUME CpFs, Walks(walk), Report
    PROVE  Walks(walk')
<1> DEFINE c == IF Backwards THEN Max(walk.buf) ELSE Min(walk.buf)
           shown == walk.kind \in {"forward", "backward"} => c \notin Skipped
<1>0. IsWalk(walk) /\ WalkInv(walk, cp_live, cp_ss, Skipped) /\ WayInv(walk, cp_live, cp_ss)
  BY DEF Walks
<1>1. ~walk.done /\ walk.buf # {}
  BY DEF Report
<1>2. Turn(walk, c)
  BY <1>1, TurnIs
<1>3. cp_live \in SUBSET Nat /\ cp_ss \in SUBSET cp_live
  BY DEF CpFs
<1>4. \/ ~shown /\ walk' = [walk EXCEPT !.buf = @ \ {c}]
      \/ shown /\ walk' = [walk EXCEPT !.buf = @ \ {c}, !.out = Append(@, c), !.rest = walk.rest - 1,
                              !.rns = @ - 1, !.v = delta(walk.rest - 1), !.done = (walk.rest - 1 = 0)]
  BY DEF Report
<1>5. shown <=> (Plain(walk) => c \notin Skipped)
  BY DEF Plain
<1> HIDE DEF c, shown
<1>6. IsWalk(walk') /\ WalkInv(walk', cp_live, cp_ss, Skipped)
  <2>1. CASE ~shown /\ walk' = [walk EXCEPT !.buf = @ \ {c}]
    BY <2>1, <1>0, <1>1, <1>2, <1>3, <1>5, SkipKeeps
  <2>2. CASE shown /\ walk' = [walk EXCEPT !.buf = @ \ {c}, !.out = Append(@, c), !.rest = walk.rest - 1,
                              !.rns = @ - 1, !.v = delta(walk.rest - 1), !.done = (walk.rest - 1 = 0)]
    BY <2>2, <1>0, <1>1, <1>2, <1>3, <1>5, ShowKeeps
  <2> QED
    BY <2>1, <2>2, <1>4
<1>7. /\ walk'.kind = walk.kind /\ walk'.cs_cno = walk.cs_cno /\ walk'.range = walk.range
      /\ walk'.eidx = walk.eidx /\ walk'.sidx = walk.sidx /\ walk'.head = walk.head
      /\ walk'.state = walk.state /\ walk'.mincno = walk.mincno /\ walk'.buf = walk.buf \ {c}
  BY <1>4, <1>0 DEF IsWalk, Shape
<1>8. \/ ~shown /\ walk'.v = walk.v
      \/ shown /\ walk'.v = delta(walk.rest - 1) /\ walk'.rns = walk.rns - 1
  BY <1>4, <1>0 DEF IsWalk, Shape
<1>9. walk'.kind = "backward" => WayBackward(walk')
  <2> SUFFICES ASSUME walk'.kind = "backward" PROVE WayBackward(walk')
    OBVIOUS
  <2>1. WayBackward(walk)
    BY <1>0, <1>7 DEF WayInv
  <2>2. walk.rest \in Nat /\ walk.v \in Nat
    BY <1>0, WalkNumbers
  <2>3. delta(walk.rest - 1) <= NCPINFO
    BY <2>2, CpAssumption DEF delta, MinOf, MaxOf
  <2> QED
    BY <2>1, <2>3, <1>7, <1>8 DEF WayBackward
<1>10. walk'.kind = "ss_forward" => WaySsForward(walk', cp_ss)
  BY <1>0, <1>7 DEF WayInv, WaySsForward
<1>11. walk'.kind = "ss_backward" => WaySsBackward(walk', cp_ss)
  <2> SUFFICES ASSUME walk'.kind = "ss_backward", walk.state # "end"
               PROVE  Cardinality({d \in cp_ss : d < walk.eidx} \cup (walk.buf \ {c})) <= walk'.rns
    BY <1>0, <1>7 DEF WayInv, WaySsBackward
  <2> DEFINE L == {d \in cp_ss : d < walk.eidx}
             A == L \cup walk.buf
             B == L \cup (walk.buf \ {c})
  <2>1. Cardinality(A) <= walk.rns
    BY <1>0, <1>7 DEF WayInv, WaySsBackward
  <2>2. walk'.rns = walk.rns - 1 /\ walk.rns \in Int
    <3>1. shown
      BY <1>5, <1>7 DEF Plain
    <3> QED
      BY <3>1, <1>8, <1>0, WalkNumbers
  <2>3. c \in walk.buf /\ c \in Nat
    BY <1>2, <1>0, WalkNumbers DEF Turn
  <2>4. ~(c < walk.eidx)
    <3> SUFFICES ASSUME c < walk.eidx PROVE FALSE
      OBVIOUS
    <3>1. Beyond(walk, c)
      BY <1>7 DEF Beyond, Back
    <3>2. Before(walk, c, c)
      BY <3>1, <2>3, <1>0 DEF WalkInv, OutOrdered
    <3> QED
      BY <3>2, <2>3 DEF Before
  <2>5. c \in A /\ B = A \ {c}
    BY <2>3, <2>4
  <2>6. A \in SUBSET (0 .. next_cp) /\ next_cp \in Nat
    BY FsNumbers DEF Walks
  <2> HIDE DEF A, B, L
  <2>7. IsFiniteSet(A)
    BY <2>6, Finite
  <2>8. Cardinality(A \ {c}) = Cardinality(A) - 1 /\ Cardinality(A) \in Nat
    BY <2>5, <2>7, FS_RemoveElement, FS_CardinalityType
  <2>9. Cardinality(B) <= walk'.rns
    BY <2>1, <2>2, <2>5, <2>8
  <2> QED
    BY <2>9 DEF B, L
<1>12. WayInv(walk', cp_live, cp_ss)
  <2>1. Plain(walk') = Plain(walk)
    BY <1>7 DEF Plain
  <2> QED
    BY <1>0, <1>7, <1>9, <1>10, <1>11, <2>1 DEF WayInv
<1>13. walk'.buf \in SUBSET (0 .. next_cp)
  BY <1>7 DEF Walks
<1> QED
  BY <1>6, <1>12, <1>13 DEF Walks

-----------------------------------------------------------------------------
\* The calls.
LEMMA EndWalks ==
    ASSUME CpFs, Walks(walk), ~walk.done, walk.buf = {}, Done,
           walk.rest = 0 \/ \A c \in walk.range \cap cp_live : ~Beyond(walk, c)
    PROVE  Walks(walk')
<1>1. cp_live \in SUBSET Nat /\ cp_ss \in SUBSET cp_live
  BY DEF CpFs
<1>2. walk' = [walk EXCEPT !.done = TRUE]
  BY DEF Done
<1>3. IsWalk(walk) /\ WalkInv(walk, cp_live, cp_ss, Skipped) /\ WayInv(walk, cp_live, cp_ss)
  BY DEF Walks
<1>4. IsWalk(walk') /\ WalkInv(walk', cp_live, cp_ss, Skipped) /\ WayInv(walk', cp_live, cp_ss)
  BY <1>1, <1>2, <1>3, EndKeeps
<1>5. walk'.buf = walk.buf
  BY <1>2, <1>3 DEF IsWalk, Shape
<1> QED
  BY <1>4, <1>5 DEF Walks

LEMMA FetchWalks ==
    ASSUME CpFs, Walks(walk), IsWalk(walk'), Same(walk, walk'),
           Fetched(walk, walk', cp_live, cp_ss), \A c \in cp_live : c >= walk'.mincno,
           walk.kind = "backward" => WayBackward(walk'),
           walk.kind = "ss_forward" => WaySsForward(walk', cp_ss),
           walk.kind = "ss_backward" => WaySsBackward(walk', cp_ss)
    PROVE  Walks(walk')
<1>1. cp_live \in SUBSET Nat /\ cp_ss \in SUBSET cp_live
  BY DEF CpFs
<1>3. IsWalk(walk) /\ WalkInv(walk, cp_live, cp_ss, Skipped) /\ WayInv(walk, cp_live, cp_ss)
  BY DEF Walks
<1>4. WalkInv(walk', cp_live, cp_ss, Skipped)
  BY <1>1, <1>3, FetchKeeps
<1>5. Plain(walk') = Plain(walk)
  BY DEF Plain, Same
<1>6. WayInv(walk', cp_live, cp_ss)
  BY <1>3, <1>5 DEF WayInv, Same
<1>7. walk'.buf \in SUBSET (0 .. next_cp)
  BY <1>1, FsNumbers DEF Fetched
<1> QED
  BY <1>4, <1>6, <1>7 DEF Walks

LEMMA WayFacts ==
    ASSUME CpFs, Walks(walk)
    PROVE  /\ IsWalk(walk) /\ walk = Shape(walk)
           /\ walk.range \subseteq 1 .. walk.cs_cno - 1 /\ walk.cs_cno <= next_cp
           /\ \A c \in cp_live : c >= walk.mincno
           /\ walk.rest \in Nat /\ walk.sidx \in Nat /\ walk.eidx \in Nat /\ walk.cs_cno \in Nat
           /\ walk.mincno \in Nat /\ walk.head \in Nat /\ walk.v \in Nat /\ walk.v >= 1
           /\ walk.rns \in Int /\ walk.done \in BOOLEAN
BY WalkNumbers DEF Walks, WayInv, IsWalk

LEMMA ForwardKeeps ==
    ASSUME CpFs, Walks(walk), EnumForward
    PROVE  Walks(walk')
<1> DEFINE n == MinOf(walk.rest, NCPINFO)
           r == get_cpinfo(walk.sidx, n)
           G == r.got
<1>0. walk.kind = "forward" /\ ~walk.done /\ walk.buf = {}
  BY DEF EnumForward, Fetching
<1>1. \A c \in Nat : Beyond(walk, c) <=> c >= walk.sidx
  BY <1>0 DEF Beyond, Back
<1>2. ASSUME walk.rest = 0 \/ walk.sidx >= walk.cs_cno, Done PROVE Walks(walk')
  <2>1. ASSUME walk.sidx >= walk.cs_cno, NEW c \in walk.range \cap cp_live PROVE ~Beyond(walk, c)
    <3>1. c \in Nat /\ c <= walk.cs_cno - 1 /\ walk.sidx \in Nat /\ walk.cs_cno \in Nat
      BY WayFacts
    <3>2. ~(c >= walk.sidx)
      BY ONLY <2>1, <3>1
    <3> QED
      BY <1>1, <3>1, <3>2
  <2> QED
    BY <1>0, <1>2, <2>1, EndWalks
<1>3. ASSUME walk.rest # 0, ~(walk.sidx >= walk.cs_cno) PROVE Walks(walk')
  <2>1. n \in Nat /\ n >= 1
    BY <1>3, WayFacts, CpAssumption DEF MinOf
  <2>2. /\ Got(cp_live, walk.sidx, n, G) /\ G \in SUBSET Nat /\ r.mincno \in Nat
        /\ \A c \in cp_live : c >= r.mincno
    <3> HIDE DEF n
    <3> QED
      BY <2>1, WayFacts, CpinfoIs
  <2>3. CASE G = {} /\ Done
    <3>1. \A c \in cp_live : c < walk.sidx
      BY <2>2, <2>3 DEF Got
    <3>2. ASSUME NEW c \in walk.range \cap cp_live PROVE ~Beyond(walk, c)
      <4>1. c \in Nat /\ walk.sidx \in Nat /\ c < walk.sidx
        BY <3>1, WayFacts, FsNumbers
      <4>2. ~(c >= walk.sidx)
        BY ONLY <4>1
      <4> QED
        BY <4>1, <4>2, <1>1
    <3> QED
      BY <3>2, <1>0, <2>3, EndWalks
  <2>4. CASE G # {} /\ walk' = [walk EXCEPT !.buf = G, !.sidx = Max(G) + 1, !.mincno = r.mincno]
    <3> HIDE DEF G, r
    <3>1. Max(G) \in G /\ Max(G) \in Nat /\ \A g \in G : Max(G) >= g
      BY <2>2, <2>4 DEF Got
    <3>2. /\ Same(walk, walk') /\ walk'.buf = G /\ walk'.sidx = Max(G) + 1 /\ walk'.mincno = r.mincno
          /\ walk'.done = walk.done /\ walk'.state = walk.state
          /\ walk'.eidx = walk.eidx /\ walk'.head = walk.head /\ walk'.v = walk.v /\ walk'.rns = walk.rns
      BY <2>4, WayFacts DEF Shape, Same
    <3>3. IsWalk(walk')
      <4>1. walk' = Shape(walk')
        BY <2>4, WayFacts DEF Shape
      <4>2. IsWalk(walk)
        BY WayFacts
      <4> QED
        BY <4>1, <4>2, <3>1, <3>2, <2>2 DEF IsWalk, Same
    <3>4. \A c \in Nat : Beyond(walk', c) <=> c >= Max(G) + 1
      BY <1>0, <3>2 DEF Beyond, Back, Same
    <3>5. Fetched(walk, walk', cp_live, cp_ss)
      <4>1. ASSUME NEW b \in G PROVE Beyond(walk, b) /\ b \in cp_live
        BY <1>1, <2>2 DEF Got
      <4>2. ASSUME NEW c \in Nat, Beyond(walk', c) PROVE Beyond(walk, c) /\ \A b \in G : Before(walk, b, c)
        <5>1. c >= Max(G) + 1 /\ Max(G) >= walk.sidx /\ walk.sidx \in Nat
          BY <4>2, <3>4, <3>1, <2>2, WayFacts DEF Got
        <5>2. c >= walk.sidx
          BY ONLY <5>1, <3>1, c \in Nat
        <5>3. ASSUME NEW b \in G PROVE b < c
          <6>1. b \in Nat /\ Max(G) >= b
            BY <3>1, <2>2
          <6> QED
            BY ONLY <6>1, <5>1, <3>1, c \in Nat
        <5> QED
          BY <5>2, <5>3, <1>1, <1>0 DEF Before, Back
      <4>3. ASSUME NEW c \in walk.range \cap cp_live, Beyond(walk, c), c \notin G PROVE Beyond(walk', c)
        <5>1. c \in Nat /\ c >= walk.sidx
          BY <4>3, <1>1, FsNumbers
        <5>2. c > Max(G)
          BY <5>1, <4>3, <3>1, <2>2 DEF Got
        <5>3. c >= Max(G) + 1
          BY ONLY <5>1, <5>2, <3>1
        <5> QED
          BY <5>1, <5>3, <3>4
      <4>4. Plain(walk)
        BY <1>0 DEF Plain
      <4> QED
        BY <4>1, <4>2, <4>3, <4>4, <3>2, <1>0, <1>3 DEF Fetched
    <3> QED
      BY <3>2, <3>3, <3>5, <1>0, <2>2, FetchWalks
  <2> QED
    BY <2>3, <2>4, <1>3 DEF EnumForward
<1> QED
  BY <1>2, <1>3 DEF EnumForward

LEMMA SsForwardFacts ==
    ASSUME CpFs, Walks(walk), walk.kind = "ss_forward"
    PROVE  /\ ~Plain(walk) /\ ~Back(walk) /\ walk.range \subseteq cp_ss
           /\ \A c \in Nat : Beyond(walk, c) <=> (walk.state # "end" /\ c >= walk.sidx)
           /\ walk.state \in {"search", "init", "end"}
           /\ walk.state = "init" /\ walk.sidx # 0 => walk.sidx \in cp_ss
           /\ walk.sidx >= walk.cs_cno => \A c \in walk.range \cap cp_live : ~Beyond(walk, c)
<1>1. ~Plain(walk) /\ ~Back(walk)
  BY DEF Plain, Back
<1>2. walk.range \subseteq cp_ss /\ WaySsForward(walk, cp_ss)
  BY <1>1 DEF Walks, WayInv
<1>3. \A c \in Nat : Beyond(walk, c) <=> (walk.state # "end" /\ c >= walk.sidx)
  BY <1>1 DEF Beyond
<1>4. ASSUME walk.sidx >= walk.cs_cno, NEW c \in walk.range \cap cp_live PROVE ~Beyond(walk, c)
  <2>1. c \in Nat /\ c <= walk.cs_cno - 1 /\ walk.sidx \in Nat /\ walk.cs_cno \in Nat
    BY WayFacts
  <2>2. ~(c >= walk.sidx)
    BY ONLY <1>4, <2>1
  <2> QED
    BY <1>3, <2>1, <2>2
<1> QED
  BY <1>1, <1>2, <1>3, <1>4 DEF WaySsForward

LEMMA SearchKeeps ==
    ASSUME CpFs, Walks(walk), SearchSnapshot
    PROVE  Walks(walk')
<1> DEFINE n == IF walk.head = 0 THEN 1 ELSE MinOf(walk.cs_cno - walk.sidx, NCPINFO)
           r == get_cpinfo(walk.sidx, n)
           G == r.got
           H == G \cap cp_ss
           to == IF H = {} THEN walk.sidx + Cardinality(G) ELSE Min(H)
<1>0. walk.kind = "ss_forward" /\ ~walk.done /\ walk.buf = {} /\ walk.state = "search"
  BY DEF SearchSnapshot, Fetching
<1>1. /\ ~Plain(walk) /\ ~Back(walk) /\ walk.range \subseteq cp_ss
      /\ \A c \in Nat : Beyond(walk, c) <=> c >= walk.sidx
      /\ walk.sidx >= walk.cs_cno => \A c \in walk.range \cap cp_live : ~Beyond(walk, c)
  BY <1>0, SsForwardFacts
<1>2. ASSUME walk.rest = 0 \/ walk.sidx >= walk.cs_cno, Done PROVE Walks(walk')
  BY <1>0, <1>1, <1>2, EndWalks
<1>3. ASSUME walk.rest # 0, ~(walk.sidx >= walk.cs_cno) PROVE Walks(walk')
  <2>1. n \in Nat /\ n >= 1
    BY <1>3, WayFacts, CpAssumption DEF MinOf
  <2>2. /\ Got(cp_live, walk.sidx, n, G) /\ G \in SUBSET Nat /\ r.mincno \in Nat
        /\ \A c \in cp_live : c >= r.mincno
    <3> HIDE DEF n
    <3> QED
      BY <2>1, WayFacts, CpinfoIs
  <2>3. CASE G = {} /\ Done
    <3>1. \A c \in cp_live : c < walk.sidx
      BY <2>2, <2>3 DEF Got
    <3>2. ASSUME NEW c \in walk.range \cap cp_live PROVE ~Beyond(walk, c)
      <4>1. c \in Nat /\ walk.sidx \in Nat /\ c < walk.sidx
        BY <3>1, WayFacts, FsNumbers
      <4>2. ~(c >= walk.sidx)
        BY ONLY <4>1
      <4> QED
        BY <4>1, <4>2, <1>1
    <3> QED
      BY <3>2, <1>0, <2>3, EndWalks
  <2>4. CASE G # {} /\ walk' = [walk EXCEPT !.head = 1, !.mincno = r.mincno,
                   !.state = IF H = {} THEN @ ELSE "init", !.sidx = IF H = {} THEN @ + Cardinality(G) ELSE Min(H)]
    <3>0. walk' = [walk EXCEPT !.head = 1, !.mincno = r.mincno,
                   !.state = IF H = {} THEN walk.state ELSE "init", !.sidx = to]
      BY <2>4
    <3> HIDE DEF G, r
    <3>a. next_cp \in Nat /\ G \in SUBSET (0 .. next_cp) /\ H \in SUBSET (0 .. next_cp)
      BY <2>2, FsNumbers DEF Got
    <3>b. Cardinality(G) \in Nat
      BY <3>a, Finite
    <3>c. H # {} => Min(H) \in H /\ \A g \in H : Min(H) <= g
      BY <3>a, MinMax
    <3>1. to \in Nat /\ to >= walk.sidx
      <4>1. CASE H = {}
        BY <4>1, <3>b, WayFacts
      <4>2. CASE H # {}
        <5>1. Min(H) \in G /\ Min(H) \in Nat
          BY <4>2, <3>c, <2>2
        <5> QED
          BY <5>1, <4>2, <2>2 DEF Got
      <4> QED
        BY <4>1, <4>2
    <3>2. ASSUME NEW c \in walk.range \cap cp_live, c >= walk.sidx PROVE c >= to
      <4>0. c \in cp_ss /\ c \in cp_live /\ c \in Nat
        BY <1>1, FsNumbers
      <4>1. CASE H = {}
        <5>1. \A g \in G : walk.sidx <= g /\ g < c
          <6> SUFFICES ASSUME NEW g \in G PROVE walk.sidx <= g /\ g < c
            OBVIOUS
          <6>1. c > g /\ g >= walk.sidx /\ g \in Nat /\ walk.sidx \in Nat
            BY <4>0, <4>1, <3>2, <2>2, WayFacts DEF Got
          <6> QED
            BY ONLY <6>1, <4>0
        <5>2. walk.sidx \in Int /\ c \in Int /\ walk.sidx <= c /\ G \subseteq Int
          BY <4>0, <3>2, WayFacts, <2>2
        <5>3. Cardinality(G) <= c - walk.sidx
          BY <5>1, <5>2, Below
        <5>4. c >= walk.sidx + Cardinality(G)
          BY ONLY <5>3, <5>2, <3>b
        <5> QED
          BY <5>4, <4>1
      <4>2. CASE H # {}
        <5>1. Min(H) \in G /\ Min(H) \in Nat
          BY <4>2, <3>c, <2>2
        <5>2. CASE c \in G
          BY <5>2, <4>0, <4>2, <3>c, <5>1
        <5>3. CASE c \notin G
          <6>1. c > Min(H)
            BY <5>3, <5>1, <4>0, <3>2, <2>2 DEF Got
          <6> QED
            BY <6>1, <5>1, <4>0, <4>2
        <5> QED
          BY <5>2, <5>3
      <4> QED
        BY <4>1, <4>2
    <3>3. H # {} => to \in cp_ss
      BY <3>c
    <3> HIDE DEF to
    <3>4. /\ Same(walk, walk') /\ walk'.buf = {} /\ walk'.sidx = to /\ walk'.mincno = r.mincno
          /\ walk'.done = walk.done /\ walk'.state = IF H = {} THEN "search" ELSE "init"
          /\ walk'.eidx = walk.eidx /\ walk'.head = 1 /\ walk'.v = walk.v /\ walk'.rns = walk.rns
      BY <3>0, <1>0, WayFacts DEF Shape, Same
    <3>5. IsWalk(walk')
      <4>1. walk' = Shape(walk')
        BY <3>0, WayFacts DEF Shape
      <4>2. IsWalk(walk)
        BY WayFacts
      <4> QED
        BY <4>1, <4>2, <3>1, <3>4, <2>2 DEF IsWalk, Same
    <3>6. \A c \in Nat : Beyond(walk', c) <=> c >= to
      BY <1>0, <3>4 DEF Beyond, Back, Same
    <3>7. Fetched(walk, walk', cp_live, cp_ss)
      <4>1. ASSUME NEW c \in Nat, Beyond(walk', c) PROVE Beyond(walk, c)
        <5>1. c >= to /\ to >= walk.sidx /\ to \in Nat /\ walk.sidx \in Nat
          BY <4>1, <3>6, <3>1, WayFacts
        <5>2. c >= walk.sidx
          BY ONLY <5>1, c \in Nat
        <5> QED
          BY <5>2, <1>1
      <4>2. ASSUME NEW c \in walk.range \cap cp_live, Beyond(walk, c) PROVE Beyond(walk', c)
        <5>1. c \in Nat
          BY FsNumbers
        <5> QED
          BY <5>1, <4>2, <1>1, <3>2, <3>6
      <4> QED
        BY <4>1, <4>2, <3>4, <1>0, <1>3 DEF Fetched
    <3>8. WaySsForward(walk', cp_ss)
      BY <3>3, <3>4 DEF WaySsForward
    <3> QED
      BY <3>4, <3>5, <3>7, <3>8, <1>0, <2>2, FetchWalks
  <2> QED
    BY <2>3, <2>4, <1>3 DEF SearchSnapshot
<1> QED
  BY <1>2, <1>3 DEF SearchSnapshot

LEMMA SnapshotsForwardKeeps ==
    ASSUME CpFs, Walks(walk), SnapshotsForward
    PROVE  Walks(walk')
<1> DEFINE n == MinOf(walk.rest, NCPINFO)
           G == get_ssinfo(walk.sidx, n)
           more == {c \in cp_ss : c > Max(G)}
           to == IF more = {} THEN 0 ELSE Min(more)
<1>0. walk.kind = "ss_forward" /\ ~walk.done /\ walk.buf = {} /\ walk.state \in {"init", "end"}
  BY DEF SnapshotsForward, Fetching
<1>1. /\ ~Plain(walk) /\ ~Back(walk) /\ walk.range \subseteq cp_ss
      /\ \A c \in Nat : Beyond(walk, c) <=> (walk.state # "end" /\ c >= walk.sidx)
      /\ walk.sidx >= walk.cs_cno => \A c \in walk.range \cap cp_live : ~Beyond(walk, c)
      /\ walk.state = "init" /\ walk.sidx # 0 => walk.sidx \in cp_ss
      /\ cp_live \subseteq Nat
  BY <1>0, SsForwardFacts, FsNumbers
<1>2. ASSUME walk.rest = 0 \/ walk.sidx >= walk.cs_cno \/ walk.state = "end", Done PROVE Walks(walk')
  BY <1>0, <1>1, <1>2, EndWalks
<1>3. ASSUME walk.rest # 0, ~(walk.sidx >= walk.cs_cno), walk.state # "end" PROVE Walks(walk')
  <2>1. n \in Nat /\ n >= 1
    BY <1>3, WayFacts, CpAssumption DEF MinOf
  <2>2. Got(cp_ss, walk.sidx, n, G)
    <3>1. G = First(From(cp_ss, walk.sidx), n)
      BY <1>0, <1>1, <1>3 DEF get_ssinfo
    <3> HIDE DEF n
    <3>2. next_cp \in Nat /\ cp_ss \in SUBSET (0 .. next_cp) /\ walk.sidx \in Nat
      BY FsNumbers, WayFacts
    <3> QED
      BY <3>1, <3>2, <2>1, GotIs
  <2>3. CASE G = {} /\ Done
    <3>1. \A c \in cp_ss : c < walk.sidx
      BY <2>2, <2>3 DEF Got
    <3>2. ASSUME NEW c \in walk.range \cap cp_live PROVE ~Beyond(walk, c)
      <4>1. c \in Nat /\ walk.sidx \in Nat /\ c < walk.sidx
        BY <3>1, <1>1, WayFacts, FsNumbers
      <4>2. ~(c >= walk.sidx)
        BY ONLY <4>1
      <4> QED
        BY <4>1, <4>2, <1>1
    <3> QED
      BY <3>2, <1>0, <2>3, EndWalks
  <2>4. CASE G # {} /\ walk' = [walk EXCEPT !.buf = G, !.state = IF more = {} THEN "end" ELSE @,
                   !.sidx = IF more = {} THEN 0 ELSE Min(more)]
    <3>0. walk' = [walk EXCEPT !.buf = G, !.state = IF more = {} THEN "end" ELSE walk.state, !.sidx = to]
      BY <2>4
    <3> HIDE DEF G
    <3>a. /\ next_cp \in Nat /\ G \subseteq cp_ss /\ cp_ss \subseteq Nat /\ more \in SUBSET (0 .. next_cp)
          /\ G \subseteq Nat /\ more \subseteq cp_ss
      BY <2>2, FsNumbers DEF Got
    <3>b. Max(G) \in G /\ Max(G) \in Nat /\ \A g \in G : Max(G) >= g
      BY <2>2, <2>4, <3>a DEF Got
    <3>c. more # {} => /\ Min(more) \in cp_ss /\ Min(more) > Max(G) /\ Min(more) \in Nat
                       /\ \A c \in more : Min(more) <= c
      BY <3>a, MinMax
    <3>d. Max(G) >= walk.sidx /\ walk.sidx \in Nat
      BY <3>b, <2>2, WayFacts DEF Got
    <3>1. to \in Nat /\ (more # {} => to > Max(G) /\ to \in cp_ss)
      BY <3>c
    <3>2. ASSUME NEW c \in walk.range \cap cp_live, c >= walk.sidx, c \notin G PROVE more # {} /\ c >= to
      <4>1. c \in cp_ss /\ c \in Nat
        BY <1>1, FsNumbers
      <4>2. c > Max(G)
        BY <4>1, <3>2, <3>b, <2>2 DEF Got
      <4>3. c \in more
        BY <4>1, <4>2
      <4> QED
        BY <4>1, <4>3, <3>c
    <3> HIDE DEF to, more
    <3>4. /\ Same(walk, walk') /\ walk'.buf = G /\ walk'.sidx = to /\ walk'.mincno = walk.mincno
          /\ walk'.done = walk.done /\ walk'.state = IF more = {} THEN "end" ELSE "init"
          /\ walk'.eidx = walk.eidx /\ walk'.head = walk.head /\ walk'.v = walk.v /\ walk'.rns = walk.rns
      BY <3>0, <1>0, <1>3, WayFacts DEF Shape, Same
    <3>5. IsWalk(walk')
      <4>1. walk' = Shape(walk')
        BY <3>0, WayFacts DEF Shape
      <4>2. IsWalk(walk)
        BY WayFacts
      <4> QED
        BY <4>1, <4>2, <3>a, <3>1, <3>4 DEF IsWalk, Same
    <3>6. \A c \in Nat : Beyond(walk', c) <=> (more # {} /\ c >= to)
      BY <1>0, <3>4 DEF Beyond, Back, Same
    <3>7. Fetched(walk, walk', cp_live, cp_ss)
      <4>1. ASSUME NEW b \in G PROVE Beyond(walk, b) /\ b \in cp_ss
        BY <1>1, <1>3, <2>2, <3>a DEF Got
      <4>2. ASSUME NEW c \in Nat, Beyond(walk', c) PROVE Beyond(walk, c) /\ \A b \in G : Before(walk, b, c)
        <5>1. c >= to /\ to > Max(G) /\ to \in Nat
          BY <4>2, <3>6, <3>1
        <5>2. c >= walk.sidx
          BY ONLY <5>1, <3>b, <3>d, c \in Nat
        <5>3. ASSUME NEW b \in G PROVE b < c
          <6>1. b \in Nat /\ Max(G) >= b
            BY <3>a, <3>b
          <6> QED
            BY ONLY <6>1, <5>1, <3>b, c \in Nat
        <5> QED
          BY <5>2, <5>3, <1>1, <1>3 DEF Before
      <4>3. ASSUME NEW c \in walk.range \cap cp_live, Beyond(walk, c), c \notin G PROVE Beyond(walk', c)
        <5>1. c \in Nat
          BY FsNumbers
        <5> QED
          BY <5>1, <4>3, <1>1, <3>2, <3>6
      <4> QED
        BY <4>1, <4>2, <4>3, <3>4, <1>0, <1>1, <1>3 DEF Fetched
    <3>8. WaySsForward(walk', cp_ss)
      BY <3>1, <3>4 DEF WaySsForward
    <3>9. \A c \in cp_live : c >= walk'.mincno
      BY <3>4, WayFacts
    <3> QED
      BY <3>4, <3>5, <3>7, <3>8, <3>9, <1>0, FetchWalks
  <2> QED
    BY <2>3, <2>4, <1>3 DEF SnapshotsForward
<1> QED
  BY <1>2, <1>3 DEF SnapshotsForward

\* The newest checkpoint exists, so a call from below it finds something.
LEMMA SomeGot ==
    ASSUME CpFs, NEW from \in Nat, from < next_cp, NEW n, NEW G, Got(cp_live, from, n, G)
    PROVE  G # {}
<1>1. next_cp - 1 \in cp_live /\ next_cp \in Nat
  BY FsNumbers
<1>2. G = {} => next_cp - 1 < from
  BY <1>1 DEF Got
<1> QED
  BY ONLY <1>1, <1>2, from < next_cp, from \in Nat

LEMMA SnapshotsBackwardKeeps ==
    ASSUME CpFs, Walks(walk), SnapshotsBackward
    PROVE  Walks(walk')
<1> DEFINE few == walk.rns <= NCPINFO \/ walk.eidx <= NILFS_CNO_MIN + NCPINFO
           sidx == walk.eidx - NCPINFO
           r == get_cpinfo(sidx, NCPINFO)
           left == get_ssinfo(0, MinOf(walk.rns, NCPINFO))
           L == {c \in cp_ss : c < walk.eidx}
<1>0. walk.kind = "ss_backward" /\ ~walk.done /\ walk.buf = {}
  BY DEF SnapshotsBackward, Fetching
<1>1. /\ ~Plain(walk) /\ Back(walk) /\ walk.range \subseteq cp_ss
      /\ \A c \in Nat : Beyond(walk, c) <=> (walk.state # "end" /\ c < walk.eidx)
      /\ walk.eidx <= walk.cs_cno
      /\ walk.state # "end" => Cardinality(L) <= walk.rns
  <2>1. ~Plain(walk) /\ Back(walk)
    BY <1>0 DEF Plain, Back
  <2>2. walk.range \subseteq cp_ss /\ WaySsBackward(walk, cp_ss)
    BY <1>0, <2>1 DEF Walks, WayInv
  <2>3. L \cup walk.buf = L
    BY <1>0
  <2> QED
    BY <1>0, <2>1, <2>2, <2>3 DEF Beyond, WaySsBackward
<1>2. ASSUME walk.rest = 0 \/ walk.eidx <= NILFS_CNO_MIN \/ walk.state = "end", Done PROVE Walks(walk')
  <2>1. ASSUME walk.eidx <= NILFS_CNO_MIN, NEW c \in walk.range \cap cp_live PROVE ~Beyond(walk, c)
    <3>1. c \in Nat /\ c >= 1 /\ walk.eidx \in Nat /\ walk.eidx <= 1
      BY <2>1, WayFacts, FsNumbers DEF NILFS_CNO_MIN
    <3>2. ~(c < walk.eidx)
      BY ONLY <3>1
    <3> QED
      BY <1>1, <3>1, <3>2
  <2>2. ASSUME walk.state = "end", NEW c \in walk.range \cap cp_live PROVE ~Beyond(walk, c)
    BY <2>2, <1>1, FsNumbers
  <2> QED
    BY <1>0, <1>2, <2>1, <2>2, EndWalks
<1>3. ASSUME walk.rest # 0, ~(walk.eidx <= NILFS_CNO_MIN), walk.state # "end", few,
             walk' = [walk EXCEPT !.buf = {c \in left : c < walk.eidx}, !.state = "end"]
      PROVE  Walks(walk')
  <2> DEFINE G == {c \in left : c < walk.eidx}
  <2>a. NCPINFO \in Nat /\ NCPINFO >= 1 /\ walk.eidx \in Nat /\ walk.rns \in Int
    BY CpAssumption, WayFacts
  <2>b. left = First(From(cp_ss, 0), MinOf(walk.rns, NCPINFO))
    BY DEF get_ssinfo
  <2>c. From(cp_ss, 0) = cp_ss
    BY FsNumbers DEF From
  <2>d. next_cp \in Nat /\ cp_ss \in SUBSET (0 .. next_cp) /\ cp_ss \subseteq Nat
    BY FsNumbers
  <2>1. G \subseteq cp_ss /\ G \subseteq Nat
    <3>1. left \subseteq cp_ss
      BY <2>b, <2>c DEF First
    <3> QED
      BY <3>1, <2>d
  <2>2. ASSUME NEW c \in cp_ss, c < walk.eidx PROVE c \in G
    <3> DEFINE B == {d \in cp_ss : d < c}
    <3>0. c \in Nat /\ c >= 1
      BY FsNumbers
    <3>1. L \in SUBSET (0 .. next_cp) /\ B \in SUBSET (0 .. next_cp) /\ c \in L /\ c \notin B
      <4>1. L \subseteq cp_ss /\ B \subseteq cp_ss /\ c \in L
        BY <2>2
      <4>2. ~(c < c)
        BY <3>0
      <4> QED
        BY <4>1, <4>2, <2>d
    <3>2. B \subseteq L
      <4> SUFFICES ASSUME NEW d \in B PROVE d < walk.eidx
        OBVIOUS
      <4>1. d \in Nat /\ d < c
        BY <2>d
      <4> QED
        BY ONLY <4>1, <3>0, <2>2, <2>a
    <3>3. IsFiniteSet(L) /\ IsFiniteSet(B) /\ Cardinality(L) \in Nat /\ Cardinality(B) \in Nat
      BY <3>1, <2>d, Finite
    <3>4. Cardinality(B) < Cardinality(L)
      <4>1. B # L /\ B \in SUBSET L
        BY <3>1, <3>2
      <4> HIDE DEF B, L
      <4>2. Cardinality(B) <= Cardinality(L) /\ (Cardinality(B) = Cardinality(L) => B = L)
        BY <4>1, <3>3, FS_Subset
      <4> QED
        BY <4>1, <4>2, <3>3
    <3>5. Cardinality(B) <= c - 1
      <4>1. \A d \in B : 1 <= d /\ d < c
        <5> SUFFICES ASSUME NEW d \in B PROVE 1 <= d
          OBVIOUS
        <5>1. d \in Nat /\ d >= 1
          BY FsNumbers
        <5> QED
          BY ONLY <5>1
      <4>2. B \subseteq Int /\ c \in Int /\ 1 \in Int /\ 1 <= c
        <5>1. B \subseteq cp_ss
          OBVIOUS
        <5> HIDE DEF B
        <5>2. B \subseteq Int
          BY <5>1, <2>d
        <5> QED
          BY <5>2, <3>0
      <4> HIDE DEF B
      <4> QED
        BY <4>1, <4>2, Below
    <3>6. Cardinality(B) < MinOf(walk.rns, NCPINFO)
      <4>1. Cardinality(L) <= walk.rns
        BY <1>1, <1>3
      <4>2. walk.rns <= NCPINFO \/ walk.eidx <= 1 + NCPINFO
        BY <1>3 DEF NILFS_CNO_MIN
      <4> HIDE DEF B, L
      <4> QED
        BY <4>1, <4>2, <3>0, <3>3, <3>4, <3>5, <2>2, <2>a DEF MinOf
    <3>7. c \in left
      BY <2>b, <2>c, <3>6 DEF First
    <3> QED
      BY <3>7, <2>2
  <2>x. walk' = [walk EXCEPT !.buf = G, !.state = "end"]
    BY <1>3
  <2> HIDE DEF G
  <2>3. /\ Same(walk, walk') /\ walk'.buf = G /\ walk'.sidx = walk.sidx /\ walk'.mincno = walk.mincno
        /\ walk'.done = walk.done /\ walk'.state = "end"
        /\ walk'.eidx = walk.eidx /\ walk'.head = walk.head /\ walk'.v = walk.v /\ walk'.rns = walk.rns
    BY <2>x, WayFacts DEF Shape, Same
  <2>4. IsWalk(walk')
    <3>1. walk' = Shape(walk')
      BY <2>x, WayFacts DEF Shape
    <3>2. IsWalk(walk)
      BY WayFacts
    <3> QED
      BY <3>1, <3>2, <2>1, <2>3 DEF IsWalk, Same
  <2>5. Fetched(walk, walk', cp_live, cp_ss)
    <3>1. \A c \in Nat : ~Beyond(walk', c)
      BY <1>0, <2>3 DEF Beyond, Same
    <3>2. ASSUME NEW b \in G PROVE Beyond(walk, b) /\ b \in cp_ss
      <4>1. b \in Nat /\ b \in cp_ss /\ b < walk.eidx
        BY <2>1 DEF G
      <4> QED
        BY <4>1, <1>1, <1>3
    <3>3. ASSUME NEW c \in walk.range \cap cp_live, Beyond(walk, c) PROVE c \in G
      <4>1. c \in Nat /\ c \in cp_ss
        BY <1>1, FsNumbers
      <4> QED
        BY <4>1, <3>3, <1>1, <2>2
    <3> QED
      BY <3>1, <3>2, <3>3, <2>3, <1>0, <1>1, <1>3 DEF Fetched
  <2>6. WaySsBackward(walk', cp_ss)
    BY <2>3, <1>1 DEF WaySsBackward, Same
  <2>7. \A c \in cp_live : c >= walk'.mincno
    BY <2>3, WayFacts
  <2> QED
    BY <2>3, <2>4, <2>5, <2>6, <2>7, <1>0, FetchWalks
<1>4. ASSUME walk.rest # 0, ~(walk.eidx <= NILFS_CNO_MIN), walk.state # "end", ~few,
             \/ r.got = {}
             \/ walk' = [walk EXCEPT !.buf = {c \in r.got : c < walk.eidx /\ c \in cp_ss},
                                     !.eidx = sidx, !.mincno = r.mincno]
      PROVE  Walks(walk')
  <2>a. NCPINFO \in Nat /\ NCPINFO >= 1 /\ walk.eidx \in Nat /\ walk.rns \in Int /\ next_cp \in Nat
    BY CpAssumption, WayFacts, FsNumbers
  <2>b. sidx \in Nat /\ sidx < walk.eidx /\ sidx < next_cp
    <3>1. ~(walk.eidx <= 1 + NCPINFO) /\ walk.eidx <= next_cp
      <4>1. walk.eidx <= walk.cs_cno /\ walk.cs_cno <= next_cp /\ walk.cs_cno \in Nat
        BY <1>1, WayFacts
      <4> QED
        BY <4>1, <2>a, <1>4 DEF NILFS_CNO_MIN
    <3> QED
      BY ONLY <3>1, <2>a
  <2>1. /\ Got(cp_live, sidx, NCPINFO, r.got) /\ r.got \in SUBSET Nat /\ r.mincno \in Nat
        /\ \A c \in cp_live : c >= r.mincno
    <3> HIDE DEF sidx
    <3> QED
      BY <2>a, <2>b, WayFacts, CpinfoIs
  <2>2. r.got # {}
    <3> HIDE DEF sidx, r
    <3> QED
      BY <2>1, <2>b, SomeGot
  <2> DEFINE G == {c \in r.got : c < walk.eidx /\ c \in cp_ss}
  <2>x. walk' = [walk EXCEPT !.buf = G, !.eidx = sidx, !.mincno = r.mincno]
    BY <1>4, <2>2
  <2>3. G \subseteq cp_ss /\ G \subseteq Nat /\ \A b \in G : b >= sidx /\ b < walk.eidx
    BY <2>1 DEF Got
  <2>4. ASSUME NEW c \in cp_ss, c < walk.eidx, ~(c < sidx) PROVE c \in G
    <3>1. c \in Nat /\ c \in cp_live
      BY FsNumbers
    <3>2. c >= sidx /\ c < sidx + NCPINFO
      BY ONLY <3>1, <2>4, <2>a, <2>b
    <3>3. c \in r.got
      BY <3>1, <3>2, <2>1 DEF Got
    <3> QED
      BY <3>3, <2>4
  <2>5. Cardinality({c \in cp_ss : c < sidx} \cup G) <= walk.rns
    <3> DEFINE A == {c \in cp_ss : c < sidx} \cup G
    <3>1. A \subseteq L
      <4> SUFFICES ASSUME NEW c \in A PROVE c \in L
        OBVIOUS
      <4>1. c \in cp_ss /\ c \in Nat /\ (c < sidx \/ c < walk.eidx)
        BY <2>3, FsNumbers
      <4>2. sidx \in Nat /\ sidx < walk.eidx /\ walk.eidx \in Nat
        BY <2>a, <2>b
      <4> HIDE DEF sidx
      <4>3. c < walk.eidx
        BY ONLY <4>1, <4>2
      <4> QED
        BY <4>1, <4>3
    <3>2. L \in SUBSET (0 .. next_cp)
      BY FsNumbers
    <3>3. Cardinality(L) <= walk.rns
      BY <1>1, <1>4
    <3> HIDE DEF A, L
    <3>4. IsFiniteSet(L) /\ Cardinality(L) \in Nat
      BY <3>2, <2>a, Finite
    <3>5. Cardinality(A) <= Cardinality(L) /\ IsFiniteSet(A)
      BY <3>1, <3>4, FS_Subset
    <3>6. Cardinality(A) \in Nat
      BY <3>5, FS_CardinalityType
    <3>7. Cardinality(A) <= walk.rns
      BY ONLY <3>3, <3>4, <3>5, <3>6, <2>a
    <3> QED
      BY <3>7 DEF A
  <2> HIDE DEF G, r, sidx
  <2>6. /\ Same(walk, walk') /\ walk'.buf = G /\ walk'.sidx = walk.sidx /\ walk'.mincno = r.mincno
        /\ walk'.done = walk.done /\ walk'.state = walk.state
        /\ walk'.eidx = sidx /\ walk'.head = walk.head /\ walk'.v = walk.v /\ walk'.rns = walk.rns
    BY <2>x, WayFacts DEF Shape, Same
  <2>7. IsWalk(walk')
    <3>1. walk' = Shape(walk')
      BY <2>x, WayFacts DEF Shape
    <3>2. IsWalk(walk)
      BY WayFacts
    <3> QED
      BY <3>1, <3>2, <2>1, <2>b, <2>3, <2>6 DEF IsWalk, Same
  <2>8. Fetched(walk, walk', cp_live, cp_ss)
    <3>1. \A c \in Nat : Beyond(walk', c) <=> c < sidx
      BY <1>0, <1>4, <2>6 DEF Beyond, Same, Back
    <3>2. ASSUME NEW b \in G PROVE Beyond(walk, b) /\ b \in cp_ss
      BY <2>3, <1>1, <1>4
    <3>3. ASSUME NEW c \in Nat, Beyond(walk', c) PROVE Beyond(walk, c) /\ \A b \in G : Before(walk, b, c)
      <4>1. c < sidx
        BY <3>1, <3>3
      <4>2. c < walk.eidx
        BY ONLY <4>1, <2>b, <2>a, c \in Nat
      <4>3. ASSUME NEW b \in G PROVE b > c
        <5>1. b \in Nat /\ b >= sidx
          BY <2>3
        <5> QED
          BY ONLY <4>1, <5>1, <2>b, c \in Nat
      <4> QED
        BY <4>2, <4>3, <1>1, <1>4 DEF Before
    <3>4. ASSUME NEW c \in walk.range \cap cp_live, Beyond(walk, c) PROVE c \in G \/ Beyond(walk', c)
      <4>1. c \in Nat /\ c \in cp_ss
        BY <1>1, FsNumbers
      <4> QED
        BY <4>1, <3>4, <3>1, <1>1, <2>4
    <3> QED
      BY <3>2, <3>3, <3>4, <2>6, <1>0, <1>1, <1>4 DEF Fetched
  <2>9. WaySsBackward(walk', cp_ss)
    <3>1. sidx <= walk.cs_cno
      BY <2>b, <2>a, <1>1, WayFacts
    <3> QED
      BY <3>1, <2>5, <2>6 DEF WaySsBackward, Same
  <2>10. \A c \in cp_live : c >= walk'.mincno
    BY <2>6, <2>1
  <2> QED
    BY <2>6, <2>7, <2>8, <2>9, <2>10, <1>0, FetchWalks
<1> HIDE DEF few, r, left, sidx
<1> QED
  BY <1>2, <1>3, <1>4 DEF SnapshotsBackward, few, r, left, sidx

\* One call backward comes to e and takes along G, all there is from e on.
LEMMA StepBack ==
    ASSUME CpFs, Walks(walk), Fetching("backward"), walk.rest # 0,
           NEW e \in Nat, NEW m \in Nat, NEW s \in {"normal", "accel", "decel"}, NEW v2 \in Nat \ {0},
           NEW h \in Nat, NEW G \in SUBSET cp_live,
           e <= walk.eidx, \A b \in G : b >= e /\ b < walk.eidx,
           \A c \in cp_live : c >= e /\ c < walk.eidx => c \in G,
           \A c \in cp_live : c >= m, h # 0 => h >= e, s # "normal" => h # 0, s = "normal" => v2 <= NCPINFO,
           walk' = [walk EXCEPT !.buf = G, !.state = s, !.head = h, !.eidx = e, !.v = v2, !.mincno = m]
    PROVE  Walks(walk')
<1>0. walk.kind = "backward" /\ ~walk.done /\ walk.buf = {}
  BY DEF Fetching
<1>1. /\ walk.eidx \in Nat /\ walk.cs_cno \in Nat /\ Plain(walk) /\ Back(walk)
      /\ \A c \in Nat : Beyond(walk, c) <=> c < walk.eidx
  BY <1>0, WayFacts DEF Plain, Back, Beyond
<1>2. walk.eidx <= walk.cs_cno
  BY <1>0 DEF Walks, WayInv, WayBackward
<1>3. G \subseteq Nat
  BY FsNumbers
<1>4. /\ Same(walk, walk') /\ walk'.buf = G /\ walk'.sidx = walk.sidx /\ walk'.mincno = m
      /\ walk'.done = walk.done /\ walk'.state = s
      /\ walk'.eidx = e /\ walk'.head = h /\ walk'.v = v2 /\ walk'.rns = walk.rns
  BY WayFacts DEF Shape, Same
<1>5. IsWalk(walk')
  <2>1. walk' = Shape(walk')
    BY WayFacts DEF Shape
  <2>2. IsWalk(walk)
    BY WayFacts
  <2> QED
    BY <2>1, <2>2, <1>3, <1>4 DEF IsWalk, Same
<1>6. Fetched(walk, walk', cp_live, cp_ss)
  <2>1. \A c \in Nat : Beyond(walk', c) <=> c < e
    BY <1>0, <1>4 DEF Beyond, Same, Back
  <2>2. ASSUME NEW b \in G PROVE Beyond(walk, b) /\ b \in cp_live
    BY <1>1, <1>3
  <2>3. ASSUME NEW c \in Nat, Beyond(walk', c) PROVE Beyond(walk, c) /\ \A b \in G : Before(walk, b, c)
    <3>1. c < e
      BY <2>1, <2>3
    <3>2. c < walk.eidx
      BY ONLY <3>1, <1>1, e <= walk.eidx, e \in Nat, c \in Nat
    <3>3. ASSUME NEW b \in G PROVE b > c
      <4>1. b \in Nat /\ b >= e
        BY <1>3
      <4> QED
        BY ONLY <3>1, <4>1, e \in Nat, c \in Nat
    <3> QED
      BY <3>2, <3>3, <1>1 DEF Before
  <2>4. ASSUME NEW c \in walk.range \cap cp_live, Beyond(walk, c) PROVE c \in G \/ Beyond(walk', c)
    <3>1. c \in Nat /\ c < walk.eidx
      BY <1>1, <2>4, FsNumbers
    <3>2. c >= e \/ c < e
      BY ONLY <3>1, e \in Nat
    <3> QED
      BY <3>1, <3>2, <2>1
  <2> QED
    BY <2>2, <2>3, <2>4, <1>0, <1>1, <1>4 DEF Fetched
<1>7. WayBackward(walk')
  <2>1. e <= walk.cs_cno
    BY ONLY <1>1, <1>2, e <= walk.eidx, e \in Nat
  <2> QED
    BY <1>4, <2>1 DEF WayBackward, Same
<1>8. \A c \in cp_live : c >= walk'.mincno
  BY <1>4
<1> QED
  BY <1>0, <1>4, <1>5, <1>6, <1>7, <1>8, FetchWalks

\* Nothing is left below the end.
LEMMA EndBack ==
    ASSUME CpFs, Walks(walk), Fetching("backward"), \A c \in cp_live : c >= walk.eidx, Done
    PROVE  Walks(walk')
<1>1. walk.kind = "backward" /\ ~walk.done /\ walk.buf = {}
  BY DEF Fetching
<1>2. ASSUME NEW c \in walk.range \cap cp_live PROVE ~Beyond(walk, c)
  <2>1. c \in Nat /\ walk.eidx \in Nat /\ c >= walk.eidx
    BY WayFacts, FsNumbers
  <2>2. ~(c < walk.eidx)
    BY ONLY <2>1
  <2> QED
    BY <2>2, <1>1 DEF Beyond, Back
<1> QED
  BY <1>1, <1>2, EndWalks

LEMMA DeltaIs ==
    ASSUME NEW rest \in Nat
    PROVE  delta(rest) \in Nat \ {0} /\ delta(rest) <= NCPINFO
BY CpAssumption DEF delta, MinOf, MaxOf

LEMMA BackwardKeeps ==
    ASSUME CpFs, Walks(walk), EnumBackward
    PROVE  Walks(walk')
<1> DEFINE sidx == IF walk.eidx < NILFS_CNO_MIN + walk.v \/ walk.state = "init"
                   THEN NILFS_CNO_MIN ELSE walk.eidx - walk.v
           n == MinOf(IF walk.state = "normal" THEN walk.eidx - sidx ELSE 1, NCPINFO)
           r == get_cpinfo(sidx, n)
           G == r.got
<1>0. Fetching("backward") /\ walk.kind = "backward" /\ ~walk.done /\ walk.buf = {}
  BY DEF EnumBackward, Fetching
<1>1. /\ WayBackward(walk) /\ walk.eidx \in Nat /\ walk.v \in Nat /\ walk.v >= 1 /\ walk.rest \in Nat
      /\ walk.head \in Nat /\ walk.eidx <= next_cp /\ next_cp \in Nat
      /\ NCPINFO \in Nat /\ NCPINFO >= 1
  <2>1. WayBackward(walk)
    BY <1>0 DEF Walks, WayInv
  <2>2. walk.eidx <= walk.cs_cno /\ walk.cs_cno <= next_cp /\ walk.cs_cno \in Nat
    BY <2>1, WayFacts DEF WayBackward
  <2> QED
    BY <2>1, <2>2, WayFacts, FsNumbers, CpAssumption
<1>2. ASSUME walk.rest = 0 \/ walk.eidx <= NILFS_CNO_MIN, Done PROVE Walks(walk')
  <2>1. ASSUME walk.eidx <= NILFS_CNO_MIN PROVE Walks(walk')
    <3>1. ASSUME NEW c \in cp_live PROVE c >= walk.eidx
      BY <2>1, <1>1, FsNumbers DEF NILFS_CNO_MIN
    <3> QED
      BY <3>1, <1>0, <1>2, EndBack
  <2>2. ASSUME walk.rest = 0 PROVE Walks(walk')
    BY <2>2, <1>0, <1>2, EndWalks
  <2> QED
    BY <1>2, <2>1, <2>2
<1>3. ASSUME walk.rest # 0, ~(walk.eidx <= NILFS_CNO_MIN) PROVE Walks(walk')
  <2>0. walk.eidx > 1
    BY <1>1, <1>3 DEF NILFS_CNO_MIN
  <2>1. /\ sidx \in Nat /\ sidx >= 1 /\ sidx < walk.eidx
        /\ walk.state = "init" => sidx = 1
        /\ walk.state # "init" => walk.eidx - sidx <= walk.v
    BY <1>1, <2>0 DEF NILFS_CNO_MIN
  <2>2. n \in Nat /\ n >= 1 /\ (walk.state = "normal" => n = walk.eidx - sidx)
    <3> HIDE DEF sidx
    <3>1. walk.state = "normal" => walk.v <= NCPINFO
      BY <1>1 DEF WayBackward
    <3> QED
      BY <3>1, <1>1, <2>1 DEF MinOf
  <2>3. /\ Got(cp_live, sidx, n, G) /\ G \in SUBSET Nat /\ r.mincno \in Nat
        /\ \A c \in cp_live : c >= r.mincno
    <3> HIDE DEF n, sidx
    <3> QED
      BY <2>1, <2>2, WayFacts, CpinfoIs
  <2>a. \/ G = {} /\ Done
        \/ G # {} /\ walk.state = "init" /\ Min(G) >= walk.eidx /\ Done
        \/ G # {} /\ walk.state = "init" /\ walk' = [walk EXCEPT !.state = "normal", !.mincno = r.mincno]
        \/ G # {} /\ walk.state # "init" /\ Min(G) = walk.head /\ GoFurtherBack(sidx, r.mincno)
        \/ G # {} /\ walk.state # "init" /\ GoSlower(r.mincno) /\ walk.state \in {"accel", "decel"}
        \/ /\ G # {} /\ walk.state # "init" /\ Min(G) # walk.head
           /\ ~(walk.state \in {"accel", "decel"} /\ Max(G) + 1 < walk.head) /\ TakeBackward(G, sidx, r.mincno)
    BY <1>3 DEF EnumBackward
  <2> HIDE DEF n, sidx, r, G
  <2>4. G # {}
    BY <1>1, <2>1, <2>3, SomeGot
  <2>5. /\ Min(G) \in G /\ Max(G) \in G /\ Min(G) \in cp_live /\ Min(G) \in Nat /\ Max(G) \in Nat
        /\ \A c \in cp_live : c \in Nat /\ (c >= sidx => c >= Min(G))
        /\ Min(G) >= sidx /\ Min(G) >= 1 /\ \A g \in G : Max(G) >= g
    BY <2>3, <2>4, FsNumbers DEF Got
  <2>6. CASE walk.state = "init" /\ Min(G) >= walk.eidx /\ Done
    <3>1. ASSUME NEW c \in cp_live PROVE c >= walk.eidx
      <4>1. c \in Nat /\ c >= sidx
        BY <2>1, <2>6, FsNumbers
      <4>2. c >= Min(G)
        BY <4>1, <2>5
      <4> QED
        BY ONLY <4>1, <4>2, <2>5, <2>6, <1>1
    <3> QED
      BY <3>1, <2>6, <1>0, EndBack
  <2>7. CASE walk.state = "init" /\ walk' = [walk EXCEPT !.state = "normal", !.mincno = r.mincno]
    <3>1. walk' = [walk EXCEPT !.buf = {}, !.state = "normal", !.head = walk.head, !.eidx = walk.eidx,
                               !.v = walk.v, !.mincno = r.mincno]
      BY <2>7, <1>0, WayFacts DEF Shape
    <3>2. walk.v <= NCPINFO /\ (walk.head # 0 => walk.head >= walk.eidx)
      BY <2>7, <1>1 DEF WayBackward
    <3>3. walk.v \in Nat \ {0}
      BY <1>1
    <3> DEFINE e == walk.eidx
               v2 == walk.v
               h == walk.head
    <3>4. walk' = [walk EXCEPT !.buf = {}, !.state = "normal", !.head = h, !.eidx = e,
                               !.v = v2, !.mincno = r.mincno]
      BY <3>1
    <3>5. e \in Nat /\ e <= walk.eidx /\ v2 \in Nat \ {0} /\ h \in Nat /\ (h # 0 => h >= e) /\ v2 <= NCPINFO
      BY <3>2, <3>3, <1>1
    <3>6. \A c \in cp_live : ~(c >= e /\ c < walk.eidx)
      BY <2>5, <1>1
    <3> HIDE DEF e, v2, h
    <3> QED
      BY <3>4, <3>5, <3>6, <1>0, <1>3, <2>3, StepBack
  <2>8. CASE walk.state # "init" /\ Min(G) = walk.head /\ GoFurtherBack(sidx, r.mincno)
    <3>1. Min(G) >= walk.eidx
      BY <2>8, <2>5, <1>1 DEF WayBackward
    <3>2. ASSUME NEW c \in cp_live, c >= sidx PROVE c >= walk.eidx
      <4>1. c >= Min(G) /\ c \in Nat
        BY <3>2, <2>5
      <4> QED
        BY ONLY <4>1, <3>1, <2>5, <1>1
    <3>3. CASE sidx = NILFS_CNO_MIN /\ Done
      <4>1. ASSUME NEW c \in cp_live PROVE c >= walk.eidx
        BY <3>3, <3>2, FsNumbers DEF NILFS_CNO_MIN
      <4> QED
        BY <4>1, <3>3, <1>0, EndBack
    <3>4. CASE walk' = [walk EXCEPT !.eidx = sidx, !.mincno = r.mincno,
                           !.state = IF @ = "decel" THEN "normal" ELSE "accel",
                           !.v = IF walk.state = "decel" THEN delta(walk.rest) ELSE 2 * @]
      <4> DEFINE s == IF walk.state = "decel" THEN "normal" ELSE "accel"
                 v2 == IF walk.state = "decel" THEN delta(walk.rest) ELSE 2 * walk.v
      <4>1. walk' = [walk EXCEPT !.buf = {}, !.state = s, !.head = walk.head, !.eidx = sidx,
                               !.v = v2, !.mincno = r.mincno]
        BY <3>4, <1>0, WayFacts DEF Shape
      <4>2. delta(walk.rest) \in Nat \ {0} /\ delta(walk.rest) <= NCPINFO
        BY <1>1, DeltaIs
      <4>3. v2 \in Nat \ {0} /\ (s = "normal" => v2 <= NCPINFO) /\ s \in {"normal", "accel", "decel"}
        BY <4>2, <1>1
      <4>4. walk.head # 0 /\ walk.head >= sidx /\ sidx <= walk.eidx
        BY <2>8, <2>5, <2>1, <1>1
      <4>5. \A c \in cp_live : ~(c >= sidx /\ c < walk.eidx)
        BY <3>2, <2>5, <1>1
      <4> HIDE DEF s, v2
      <4> QED
        BY <4>1, <4>3, <4>4, <4>5, <1>0, <1>1, <1>3, <2>1, <2>3, StepBack
    <3> QED
      BY <2>8, <3>3, <3>4 DEF GoFurtherBack
  <2>9. CASE walk.state # "init" /\ GoSlower(r.mincno) /\ walk.state \in {"accel", "decel"}
    <3> DEFINE v2 == MaxOf(walk.v \div 2, delta(walk.rest))
               s == IF walk.v \div 2 <= delta(walk.rest) THEN "normal" ELSE "decel"
    <3>1. walk' = [walk EXCEPT !.buf = {}, !.state = s, !.head = walk.head, !.eidx = walk.eidx,
                               !.v = v2, !.mincno = r.mincno]
      <4>1. walk' = [walk EXCEPT !.mincno = r.mincno, !.v = v2, !.state = s]
        BY <2>9 DEF GoSlower
      <4> HIDE DEF v2, s
      <4> QED
        BY <4>1, <1>0, WayFacts DEF Shape
    <3>2. delta(walk.rest) \in Nat \ {0} /\ delta(walk.rest) <= NCPINFO
      BY <1>1, DeltaIs
    <3>3. walk.v \div 2 \in Nat
      BY <1>1
    <3>4. v2 \in Nat \ {0} /\ (s = "normal" => v2 <= NCPINFO) /\ s \in {"normal", "accel", "decel"}
      BY <3>2, <3>3, <1>1 DEF MaxOf
    <3>5. walk.head # 0 /\ walk.head >= walk.eidx /\ walk.eidx <= walk.eidx
      BY <2>9, <1>1 DEF WayBackward
    <3> DEFINE e == walk.eidx
               h == walk.head
    <3>6. walk' = [walk EXCEPT !.buf = {}, !.state = s, !.head = h, !.eidx = e,
                               !.v = v2, !.mincno = r.mincno]
      BY <3>1
    <3>7. e \in Nat /\ e <= walk.eidx /\ h \in Nat /\ h # 0 /\ h >= e
      BY <3>5, <1>1
    <3>8. \A c \in cp_live : ~(c >= e /\ c < walk.eidx)
      BY <2>5, <1>1
    <3> HIDE DEF s, v2, e, h
    <3> QED
      BY <3>4, <3>6, <3>7, <3>8, <1>0, <1>3, <2>3, StepBack
  <2>10. CASE /\ walk.state # "init" /\ Min(G) # walk.head
              /\ ~(walk.state \in {"accel", "decel"} /\ Max(G) + 1 < walk.head)
              /\ TakeBackward(G, sidx, r.mincno)
    <3> DEFINE T == {c \in G : c < walk.eidx}
    <3>1. walk' = [walk EXCEPT !.buf = T, !.state = "normal", !.head = Min(G), !.eidx = sidx,
                               !.v = delta(walk.rest), !.mincno = r.mincno]
      BY <2>10 DEF TakeBackward
    <3>2. T \in SUBSET cp_live /\ \A b \in T : b >= sidx /\ b < walk.eidx
      BY <2>3 DEF Got
    <3>3. ASSUME NEW c \in cp_live, c >= sidx, c < walk.eidx PROVE c \in T
      <4>0. c \in Nat /\ c >= Min(G)
        BY <3>3, <2>5
      <4>1. CASE walk.state = "normal"
        <5>1. c < sidx + n
          BY ONLY <3>3, <4>0, <4>1, <2>1, <2>2, <1>1
        <5>2. c \in G
          BY <5>1, <3>3, <2>3 DEF Got
        <5> QED
          BY <5>2, <3>3
      <4>2. CASE walk.state \in {"accel", "decel"}
        <5>1. walk.head >= walk.eidx /\ Max(G) + 1 >= walk.head
          BY <4>2, <2>10, <2>5, <1>1 DEF WayBackward
        <5>2. c <= Max(G)
          BY ONLY <5>1, <3>3, <4>0, <2>5, <1>1
        <5>3. c \in G
          <6>1. c \notin G => c > Max(G)
            BY <3>3, <2>3, <2>5 DEF Got
          <6> QED
            BY <6>1, <5>2, <4>0, <2>5
        <5> QED
          BY <5>3, <3>3
      <4> QED
        BY <4>1, <4>2, <2>10, <1>1 DEF WayBackward
    <3>4. delta(walk.rest) \in Nat \ {0} /\ delta(walk.rest) <= NCPINFO
      BY <1>1, DeltaIs
    <3>5. sidx <= walk.eidx
      BY <2>1, <1>1
    <3> HIDE DEF T
    <3> QED
      BY <3>1, <3>2, <3>3, <3>4, <3>5, <1>0, <1>1, <1>3, <2>1, <2>3, <2>5, StepBack
  <2> QED
    BY <2>a, <2>4, <2>6, <2>7, <2>8, <2>9, <2>10
<1> QED
  BY <1>2, <1>3 DEF EnumBackward

-----------------------------------------------------------------------------
\* The kernel, meanwhile: among the checkpoints from before the walk there are
\* none that were not there.
LEMMA OthersKeep ==
    ASSUME NEW w, NEW live, NEW ss, NEW skip, NEW live2,
           IsWalk(w), WalkInv(w, live, ss, skip), w.range \subseteq 1 .. w.cs_cno - 1,
           \A c \in live2 : c \in live \/ c >= w.cs_cno, live2 \subseteq Nat
    PROVE  WalkInv(w, live2, ss, skip)
<1>0. w.cs_cno \in Nat
  BY WalkNumbers
<1>1. OutInRange(w, live2, ss, skip)
  <2>1. OutInRange(w, live, ss, skip)
    BY DEF WalkInv
  <2>2. ASSUME NEW c \in Wanted(w, live2, ss, skip), Beyond(w, c), c < w.cs_cno PROVE c \in w.range
    <3>1. CASE Plain(w)
      <4>1. c \in live2 /\ c \in Nat /\ c \notin skip
        BY <3>1 DEF Wanted
      <4>2. ~(c >= w.cs_cno)
        BY ONLY <4>1, <2>2, <1>0
      <4>3. c \in Wanted(w, live, ss, skip)
        BY <4>1, <4>2, <3>1 DEF Wanted
      <4> QED
        BY <4>3, <2>1, <2>2 DEF OutInRange
    <3>2. CASE ~Plain(w)
      BY <3>2, <2>1, <2>2 DEF OutInRange, Wanted
    <3> QED
      BY <3>1, <3>2
  <2> QED
    BY <2>1, <2>2 DEF OutInRange
<1>2. \A c \in w.range \cap live2 : c \in live
  <2> SUFFICES ASSUME NEW c \in w.range \cap live2 PROVE c \in live
    OBVIOUS
  <2>1. c \in Nat /\ c <= w.cs_cno - 1
    BY <1>0
  <2>2. ~(c >= w.cs_cno)
    BY ONLY <2>1, <1>0
  <2> QED
    BY <2>2
<1>3. Complete(w, live2)
  BY <1>2 DEF WalkInv, Complete
<1> QED
  BY <1>1, <1>3 DEF WalkInv

LEMMA AddKeeps ==
    ASSUME CpInv, AddCp
    PROVE  CpInv'
<1>1. CpFs /\ Walks(walk) /\ walk # NoWalk
  BY DEF CpInv, AddCp
<1>2. /\ cp_live' = cp_live \cup {next_cp} /\ next_cp' = next_cp + 1
      /\ cp_ss' = cp_ss /\ cp_minor' = cp_minor /\ walk' = walk
  BY DEF AddCp
<1>3. CpFs'
  BY <1>1, <1>2 DEF CpFs
<1>4. /\ IsWalk(walk) /\ walk.range \subseteq 1 .. walk.cs_cno - 1 /\ walk.cs_cno <= next_cp
      /\ walk.cs_cno \in Nat /\ next_cp \in Nat /\ walk.mincno \in Nat
  BY <1>1, WayFacts, FsNumbers
<1>5. WalkInv(walk, cp_live', cp_ss, Skipped)
  <2>1. \A c \in cp_live' : (c \in cp_live \/ c >= walk.cs_cno) /\ c \in Nat
    BY <1>1, <1>2, <1>4, FsNumbers
  <2> QED
    BY <2>1, <1>1, <1>4, OthersKeep DEF Walks
<1>6. Skipped' = Skipped
  BY <1>2 DEF Skipped
<1>7. \A c \in cp_live' : c >= walk.mincno
  <2>1. next_cp - 1 \in cp_live /\ \A c \in cp_live : c >= walk.mincno
    BY <1>1, WayFacts, FsNumbers
  <2>2. next_cp >= walk.mincno
    BY <2>1, <1>4
  <2> QED
    BY <2>1, <2>2, <1>2
<1>8. WayInv(walk, cp_live, cp_ss)'
  BY <1>1, <1>2, <1>4, <1>7 DEF Walks, WayInv, WayBackward
<1>9. walk'.buf \in SUBSET (0 .. next_cp')
  BY <1>1, <1>2, <1>4 DEF Walks
<1> QED
  BY <1>2, <1>3, <1>4, <1>5, <1>6, <1>8, <1>9 DEF CpInv, Walks

LEMMA DeleteKeeps ==
    ASSUME CpInv, DeleteCp
    PROVE  CpInv'
<1>1. CpFs /\ Walks(walk) /\ walk # NoWalk
  BY DEF CpInv, DeleteCp
<1>2. PICK x \in cp_live \ cp_ss : x < next_cp - 1 /\ cp_live' = cp_live \ {x}
  BY DEF DeleteCp
<1>3. next_cp' = next_cp /\ cp_ss' = cp_ss /\ cp_minor' = cp_minor /\ walk' = walk
  BY DEF DeleteCp
<1>4. CpFs'
  BY <1>1, <1>2, <1>3 DEF CpFs
<1>5. IsWalk(walk) /\ walk.range \subseteq 1 .. walk.cs_cno - 1
  BY <1>1, WayFacts
<1>6. WalkInv(walk, cp_live', cp_ss, Skipped)
  <2>1. cp_live' \subseteq cp_live /\ cp_live' \subseteq Nat
    BY <1>1, <1>2, FsNumbers
  <2> QED
    BY <2>1, <1>1, <1>5, OthersKeep DEF Walks
<1>7. Skipped' = Skipped
  BY <1>3 DEF Skipped
<1>8. WayInv(walk, cp_live, cp_ss)'
  BY <1>1, <1>2, <1>3 DEF Walks, WayInv, WayBackward
<1>9. walk'.buf \in SUBSET (0 .. next_cp')
  BY <1>1, <1>3 DEF Walks
<1> QED
  BY <1>3, <1>4, <1>5, <1>6, <1>7, <1>8, <1>9 DEF CpInv, Walks

-----------------------------------------------------------------------------
\* A new walk.
LEMMA StartKeeps ==
    ASSUME CpFs, NEW kind \in Kinds, NEW start \in Starts, NEW count \in Counts
    PROVE  Walks(NewWalk(kind, start, count))
<1> DEFINE w == NewWalk(kind, start, count)
           ss == kind \in {"ss_forward", "ss_backward"}
           back == kind \in {"backward", "ss_backward"}
           S == IF ss THEN cp_ss ELSE cp_live
           ncps == Cardinality(S)
           rest == IF count # 0 /\ count < ncps THEN count ELSE ncps
           R == {c \in S : /\ ~ss => c \notin Skipped
                           /\ IF back THEN start # 0 => c <= start ELSE c >= start}
           eidx == IF start # 0 /\ start < next_cp THEN start + 1 ELSE next_cp
           sidx == IF kind = "ss_forward" THEN start ELSE MaxOf(start, NILFS_CNO_MIN)
           state == IF kind = "ss_forward" /\ start > 0 THEN "search" ELSE "init"
<1>1. /\ w.kind = kind /\ w.cs_cno = next_cp /\ w.rest = rest /\ w.rns = ncps /\ w.eidx = eidx
      /\ w.sidx = sidx /\ w.head = 0 /\ w.state = state /\ w.v = delta(rest) /\ w.mincno = 1
      /\ w.buf = {} /\ w.done = FALSE /\ w.out = <<>> /\ w.range = R /\ w.limit = rest
      /\ w = Shape(w)
  BY DEF NewWalk, Shape, NILFS_CNO_MIN
<1>2. /\ next_cp \in Nat /\ S \in SUBSET (0 .. next_cp) /\ S \subseteq cp_live /\ start \in Nat /\ count \in Nat
      /\ \A c \in cp_live : c \in Nat /\ c >= 1 /\ c < next_cp
      /\ cp_ss \subseteq cp_live
  BY FsNumbers, CpAssumption
<1>3. ncps \in Nat
  <2> HIDE DEF S
  <2> QED
    BY <1>2, Finite
<1>4. rest \in Nat /\ eidx \in Nat /\ sidx \in Nat /\ eidx <= next_cp
  <2> HIDE DEF ncps
  <2> QED
    BY <1>2, <1>3 DEF MaxOf, NILFS_CNO_MIN
<1>5. delta(rest) \in Nat \ {0} /\ delta(rest) <= NCPINFO
  <2> HIDE DEF rest
  <2> QED
    BY <1>4, DeltaIs
<1>6. R \subseteq S /\ R \subseteq 1 .. next_cp - 1 /\ R \subseteq Nat
  <2>1. R \subseteq S
    OBVIOUS
  <2> HIDE DEF R, S
  <2> QED
    BY <2>1, <1>2
<1>7. ASSUME NEW c \in cp_live PROVE (IF back THEN start # 0 => c <= start ELSE c >= start)
                                     <=> (IF back THEN c < eidx ELSE c >= sidx)
  <2>1. c \in Nat /\ c >= 1 /\ c < next_cp
    BY <1>2
  <2> QED
    BY <2>1, <1>2 DEF MaxOf, NILFS_CNO_MIN
<1>7a. \A c : c \in R <=> c \in S /\ (~ss => c \notin Skipped) /\ (IF back THEN c < eidx ELSE c >= sidx)
  <2> SUFFICES ASSUME NEW c \in S
               PROVE  (IF back THEN start # 0 => c <= start ELSE c >= start)
                        <=> (IF back THEN c < eidx ELSE c >= sidx)
    OBVIOUS
  <2> HIDE DEF S
  <2>1. c \in cp_live
    BY <1>2
  <2> QED
    BY <2>1, <1>7
<1>8. w.state \in {"search", "init"} /\ (kind = "backward" => w.state = "init") /\ w.state # "end"
      /\ (kind = "ss_forward" /\ w.state = "init" => sidx = 0)
  BY <1>1, <1>2
<1>9. Plain(w) = ~ss /\ Back(w) = back /\ ss \in BOOLEAN /\ back \in BOOLEAN
  BY <1>1 DEF Plain, Back, Kinds
<1>10. /\ Wanted(w, cp_live, cp_ss, Skipped) = {c \in S : ~ss => c \notin Skipped}
  BY <1>9 DEF Wanted
<1> HIDE DEF w, R, S, eidx, sidx, rest, state, ncps, ss, back
<1>11. IsWalk(w)
  <2>1. w.out \in Seq(Nat) /\ w.buf \in SUBSET Nat /\ w.done \in BOOLEAN
    <3>1. w.out = <<>> /\ w.buf = {} /\ w.done = FALSE
      BY <1>1
    <3>2. <<>> \in Seq(Nat)
      OBVIOUS
    <3> QED
      BY <3>1, <3>2
  <2>2. w.range \in SUBSET Nat /\ w.kind \in Kinds /\ w = Shape(w)
    BY <1>1, <1>6
  <2>3. /\ w.cs_cno \in Nat /\ w.rest \in Nat /\ w.rns \in Int /\ w.eidx \in Nat /\ w.sidx \in Nat
        /\ w.head \in Nat /\ w.v \in Nat \ {0} /\ w.mincno \in Nat /\ w.limit \in Nat
    BY <1>1, <1>2, <1>3, <1>4, <1>5
  <2> QED
    BY <2>1, <2>2, <2>3 DEF IsWalk
<1>12. \A c : Beyond(w, c) <=> (IF back THEN c < eidx ELSE c >= sidx)
  BY <1>1, <1>8, <1>9 DEF Beyond
<1>13. Len(w.out) = 0 /\ \A i : i \notin 1 .. Len(w.out)
  BY <1>1
<1>14. OutOrdered(w)
  BY <1>1, <1>4, <1>13 DEF OutOrdered
<1>15. OutInRange(w, cp_live, cp_ss, Skipped)
  <2>1. \A c \in Wanted(w, cp_live, cp_ss, Skipped) : Beyond(w, c) => c \in w.range
    BY <1>1, <1>7a, <1>10, <1>12
  <2>2. Plain(w) => w.range \cap Skipped = {}
    BY <1>1, <1>7a, <1>9
  <2> QED
    BY <1>1, <1>13, <2>1, <2>2 DEF OutInRange
<1>16. Complete(w, cp_live)
  BY <1>1, <1>7a, <1>12 DEF Complete, Ahead
<1>17. WayInv(w, cp_live, cp_ss)
  <2>1. kind = "backward" => WayBackward(w)
    BY <1>1, <1>4, <1>5, <1>8 DEF WayBackward
  <2>2. kind = "ss_forward" => WaySsForward(w, cp_ss)
    BY <1>1, <1>8 DEF WaySsForward
  <2>3. ASSUME kind = "ss_backward" PROVE WaySsBackward(w, cp_ss)
    <3> DEFINE L == {c \in cp_ss : c < w.eidx} \cup w.buf
    <3>1. L \subseteq cp_ss /\ S = cp_ss
      BY <1>1, <2>3 DEF S, ss
    <3> HIDE DEF L
    <3>2. IsFiniteSet(cp_ss) /\ Cardinality(cp_ss) = w.rns
      BY <1>1, <1>2, <3>1, Finite DEF ncps
    <3>3. Cardinality(L) <= w.rns
      BY <3>1, <3>2, FS_Subset
    <3> QED
      BY <3>3, <1>1, <1>4 DEF WaySsBackward, L
  <2>4. ~Plain(w) => w.range \subseteq cp_ss
    BY <1>1, <1>6, <1>9 DEF S
  <2>5. next_cp <= next_cp
    BY <1>2
  <2> QED
    BY <1>1, <1>2, <1>6, <2>1, <2>2, <2>3, <2>4, <2>5 DEF WayInv
<1>18. Walks(w)
  BY <1>1, <1>11, <1>14, <1>15, <1>16, <1>17 DEF Walks, WalkInv
<1> QED
  BY <1>18 DEF w

-----------------------------------------------------------------------------
LEMMA CpInitInv ==
    ASSUME CpInit PROVE CpInv
<1>1. next_cp \in Nat /\ next_cp > 1 /\ next_cp = MaxCp /\ Cps \subseteq 1 .. MaxCp - 1
  BY CpAssumption DEF CpInit
<1>2. PICK S \in SUBSET Cps : cp_live = S \cup {MaxCp - 1}
  BY DEF CpInit
<1>3. cp_ss \subseteq cp_live
  BY DEF CpInit
<1>4. CpFs
  BY <1>1, <1>2, <1>3 DEF CpFs
<1> QED
  BY <1>4 DEF CpInit, CpInv

LEMMA CpNextInv ==
    ASSUME CpInv, [CpNext]_cpVars PROVE CpInv'
<1>1. CASE UNCHANGED cpVars
  BY <1>1 DEF cpVars, CpInv, CpFs, Walks, WayInv, Skipped
<1>2. CASE StartWalk
  <2>1. PICK k \in Kinds, start \in Starts, count \in Counts : walk' = NewWalk(k, start, count)
    BY <1>2 DEF StartWalk, Kinds
  <2>2. UNCHANGED <<cp_live, cp_ss, cp_minor, next_cp>>
    BY <1>2 DEF StartWalk
  <2>3. CpFs /\ Walks(walk')
    BY <2>1, StartKeeps DEF CpInv
  <2> QED
    BY <2>2, <2>3 DEF CpInv, CpFs, Walks, WayInv, Skipped
<1>3. CASE WalkStep
  <2>1. CpFs /\ Walks(walk)
    BY <1>3 DEF CpInv, WalkStep
  <2>2. UNCHANGED <<cp_live, cp_ss, cp_minor, next_cp>>
    BY <1>3 DEF WalkStep
  <2>3. Walks(walk')
    BY <1>3, <2>1, ForwardKeeps, BackwardKeeps, SearchKeeps, SnapshotsForwardKeeps,
       SnapshotsBackwardKeeps, ReportKeeps DEF WalkStep
  <2> QED
    BY <2>1, <2>2, <2>3 DEF CpInv, CpFs, Walks, WayInv, Skipped
<1>4. CASE AddCp
  BY <1>4, AddKeeps
<1>5. CASE DeleteCp
  BY <1>5, DeleteKeeps
<1> QED
  BY <1>1, <1>2, <1>3, <1>4, <1>5 DEF CpNext

LEMMA CpInvExact ==
    ASSUME CpInv PROVE WalkExact
<1> SUFFICES ASSUME walk # NoWalk PROVE WalkInOrder /\ WalkComplete
  BY DEF WalkExact, WalkInOrder, WalkComplete
<1>1. /\ IsWalk(walk) /\ OutOrdered(walk) /\ OutInRange(walk, cp_live, cp_ss, Skipped)
      /\ Complete(walk, cp_live)
  BY DEF CpInv, Walks, WalkInv
<1>2. /\ walk.out \in Seq(Nat) /\ Len(walk.out) \in Nat /\ walk.rest \in Nat
      /\ walk.limit \in Nat /\ walk.range \subseteq Nat
  BY <1>1, WalkNumbers
<1>3. DOMAIN walk.out = 1 .. Len(walk.out)
  BY <1>2
<1>4. Backwards <=> Back(walk)
  BY DEF Backwards, Back
<1>5. WalkInOrder
  <2>1. \A i, j \in DOMAIN walk.out : i < j =>
              IF Backwards THEN walk.out[i] > walk.out[j] ELSE walk.out[i] < walk.out[j]
    BY <1>1, <1>3, <1>4 DEF OutOrdered, Before
  <2>2. \A i \in DOMAIN walk.out : walk.out[i] \in walk.range \/ walk.out[i] >= walk.cs_cno
    BY <1>1, <1>3 DEF OutInRange
  <2>3. Len(walk.out) + walk.rest = walk.limit
    BY <1>1 DEF OutOrdered
  <2>4. Len(walk.out) <= walk.limit
    BY ONLY <2>3, <1>2
  <2> QED
    BY <2>1, <2>2, <2>4 DEF WalkInOrder
<1>6. WalkComplete
  <2> SUFFICES ASSUME walk.done, NEW c \in walk.range \cap cp_live
               PROVE  \/ c \in ToSet(walk.out)
                      \/ /\ Len(walk.out) = walk.limit
                         /\ \A i \in DOMAIN walk.out :
                               IF Backwards THEN c < walk.out[i] ELSE c > walk.out[i]
    BY DEF WalkComplete
  <2>1. c \in Reported(walk) \/ (walk.rest = 0 /\ \A i \in 1 .. Len(walk.out) : Before(walk, walk.out[i], c))
    BY <1>1 DEF Complete
  <2>2. CASE c \in Reported(walk)
    BY <2>2, <1>3 DEF Reported, ToSet
  <2>3. CASE walk.rest = 0 /\ \A i \in 1 .. Len(walk.out) : Before(walk, walk.out[i], c)
    <3>1. Len(walk.out) + walk.rest = walk.limit
      BY <1>1 DEF OutOrdered
    <3>2. Len(walk.out) = walk.limit
      BY ONLY <3>1, <2>3, <1>2
    <3>3. ASSUME NEW i \in DOMAIN walk.out
          PROVE  IF Backwards THEN c < walk.out[i] ELSE c > walk.out[i]
      <4>1. Before(walk, walk.out[i], c) /\ walk.out[i] \in Nat /\ c \in Nat
        BY <2>3, <1>2, <1>3
      <4>2. (walk.out[i] > c <=> c < walk.out[i]) /\ (walk.out[i] < c <=> c > walk.out[i])
        BY ONLY <4>1
      <4> QED
        BY <4>1, <4>2, <1>4 DEF Before
    <3> QED
      BY <3>2, <3>3
  <2> QED
    BY <2>1, <2>2, <2>3
<1> QED
  BY <1>5, <1>6

\* Whatever the sizes of the calls, the checkpoints, the snapshots, the index
\* and the count, and whatever is made and deleted meanwhile: a walk reports
\* what there is, once, in order, and leaves out nothing that stays.
THEOREM WalkIsExact == CpSpec => []WalkExact
<1>1. CpInit => CpInv
  BY CpInitInv
<1>2. CpInv /\ [CpNext]_cpVars => CpInv'
  BY CpNextInv
<1>3. CpInv => WalkExact
  BY CpInvExact
<1> QED
  BY <1>1, <1>2, <1>3, PTL DEF CpSpec

-----------------------------------------------------------------------------
(***************************************************************************)
(* The choice of segments by the cleaning policies.                        *)
(***************************************************************************)
Numbers == 0 .. NUsages - 1
SuInfos == [segnum : Numbers, si : Usages]
Rated   == [segnum : Numbers, imp : Int, lastmod : Nat, age : Int, live : Nat]
SelPc   == {"oldest", "read", "evaluate", "select", "cluster", "selected", "sleep", "failed"}

SelTypes ==
    /\ usage \in [Numbers -> Usages]
    /\ sel \in [pc : SelPc, policy : Policies, nongc_ctime : Nat, segnum : 0 .. NUsages,
                si : Seq(SuInfos), oldest : Nat, candidates : Seq(Rated), segnums : Seq(Numbers),
                timeout : Int, i : Nat \ {0}, accum : Seq(Nat), touched : SUBSET Numbers]

\* A segment with the usage u may be chosen, and what is known of it then: by
\* policy p, with t the time of the last write that is not the cleaner's.
ImportanceOf(u, t) == IF u.lastmod <= Now THEN u.lastmod ELSE t - 1
MayChoose(u, p, t) ==
    reclaimable(u) /\ ~protected(u) /\ (p = "timestamp" => ImportanceOf(u, t) < t)
RatingOf(n, u, t) ==
    [segnum |-> n, imp |-> ImportanceOf(u, t), lastmod |-> u.lastmod, age |-> age(u),
     live |-> IF u.seqprot THEN 0 ELSE u.live]

\* Of the usages us, those of the segments in tt have changed since they were
\* read, or could not be assessed.  The chunk v has the last ones before n.
ChunkOf(us, tt, v, n) ==
    /\ Len(v) <= n
    /\ \A k \in DOMAIN v :
          /\ v[k].segnum = n - Len(v) + k - 1
          /\ v[k].segnum \notin tt => v[k].si = us[v[k].segnum]

\* The candidates v are those among the first n segments, each once.
ListOf(us, tt, p, t, v, n) ==
    /\ \A k \in DOMAIN v : v[k].segnum < n
    /\ \A j, k \in DOMAIN v : v[j].segnum = v[k].segnum => j = k
    /\ \A k \in DOMAIN v : v[k].segnum \notin tt =>
          /\ MayChoose(us[v[k].segnum], p, t)
          /\ v[k] = RatingOf(v[k].segnum, us[v[k].segnum], t)
    /\ \A m \in Numbers : m < n /\ m \notin tt /\ MayChoose(us[m], p, t) =>
          \E k \in DOMAIN v : v[k].segnum = m

\* No reclaimable one of the first n segments is older than old.
OldestIs(us, tt, old, n) ==
    /\ \A m \in Numbers : m < n /\ m \notin tt /\ reclaimable(us[m]) => old <= us[m].lastmod
    /\ tt = {} => old = NULLTIME \/ \E m \in Numbers : reclaimable(us[m]) /\ us[m].lastmod = old

\* The segregation policy has taken the first candidates, all in the window,
\* with the totals acc, and passed over those before i, which are not.
Taken(v, nrs, acc, i) ==
    /\ Len(nrs) < i /\ i <= Len(v) + 1 /\ Len(acc) = Len(nrs) /\ Len(nrs) <= PerCleanMax
    /\ \A k \in 1 .. Len(nrs) :
          /\ nrs[k] = v[k].segnum /\ ~outside_window(v[1], v[k])
          /\ acc[k] = v[k].live + IF k = 1 THEN 0 ELSE acc[k - 1]
          /\ k < Len(nrs) => acc[k] < BLOCKS
    /\ \A k \in 1 .. Len(v) : Len(nrs) < k /\ k < i => outside_window(v[1], v[k])

Ranked == \A a, b \in DOMAIN sel.candidates :
              a < b => compare(sel.candidates[a], sel.candidates[b])

Ended == \/ sel.i > Len(sel.candidates) \/ Len(sel.segnums) >= PerCleanMax
         \/ sel.accum # <<>> /\ accum_blocks >= BLOCKS

BestTwo == /\ Len(sel.segnums) = IF Len(sel.candidates) < 2 THEN Len(sel.candidates) ELSE 2
           /\ \A k \in 1 .. Len(sel.segnums) : sel.segnums[k] = sel.candidates[k].segnum

\* What has been read, found and chosen at each step.
ReadInv ==
    /\ sel.pc = "oldest" =>
          sel.candidates = <<>> /\ OldestIs(usage, sel.touched, sel.oldest, sel.segnum)
    /\ sel.pc \notin {"oldest", "failed"} =>
          /\ OldestIs(usage, sel.touched, sel.oldest, NUsages)
          /\ ChunkOf(usage, sel.touched, sel.si, sel.segnum)
          /\ ListOf(usage, sel.touched, sel.policy, sel.nongc_ctime, sel.candidates,
                    sel.segnum - Len(sel.si))
    /\ sel.pc \notin {"evaluate", "failed"} => sel.si = <<>>
    /\ sel.pc \in {"select", "cluster", "selected", "sleep"} => sel.segnum = NUsages

ChoiceInv ==
    /\ sel.pc \in {"oldest", "read", "evaluate", "select"} =>
          sel.segnums = <<>> /\ sel.accum = <<>> /\ sel.i = 1
    /\ sel.pc \in {"cluster", "selected", "sleep"} => Ranked
    /\ sel.pc = "cluster" => sel.policy = "segregation" /\ accum_blocks < BLOCKS
    /\ sel.pc \in {"cluster", "selected", "sleep"} /\ sel.policy = "segregation" =>
          Taken(sel.candidates, sel.segnums, sel.accum, sel.i)
    /\ sel.pc \in {"selected", "sleep"} /\ sel.policy = "segregation" => Ended
    /\ sel.pc \in {"selected", "sleep"} /\ sel.policy # "segregation" => BestTwo
    /\ sel.pc = "sleep" => sel.timeout = idle_time

SelInv == SelTypes /\ ReadInv /\ ChoiceInv

LEMMA SelSizes ==
    /\ NSUINFO \in Nat /\ NSUINFO > 0 /\ NUsages \in Nat /\ BLOCKS \in Nat /\ BLOCKS > 0
    /\ UsageStates \subseteq Usages /\ Now \in Nat /\ Now < NULLTIME /\ NULLTIME \in Nat
    /\ Protection \in Nat /\ CheckInterval \in Nat /\ NongcTimes \subseteq Nat
    /\ PerCleanMax \in Nat /\ AgeWindow \in Nat /\ prottime \in Int
    /\ Now \in Int /\ NUsages \in Int /\ Protection \in Int
BY SelAssumption DEF NULLTIME, prottime

\* OldestOf is the least of the time known and the times read.
LEMMA OldestFound ==
    ASSUME NEW old \in Nat, NEW sis \in Seq(SuInfos)
    PROVE  LET o == OldestOf(old, sis) IN
           /\ o \in Nat /\ o <= old
           /\ \A k \in DOMAIN sis : reclaimable(sis[k].si) => o <= sis[k].si.lastmod
           /\ o = old \/ \E k \in DOMAIN sis : reclaimable(sis[k].si) /\ sis[k].si.lastmod = o
<1> DEFINE K == {j \in DOMAIN sis : reclaimable(sis[j].si)}
           T == {old} \cup {sis[k].si.lastmod : k \in K}
<1>1. \A k \in DOMAIN sis : sis[k] \in SuInfos
  BY ElementOfSeq, LenProperties
<1>2. T \in SUBSET Nat /\ T # {} /\ old \in T
  BY <1>1 DEF SuInfos, Usages
<1>3. \E m \in T : \A t \in T : m <= t
  BY <1>2, HasLeast
<1>4. OldestOf(old, sis) = CHOOSE x \in T : \A y \in T : x <= y
  BY DEF OldestOf, Min
<1> DEFINE o == OldestOf(old, sis)
<1>5. o \in T /\ \A t \in T : o <= t
  BY <1>3, <1>4
<1> HIDE DEF o
<1>6. o \in Nat /\ o <= old
  BY <1>2, <1>5
<1>7. \A k \in DOMAIN sis : reclaimable(sis[k].si) => o <= sis[k].si.lastmod
  <2> TAKE k \in DOMAIN sis
  <2>1. reclaimable(sis[k].si) => sis[k].si.lastmod \in T
    OBVIOUS
  <2> QED  BY <2>1, <1>5
<1>8. o = old \/ \E k \in DOMAIN sis : reclaimable(sis[k].si) /\ sis[k].si.lastmod = o
  BY <1>5
<1> QED  BY <1>6, <1>7, <1>8 DEF o

\* A change of a segment spoils nothing that is said of the others.
LEMMA ChangeSpares ==
    ASSUME NEW us, NEW vs, NEW tt \in SUBSET Numbers, NEW n \in Numbers,
           \A m \in Numbers : m # n => vs[m] = us[m]
    PROVE  /\ \A v \in Seq(SuInfos), x \in Nat : ChunkOf(us, tt, v, x) => ChunkOf(vs, tt \cup {n}, v, x)
           /\ \A p, t, x : \A v \in Seq(Rated) :
                 ListOf(us, tt, p, t, v, x) => ListOf(vs, tt \cup {n}, p, t, v, x)
           /\ \A old, x : OldestIs(us, tt, old, x) => OldestIs(vs, tt \cup {n}, old, x)
<1>1. ASSUME NEW v \in Seq(SuInfos), NEW x \in Nat, ChunkOf(us, tt, v, x)
      PROVE  ChunkOf(vs, tt \cup {n}, v, x)
  <2>0. \A k \in DOMAIN v : v[k] \in SuInfos
    BY ElementOfSeq, LenProperties
  <2>1. \A k \in DOMAIN v : v[k].segnum \in Numbers
    BY <2>0 DEF SuInfos
  <2> QED  BY <1>1, <2>1 DEF ChunkOf
<1>2. ASSUME NEW p, NEW t, NEW x, NEW v \in Seq(Rated), ListOf(us, tt, p, t, v, x)
      PROVE  ListOf(vs, tt \cup {n}, p, t, v, x)
  <2>0. \A k \in DOMAIN v : v[k] \in Rated
    BY ElementOfSeq, LenProperties
  <2>1. \A k \in DOMAIN v : v[k].segnum \in Numbers
    BY <2>0 DEF Rated
  <2>2. \A k \in DOMAIN v : v[k].segnum \notin tt \cup {n} =>
          /\ MayChoose(vs[v[k].segnum], p, t)
          /\ v[k] = RatingOf(v[k].segnum, vs[v[k].segnum], t)
    BY <1>2, <2>1 DEF ListOf
  <2>3. \A m \in Numbers : m < x /\ m \notin tt \cup {n} /\ MayChoose(vs[m], p, t) =>
          \E k \in DOMAIN v : v[k].segnum = m
    BY <1>2 DEF ListOf
  <2> QED  BY <1>2, <2>2, <2>3 DEF ListOf
<1>3. ASSUME NEW old, NEW x, OldestIs(us, tt, old, x)
      PROVE  OldestIs(vs, tt \cup {n}, old, x)
  BY <1>3 DEF OldestIs
<1> QED  BY <1>1, <1>2, <1>3

LEMMA SelFields ==
    ASSUME SelTypes
    PROVE  /\ usage \in [Numbers -> Usages] /\ DOMAIN usage = Numbers
           /\ sel.pc \in SelPc /\ sel.policy \in Policies /\ sel.nongc_ctime \in Nat
           /\ sel.segnum \in 0 .. NUsages /\ sel.si \in Seq(SuInfos) /\ sel.oldest \in Nat
           /\ sel.candidates \in Seq(Rated) /\ sel.segnums \in Seq(Numbers) /\ sel.timeout \in Int
           /\ sel.i \in Nat \ {0} /\ sel.accum \in Seq(Nat) /\ sel.touched \in SUBSET Numbers
BY DEF SelTypes

LEMMA SelInitInv == SelInit => SelInv
<1> SUFFICES ASSUME SelInit PROVE SelInv
  OBVIOUS
<1>0. PICK p \in Policies, t \in NongcTimes :
        sel = [pc |-> "oldest", policy |-> p, nongc_ctime |-> t, segnum |-> 0, si |-> <<>>,
               oldest |-> NULLTIME, candidates |-> <<>>, segnums |-> <<>>, timeout |-> 0,
               i |-> 1, accum |-> <<>>, touched |-> {}]
  BY DEF SelInit
<1>1. SelTypes
  <2>1. usage \in [Numbers -> Usages]
    BY SelSizes DEF SelInit, Numbers
  <2>2. t \in Nat /\ 0 \in 0 .. NUsages /\ NULLTIME \in Nat
    BY SelSizes
  <2> QED  BY <1>0, <2>1, <2>2 DEF SelTypes, SelPc
<1>2. ReadInv
  BY <1>0 DEF ReadInv, OldestIs, Numbers
<1>3. ChoiceInv
  BY <1>0 DEF ChoiceInv
<1> QED  BY <1>1, <1>2, <1>3 DEF SelInv

\* What a call of nilfs_get_suinfo() returns.
LEMMA ChunkRead ==
    ASSUME SelTypes, NEW c \in Nat
    PROVE  LET sis == get_suinfo(c) IN
           /\ sis \in Seq(SuInfos) /\ Len(sis) \in Nat /\ sel.segnum + Len(sis) \in 0 .. NUsages
           /\ \A k \in DOMAIN sis : /\ k \in 1 .. Len(sis) /\ sis[k].segnum = sel.segnum + k - 1
                                    /\ sis[k].si = usage[sel.segnum + k - 1]
           /\ \A k \in 1 .. Len(sis) : k \in DOMAIN sis
<1> DEFINE n == IF NUsages - sel.segnum < c THEN NUsages - sel.segnum ELSE c
           sis == get_suinfo(c)
<1>1. n \in Nat /\ sel.segnum \in Nat /\ sel.segnum + n <= NUsages /\ NUsages \in Nat
  BY SelSizes DEF SelTypes
<1>2. sis = [k \in 1 .. n |-> [segnum |-> sel.segnum + k - 1, si |-> usage[sel.segnum + k - 1]]]
  BY DEF get_suinfo
<1> HIDE DEF n, sis
<1>3. \A k \in 1 .. n : sel.segnum + k - 1 \in Numbers
  BY <1>1 DEF Numbers
<1>4. \A k \in 1 .. n : [segnum |-> sel.segnum + k - 1, si |-> usage[sel.segnum + k - 1]] \in SuInfos
  BY <1>3 DEF SuInfos, SelTypes
<1>5. sis \in [1 .. n -> SuInfos]
  BY <1>2, <1>4
<1>6. sis \in Seq(SuInfos) /\ DOMAIN sis = 1 .. n /\ Len(sis) = n
  <2>1. sis \in Seq(SuInfos)
    BY <1>1, <1>5, SeqDef
  <2> QED  BY <1>1, <1>5, <2>1, LenProperties
<1> QED  BY <1>1, <1>2, <1>6 DEF sis

LEMMA ScanKeeps == SelInv /\ ScanOldest => SelInv'
<1> SUFFICES ASSUME SelInv, ScanOldest PROVE SelInv'
  OBVIOUS
<1> DEFINE sis == get_suinfo(NSUINFO)
           o == OldestOf(sel.oldest, sis)
           nx == sel.segnum + Len(sis)
<1>0. SelTypes /\ sel.pc = "oldest" /\ usage' = usage
      /\ sel' = [sel EXCEPT !.oldest = o, !.pc = IF nx = NUsages THEN "read" ELSE @,
                            !.segnum = IF nx = NUsages THEN 0 ELSE nx]
  BY DEF ScanOldest, SelInv
<1>1. /\ sis \in Seq(SuInfos) /\ Len(sis) \in Nat /\ nx \in 0 .. NUsages
      /\ \A k \in DOMAIN sis : /\ k \in 1 .. Len(sis) /\ sis[k].segnum = sel.segnum + k - 1
                               /\ sis[k].si = usage[sel.segnum + k - 1]
      /\ \A k \in 1 .. Len(sis) : k \in DOMAIN sis
  <2>1. NSUINFO \in Nat
    BY SelSizes
  <2> QED  BY <1>0, <2>1, ChunkRead
<1> HIDE DEF sis
<1>2. /\ o \in Nat /\ o <= sel.oldest
      /\ \A k \in DOMAIN sis : reclaimable(sis[k].si) => o <= sis[k].si.lastmod
      /\ o = sel.oldest \/ \E k \in DOMAIN sis : reclaimable(sis[k].si) /\ sis[k].si.lastmod = o
  BY <1>0, <1>1, SelFields, OldestFound
<1> HIDE DEF o
<1>3. SelTypes'
  <2>1. (IF nx = NUsages THEN 0 ELSE nx) \in 0 .. NUsages
    BY <1>1, SelSizes
  <2> HIDE DEF nx
  <2> QED  BY <1>0, <1>2, <2>1 DEF SelTypes, SelPc
<1>4. OldestIs(usage, sel.touched, o, nx)
  <2>0. OldestIs(usage, sel.touched, sel.oldest, sel.segnum) /\ sel.oldest \in Nat /\ sel.segnum \in Nat
    BY <1>0, SelFields, SelSizes DEF SelInv, ReadInv
  <2>1. ASSUME NEW m \in Numbers, m < nx, m \notin sel.touched, reclaimable(usage[m])
        PROVE  o <= usage[m].lastmod
    <3>0. m \in Nat /\ usage[m].lastmod \in Nat
      BY <1>0, SelSizes DEF SelTypes, Usages, Numbers
    <3>1. CASE m < sel.segnum
      <4>1. sel.oldest <= usage[m].lastmod
        BY <2>0, <2>1, <3>1 DEF OldestIs
      <4> QED  BY <4>1, <1>2, <2>0, <3>0
    <3>2. CASE ~(m < sel.segnum)
      <4> DEFINE k == m - sel.segnum + 1
      <4>1. k \in 1 .. Len(sis) /\ sel.segnum + k - 1 = m
        BY <1>1, <2>0, <2>1, <3>0, <3>2
      <4> HIDE DEF k
      <4> QED  BY <4>1, <1>1, <1>2, <2>1
    <3> QED  BY <3>1, <3>2
  <2>2. ASSUME sel.touched = {}, o # NULLTIME
        PROVE  \E m \in Numbers : reclaimable(usage[m]) /\ usage[m].lastmod = o
    <3>1. CASE o = sel.oldest
      BY <2>0, <2>2, <3>1 DEF OldestIs
    <3>2. CASE o # sel.oldest
      <4>1. PICK k \in DOMAIN sis : reclaimable(sis[k].si) /\ sis[k].si.lastmod = o
        BY <1>2, <3>2
      <4>2. sel.segnum + k - 1 \in Numbers
        BY <1>1, <2>0, SelSizes DEF Numbers
      <4> QED  BY <4>1, <4>2, <1>1
    <3> QED  BY <3>1, <3>2
  <2> QED  BY <2>1, <2>2 DEF OldestIs
<1>5. ReadInv'
  <2>0. sel.si = <<>> /\ sel.candidates = <<>>
    BY <1>0 DEF SelInv, ReadInv
  <2>1. sel'.si = <<>> /\ sel'.candidates = <<>> /\ sel'.touched = sel.touched /\ sel'.oldest = o
        /\ sel'.policy = sel.policy /\ sel'.nongc_ctime = sel.nongc_ctime
    BY <1>0, <2>0 DEF SelTypes
  <2>2. CASE nx = NUsages
    <3>1. sel'.pc = "read" /\ sel'.segnum = 0
      BY <1>0, <2>2 DEF SelTypes
    <3>2. OldestIs(usage', sel'.touched, sel'.oldest, NUsages)
      BY <1>0, <1>4, <2>1, <2>2
    <3>3. ChunkOf(usage', sel'.touched, <<>>, 0)
      BY DEF ChunkOf
    <3>4. ListOf(usage', sel'.touched, sel'.policy, sel'.nongc_ctime, <<>>, 0 - Len(<<>>))
      BY SelSizes DEF ListOf, Numbers
    <3> QED  BY <2>1, <3>1, <3>2, <3>3, <3>4 DEF ReadInv
  <2>3. CASE nx # NUsages
    <3>1. sel'.pc = "oldest" /\ sel'.segnum = nx
      BY <1>0, <2>3 DEF SelTypes
    <3> QED  BY <1>0, <1>4, <2>1, <3>1 DEF ReadInv
  <2> QED  BY <2>2, <2>3
<1>6. ChoiceInv'
  <2>1. sel'.pc \in {"oldest", "read"} /\ sel'.segnums = <<>> /\ sel'.accum = <<>> /\ sel'.i = 1
    BY <1>0 DEF SelTypes, SelInv, ChoiceInv
  <2> QED  BY <2>1 DEF ChoiceInv
<1> QED  BY <1>3, <1>5, <1>6 DEF SelInv

LEMMA ReadKeeps == SelInv /\ ReadChunk => SelInv'
<1> SUFFICES ASSUME SelInv, ReadChunk PROVE SelInv'
  OBVIOUS
<1> DEFINE c == IF sel.policy = "segregation" THEN 1 ELSE NSUINFO
           sis == get_suinfo(c)
<1>0. SelTypes /\ sel.pc = "read" /\ usage' = usage
      /\ sel' = [sel EXCEPT !.si = sis, !.segnum = @ + Len(sis), !.pc = "evaluate"]
  BY DEF ReadChunk, SelInv
<1>1. /\ sis \in Seq(SuInfos) /\ Len(sis) \in Nat /\ sel.segnum + Len(sis) \in 0 .. NUsages
      /\ \A k \in DOMAIN sis : /\ k \in 1 .. Len(sis) /\ sis[k].segnum = sel.segnum + k - 1
                               /\ sis[k].si = usage[sel.segnum + k - 1]
  <2>1. c \in Nat
    BY SelSizes
  <2> QED  BY <1>0, <2>1, ChunkRead
<1> HIDE DEF sis, c
<1>2. SelTypes'
  BY <1>0, <1>1 DEF SelTypes, SelPc
<1>3. /\ sel'.pc = "evaluate" /\ sel'.si = sis /\ sel'.segnum = sel.segnum + Len(sis)
      /\ sel'.touched = sel.touched /\ sel'.oldest = sel.oldest /\ sel'.policy = sel.policy
      /\ sel'.nongc_ctime = sel.nongc_ctime /\ sel'.candidates = sel.candidates
      /\ sel'.segnums = sel.segnums /\ sel'.accum = sel.accum /\ sel'.i = sel.i
  BY <1>0 DEF SelTypes
<1>4. sel.segnum \in Nat /\ sel.si = <<>>
  BY <1>0, SelFields, SelSizes DEF SelInv, ReadInv
<1>5. sel'.segnum - Len(sel'.si) = sel.segnum - Len(sel.si)
  BY <1>1, <1>3, <1>4
<1>6. ChunkOf(usage', sel'.touched, sel'.si, sel'.segnum)
  <2>1. \A k \in DOMAIN sis : sis[k].segnum = (sel.segnum + Len(sis)) - Len(sis) + k - 1
    BY <1>1, <1>4
  <2> QED  BY <1>0, <1>1, <1>3, <1>4, <2>1 DEF ChunkOf
<1>7. ReadInv'
  BY <1>0, <1>3, <1>5, <1>6 DEF SelInv, ReadInv
<1>8. ChoiceInv'
  BY <1>0, <1>3 DEF SelInv, ChoiceInv
<1> QED  BY <1>2, <1>7, <1>8 DEF SelInv

\* The candidate made of an untouched segment.
LEMMA RatingMade ==
    ASSUME SelTypes, NEW e \in SuInfos, e.si = usage[e.segnum]
    PROVE  /\ eligible(e) <=> MayChoose(usage[e.segnum], sel.policy, sel.nongc_ctime)
           /\ Candidate(e) = RatingOf(e.segnum, usage[e.segnum], sel.nongc_ctime)
<1>1. usage[e.segnum].st = "dirty" => usage[e.segnum].st # "clean"
  OBVIOUS
<1>2. eligible(e) <=> MayChoose(usage[e.segnum], sel.policy, sel.nongc_ctime)
  BY <1>1 DEF eligible, MayChoose, importance, ImportanceOf, assess_segment_if_dirty, reclaimable
<1>3. Candidate(e) = RatingOf(e.segnum, usage[e.segnum], sel.nongc_ctime)
  BY DEF Candidate, RatingOf, importance, ImportanceOf, live_blocks
<1> QED  BY <1>2, <1>3

LEMMA RatingTypes ==
    ASSUME SelTypes, NEW e \in SuInfos
    PROVE  Candidate(e) \in Rated /\ Candidate(e).segnum = e.segnum
<1>1. e.segnum \in Numbers /\ e.si \in Usages /\ usage[e.segnum] \in Usages
  BY DEF SelTypes, SuInfos
<1>2. e.si.lastmod \in Nat /\ importance(e.si) \in Int
  BY <1>1, SelFields, SelSizes DEF Usages, importance
<1>3. age(e.si) \in Int
  BY <1>2, SelSizes DEF age
<1>4. live_blocks(e.segnum) \in Nat
  BY <1>1 DEF Usages, live_blocks
<1> QED  BY <1>1, <1>2, <1>3, <1>4 DEF Candidate, Rated

\* The list, when the next segment has been looked at: it could not be
\* assessed, is no candidate, or is the last one.
LEMMA ListGrows ==
    ASSUME NEW us, NEW tt \in SUBSET Numbers, NEW p, NEW t, NEW v \in Seq(Rated), NEW n \in Numbers,
           ListOf(us, tt, p, t, v, n)
    PROVE  /\ ListOf(us, tt \cup {n}, p, t, v, n + 1)
           /\ (n \notin tt => ~MayChoose(us[n], p, t)) => ListOf(us, tt, p, t, v, n + 1)
           /\ \A c \in Rated :
                 c.segnum = n /\ (n \notin tt => MayChoose(us[n], p, t) /\ c = RatingOf(n, us[n], t))
                 => ListOf(us, tt, p, t, Append(v, c), n + 1)
<1>0. n \in Nat /\ \A k \in DOMAIN v : v[k] \in Rated /\ v[k].segnum \in Nat
  <2>1. \A k \in DOMAIN v : v[k] \in Rated
    BY ElementOfSeq, LenProperties
  <2> QED  BY <2>1, SelSizes DEF Rated, Numbers
<1>1. /\ \A k \in DOMAIN v : v[k].segnum < n + 1 /\ v[k].segnum < n
      /\ \A j, k \in DOMAIN v : v[j].segnum = v[k].segnum => j = k
      /\ \A k \in DOMAIN v : v[k].segnum \notin tt =>
            /\ MayChoose(us[v[k].segnum], p, t)
            /\ v[k] = RatingOf(v[k].segnum, us[v[k].segnum], t)
  <2>1. \A k \in DOMAIN v : v[k].segnum < n
    BY DEF ListOf
  <2>2. \A k \in DOMAIN v : v[k].segnum < n + 1
    BY <1>0, <2>1
  <2> QED  BY <2>1, <2>2 DEF ListOf
<1>2. \A m \in Numbers : m < n + 1 => m < n \/ m = n
  BY <1>0, SelSizes DEF Numbers
<1>3. \A m \in Numbers : m < n /\ m \notin tt /\ MayChoose(us[m], p, t) =>
          \E k \in DOMAIN v : v[k].segnum = m
  BY DEF ListOf
<1>4. ListOf(us, tt \cup {n}, p, t, v, n + 1)
  BY <1>1, <1>2, <1>3 DEF ListOf
<1>5. ASSUME n \notin tt => ~MayChoose(us[n], p, t)
      PROVE  ListOf(us, tt, p, t, v, n + 1)
  BY <1>1, <1>2, <1>3, <1>5 DEF ListOf
<1>6. ASSUME NEW c \in Rated, c.segnum = n,
             n \notin tt => MayChoose(us[n], p, t) /\ c = RatingOf(n, us[n], t)
      PROVE  ListOf(us, tt, p, t, Append(v, c), n + 1)
  <2> DEFINE w == Append(v, c)
             L == Len(v)
  <2>1. L \in Nat /\ DOMAIN v = 1 .. L /\ DOMAIN w = 1 .. L + 1 /\ w[L + 1] = c
        /\ \A k \in 1 .. L : w[k] = v[k]
    <3>1. L \in Nat /\ DOMAIN v = 1 .. L
      BY LenProperties
    <3>2. w \in Seq(Rated) /\ Len(w) = L + 1 /\ w[L + 1] = c /\ \A k \in 1 .. L : w[k] = v[k]
      BY AppendProperties
    <3> QED  BY <3>1, <3>2, LenProperties
  <2> HIDE DEF w, L
  <2>2. \A k \in DOMAIN w : (k \in DOMAIN v /\ w[k] = v[k]) \/ (k = L + 1 /\ w[k] = c)
    BY <2>1
  <2>3. \A k \in DOMAIN w : w[k].segnum < n + 1
    BY <1>0, <1>1, <1>6, <2>2
  <2>4. \A j, k \in DOMAIN w : w[j].segnum = w[k].segnum => j = k
    <3>1. \A k \in DOMAIN v : v[k].segnum # n
      BY <1>0, <1>1
    <3> QED  BY <1>1, <1>6, <2>2, <3>1
  <2>5. \A k \in DOMAIN w : w[k].segnum \notin tt =>
            /\ MayChoose(us[w[k].segnum], p, t)
            /\ w[k] = RatingOf(w[k].segnum, us[w[k].segnum], t)
    BY <1>1, <1>6, <2>2
  <2>6. \A m \in Numbers : m < n + 1 /\ m \notin tt /\ MayChoose(us[m], p, t) =>
            \E k \in DOMAIN w : w[k].segnum = m
    <3>1. \A k \in DOMAIN v : k \in DOMAIN w /\ w[k] = v[k]
      BY <2>1
    <3>2. L + 1 \in DOMAIN w /\ w[L + 1].segnum = n
      BY <1>6, <2>1
    <3> QED  BY <1>2, <1>3, <3>1, <3>2
  <2> QED  BY <2>3, <2>4, <2>5, <2>6 DEF ListOf, w
<1> QED  BY <1>4, <1>5, <1>6

\* What is known of the oldest stays, with more segments touched or one more
\* segment taken into account.
LEMMA OldestStays ==
    ASSUME NEW us \in [Numbers -> Usages], NEW tt \in SUBSET Numbers, NEW old \in Nat, NEW o \in Nat,
           NEW uu \in SUBSET Numbers, tt \subseteq uu, OldestIs(us, tt, old, NUsages), o <= old,
           o = old \/ (uu = {} => \E m \in Numbers : reclaimable(us[m]) /\ us[m].lastmod = o)
    PROVE  OldestIs(us, uu, o, NUsages)
<1>1. ASSUME NEW m \in Numbers, m < NUsages, m \notin uu, reclaimable(us[m])
      PROVE  o <= us[m].lastmod
  <2>1. old <= us[m].lastmod /\ us[m].lastmod \in Nat
    BY <1>1 DEF OldestIs, Usages
  <2> QED  BY <2>1
<1>2. uu = {} => o = NULLTIME \/ \E m \in Numbers : reclaimable(us[m]) /\ us[m].lastmod = o
  BY DEF OldestIs
<1> QED  BY <1>1, <1>2 DEF OldestIs

LEMMA EvaluateKeeps == SelInv /\ Evaluate => SelInv'
<1> SUFFICES ASSUME SelInv, Evaluate PROVE SelInv'
  OBVIOUS
<1>0. SelTypes /\ sel.pc = "evaluate" /\ usage' = usage
  BY DEF Evaluate, SelInv
<1>a. sel.segnum \in Nat /\ sel.si \in Seq(SuInfos) /\ Len(sel.si) \in Nat
      /\ sel.segnum <= NUsages /\ NUsages \in Nat
  BY <1>0, SelFields, SelSizes, LenProperties
<1>b. /\ OldestIs(usage, sel.touched, sel.oldest, NUsages)
      /\ ChunkOf(usage, sel.touched, sel.si, sel.segnum)
      /\ ListOf(usage, sel.touched, sel.policy, sel.nongc_ctime, sel.candidates,
                sel.segnum - Len(sel.si))
      /\ sel.segnums = <<>> /\ sel.accum = <<>> /\ sel.i = 1
  BY <1>0 DEF SelInv, ReadInv, ChoiceInv
<1>1. CASE sel.si = <<>>
  <2>1. sel' = [sel EXCEPT !.pc = IF sel.segnum = NUsages THEN "select" ELSE "read"]
    BY <1>1 DEF Evaluate
  <2>2. SelTypes'
    BY <1>0, <2>1 DEF SelTypes, SelPc
  <2>3. /\ sel'.pc = (IF sel.segnum = NUsages THEN "select" ELSE "read") /\ sel'.si = sel.si
        /\ sel'.segnum = sel.segnum
        /\ sel'.touched = sel.touched /\ sel'.oldest = sel.oldest /\ sel'.policy = sel.policy
        /\ sel'.nongc_ctime = sel.nongc_ctime /\ sel'.candidates = sel.candidates
        /\ sel'.segnums = sel.segnums /\ sel'.accum = sel.accum /\ sel'.i = sel.i
    BY <1>0, <2>1 DEF SelTypes
  <2>4. ReadInv'
    BY <1>0, <1>1, <1>b, <2>3 DEF ReadInv
  <2>5. ChoiceInv'
    BY <1>b, <2>3 DEF ChoiceInv
  <2> QED  BY <2>2, <2>4, <2>5 DEF SelInv
<1>2. CASE sel.si # <<>>
  <2> DEFINE e == Head(sel.si)
             rest == Tail(sel.si)
             o == IF sel.policy = "segregation" THEN sel.oldest ELSE OldestOf(sel.oldest, <<e>>)
             n == sel.segnum - Len(sel.si)
  <2>1. PICK ok \in BOOLEAN :
          sel' = [sel EXCEPT !.si = rest, !.oldest = o,
                     !.candidates = IF ok /\ eligible(e) THEN Append(@, Candidate(e)) ELSE @,
                     !.touched = IF ok THEN @ ELSE @ \cup {e.segnum}]
    BY <1>2 DEF Evaluate
  <2>2. e \in SuInfos /\ rest \in Seq(SuInfos) /\ Len(rest) = Len(sel.si) - 1 /\ Len(sel.si) >= 1
        /\ e = sel.si[1] /\ 1 \in DOMAIN sel.si
        /\ \A k \in DOMAIN rest : k \in Nat /\ k + 1 \in DOMAIN sel.si /\ rest[k] = sel.si[k + 1]
    <3>1. e \in SuInfos /\ rest \in Seq(SuInfos)
      BY <1>2, <1>a, HeadTailProperties
    <3>2. Len(rest) = Len(sel.si) - 1 /\ \A k \in 1 .. Len(rest) : rest[k] = sel.si[k + 1]
      BY <1>2, <1>a, HeadTailProperties
    <3>3. Len(sel.si) # 0
      BY <1>2, <1>a, EmptySeq
    <3>4. DOMAIN sel.si = 1 .. Len(sel.si) /\ DOMAIN rest = 1 .. Len(rest)
      BY <1>a, <3>1, LenProperties
    <3>5. Len(sel.si) >= 1
      BY <1>a, <3>3
    <3>6. e = sel.si[1]
      BY <1>a, <3>5
    <3>7. ASSUME NEW k \in DOMAIN rest
          PROVE  k \in Nat /\ k + 1 \in DOMAIN sel.si /\ rest[k] = sel.si[k + 1]
      BY <1>a, <3>2, <3>4, <3>5
    <3>8. 1 \in DOMAIN sel.si
      BY <1>a, <3>4, <3>5
    <3> QED  BY <3>1, <3>2, <3>5, <3>6, <3>7, <3>8
  <2> HIDE DEF e, rest
  <2>3. n \in Numbers /\ e.segnum = n /\ (n \notin sel.touched => e.si = usage[n])
    <3>1. Len(sel.si) <= sel.segnum /\ e.segnum = sel.segnum - Len(sel.si) + 1 - 1
          /\ (e.segnum \notin sel.touched => e.si = usage[e.segnum])
      BY <1>b, <2>2 DEF ChunkOf
    <3>2. e.segnum = n
      BY <1>a, <3>1
    <3> QED  BY <3>1, <3>2, <2>2 DEF SuInfos
  <2>4. o \in Nat /\ o <= sel.oldest
        /\ (o = sel.oldest \/ (reclaimable(e.si) /\ e.si.lastmod = o))
    <3>0. sel.oldest \in Nat
      BY <1>0, SelFields
    <3>1. CASE sel.policy = "segregation"
      BY <3>0, <3>1
    <3>2. CASE sel.policy # "segregation"
      <4>1. <<e>> \in Seq(SuInfos) /\ \A k \in DOMAIN <<e>> : <<e>>[k] = e
        BY <2>2
      <4> QED  BY <3>0, <3>2, <4>1, OldestFound
    <3> QED  BY <3>1, <3>2
  <2> HIDE DEF o
  <2>5. Candidate(e) \in Rated /\ Candidate(e).segnum = n
    BY <1>0, <2>2, <2>3, RatingTypes
  <2>6. n \notin sel.touched =>
          /\ eligible(e) <=> MayChoose(usage[n], sel.policy, sel.nongc_ctime)
          /\ Candidate(e) = RatingOf(n, usage[n], sel.nongc_ctime)
    BY <1>0, <2>2, <2>3, RatingMade
  <2>7. /\ sel'.pc = "evaluate" /\ sel'.si = rest /\ sel'.segnum = sel.segnum
        /\ sel'.touched = (IF ok THEN sel.touched ELSE sel.touched \cup {n}) /\ sel'.oldest = o
        /\ sel'.policy = sel.policy /\ sel'.nongc_ctime = sel.nongc_ctime
        /\ sel'.candidates = (IF ok /\ eligible(e) THEN Append(sel.candidates, Candidate(e))
                              ELSE sel.candidates)
        /\ sel'.segnums = sel.segnums /\ sel'.accum = sel.accum /\ sel'.i = sel.i
    BY <1>0, <2>1, <2>3 DEF SelTypes
  <2>8. sel.candidates \in Seq(Rated) /\ sel.touched \in SUBSET Numbers
    BY <1>0, SelFields
  <2>9. SelTypes'
    <3>1. (IF ok /\ eligible(e) THEN Append(sel.candidates, Candidate(e)) ELSE sel.candidates) \in Seq(Rated)
      BY <2>5, <2>8, AppendProperties
    <3>2. (IF ok THEN sel.touched ELSE sel.touched \cup {e.segnum}) \in SUBSET Numbers
      BY <2>3, <2>8
    <3> QED  BY <1>0, <2>1, <2>2, <2>4, <3>1, <3>2 DEF SelTypes
  <2>10. sel'.touched \in SUBSET Numbers /\ sel.touched \subseteq sel'.touched
         /\ (n \in sel'.touched <=> ~ok \/ n \in sel.touched)
    BY <2>3, <2>7, <2>8
  <2>11. OldestIs(usage', sel'.touched, sel'.oldest, NUsages)
    <3>1. sel.oldest \in Nat /\ usage \in [Numbers -> Usages]
      BY <1>0, SelFields
    <3>2. o = sel.oldest \/ (sel'.touched = {} => \E m \in Numbers : reclaimable(usage[m]) /\ usage[m].lastmod = o)
      BY <2>3, <2>4, <2>10
    <3> QED  BY <1>0, <1>b, <2>4, <2>7, <2>8, <2>10, <3>1, <3>2, OldestStays
  <2>12. ChunkOf(usage', sel'.touched, sel'.si, sel'.segnum)
    <3>1. Len(rest) <= sel.segnum
      BY <1>a, <1>b, <2>2 DEF ChunkOf
    <3>2. ASSUME NEW k \in DOMAIN rest
          PROVE  /\ rest[k].segnum = sel.segnum - Len(rest) + k - 1
                 /\ rest[k].segnum \notin sel'.touched => rest[k].si = usage[rest[k].segnum]
      <4>1. k \in Nat /\ k + 1 \in DOMAIN sel.si /\ rest[k] = sel.si[k + 1]
        BY <2>2
      <4>2. /\ sel.si[k + 1].segnum = sel.segnum - Len(sel.si) + (k + 1) - 1
            /\ sel.si[k + 1].segnum \notin sel.touched => sel.si[k + 1].si = usage[sel.si[k + 1].segnum]
        <5> DEFINE j == k + 1
        <5>1. j \in DOMAIN sel.si
          BY <4>1
        <5> HIDE DEF j
        <5>2. /\ sel.si[j].segnum = sel.segnum - Len(sel.si) + j - 1
              /\ sel.si[j].segnum \notin sel.touched => sel.si[j].si = usage[sel.si[j].segnum]
          BY <1>b, <5>1 DEF ChunkOf
        <5> QED  BY <5>2 DEF j
      <4>3. sel.segnum - Len(sel.si) + (k + 1) - 1 = sel.segnum - Len(rest) + k - 1
        <5>1. \A x, y, z \in Nat : x - y + (z + 1) - 1 = x - (y - 1) + z - 1
          OBVIOUS
        <5>2. Len(rest) = Len(sel.si) - 1
          BY <2>2
        <5> QED  BY <1>a, <4>1, <5>1, <5>2
      <4> QED  BY <4>1, <4>2, <4>3, <2>10
    <3> QED  BY <1>0, <2>7, <3>1, <3>2 DEF ChunkOf
  <2>13. ListOf(usage', sel'.touched, sel'.policy, sel'.nongc_ctime, sel'.candidates,
                sel'.segnum - Len(sel'.si))
    <3>0. sel'.segnum - Len(sel'.si) = n + 1
      <4>1. sel'.segnum - Len(sel'.si) = sel.segnum - (Len(sel.si) - 1)
        BY <2>2, <2>7
      <4>2. \A x, y \in Nat : x - (y - 1) = (x - y) + 1
        OBVIOUS
      <4> QED  BY <1>a, <4>1, <4>2
    <3>1. ListOf(usage, sel.touched, sel.policy, sel.nongc_ctime, sel.candidates, n)
      BY <1>b
    <3> HIDE DEF n
    <3>2. CASE ~ok
      <4>1. ListOf(usage, sel.touched \cup {n}, sel.policy, sel.nongc_ctime, sel.candidates, n + 1)
        BY <2>3, <2>8, <3>1, ListGrows
      <4> QED  BY <1>0, <2>7, <3>0, <3>2, <4>1
    <3>3. CASE ok /\ ~eligible(e)
      <4>1. ListOf(usage, sel.touched, sel.policy, sel.nongc_ctime, sel.candidates, n + 1)
        BY <2>3, <2>6, <2>8, <3>1, <3>3, ListGrows
      <4> QED  BY <1>0, <2>7, <3>0, <3>3, <4>1
    <3>4. CASE ok /\ eligible(e)
      <4>1. ListOf(usage, sel.touched, sel.policy, sel.nongc_ctime,
                   Append(sel.candidates, Candidate(e)), n + 1)
        BY <2>3, <2>5, <2>6, <2>8, <3>1, <3>4, ListGrows
      <4> QED  BY <1>0, <2>7, <3>0, <3>4, <4>1
    <3> QED  BY <3>2, <3>3, <3>4
  <2>14. ReadInv'
    BY <2>7, <2>11, <2>12, <2>13 DEF ReadInv
  <2>15. ChoiceInv'
    BY <1>b, <2>7 DEF ChoiceInv
  <2> QED  BY <2>9, <2>14, <2>15 DEF SelInv
<1> QED  BY <1>1, <1>2

LEMMA RatedAt ==
    ASSUME NEW v \in Seq(Rated)
    PROVE  /\ Len(v) \in Nat /\ DOMAIN v = 1 .. Len(v)
           /\ \A k \in DOMAIN v : /\ v[k] \in Rated /\ v[k].segnum \in Numbers /\ v[k].segnum \in Nat
                                  /\ v[k].lastmod \in Nat /\ v[k].live \in Nat
<1>1. Len(v) \in Nat /\ DOMAIN v = 1 .. Len(v)
  BY LenProperties
<1>2. \A k \in DOMAIN v : v[k] \in Rated
  BY ElementOfSeq, LenProperties
<1>3. \A k \in DOMAIN v : v[k].segnum \in Numbers /\ v[k].lastmod \in Nat /\ v[k].live \in Nat
  BY <1>2 DEF Rated
<1>4. \A k \in DOMAIN v : v[k].segnum \in Nat
  BY <1>3, SelSizes DEF Numbers
<1> QED  BY <1>1, <1>2, <1>3, <1>4

\* What goes first does not go after; nothing goes before itself.
LEMMA CompareStrict ==
    ASSUME SelTypes, NEW a \in Rated, NEW b \in Rated, compare(a, b)
    PROVE  a # b /\ ~Higher(b, a)
<1>1. \A c \in Rated : Score(c).num \in Int /\ Score(c).den \in Int
  <2> TAKE c \in Rated
  <2>1. c.imp \in Int /\ c.live \in Int /\ c.lastmod \in Int /\ c.age \in Int /\ c.segnum \in Int
    BY SelSizes DEF Rated, Numbers
  <2>2. (BLOCKS - c.live) * c.age \in Int /\ BLOCKS + c.live \in Int /\ BLOCKS - c.live \in Int
        /\ 0 - c.lastmod \in Int
    BY <2>1, SelSizes
  <2>3. sel.policy \in Policies
    BY SelFields
  <2> QED  BY <2>1, <2>2, <2>3 DEF Score, Policies
<1> DEFINE x == Score(a).num * Score(b).den
           y == Score(b).num * Score(a).den
<1>2. x \in Int /\ y \in Int
  BY <1>1
<1>3. (Higher(a, b) <=> x > y) /\ (Higher(b, a) <=> y > x)
  BY DEF Higher
<1> HIDE DEF x, y
<1>4. ~Higher(b, a)
  BY <1>2, <1>3 DEF compare
<1>5. a # b
  <2>1. a.segnum \in Nat
    BY SelSizes DEF Rated, Numbers
  <2>2. ~(a.segnum < a.segnum)
    BY <2>1
  <2>3. a = b => ~Higher(a, b)
    BY <1>4
  <2> QED  BY <2>2, <2>3 DEF compare
<1> QED  BY <1>4, <1>5

\* The sorted list lists the same.
LEMMA SortedList ==
    ASSUME SelTypes, NEW s \in Sorted(sel.candidates), NEW us, NEW tt, NEW p, NEW t, NEW n,
           ListOf(us, tt, p, t, sel.candidates, n)
    PROVE  /\ s \in Seq(Rated) /\ Len(s) = Len(sel.candidates)
           /\ \A a, b \in DOMAIN s : a < b => compare(s[a], s[b])
           /\ ListOf(us, tt, p, t, s, n)
<1> DEFINE v == sel.candidates
           L == Len(v)
<1>0. v \in Seq(Rated) /\ L \in Nat /\ DOMAIN v = 1 .. L /\ \A k \in DOMAIN v : v[k] \in Rated
  BY SelFields, RatedAt
<1>1. s \in [DOMAIN v -> ToSet(v)] /\ ToSet(s) = ToSet(v)
      /\ \A a, b \in DOMAIN s : a < b => compare(s[a], s[b])
  BY DEF Sorted
<1>2. ToSet(v) = {v[k] : k \in DOMAIN v} /\ ToSet(s) = {s[k] : k \in DOMAIN s}
  BY DEF ToSet
<1>l. ListOf(us, tt, p, t, v, n)
  OBVIOUS
<1> HIDE DEF v
<1>3. DOMAIN s = DOMAIN v /\ \A k \in DOMAIN s : \E j \in DOMAIN v : s[k] = v[j]
  BY <1>1, <1>2
<1>4. \A j \in DOMAIN v : \E k \in DOMAIN s : s[k] = v[j]
  BY <1>1, <1>2
<1>5. \A k \in DOMAIN s : s[k] \in Rated
  BY <1>0, <1>3
<1>6. s \in Seq(Rated) /\ Len(s) = L
  <2>1. s \in [1 .. L -> Rated]
    BY <1>0, <1>1, <1>3, <1>5
  <2>2. s \in Seq(Rated)
    BY <1>0, <2>1, SeqDef
  <2> QED  BY <1>0, <2>1, <2>2, LenProperties
<1>7. \A a, b \in DOMAIN s : s[a].segnum = s[b].segnum => a = b
  <2> SUFFICES ASSUME NEW a \in DOMAIN s, NEW b \in DOMAIN s, s[a].segnum = s[b].segnum, a # b
               PROVE  FALSE
    OBVIOUS
  <2>1. s[a] = s[b]
    <3>1. PICK i \in DOMAIN v : s[a] = v[i]
      BY <1>3
    <3>2. PICK j \in DOMAIN v : s[b] = v[j]
      BY <1>3
    <3>3. i = j
      BY <1>l, <3>1, <3>2 DEF ListOf
    <3> QED  BY <3>1, <3>2, <3>3
  <2>2. a < b \/ b < a
    BY <1>0, <1>3
  <2>3. s[a] \in Rated /\ s[b] \in Rated
    BY <1>5
  <2> QED  BY <1>1, <2>1, <2>2, <2>3, CompareStrict
<1>8. ListOf(us, tt, p, t, s, n)
  <2>1. \A k \in DOMAIN s : s[k].segnum < n
    BY <1>3, <1>l DEF ListOf
  <2>2. \A k \in DOMAIN s : s[k].segnum \notin tt =>
          /\ MayChoose(us[s[k].segnum], p, t)
          /\ s[k] = RatingOf(s[k].segnum, us[s[k].segnum], t)
    <3> TAKE k \in DOMAIN s
    <3>1. PICK j \in DOMAIN v : s[k] = v[j]
      BY <1>3
    <3> QED  BY <3>1, <1>l DEF ListOf
  <2>3. ASSUME NEW m \in Numbers, m < n, m \notin tt, MayChoose(us[m], p, t)
        PROVE  \E k \in DOMAIN s : s[k].segnum = m
    <3>1. PICK j \in DOMAIN v : v[j].segnum = m
      BY <1>l, <2>3 DEF ListOf
    <3> QED  BY <3>1, <1>4
  <2> QED  BY <1>7, <2>1, <2>2, <2>3 DEF ListOf
<1> QED  BY <1>1, <1>6, <1>8 DEF v

LEMMA SelectKeeps == SelInv /\ SelectBest => SelInv'
<1> SUFFICES ASSUME SelInv, SelectBest PROVE SelInv'
  OBVIOUS
<1>0. SelTypes /\ sel.pc = "select" /\ usage' = usage
  BY DEF SelectBest, SelInv
<1>1. PICK s \in Sorted(sel.candidates) :
        LET n == IF Len(s) < 2 THEN Len(s) ELSE 2 IN
        sel' = IF sel.policy = "segregation" THEN [sel EXCEPT !.pc = "cluster", !.candidates = s]
               ELSE [sel EXCEPT !.pc = "selected", !.candidates = s,
                                !.segnums = [k \in 1 .. n |-> s[k].segnum]]
  BY DEF SelectBest
<1>b. /\ OldestIs(usage, sel.touched, sel.oldest, NUsages)
      /\ ChunkOf(usage, sel.touched, sel.si, sel.segnum)
      /\ ListOf(usage, sel.touched, sel.policy, sel.nongc_ctime, sel.candidates,
                sel.segnum - Len(sel.si))
      /\ sel.segnums = <<>> /\ sel.accum = <<>> /\ sel.i = 1 /\ sel.si = <<>> /\ sel.segnum = NUsages
  BY <1>0 DEF SelInv, ReadInv, ChoiceInv
<1>2. /\ s \in Seq(Rated) /\ Len(s) = Len(sel.candidates)
      /\ \A a, b \in DOMAIN s : a < b => compare(s[a], s[b])
      /\ ListOf(usage, sel.touched, sel.policy, sel.nongc_ctime, s, sel.segnum - Len(sel.si))
  BY <1>0, <1>b, SortedList
<1>3. Len(s) \in Nat /\ DOMAIN s = 1 .. Len(s) /\ \A k \in DOMAIN s : s[k].segnum \in Numbers
  BY <1>2, RatedAt
<1>c. /\ sel'.si = sel.si /\ sel'.segnum = sel.segnum /\ sel'.touched = sel.touched
      /\ sel'.oldest = sel.oldest /\ sel'.policy = sel.policy /\ sel'.nongc_ctime = sel.nongc_ctime
      /\ sel'.candidates = s /\ sel'.accum = sel.accum /\ sel'.i = sel.i
      /\ sel'.pc = IF sel.policy = "segregation" THEN "cluster" ELSE "selected"
  BY <1>0, <1>1 DEF SelTypes
<1>4. ReadInv'
  BY <1>0, <1>b, <1>c, <1>2 DEF ReadInv
<1>5. Ranked'
  <2>1. ASSUME NEW a \in DOMAIN s, NEW b \in DOMAIN s, a < b
        PROVE  compare(s[a], s[b])'
    <3>1. compare(s[a], s[b])
      BY <1>2, <2>1
    <3>2. Score(s[a])' = Score(s[a]) /\ Score(s[b])' = Score(s[b])
      BY <1>c DEF Score
    <3> QED  BY <3>1, <3>2 DEF compare, Higher
  <2> QED  BY <1>c, <2>1 DEF Ranked
<1>6. CASE sel.policy = "segregation"
  <2>1. sel' = [sel EXCEPT !.pc = "cluster", !.candidates = s]
    BY <1>1, <1>6
  <2>2. SelTypes'
    BY <1>0, <1>2, <2>1 DEF SelTypes, SelPc
  <2>3. sel'.segnums = <<>> /\ sel'.pc = "cluster" /\ sel'.accum = <<>> /\ sel'.i = 1
    BY <1>0, <1>b, <1>c, <2>1 DEF SelTypes
  <2>4. Taken(s, <<>>, <<>>, 1)
    BY <1>3, SelSizes DEF Taken
  <2>5. accum_blocks' < BLOCKS
    BY <2>3, SelSizes DEF accum_blocks
  <2> QED  BY <1>4, <1>5, <1>6, <1>c, <2>2, <2>3, <2>4, <2>5 DEF SelInv, ChoiceInv
<1>7. CASE sel.policy # "segregation"
  <2> DEFINE n == IF Len(s) < 2 THEN Len(s) ELSE 2
             nrs == [k \in 1 .. n |-> s[k].segnum]
  <2>1. sel' = [sel EXCEPT !.pc = "selected", !.candidates = s, !.segnums = nrs]
    BY <1>1, <1>7
  <2>2. n \in Nat /\ n <= Len(s)
    BY <1>3
  <2>a. n = IF Len(s) < 2 THEN Len(s) ELSE 2
    OBVIOUS
  <2> HIDE DEF n
  <2>3. nrs \in [1 .. n -> Numbers]
    BY <1>3, <2>2
  <2>4. nrs \in Seq(Numbers) /\ Len(nrs) = n
    BY <2>2, <2>3, SeqDef, LenProperties
  <2>5. \A k \in 1 .. Len(nrs) : nrs[k] = s[k].segnum
    BY <2>4
  <2> HIDE DEF nrs
  <2>6. SelTypes'
    BY <1>0, <1>2, <2>1, <2>4 DEF SelTypes, SelPc
  <2>7. sel'.segnums = nrs /\ sel'.pc = "selected"
    BY <1>0, <2>1 DEF SelTypes
  <2>8. BestTwo'
    BY <1>c, <2>4, <2>5, <2>7, <2>a DEF BestTwo
  <2> QED  BY <1>4, <1>5, <1>7, <1>c, <2>6, <2>7, <2>8 DEF SelInv, ChoiceInv
<1> QED  BY <1>6, <1>7

\* In the order of the segregation policy, the older ones go first.
LEMMA OlderFirst ==
    ASSUME SelTypes, Ranked, sel.policy = "segregation",
           NEW a \in DOMAIN sel.candidates, NEW b \in DOMAIN sel.candidates, a <= b
    PROVE  sel.candidates[a].lastmod <= sel.candidates[b].lastmod
<1> DEFINE v == sel.candidates
<1>0. v \in Seq(Rated) /\ a \in Nat /\ b \in Nat /\ v[a].lastmod \in Nat /\ v[b].lastmod \in Nat
      /\ v[a] \in Rated /\ v[b] \in Rated
  BY SelFields, RatedAt
<1>1. CASE a = b
  BY <1>0, <1>1
<1>2. CASE a < b
  <2>1. ~Higher(v[b], v[a])
    BY <1>0, <1>2, CompareStrict DEF Ranked
  <2>2. /\ Score(v[a]).num = 0 - v[a].lastmod /\ Score(v[a]).den = 1
        /\ Score(v[b]).num = 0 - v[b].lastmod /\ Score(v[b]).den = 1
    BY DEF Score
  <2>3. ~((0 - v[b].lastmod) * 1 > (0 - v[a].lastmod) * 1)
    BY <2>1, <2>2 DEF Higher
  <2> QED  BY <1>0, <2>3
<1> QED  BY <1>0, <1>1, <1>2

LEMMA TotalTypes ==
    ASSUME NEW acc \in Seq(Nat)
    PROVE  (IF acc = <<>> THEN 0 ELSE Last(acc)) \in Nat /\ (acc # <<>> => Last(acc) = acc[Len(acc)] /\ Len(acc) > 0)
<1>1. Len(acc) \in Nat /\ (acc # <<>> => Len(acc) # 0)
  BY LenProperties, EmptySeq
<1>2. acc # <<>> => Last(acc) = acc[Len(acc)] /\ Len(acc) \in 1 .. Len(acc)
  BY <1>1 DEF Last
<1>3. \A k \in 1 .. Len(acc) : acc[k] \in Nat
  BY ElementOfSeq
<1> QED  BY <1>1, <1>2, <1>3

\* The next candidate is passed over, or taken.
LEMMA TakenNext ==
    ASSUME NEW v \in Seq(Rated), NEW nrs \in Seq(Numbers), NEW acc \in Seq(Nat), NEW i \in Nat \ {0},
           Taken(v, nrs, acc, i), i <= Len(v), Len(nrs) < PerCleanMax,
           \A a, b \in 1 .. Len(v) : a <= b => v[a].lastmod <= v[b].lastmod,
           NEW blocks \in Nat, blocks = v[i].live + (IF acc = <<>> THEN 0 ELSE Last(acc)),
           (IF acc = <<>> THEN 0 ELSE Last(acc)) < BLOCKS
    PROVE  /\ outside_window(v[1], v[i]) => Taken(v, nrs, acc, i + 1)
           /\ ~outside_window(v[1], v[i]) => Taken(v, Append(nrs, v[i].segnum), Append(acc, blocks), i + 1)
<1>0. /\ Len(v) \in Nat /\ Len(nrs) \in Nat /\ Len(acc) = Len(nrs) /\ i \in 1 .. Len(v)
      /\ DOMAIN v = 1 .. Len(v) /\ Len(nrs) < i
      /\ \A k \in 1 .. Len(v) : v[k] \in Rated /\ v[k].lastmod \in Nat /\ v[k].segnum \in Numbers
  <2>1. Len(nrs) \in Nat
    BY LenProperties
  <2> QED  BY <2>1, RatedAt DEF Taken
<1>1. ASSUME outside_window(v[1], v[i])
      PROVE  Taken(v, nrs, acc, i + 1)
  <2>1. \A k \in 1 .. Len(v) : Len(nrs) < k /\ k < i + 1 => outside_window(v[1], v[k])
    <3> TAKE k \in 1 .. Len(v)
    <3>1. k < i + 1 => k < i \/ k = i
      BY <1>0
    <3> QED  BY <1>1, <3>1 DEF Taken
  <2>2. Len(nrs) < i + 1 /\ i + 1 <= Len(v) + 1
    BY <1>0
  <2> QED  BY <2>1, <2>2 DEF Taken
<1>2. ASSUME ~outside_window(v[1], v[i])
      PROVE  Taken(v, Append(nrs, v[i].segnum), Append(acc, blocks), i + 1)
  <2> DEFINE N == Len(nrs)
             ns == Append(nrs, v[i].segnum)
             as == Append(acc, blocks)
  <2>1. i = N + 1
    <3> SUFFICES ASSUME i # N + 1 PROVE FALSE
      OBVIOUS
    <3> DEFINE j == N + 1
    <3>1. j \in 1 .. Len(v) /\ N < j /\ j < i
      BY <1>0
    <3>2. outside_window(v[1], v[j])
      BY <3>1 DEF Taken
    <3>3. 1 \in 1 .. Len(v) /\ 1 <= j /\ j <= i
      BY <1>0, <3>1
    <3> HIDE DEF j
    <3>4. v[1].lastmod <= v[j].lastmod /\ v[j].lastmod <= v[i].lastmod
      BY <1>0, <3>1, <3>3
    <3>5. v[1].lastmod \in Nat /\ v[j].lastmod \in Nat /\ v[i].lastmod \in Nat
      BY <1>0, <3>1, <3>3
    <3>6. AgeWindow \in Nat
      BY SelSizes
    <3>7. \A x, y, z \in Nat : x <= y /\ y <= z /\ (x - y > AgeWindow \/ y - x > AgeWindow)
                            => z - x > AgeWindow
      BY <3>6
    <3> QED  BY <1>2, <3>2, <3>4, <3>5, <3>7 DEF outside_window
  <2>2. /\ ns \in Seq(Numbers) /\ Len(ns) = N + 1 /\ ns[N + 1] = v[i].segnum
        /\ \A k \in 1 .. N : ns[k] = nrs[k]
    BY <1>0, AppendProperties
  <2>3. /\ as \in Seq(Nat) /\ Len(as) = N + 1 /\ as[N + 1] = blocks
        /\ \A k \in 1 .. N : as[k] = acc[k]
    BY <1>0, AppendProperties
  <2>4. (IF acc = <<>> THEN 0 ELSE Last(acc)) = IF N + 1 = 1 THEN 0 ELSE acc[N]
    <3>1. acc # <<>> => Last(acc) = acc[Len(acc)] /\ Len(acc) > 0
      BY TotalTypes
    <3>2. acc = <<>> => Len(acc) = 0
      BY EmptySeq
    <3> QED  BY <1>0, <3>1, <3>2
  <2> HIDE DEF ns, as, N
  <2>0. N \in Nat /\ N < PerCleanMax /\ N + 1 <= Len(v)
    BY <1>0, <2>1 DEF N
  <2>5. ASSUME NEW k \in 1 .. N + 1
        PROVE  /\ ns[k] = v[k].segnum /\ ~outside_window(v[1], v[k])
               /\ as[k] = v[k].live + IF k = 1 THEN 0 ELSE as[k - 1]
               /\ k < N + 1 => as[k] < BLOCKS
    <3>1. CASE k = N + 1
      <4>1. as[k] = v[k].live + IF k = 1 THEN 0 ELSE acc[N]
        BY <2>1, <2>3, <2>4, <3>1
      <4>2. k # 1 => as[k - 1] = acc[N]
        <5>1. k # 1 => N \in 1 .. N /\ k - 1 = N
          BY <2>0, <3>1
        <5> QED  BY <2>3, <5>1
      <4>3. ns[k] = v[k].segnum /\ ~outside_window(v[1], v[k])
        BY <1>2, <2>1, <2>2, <3>1
      <4>4. ~(k < N + 1)
        BY <2>0, <3>1
      <4> QED  BY <4>1, <4>2, <4>3, <4>4
    <3>2. CASE k # N + 1
      <4>1. k \in 1 .. N /\ (k # 1 => k - 1 \in 1 .. N)
        BY <2>0, <3>2
      <4>2. /\ nrs[k] = v[k].segnum /\ ~outside_window(v[1], v[k])
            /\ acc[k] = v[k].live + IF k = 1 THEN 0 ELSE acc[k - 1]
            /\ k < N => acc[k] < BLOCKS
        BY <4>1 DEF Taken, N
      <4>3. k = N => acc[k] < BLOCKS
        BY <2>0, <2>4, <4>1
      <4>4. acc[k] < BLOCKS
        BY <2>0, <4>1, <4>2, <4>3
      <4>5. as[k] = acc[k] /\ ns[k] = nrs[k] /\ (k # 1 => as[k - 1] = acc[k - 1])
        BY <2>2, <2>3, <4>1
      <4> QED  BY <4>2, <4>4, <4>5
    <3> QED  BY <3>1, <3>2
  <2>6. \A k \in 1 .. Len(v) : ~(N + 1 < k /\ k < i + 1)
    BY <2>0, <2>1
  <2>7. Len(ns) < i + 1 /\ i + 1 <= Len(v) + 1 /\ Len(as) = Len(ns) /\ Len(ns) <= PerCleanMax
    BY <1>0, <2>0, <2>1, <2>2, <2>3, SelSizes
  <2>8. \A k \in 1 .. Len(ns) :
          /\ ns[k] = v[k].segnum /\ ~outside_window(v[1], v[k])
          /\ as[k] = v[k].live + IF k = 1 THEN 0 ELSE as[k - 1]
          /\ k < Len(ns) => as[k] < BLOCKS
    BY <2>2, <2>5
  <2>9. \A k \in 1 .. Len(v) : Len(ns) < k /\ k < i + 1 => outside_window(v[1], v[k])
    BY <2>2, <2>6
  <2> QED  BY <2>7, <2>8, <2>9 DEF Taken, ns, as
<1> QED  BY <1>1, <1>2

\* The order depends on the policy and the candidates only.
LEMMA RankedStays ==
    ASSUME Ranked, sel'.policy = sel.policy, sel'.candidates = sel.candidates
    PROVE  Ranked'
<1>1. ASSUME NEW a \in DOMAIN sel.candidates, NEW b \in DOMAIN sel.candidates, a < b
      PROVE  compare(sel.candidates[a], sel.candidates[b])'
  <2>1. compare(sel.candidates[a], sel.candidates[b])
    BY <1>1 DEF Ranked
  <2>2. Score(sel.candidates[a])' = Score(sel.candidates[a]) /\ Score(sel.candidates[b])' = Score(sel.candidates[b])
    BY DEF Score
  <2> QED  BY <2>1, <2>2 DEF compare, Higher
<1> QED  BY <1>1 DEF Ranked

LEMMA ClusterKeeps == SelInv /\ Cluster => SelInv'
<1> SUFFICES ASSUME SelInv, Cluster PROVE SelInv'
  OBVIOUS
<1>0. SelTypes /\ sel.pc = "cluster" /\ usage' = usage /\ sel.policy = "segregation"
      /\ accum_blocks < BLOCKS /\ Ranked /\ ReadInv
      /\ Taken(sel.candidates, sel.segnums, sel.accum, sel.i)
  BY DEF Cluster, SelInv, ChoiceInv
<1> DEFINE v == sel.candidates
           c == v[sel.i]
           blocks == accum_blocks + c.live
           end == sel.i > Len(v) \/ Len(sel.segnums) >= PerCleanMax
<1>t. v \in Seq(Rated) /\ sel.i \in Nat \ {0} /\ sel.segnums \in Seq(Numbers) /\ sel.accum \in Seq(Nat)
      /\ Len(v) \in Nat /\ Len(sel.segnums) \in Nat /\ PerCleanMax \in Nat /\ BLOCKS \in Nat
  BY <1>0, SelFields, SelSizes, LenProperties
<1>1. CASE end
  <2>1. sel' = [sel EXCEPT !.pc = "selected"]
    BY <1>1 DEF Cluster
  <2>2. SelTypes'
    BY <1>0, <2>1 DEF SelTypes, SelPc
  <2>3. /\ sel'.si = sel.si /\ sel'.segnum = sel.segnum /\ sel'.touched = sel.touched
        /\ sel'.oldest = sel.oldest /\ sel'.policy = sel.policy /\ sel'.nongc_ctime = sel.nongc_ctime
        /\ sel'.candidates = sel.candidates /\ sel'.accum = sel.accum /\ sel'.i = sel.i
        /\ sel'.pc = "selected" /\ sel'.segnums = sel.segnums
    BY <1>0, <2>1 DEF SelTypes
  <2>4. ReadInv'
    BY <1>0, <2>3 DEF ReadInv
  <2>5. Ranked'
    BY <1>0, <2>3, RankedStays
  <2>6. Ended'
    BY <1>1, <2>3 DEF Ended
  <2>7. ChoiceInv'
    BY <1>0, <2>3, <2>5, <2>6 DEF ChoiceInv
  <2> QED  BY <2>2, <2>4, <2>7 DEF SelInv
<1>2. CASE ~end /\ outside_window(v[1], c)
  <2>1. sel' = [sel EXCEPT !.i = @ + 1]
    BY <1>2 DEF Cluster
  <2>2. SelTypes'
    <3>1. sel.i + 1 \in Nat \ {0}
      BY <1>t
    <3> QED  BY <1>0, <2>1, <3>1 DEF SelTypes, SelPc
  <2>3. /\ sel'.si = sel.si /\ sel'.segnum = sel.segnum /\ sel'.touched = sel.touched
        /\ sel'.oldest = sel.oldest /\ sel'.policy = sel.policy /\ sel'.nongc_ctime = sel.nongc_ctime
        /\ sel'.candidates = sel.candidates /\ sel'.accum = sel.accum /\ sel'.i = sel.i + 1
        /\ sel'.pc = "cluster" /\ sel'.segnums = sel.segnums
    BY <1>0, <2>1 DEF SelTypes
  <2>4. ReadInv'
    BY <1>0, <2>3 DEF ReadInv
  <2>5. Ranked'
    BY <1>0, <2>3, RankedStays
  <2>6. accum_blocks' = accum_blocks
    BY <2>3 DEF accum_blocks
  <2>7. Taken(v, sel.segnums, sel.accum, sel.i + 1)
    <3>1. /\ sel.i <= Len(v) /\ Len(sel.segnums) < PerCleanMax /\ sel.i \in 1 .. Len(v)
          /\ DOMAIN v = 1 .. Len(v)
      BY <1>2, <1>t, RatedAt
    <3>2. \A a, b \in 1 .. Len(v) : a <= b => v[a].lastmod <= v[b].lastmod
      BY <1>0, <3>1, OlderFirst
    <3>3. c.live \in Nat /\ accum_blocks \in Nat
      BY <1>t, <3>1, RatedAt, TotalTypes DEF accum_blocks
    <3>4. blocks \in Nat /\ blocks = c.live + (IF sel.accum = <<>> THEN 0 ELSE Last(sel.accum))
      BY <3>3 DEF accum_blocks
    <3>5. (IF sel.accum = <<>> THEN 0 ELSE Last(sel.accum)) < BLOCKS
      BY <1>0 DEF accum_blocks
    <3> HIDE DEF blocks
    <3> QED  BY <1>0, <1>2, <1>t, <3>1, <3>2, <3>4, <3>5, TakenNext
  <2>8. ChoiceInv'
    BY <1>0, <2>3, <2>5, <2>6, <2>7 DEF ChoiceInv
  <2> QED  BY <2>2, <2>4, <2>8 DEF SelInv
<1>3. CASE ~end /\ ~outside_window(v[1], c)
  <2> DEFINE ns == Append(sel.segnums, c.segnum)
             as == Append(sel.accum, blocks)
  <2>1. sel' = [sel EXCEPT !.i = @ + 1, !.segnums = ns, !.accum = as,
                           !.pc = IF blocks >= BLOCKS THEN "selected" ELSE @]
    BY <1>3 DEF Cluster
  <2>a. /\ sel.i <= Len(v) /\ Len(sel.segnums) < PerCleanMax /\ sel.i \in 1 .. Len(v)
        /\ DOMAIN v = 1 .. Len(v)
    BY <1>3, <1>t, RatedAt
  <2>b. c.live \in Nat /\ accum_blocks \in Nat /\ c.segnum \in Numbers
    BY <1>t, <2>a, RatedAt, TotalTypes DEF accum_blocks
  <2>c. blocks \in Nat /\ blocks = c.live + (IF sel.accum = <<>> THEN 0 ELSE Last(sel.accum))
    BY <2>b DEF accum_blocks
  <2>d. (IF sel.accum = <<>> THEN 0 ELSE Last(sel.accum)) < BLOCKS
    BY <1>0 DEF accum_blocks
  <2> HIDE DEF blocks
  <2>e. Taken(v, ns, as, sel.i + 1)
    <3>1. \A a, b \in 1 .. Len(v) : a <= b => v[a].lastmod <= v[b].lastmod
      BY <1>0, <2>a, OlderFirst
    <3> QED  BY <1>0, <1>3, <1>t, <2>a, <2>c, <2>d, <3>1, TakenNext
  <2>f. /\ ns \in Seq(Numbers) /\ as \in Seq(Nat) /\ Len(as) = Len(sel.accum) + 1
        /\ as[Len(sel.accum) + 1] = blocks
    BY <1>t, <2>b, <2>c, AppendProperties
  <2>g. as # <<>> /\ Last(as) = blocks
    <3>1. Len(as) # 0
      BY <2>f, <1>t, LenProperties
    <3> QED  BY <2>f, <3>1, EmptySeq DEF Last
  <2> HIDE DEF ns, as
  <2>2. SelTypes'
    <3>1. sel.i + 1 \in Nat \ {0}
      BY <1>t
    <3>2. (IF blocks >= BLOCKS THEN "selected" ELSE sel.pc) \in SelPc
      BY <1>0 DEF SelPc
    <3> QED  BY <1>0, <2>1, <2>f, <3>1, <3>2 DEF SelTypes
  <2>3. /\ sel'.si = sel.si /\ sel'.segnum = sel.segnum /\ sel'.touched = sel.touched
        /\ sel'.oldest = sel.oldest /\ sel'.policy = sel.policy /\ sel'.nongc_ctime = sel.nongc_ctime
        /\ sel'.candidates = sel.candidates /\ sel'.accum = as /\ sel'.i = sel.i + 1
        /\ sel'.pc = (IF blocks >= BLOCKS THEN "selected" ELSE "cluster") /\ sel'.segnums = ns
    BY <1>0, <2>1 DEF SelTypes
  <2>4. ReadInv'
    BY <1>0, <2>3 DEF ReadInv
  <2>5. Ranked'
    BY <1>0, <2>3, RankedStays
  <2>6. accum_blocks' = blocks
    BY <2>3, <2>g DEF accum_blocks
  <2>7. blocks >= BLOCKS => Ended'
    BY <2>3, <2>6, <2>g DEF Ended
  <2>8. ~(blocks >= BLOCKS) => accum_blocks' < BLOCKS
    BY <1>t, <2>6, <2>c
  <2>9. ChoiceInv'
    BY <1>0, <2>3, <2>5, <2>e, <2>7, <2>8 DEF ChoiceInv
  <2> QED  BY <2>2, <2>4, <2>9 DEF SelInv
<1> QED  BY <1>1, <1>2, <1>3

LEMMA SleepKeeps == SelInv /\ SleepIdle => SelInv'
<1> SUFFICES ASSUME SelInv, SleepIdle PROVE SelInv'
  OBVIOUS
<1>0. SelTypes /\ sel.pc = "selected" /\ usage' = usage /\ ReadInv /\ ChoiceInv
      /\ sel' = [sel EXCEPT !.pc = "sleep", !.timeout = idle_time]
  BY DEF SleepIdle, SelInv
<1>1. idle_time \in Int
  <2>1. sel.oldest \in Int
    BY <1>0, SelFields
  <2> QED  BY <2>1, SelSizes DEF idle_time
<1>2. SelTypes'
  BY <1>0, <1>1 DEF SelTypes, SelPc
<1>3. /\ sel'.si = sel.si /\ sel'.segnum = sel.segnum /\ sel'.touched = sel.touched
      /\ sel'.oldest = sel.oldest /\ sel'.policy = sel.policy /\ sel'.nongc_ctime = sel.nongc_ctime
      /\ sel'.candidates = sel.candidates /\ sel'.accum = sel.accum /\ sel'.i = sel.i
      /\ sel'.pc = "sleep" /\ sel'.segnums = sel.segnums /\ sel'.timeout = idle_time
  BY <1>0 DEF SelTypes
<1>4. ReadInv'
  BY <1>0, <1>3 DEF ReadInv
<1>5. Ranked => Ranked'
  BY <1>3, RankedStays
<1>6. idle_time' = idle_time
  BY <1>3 DEF idle_time
<1>7. accum_blocks' = accum_blocks
  BY <1>3 DEF accum_blocks
<1>8. (Ended => Ended') /\ (BestTwo => BestTwo')
  BY <1>3, <1>7 DEF Ended, BestTwo
<1>9. ChoiceInv'
  BY <1>0, <1>3, <1>5, <1>6, <1>8 DEF ChoiceInv
<1> QED  BY <1>2, <1>4, <1>9 DEF SelInv

LEMMA SelFailKeeps == SelInv /\ SelFails => SelInv'
<1> SUFFICES ASSUME SelInv, SelFails PROVE SelInv'
  OBVIOUS
<1>0. SelTypes /\ usage' = usage /\ sel' = [sel EXCEPT !.pc = "failed"]
  BY DEF SelFails, SelInv
<1>1. SelTypes'
  BY <1>0 DEF SelTypes, SelPc
<1>2. sel'.pc = "failed"
  BY <1>0 DEF SelTypes
<1>3. ReadInv' /\ ChoiceInv'
  BY <1>2 DEF ReadInv, ChoiceInv
<1> QED  BY <1>1, <1>3 DEF SelInv

LEMMA UsageKeeps == SelInv /\ UsageChanges => SelInv'
<1> SUFFICES ASSUME SelInv, UsageChanges PROVE SelInv'
  OBVIOUS
<1>0. SelTypes /\ ReadInv /\ ChoiceInv /\ Now \in Nat
  BY SelSizes DEF SelInv
<1>1. PICK n \in DOMAIN usage :
        /\ \/ usage[n].st = "dirty" /\ usage' = [usage EXCEPT ![n].st = "clean"]
           \/ usage[n].st = "active" /\ usage' = [usage EXCEPT ![n].st = "dirty", ![n].lastmod = Now]
           \/ usage[n].st = "dirty" /\ usage[n].live > 0 /\ usage' = [usage EXCEPT ![n].live = 0]
        /\ sel' = [sel EXCEPT !.touched = @ \cup {n}]
  BY DEF UsageChanges
<1>2. n \in Numbers /\ usage \in [Numbers -> Usages] /\ usage[n] \in Usages
  BY <1>0, SelFields
<1>3. usage' \in [Numbers -> Usages] /\ \A m \in Numbers : m # n => usage'[m] = usage[m]
  <2>1. CASE usage' = [usage EXCEPT ![n].st = "clean"]
    BY <1>2, <2>1 DEF Usages
  <2>2. CASE usage' = [usage EXCEPT ![n].st = "dirty", ![n].lastmod = Now]
    BY <1>0, <1>2, <2>2 DEF Usages
  <2>3. CASE usage' = [usage EXCEPT ![n].live = 0]
    BY <1>2, <2>3 DEF Usages
  <2> QED  BY <1>1, <2>1, <2>2, <2>3
<1>4. SelTypes'
  <2>1. sel.touched \cup {n} \in SUBSET Numbers
    BY <1>0, <1>2, SelFields
  <2> QED  BY <1>0, <1>1, <1>3, <2>1 DEF SelTypes
<1>5. /\ sel'.si = sel.si /\ sel'.segnum = sel.segnum /\ sel'.touched = sel.touched \cup {n}
      /\ sel'.oldest = sel.oldest /\ sel'.policy = sel.policy /\ sel'.nongc_ctime = sel.nongc_ctime
      /\ sel'.candidates = sel.candidates /\ sel'.accum = sel.accum /\ sel'.i = sel.i
      /\ sel'.pc = sel.pc /\ sel'.segnums = sel.segnums /\ sel'.timeout = sel.timeout
  BY <1>0, <1>1 DEF SelTypes
<1>6. /\ \A x : OldestIs(usage, sel.touched, sel.oldest, x) => OldestIs(usage', sel'.touched, sel'.oldest, x)
      /\ ChunkOf(usage, sel.touched, sel.si, sel.segnum) => ChunkOf(usage', sel'.touched, sel'.si, sel'.segnum)
      /\ ListOf(usage, sel.touched, sel.policy, sel.nongc_ctime, sel.candidates, sel.segnum - Len(sel.si))
         => ListOf(usage', sel'.touched, sel'.policy, sel'.nongc_ctime, sel'.candidates,
                   sel'.segnum - Len(sel'.si))
  <2>1. sel.touched \in SUBSET Numbers /\ sel.si \in Seq(SuInfos) /\ sel.candidates \in Seq(Rated)
        /\ sel.segnum \in Nat
    BY <1>0, SelFields, SelSizes
  <2>2. \A x : OldestIs(usage, sel.touched, sel.oldest, x) => OldestIs(usage', sel.touched \cup {n}, sel.oldest, x)
    BY <1>2, <1>3, <2>1, ChangeSpares
  <2>3. ChunkOf(usage, sel.touched, sel.si, sel.segnum) => ChunkOf(usage', sel.touched \cup {n}, sel.si, sel.segnum)
    BY <1>2, <1>3, <2>1, ChangeSpares
  <2>4. ListOf(usage, sel.touched, sel.policy, sel.nongc_ctime, sel.candidates, sel.segnum - Len(sel.si))
        => ListOf(usage', sel.touched \cup {n}, sel.policy, sel.nongc_ctime, sel.candidates,
                  sel.segnum - Len(sel.si))
    BY <1>2, <1>3, <2>1, ChangeSpares
  <2> QED  BY <1>5, <2>2, <2>3, <2>4
<1>7. ReadInv'
  BY <1>0, <1>5, <1>6 DEF ReadInv
<1>8. Ranked => Ranked'
  BY <1>5, RankedStays
<1>9. idle_time' = idle_time /\ accum_blocks' = accum_blocks
  BY <1>5 DEF idle_time, accum_blocks
<1>10. (Ended => Ended') /\ (BestTwo => BestTwo')
  BY <1>5, <1>9 DEF Ended, BestTwo
<1>11. ChoiceInv'
  BY <1>0, <1>5, <1>8, <1>9, <1>10 DEF ChoiceInv
<1> QED  BY <1>4, <1>7, <1>11 DEF SelInv

LEMMA SelNextInv == SelInv /\ [SelNext]_<<usage, sel>> => SelInv'
<1> SUFFICES ASSUME SelInv, [SelNext]_<<usage, sel>> PROVE SelInv'
  OBVIOUS
<1>1. CASE UNCHANGED <<usage, sel>>
  <2>1. usage' = usage /\ sel' = sel
    BY <1>1
  <2>2. SelTypes' /\ ReadInv'
    BY <2>1 DEF SelInv, SelTypes, ReadInv
  <2>3. Ranked => Ranked'
    BY <2>1, RankedStays
  <2>4. idle_time' = idle_time /\ accum_blocks' = accum_blocks
    BY <2>1 DEF idle_time, accum_blocks
  <2>5. (Ended => Ended') /\ (BestTwo => BestTwo')
    BY <2>1, <2>4 DEF Ended, BestTwo
  <2>6. ChoiceInv'
    BY <2>1, <2>3, <2>4, <2>5 DEF SelInv, ChoiceInv
  <2> QED  BY <2>2, <2>6 DEF SelInv
<1>2. CASE SelNext
  BY <1>2, ScanKeeps, ReadKeeps, EvaluateKeeps, SelectKeeps, ClusterKeeps, SleepKeeps, SelFailKeeps,
     UsageKeeps DEF SelNext
<1> QED  BY <1>1, <1>2

\* The candidates, in terms of the property.
LEMMA CandidateIs ==
    ASSUME SelTypes, NEW n \in Numbers
    PROVE  /\ IsCandidate(n) <=> MayChoose(usage[n], sel.policy, sel.nongc_ctime)
           /\ Candidate([segnum |-> n, si |-> usage[n]]) = RatingOf(n, usage[n], sel.nongc_ctime)
<1>1. usage[n] \in Usages /\ usage[n].lastmod \in Nat /\ usage[n].lastmod \in Int
  BY SelFields DEF Usages
<1>2. usage[n].lastmod \in prottime .. Now <=> protected(usage[n])
  BY <1>1, SelSizes DEF protected
<1>3. [segnum |-> n, si |-> usage[n]] \in SuInfos
  BY <1>1 DEF SuInfos
<1>4. IsCandidate(n) <=> MayChoose(usage[n], sel.policy, sel.nongc_ctime)
  BY <1>2 DEF IsCandidate, MayChoose, importance, ImportanceOf
<1>5. Candidate([segnum |-> n, si |-> usage[n]]) = RatingOf(n, usage[n], sel.nongc_ctime)
  BY <1>3, RatingMade
<1> QED  BY <1>4, <1>5

\* When the choice is made: the list is complete, and the chosen are the
\* first of it.
LEMMA ChosenFirst ==
    ASSUME SelInv, SelDone
    PROVE  /\ sel.candidates \in Seq(Rated) /\ Len(sel.candidates) \in Nat
           /\ DOMAIN sel.candidates = 1 .. Len(sel.candidates)
           /\ Len(sel.segnums) \in Nat /\ DOMAIN sel.segnums = 1 .. Len(sel.segnums)
           /\ Len(sel.segnums) <= Len(sel.candidates)
           /\ \A k \in 1 .. Len(sel.segnums) : sel.segnums[k] = sel.candidates[k].segnum
           /\ Chosen = {sel.candidates[k].segnum : k \in 1 .. Len(sel.segnums)}
           /\ ListOf(usage, sel.touched, sel.policy, sel.nongc_ctime, sel.candidates, NUsages)
           /\ Ranked /\ SelTypes
<1>0. SelTypes /\ ReadInv /\ ChoiceInv /\ sel.pc \in {"selected", "sleep"}
  BY DEF SelInv, SelDone
<1>1. /\ sel.candidates \in Seq(Rated) /\ Len(sel.candidates) \in Nat
      /\ DOMAIN sel.candidates = 1 .. Len(sel.candidates)
      /\ Len(sel.segnums) \in Nat /\ DOMAIN sel.segnums = 1 .. Len(sel.segnums)
      /\ sel.i \in Nat
  BY <1>0, SelFields, LenProperties
<1>2. /\ Len(sel.segnums) <= Len(sel.candidates)
      /\ \A k \in 1 .. Len(sel.segnums) : sel.segnums[k] = sel.candidates[k].segnum
  <2>1. CASE sel.policy = "segregation"
    <3>1. Taken(sel.candidates, sel.segnums, sel.accum, sel.i)
      BY <1>0, <2>1 DEF ChoiceInv
    <3>2. Len(sel.segnums) < sel.i /\ sel.i <= Len(sel.candidates) + 1
      BY <3>1 DEF Taken
    <3> QED  BY <1>1, <3>1, <3>2 DEF Taken
  <2>2. CASE sel.policy # "segregation"
    BY <1>0, <1>1, <2>2 DEF ChoiceInv, BestTwo
  <2> QED  BY <2>1, <2>2
<1>3. Chosen = {sel.candidates[k].segnum : k \in 1 .. Len(sel.segnums)}
  BY <1>1, <1>2 DEF Chosen, ToSet
<1>4. ListOf(usage, sel.touched, sel.policy, sel.nongc_ctime, sel.candidates, NUsages)
  <2>1. sel.si = <<>> /\ sel.segnum = NUsages
    BY <1>0 DEF ReadInv
  <2>2. NUsages - Len(<<>>) = NUsages
    BY SelSizes
  <2> QED  BY <1>0, <2>1, <2>2 DEF ReadInv
<1>5. Ranked
  BY <1>0 DEF ChoiceInv
<1> QED  BY <1>0, <1>1, <1>2, <1>3, <1>4, <1>5

\* A candidate that stayed as it was is in the list, with its rating.
LEMMA CandidateListed ==
    ASSUME SelInv, SelDone, NEW m \in Steady, IsCandidate(m)
    PROVE  \E k \in DOMAIN sel.candidates :
              /\ sel.candidates[k].segnum = m
              /\ sel.candidates[k] = Candidate([segnum |-> m, si |-> usage[m]])
              /\ sel.candidates[k].lastmod = usage[m].lastmod
<1>1. m \in Numbers /\ m \notin sel.touched /\ m < NUsages
  BY ChosenFirst, SelFields, SelSizes DEF Steady, Numbers
<1>2. MayChoose(usage[m], sel.policy, sel.nongc_ctime)
  BY <1>1, ChosenFirst, CandidateIs
<1>3. PICK k \in DOMAIN sel.candidates : sel.candidates[k].segnum = m
  BY <1>1, <1>2, ChosenFirst DEF ListOf
<1>4. sel.candidates[k] = RatingOf(m, usage[m], sel.nongc_ctime)
  BY <1>1, <1>3, ChosenFirst DEF ListOf
<1>5. sel.candidates[k].lastmod = usage[m].lastmod
  BY <1>4 DEF RatingOf
<1> QED  BY <1>1, <1>3, <1>4, <1>5, ChosenFirst, CandidateIs

\* And one that was chosen and stayed as it was is a candidate.
LEMMA ChosenListed ==
    ASSUME SelInv, SelDone, NEW n \in Chosen, n \in Steady
    PROVE  /\ IsCandidate(n)
           /\ \E k \in 1 .. Len(sel.segnums) :
                 /\ k \in DOMAIN sel.candidates /\ sel.candidates[k].segnum = n
                 /\ sel.candidates[k] = Candidate([segnum |-> n, si |-> usage[n]])
                 /\ sel.candidates[k].lastmod = usage[n].lastmod
                 /\ sel.candidates[k].live = live_blocks(n)
<1>1. PICK k \in 1 .. Len(sel.segnums) : sel.candidates[k].segnum = n
  BY ChosenFirst
<1>2. k \in DOMAIN sel.candidates /\ n \in Numbers /\ n \notin sel.touched
  BY <1>1, ChosenFirst, SelFields DEF Steady
<1>3. /\ MayChoose(usage[n], sel.policy, sel.nongc_ctime)
      /\ sel.candidates[k] = RatingOf(n, usage[n], sel.nongc_ctime)
  BY <1>1, <1>2, ChosenFirst DEF ListOf
<1>4. sel.candidates[k].lastmod = usage[n].lastmod /\ sel.candidates[k].live = live_blocks(n)
  BY <1>3 DEF RatingOf, live_blocks
<1> QED  BY <1>1, <1>2, <1>3, <1>4, ChosenFirst, CandidateIs

LEMMA BestFollows == SelInv => BestChosen
<1> SUFFICES ASSUME SelInv, SelDone PROVE
        /\ Len(sel.segnums) = Cardinality(Chosen)
        /\ \A n \in Chosen \cap Steady : IsCandidate(n)
        /\ sel.policy # "segregation" =>
             /\ Len(sel.segnums) <= 2
             /\ \A m \in Steady \ Chosen : IsCandidate(m) =>
                  /\ Len(sel.segnums) = 2
                  /\ \A n \in Chosen \cap Steady :
                       ~Higher(Candidate([segnum |-> m, si |-> usage[m]]),
                               Candidate([segnum |-> n, si |-> usage[n]]))
  BY DEF BestChosen
<1> DEFINE v == sel.candidates
           N == Len(sel.segnums)
<1>1. N = Cardinality(Chosen)
  <2> DEFINE f == [k \in 1 .. N |-> v[k].segnum]
  <2>0. N \in Nat /\ N <= Len(v) /\ Len(v) \in Nat /\ DOMAIN v = 1 .. Len(v)
    BY ChosenFirst
  <2>1. \A j, k \in 1 .. N : v[j].segnum = v[k].segnum => j = k
    <3>1. \A k \in 1 .. N : k \in DOMAIN v
      BY <2>0
    <3> QED  BY <3>1, ChosenFirst DEF ListOf
  <2>2. Chosen = {v[k].segnum : k \in 1 .. N}
    BY ChosenFirst
  <2>3. f \in Bijection(1 .. N, Chosen)
    BY <2>1, <2>2 DEF Bijection, Injection, Surjection, IsInjective
  <2>4. ExistsBijection(1 .. N, Chosen)
    BY <2>3 DEF ExistsBijection
  <2> QED  BY <2>0, <2>4, FS_CountingElements
<1>2. \A n \in Chosen \cap Steady : IsCandidate(n)
  BY ChosenListed
<1>3. ASSUME sel.policy # "segregation"
      PROVE  N <= 2
  <2>1. BestTwo /\ N \in Nat /\ Len(v) \in Nat
    BY <1>3, ChosenFirst DEF SelInv, SelDone, ChoiceInv
  <2> QED  BY <2>1 DEF BestTwo
<1>4. ASSUME sel.policy # "segregation", NEW m \in Steady \ Chosen, IsCandidate(m)
      PROVE  /\ N = 2
             /\ \A n \in Chosen \cap Steady :
                   ~Higher(Candidate([segnum |-> m, si |-> usage[m]]),
                           Candidate([segnum |-> n, si |-> usage[n]]))
  <2>0. N \in Nat /\ N <= Len(v) /\ Len(v) \in Nat /\ DOMAIN v = 1 .. Len(v) /\ BestTwo
    BY <1>4, ChosenFirst DEF SelInv, SelDone, ChoiceInv
  <2>1. PICK k \in DOMAIN v : v[k].segnum = m /\ v[k] = Candidate([segnum |-> m, si |-> usage[m]])
    BY <1>4, CandidateListed
  <2>2. k > N
    <3>1. k \notin 1 .. N
      BY <1>4, <2>1, ChosenFirst
    <3> QED  BY <2>0, <3>1
  <2>3. N = 2
    BY <2>0, <2>2 DEF BestTwo
  <2>4. ASSUME NEW n \in Chosen \cap Steady
        PROVE  ~Higher(Candidate([segnum |-> m, si |-> usage[m]]),
                       Candidate([segnum |-> n, si |-> usage[n]]))
    <3>1. PICK j \in 1 .. N : j \in DOMAIN v /\ v[j] = Candidate([segnum |-> n, si |-> usage[n]])
      BY <2>4, ChosenListed
    <3>2. j < k
      BY <2>0, <2>2, <3>1
    <3>3. compare(v[j], v[k])
      BY <2>1, <3>1, <3>2, ChosenFirst DEF Ranked
    <3>4. v[j] \in Rated /\ v[k] \in Rated /\ SelTypes
      BY <2>1, <3>1, ChosenFirst, RatedAt
    <3>5. ~Higher(v[k], v[j])
      BY <3>3, <3>4, CompareStrict
    <3> QED  BY <2>1, <3>1, <3>5
  <2> QED  BY <2>3, <2>4
<1> QED  BY <1>1, <1>2, <1>3, <1>4

LEMMA AgesFollow == SelInv => AgesNotMixed
<1> SUFFICES ASSUME SelInv, SelDone, sel.policy = "segregation", sel.touched = {} PROVE
        /\ Len(sel.accum) = Len(sel.segnums)
        /\ \A k \in DOMAIN sel.accum :
             /\ sel.accum[k] = live_blocks(sel.segnums[k]) + IF k = 1 THEN 0 ELSE sel.accum[k - 1]
             /\ k < Len(sel.accum) => sel.accum[k] < BLOCKS
        /\ \A n \in Chosen, m \in DOMAIN usage :
             IsCandidate(m) => usage[n].lastmod - usage[m].lastmod <= AgeWindow
        /\ \A m \in DOMAIN usage \ Chosen : IsCandidate(m) =>
             \/ accum_blocks >= BLOCKS \/ Len(sel.segnums) = PerCleanMax
             \/ \E n \in Chosen : usage[m].lastmod - usage[n].lastmod > AgeWindow
  BY DEF AgesNotMixed
<1> DEFINE v == sel.candidates
           N == Len(sel.segnums)
<1>0. N \in Nat /\ N <= Len(v) /\ Len(v) \in Nat /\ DOMAIN v = 1 .. Len(v) /\ SelTypes /\ Ranked
      /\ sel.accum \in Seq(Nat) /\ DOMAIN sel.accum = 1 .. Len(sel.accum) /\ AgeWindow \in Nat
      /\ PerCleanMax \in Nat /\ sel.i \in Nat
  BY ChosenFirst, SelFields, SelSizes, LenProperties
<1>1. Taken(v, sel.segnums, sel.accum, sel.i) /\ Ended
  BY DEF SelInv, SelDone, ChoiceInv
<1>2. Chosen \subseteq Steady /\ DOMAIN usage = Numbers /\ Steady = DOMAIN usage
  <2>1. DOMAIN usage = Numbers /\ Steady = DOMAIN usage
    BY <1>0, SelFields DEF Steady
  <2>2. \A k \in DOMAIN v : v[k].segnum \in Numbers
    BY ChosenFirst, RatedAt
  <2> QED  BY <1>0, <2>1, <2>2, ChosenFirst
<1>3. \A a, b \in DOMAIN v : a <= b => v[a].lastmod <= v[b].lastmod
  BY <1>0, OlderFirst
<1>4. \A k \in DOMAIN v : v[k].lastmod \in Nat
  BY ChosenFirst, RatedAt
<1>5. \A k \in 1 .. N : sel.segnums[k] \in Chosen /\ v[k].live = live_blocks(sel.segnums[k])
                        /\ v[k].lastmod = usage[sel.segnums[k]].lastmod
  <2> TAKE k \in 1 .. N
  <2>1. sel.segnums[k] = v[k].segnum /\ sel.segnums[k] \in Chosen /\ k \in DOMAIN v
    BY <1>0, ChosenFirst
  <2>2. v[k] = RatingOf(sel.segnums[k], usage[sel.segnums[k]], sel.nongc_ctime)
    BY <2>1, ChosenFirst DEF ListOf
  <2> QED  BY <2>1, <2>2 DEF RatingOf, live_blocks
<1>6. Len(sel.accum) = N
  BY <1>1 DEF Taken
<1>7. ASSUME NEW k \in DOMAIN sel.accum
      PROVE  /\ sel.accum[k] = live_blocks(sel.segnums[k]) + IF k = 1 THEN 0 ELSE sel.accum[k - 1]
             /\ k < Len(sel.accum) => sel.accum[k] < BLOCKS
  <2>1. k \in 1 .. N
    BY <1>0, <1>6
  <2> QED  BY <1>1, <1>5, <1>6, <2>1 DEF Taken
<1>8. ASSUME NEW n \in Chosen, NEW m \in DOMAIN usage, IsCandidate(m)
      PROVE  usage[n].lastmod - usage[m].lastmod <= AgeWindow
  <2>1. PICK j \in 1 .. N : j \in DOMAIN v /\ v[j].lastmod = usage[n].lastmod
    BY <1>2, ChosenListed
  <2>2. PICK k \in DOMAIN v : v[k].lastmod = usage[m].lastmod
    BY <1>2, <1>8, CandidateListed
  <2>3. ~outside_window(v[1], v[j])
    BY <1>1, <2>1 DEF Taken
  <2>4. 1 \in DOMAIN v /\ 1 <= k
    BY <1>0, <2>2
  <2>5. v[1].lastmod <= v[k].lastmod
    BY <1>3, <2>2, <2>4
  <2>6. v[1].lastmod \in Nat /\ v[j].lastmod \in Nat /\ v[k].lastmod \in Nat
    BY <1>4, <2>1, <2>2, <2>4
  <2>7. \A x, y, z \in Nat : ~(y - x > AgeWindow) /\ x <= z => y - z <= AgeWindow
    BY <1>0
  <2> QED  BY <2>1, <2>2, <2>3, <2>5, <2>6, <2>7 DEF outside_window
<1>9. ASSUME NEW m \in DOMAIN usage \ Chosen, IsCandidate(m),
             ~(accum_blocks >= BLOCKS), N # PerCleanMax
      PROVE  \E n \in Chosen : usage[m].lastmod - usage[n].lastmod > AgeWindow
  <2>1. PICK k \in DOMAIN v : v[k].segnum = m /\ v[k].lastmod = usage[m].lastmod
    BY <1>2, <1>9, CandidateListed
  <2>2. k > N
    <3>1. k \notin 1 .. N
      BY <1>9, <2>1, ChosenFirst
    <3> QED  BY <1>0, <2>1, <3>1
  <2>3. sel.i > Len(v)
    <3>1. N <= PerCleanMax
      BY <1>1 DEF Taken
    <3>2. ~(N >= PerCleanMax)
      BY <1>0, <1>9, <3>1
    <3> QED  BY <1>1, <1>9, <3>2 DEF Ended
  <2>4. outside_window(v[1], v[k])
    <3>1. k \in 1 .. Len(v) /\ N < k /\ k < sel.i
      BY <1>0, <2>1, <2>2, <2>3
    <3> QED  BY <1>1, <3>1 DEF Taken
  <2>5. 1 \in DOMAIN v /\ 1 <= k
    BY <1>0, <2>1
  <2>6. v[1].lastmod <= v[k].lastmod /\ v[1].lastmod \in Nat /\ v[k].lastmod \in Nat
    BY <1>3, <1>4, <2>1, <2>5
  <2>7. v[k].lastmod - v[1].lastmod > AgeWindow
    <3>1. \A x, y \in Nat : x <= y /\ x - y > AgeWindow => y - x > AgeWindow
      BY <1>0
    <3> QED  BY <2>4, <2>6, <3>1 DEF outside_window
  <2>8. N >= 1
    <3> SUFFICES ASSUME N = 0 PROVE FALSE
      BY <1>0
    <3>1. 1 \in 1 .. Len(v) /\ N < 1 /\ 1 < sel.i
      BY <1>0, <2>3, <2>5
    <3>2. outside_window(v[1], v[1])
      BY <1>1, <3>1 DEF Taken
    <3>3. \A x \in Nat : ~(x - x > AgeWindow)
      BY <1>0
    <3> QED  BY <2>6, <3>2, <3>3 DEF outside_window
  <2>9. sel.segnums[1] \in Chosen /\ v[1].lastmod = usage[sel.segnums[1]].lastmod
    BY <1>0, <1>5, <2>8
  <2> QED  BY <2>1, <2>7, <2>9
<1> QED  BY <1>6, <1>7, <1>8, <1>9

LEMMA WakesFollows == SelInv => WakesForOldest
<1> SUFFICES ASSUME SelInv, sel.pc = "sleep", NEW n \in Steady, reclaimable(usage[n]), protected(usage[n])
             PROVE  LET first == usage[n].lastmod + Protection + 1 - Now IN
                    /\ (\A m \in DOMAIN usage : reclaimable(usage[m]) => usage[m].lastmod >= usage[n].lastmod)
                       /\ sel.touched = {} => sel.timeout >= first
                    /\ sel.timeout <= IF first > CheckInterval THEN first ELSE CheckInterval
  BY DEF WakesForOldest
<1> DEFINE t == usage[n].lastmod
           o == sel.oldest
<1>0. SelTypes /\ DOMAIN usage = Numbers /\ n \in Numbers /\ n \notin sel.touched /\ n < NUsages
      /\ t \in Nat /\ o \in Nat
  <2>1. SelTypes /\ DOMAIN usage = Numbers /\ n \in Numbers /\ n \notin sel.touched /\ o \in Nat
    BY SelFields DEF SelInv, Steady
  <2>2. usage[n] \in Usages
    BY <2>1, SelFields
  <2>3. t \in Nat
    BY <2>2 DEF Usages
  <2>4. n < NUsages
    BY <2>1, SelSizes DEF Numbers
  <2> QED  BY <2>1, <2>3, <2>4
<1>1. OldestIs(usage, sel.touched, o, NUsages) /\ sel.timeout = idle_time
  BY DEF SelInv, ReadInv, ChoiceInv
<1>2. o <= t
  BY <1>0, <1>1 DEF OldestIs
<1>3. prottime <= t /\ t <= Now
  BY SelSizes, <1>0 DEF protected
<1>4. o # NULLTIME
  BY <1>0, <1>2, <1>3, SelSizes
<1> DEFINE tgt == IF o < Now THEN o ELSE Now
           pt  == IF tgt > prottime THEN tgt - prottime + 1 ELSE 1
<1>5. sel.timeout = IF pt < CheckInterval THEN CheckInterval ELSE pt
  BY <1>1, <1>4 DEF idle_time
<1>6. prottime = Now - Protection /\ Now \in Nat /\ Protection \in Nat /\ CheckInterval \in Nat
  BY SelSizes DEF prottime
<1> DEFINE first == t + Protection + 1 - Now
<1>7. sel.timeout <= IF first > CheckInterval THEN first ELSE CheckInterval
  <2> HIDE DEF t, o
  <2>1. pt <= first
    BY <1>0, <1>2, <1>3, <1>6
  <2>2. pt \in Int /\ first \in Int
    BY <1>0, <1>6
  <2> HIDE DEF pt, first
  <2> QED  BY <1>5, <1>6, <2>1, <2>2
<1>8. ASSUME \A m \in DOMAIN usage : reclaimable(usage[m]) => usage[m].lastmod >= t, sel.touched = {}
      PROVE  sel.timeout >= first
  <2>1. PICK m \in Numbers : reclaimable(usage[m]) /\ usage[m].lastmod = o
    BY <1>1, <1>4, <1>8 DEF OldestIs
  <2>2. o >= t
    BY <1>0, <1>8, <2>1
  <2>3. o = t
    BY <1>0, <1>2, <2>2
  <2> HIDE DEF t, o
  <2>4. pt >= first
    BY <1>0, <2>3, <1>3, <1>6
  <2>5. pt \in Int /\ first \in Int
    BY <1>0, <1>6
  <2> HIDE DEF pt, first
  <2> QED  BY <1>5, <1>6, <2>4, <2>5
<1> QED  BY <1>7, <1>8

\* Whatever the number of segments, their usages, the size of the chunks and
\* what changes meanwhile: nilfs_cleanerd_select_segments() chooses what its
\* policy ranks best among what may be chosen, the segregation policy never
\* mixes ages and goes on until a segment is filled, and a daemon that finds
\* nothing sleeps until the first segment may be chosen.
THEOREM SelectionIsSound == SelSpec => []SelectionSound
<1>1. SelInv => SelectionSound
  BY BestFollows, AgesFollow, WakesFollows DEF SelectionSound
<1> QED  BY <1>1, SelInitInv, SelNextInv, PTL DEF SelSpec
==============================================================================
