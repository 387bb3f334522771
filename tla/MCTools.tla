------------------------------- MODULE MCTools -------------------------------
(***************************************************************************)
(* The parts that run to their end by themselves: a behaviour is one run   *)
(* of one of them, the others staying as they are.  The segment mkfs       *)
(* writes is read by the iterators.                                        *)
(***************************************************************************)
EXTENDS CpEnum, MkfsLayout, SuperBlock, MkfsWrite, Selection, FsOpen, CldConfig,
        GcBlocks, Vector

\* All the checkpoints are snapshots, or every other one; none is minor, or
\* every third one.
McSnapshots == {1 .. 16, {c \in 1 .. 16 : c % 2 = 0}}
McMinors == {{}, {c \in 1 .. 16 : c % 3 = 0}}

\* Files with up to five blocks, up to two of them nodes.
McFiles == {f \in [dat : BOOLEAN, nb : {1, 2, 3, 5}, nd : 0 .. 4] : f.nd <= f.nb /\ f.nb - f.nd <= 2}

\* Small and odd block and segment sizes; devices around the limits.
McMkInputs ==
    [blocksize : {1024, 2048, 4096, 65536}, bps : {16, 32, 2048}, rp : {1, 5, 60, 99},
     dev_size : {0, 4096, 300000, 1048575, 1048576, 1050000, 20000000, 21474836, 400000000}]

Word(neg, name) == [neg |-> neg, name |-> name]
McEdits ==
    {<<>>, <<Word(FALSE, "block_count")>>, <<Word(TRUE, "FEATURE_R5")>>, <<Word(FALSE, "none")>>,
     <<Word(FALSE, "block_count"), Word(FALSE, "FEATURE_I3")>>,
     <<Word(TRUE, "block_count"), Word(FALSE, "typo")>>}

McLogBlocks == <<"log1", "log2">>

\* In use; old, at both ends of the protection period, and in the future.
McUsages ==
    {[st |-> "active", lastmod |-> 2, live |-> 1, seqprot |-> FALSE]}
    \cup {[st |-> "dirty", lastmod |-> x[1], live |-> x[2], seqprot |-> x[3]] :
            x \in {<<0, 1, FALSE>>, <<2, 3, FALSE>>, <<3, 2, TRUE>>, <<7, 2, FALSE>>,
                   <<9, 2, FALSE>>, <<12, 1, FALSE>>}}

\* A device with two names, and another one.
McFsReal == [sda |-> "a", link |-> "a", sdb |-> "b"]

McGeom == [nsegments |-> 21, blocksize |-> 4096, bps |-> 16]
McOverride == {ULONG_MAX, 0, 7}
Line(kw, ok, arg) == [kw |-> kw, ok |-> ok, arg |-> arg]
Sz(num, unit) == [num |-> num, unit |-> unit]
\* Good and bad lines in an order that matters.
McConfFiles ==
    {<<>>,
     <<Line("protection_period", TRUE, 60), Line("use_set_suinfo", TRUE, 0),
       Line("nsegments_per_clean", TRUE, 40)>>,
     <<Line("use_set_suinfo", TRUE, 0), Line("cleaning_interval", FALSE, 0),
       Line("selection_policy", TRUE, "greedy")>>,
     <<Line("min_clean_segments", TRUE, Sz(130, "KiB")), Line("min_clean_segments", TRUE, Sz(101, "%")),
       Line("typo", TRUE, 0), Line("selection_policy", TRUE, "segregation"),
       Line("selection_policy", FALSE, 0)>>,
     <<Line("max_clean_segments", TRUE, Sz(1030, "MiB")),
       Line("min_reclaimable_blocks", TRUE, Sz(65, "KiB"))>>,
     <<Line("nsegments_per_clean", TRUE, 3), Line("nsegments_per_clean", FALSE, 0),
       Line("cleaning_interval", TRUE, 1), Line("min_clean_segments", TRUE, Sz(7, "none")),
       Line("max_clean_segments", TRUE, Sz(3, "MB"))>>}

\* File blocks replaced at once, soon and late, and never; blocks of sufile.
McBlockKinds ==
    {[cno |-> x[1], ps |-> x[1], pe |-> x[2]] : x \in {<<1, 2>>, <<2, 4>>, <<2, 99>>, <<3, 3>>, <<1, 7>>, <<6, 8>>}}
    \cup {[cno |-> 0, ps |-> 2, pe |-> e] : e \in {3, 99}}

segVars == <<iter, mk>>
sbVars == <<sbs, tune>>
selVars == <<usage, sel>>
cldVars == <<conffile, cld>>
toolVars == <<cpVars, segVars, sbVars, mkwVars, odev, selVars, fsoVars, cldVars, gcb, vec>>

Init ==
    \/ CpInit /\ SegOff /\ MkOff /\ SbOff /\ MkwOff /\ OdevOff /\ SelOff /\ FsoOff /\ CldOff /\ GcbOff /\ VecOff
    \/ CpOff /\ SegInit /\ MkOff /\ SbOff /\ MkwOff /\ OdevOff /\ SelOff /\ FsoOff /\ CldOff /\ GcbOff /\ VecOff
    \/ CpOff /\ SegOff /\ MkInit /\ SbOff /\ MkwOff /\ OdevOff /\ SelOff /\ FsoOff /\ CldOff /\ GcbOff /\ VecOff
    \/ CpOff /\ SegOff /\ MkOff /\ SbInit /\ MkwOff /\ SelOff /\ FsoOff /\ CldOff /\ GcbOff /\ VecOff
    \/ CpOff /\ SegOff /\ MkOff /\ SbOff /\ MkwInit /\ SelOff /\ FsoOff /\ CldOff /\ GcbOff /\ VecOff
    \/ CpOff /\ SegOff /\ MkOff /\ SbOff /\ MkwOff /\ OdevOff /\ SelInit /\ FsoOff /\ CldOff /\ GcbOff /\ VecOff
    \/ CpOff /\ SegOff /\ MkOff /\ SbOff /\ MkwOff /\ OdevOff /\ SelOff /\ FsoInit /\ CldOff /\ GcbOff /\ VecOff
    \/ CpOff /\ SegOff /\ MkOff /\ SbOff /\ MkwOff /\ OdevOff /\ SelOff /\ FsoOff /\ CldInit /\ GcbOff /\ VecOff
    \/ CpOff /\ SegOff /\ MkOff /\ SbOff /\ MkwOff /\ OdevOff /\ SelOff /\ FsoOff /\ CldOff /\ GcbInit /\ VecOff
    \/ CpOff /\ SegOff /\ MkOff /\ SbOff /\ MkwOff /\ OdevOff /\ SelOff /\ FsoOff /\ CldOff /\ GcbOff /\ VecInit

Next ==
    \/ CpNext /\ UNCHANGED <<segVars, sbVars, mkwVars, odev, selVars, fsoVars, cldVars, gcb, vec>>
    \/ SegNext /\ UNCHANGED <<cpVars, mk, sbVars, mkwVars, odev, selVars, fsoVars, cldVars, gcb, vec>>
    \/ MkNext /\ UNCHANGED <<cpVars, iter, sbVars, mkwVars, odev, selVars, fsoVars, cldVars, gcb, vec>>
    \/ ReadNewSegment /\ UNCHANGED <<cpVars, sbVars, mkwVars, odev, selVars, fsoVars, cldVars, gcb, vec>>
    \/ SbNext /\ UNCHANGED <<cpVars, segVars, mkwVars, selVars, fsoVars, cldVars, gcb, vec>>
    \/ MkwNext /\ UNCHANGED <<cpVars, segVars, sbVars, selVars, fsoVars, cldVars, gcb, vec>>
    \/ SelNext /\ UNCHANGED <<cpVars, segVars, sbVars, mkwVars, odev, fsoVars, cldVars, gcb, vec>>
    \/ FsoNext /\ UNCHANGED <<cpVars, segVars, sbVars, mkwVars, odev, selVars, cldVars, gcb, vec>>
    \/ CldNext /\ UNCHANGED <<cpVars, segVars, sbVars, mkwVars, odev, selVars, fsoVars, gcb, vec>>
    \/ GcbNext /\ UNCHANGED <<cpVars, segVars, sbVars, mkwVars, odev, selVars, fsoVars, cldVars, vec>>
    \/ VecNext /\ UNCHANGED <<cpVars, segVars, sbVars, mkwVars, odev, selVars, fsoVars, cldVars, gcb>>

Spec == Init /\ [][Next]_toolVars /\ CpFairness
===============================================================================
