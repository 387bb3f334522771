------------------------------ MODULE MkfsLayout ------------------------------
(***************************************************************************)
(* mkfs.nilfs2: the layout of a new file system, computed before anything  *)
(* is written, and the contents of its initial log, which have to fill     *)
(* that layout exactly.  Byte sizes are the real ones.                     *)
(***************************************************************************)
EXTENDS SegmentIter

CONSTANT
    MkInputs     \* [blocksize, bps, dev_size, rp]: options and devices

VARIABLE
    mk           \* struct nilfs_disk_info, nilfs_segment_info and nilfs_fs_info

SIZEOF == [inode |-> 128, checkpoint |-> 192, segment_usage |-> 16, dat_entry |-> 32,
           finfo |-> 24, binfo_v |-> 16, le64 |-> 8, summary |-> 64]
NILFS_MAX_INITIAL_INO == 11
NILFS_MAX_BMAP_ROOT_PTRS == 6
NILFS_CPFILE_FIRST_CHECKPOINT_OFFSET == 1
NILFS_SUFILE_FIRST_SEGMENT_USAGE_OFFSET == 2
NILFS_DISKHDR_SIZE == 4096
NILFS_DISK_ERASE_SIZE == 1048576
nr_initial_segments == 2

ROOT == 2
DAT == 3
CPFILE == 4
SUFILE == 5
IFILE == 6

\* The order in which main() adds the files.
FileOrder == <<ROOT, 7, 1, 8, 9, 10, IFILE, CPFILE, SUFILE, DAT>>

MkOff == mk = [stage |-> "off"]

\* parse_options() and its checks: what is refused leads to nothing.
MkInit ==
    \E in \in MkInputs :
        mk = [stage |-> "parsed", blocksize |-> in.blocksize, bps |-> in.bps,
              dev_size |-> in.dev_size, rp |-> in.rp]

MkFail(how) == mk' = [mk EXCEPT !.stage = how]

-----------------------------------------------------------------------------
(***************************************************************************)
(* The layout.                                                             *)
(***************************************************************************)
\* NILFS_SB2_OFFSET_BYTES: for less than 4096 bytes, a huge number.
sb2_offset(dev_size) ==
    IF dev_size < 4096 THEN 2^30 - 4096 ELSE ((dev_size \div 4096) - 1) * 4096

\* nilfs_min_nsegments()
nilfs_min_nsegments(rp, nsegments) ==
    LET reserved == (rp * nsegments + 99) \div 100
    IN (IF reserved > 8 THEN reserved ELSE 8) + 8

\* Mutation of nsegments_of: the segments extend to the end of the device.
nsegments_of_device(dev_size, blocksize, bps) == (dev_size \div blocksize) \div bps

nsegments_of(dev_size, blocksize, bps) == (sb2_offset(dev_size) \div blocksize) \div bps

\* init_disk_layout(), new_segment()
InitDiskLayout ==
    LET first == CeilDiv(NILFS_DISKHDR_SIZE, mk.blocksize)
        nsegs == nsegments_of(mk.dev_size, mk.blocksize, mk.bps)
    IN
    /\ mk.stage = "parsed"
    /\ IF \/ first + NILFS_PSEG_MIN_BLOCKS > mk.bps
          \/ nsegs < nilfs_min_nsegments(mk.rp, nsegs)
       THEN MkFail("refused")
       ELSE mk' = [stage |-> "files", blocksize |-> mk.blocksize, bps |-> mk.bps,
                   dev_size |-> mk.dev_size, rp |-> mk.rp,
                   first |-> first, nsegments |-> nsegs, start |-> first,
                   nblocks |-> 0, nfinfo |-> 0, files |-> <<>>, nvblocknrs |-> 0,
                   sumbytes |-> SIZEOF.summary, nblk_sum |-> CeilDiv(SIZEOF.summary, mk.blocksize)]

\* Mutation of count_blockgrouped: the bitmap block is forgotten.
count_blockgrouped_short(bs, size, n) == 1 + CeilDiv(n, bs \div size)

\* count_blockgrouped_file_blocks(): group descriptors, bitmap, entries.
count_blockgrouped(bs, size, n) == 1 + 1 + CeilDiv(n, bs \div size)

\* count_ifile_blocks(), count_cpfile_blocks(), ...
file_blocks(ino, bs, nvblocknrs) ==
    CASE ino = ROOT   -> 1
      [] ino = IFILE  -> count_blockgrouped(bs, SIZEOF.inode, NILFS_MAX_INITIAL_INO)
      [] ino = CPFILE -> CeilDiv(1 + NILFS_CPFILE_FIRST_CHECKPOINT_OFFSET - 1,
                                 bs \div SIZEOF.checkpoint)
      [] ino = SUFILE -> CeilDiv(nr_initial_segments + NILFS_SUFILE_FIRST_SEGMENT_USAGE_OFFSET,
                                 bs \div SIZEOF.segment_usage)
      [] ino = DAT    -> count_blockgrouped(bs, SIZEOF.dat_entry, nvblocknrs)
      [] OTHER        -> 0

\* __increment_segsum_size(): count items more, none across a block's end.
increment_items(bs, offset, size, count) ==
    LET rest == (bs - (offset % bs)) \div size
        per  == bs \div size
        c    == count - rest
    IN IF count <= rest THEN offset + size * count
       ELSE bs * (offset \div bs + 1 + c \div per) + (c % per) * size

\* Mutation of increment_segsum_size: the DAT file is like any other.
increment_segsum_alike(bs, offset, n, dat) ==
    increment_items(bs, increment_items(bs, offset, SIZEOF.finfo, 1), SIZEOF.binfo_v, n)

increment_segsum_size(bs, offset, n, dat) ==
    increment_items(bs, increment_items(bs, offset, SIZEOF.finfo, 1),
                    IF dat THEN SIZEOF.le64 ELSE SIZEOF.binfo_v, n)

\* add_file(), for the next file of main().
AddFile ==
    LET ino == FileOrder[Len(mk.files) + 1]
        n   == file_blocks(ino, mk.blocksize, mk.nvblocknrs)
        sum == IF n = 0 THEN mk.sumbytes
               ELSE increment_segsum_size(mk.blocksize, mk.sumbytes, n, ino = DAT)
    IN
    /\ mk.stage = "files" /\ Len(mk.files) < Len(FileOrder)
    /\ IF n > NILFS_MAX_BMAP_ROOT_PTRS THEN MkFail("internal error")
       ELSE mk' = [mk EXCEPT !.files = Append(@, [ino |-> ino, start |-> 0, nblocks |-> n]),
                !.nblocks = @ + n, !.sumbytes = sum,
                !.nfinfo = IF n > 0 THEN @ + 1 ELSE @,
                !.nvblocknrs = IF ino # DAT THEN @ + n ELSE @,
                !.nblk_sum = IF n > 0 THEN CeilDiv(sum, mk.blocksize) ELSE @]

\* Mutation of first_of: the summary blocks are not skipped.
first_of_segment(k) == mk.start + FoldLeft(LAMBDA n, f : n + f.nblocks, 0, SubSeq(mk.files, 1, k - 1))

\* Where the blocks of a file begin.
first_of(k) ==
    mk.start + mk.nblk_sum + FoldLeft(LAMBDA n, f : n + f.nblocks, 0, SubSeq(mk.files, 1, k - 1))

\* fix_disk_layout()
FixDiskLayout ==
    LET nblocks == mk.nblocks + mk.nblk_sum + 1
        towrite == mk.start + nblocks
        used    == SelectSeq(mk.files, LAMBDA f : f.ino \notin {DAT, SUFILE, CPFILE})
    IN
    /\ mk.stage = "files" /\ Len(mk.files) = Len(FileOrder)
    /\ IF nblocks > mk.bps THEN MkFail("refused")
       ELSE mk' = [stage |-> "fixed", nblocks |-> nblocks,
                   files |-> [k \in DOMAIN mk.files |->
                       IF mk.files[k].nblocks = 0 THEN mk.files[k]
                       ELSE [mk.files[k] EXCEPT !.start = first_of(k)]],
                   nblocks_used |-> FoldLeft(LAMBDA n, f : n + f.nblocks, 0, used),
                   nblocks_to_write |-> towrite,
                   nsegments_to_write |-> CeilDiv(towrite, mk.bps)]
                   @@ [x \in DOMAIN mk \ {"stage", "nblocks", "files"} |-> mk[x]]

-----------------------------------------------------------------------------
(***************************************************************************)
(* The contents.                                                           *)
(***************************************************************************)
FileOf(ino) == mk.files[CHOOSE k \in DOMAIN mk.files : mk.files[k].ino = ino]

\* Where prepare_ifile() finds the inode of a file that has none in the super
\* root or in the checkpoint.
IfileSlot(ino) ==
    LET per == mk.blocksize \div SIZEOF.inode
    IN [block |-> FileOf(IFILE).start + 2 + ino \div per, nr |-> ino % per]

\* init_nilfs(), prepare_segment() with prepare_dat(), prepare_sufile(),
\* prepare_cpfile() and prepare_ifile(), in this order; then the root
\* directory and the reserved files.
PrepareSegment ==
    LET usages == FileOf(SUFILE).nblocks * (mk.blocksize \div SIZEOF.segment_usage)
                  - NILFS_SUFILE_FIRST_SEGMENT_USAGE_OFFSET
        cps    == FileOf(CPFILE).nblocks * (mk.blocksize \div SIZEOF.checkpoint)
                  - NILFS_CPFILE_FIRST_CHECKPOINT_OFFSET
        inodes == (FileOf(IFILE).nblocks - 2) * (mk.blocksize \div SIZEOF.inode)
    IN
    /\ mk.stage = "fixed"
    /\ mk' = [mk EXCEPT !.stage = "commit"] @@
         [next |-> mk.bps, vblocknr |-> 1, sum_offset |-> SIZEOF.summary,
          dat |-> <<>>, dat_bitmap |-> {0}, dat_nfrees |-> mk.blocksize * 8 - 1,
          ifile_bitmap |-> 0 .. NILFS_MAX_INITIAL_INO - 1,
          sh |-> [ncleansegs |-> mk.nsegments - nr_initial_segments,
                  ndirtysegs |-> nr_initial_segments, last_alloc |-> mk.nsegments - 1],
          su_dirty |-> {s \in 0 .. usages - 1 : s < nr_initial_segments},
          su_nblocks |-> 0,
          cp_valid |-> {c \in 1 .. cps : c = 1},
          raw_inode |-> [f \in {mk.files[k].ino : k \in DOMAIN mk.files} |->
              CASE f \in {CPFILE, SUFILE, DAT} -> [block |-> mk.start + mk.nblocks - 1, nr |-> f]
                [] f = IFILE -> [block |-> FileOf(CPFILE).start,
                                 nr |-> NILFS_CPFILE_FIRST_CHECKPOINT_OFFSET]
                [] f < inodes /\ f \notin {CPFILE, SUFILE, DAT, IFILE} -> IfileSlot(f)
                [] OTHER -> [block |-> 0, nr |-> 0]],
          bmap |-> <<>>, items |-> <<>>]

\* map_segsum_info(): the place of the next item of the summary.
map_segsum_info(offset, size) ==
    IF size > mk.blocksize - (offset % mk.blocksize)
    THEN (offset \div mk.blocksize + 1) * mk.blocksize ELSE offset

\* The places of a finfo and of the binfos behind it.
SummaryPlaces(fi) ==
    LET size == IF fi.ino = DAT THEN SIZEOF.le64 ELSE SIZEOF.binfo_v
        put(acc, k) == LET o == map_segsum_info(acc.end, size)
                       IN [at |-> Append(acc.at, o), end |-> o + size]
        o == map_segsum_info(mk.sum_offset, SIZEOF.finfo)
    IN FoldLeft(put, [at |-> <<o>>, end |-> o + SIZEOF.finfo], [k \in 1 .. fi.nblocks |-> k])

\* assign_vblocknr(), for the blocks of a file: the entry must be free, and
\* its block must belong to the DAT file.
AssignFails(n) ==
    LET per == mk.blocksize \div SIZEOF.dat_entry IN
    \E v \in mk.vblocknr .. mk.vblocknr + n - 1 :
        v \in mk.dat_bitmap \/ v \div per >= FileOf(DAT).nblocks - 2

\* update_blocknr(), for the next file.
UpdateBlocknr ==
    LET fi == mk.files[Len(mk.bmap) + 1]
        n  == fi.nblocks
        p  == SummaryPlaces(fi)
        vs == [b \in 1 .. n |-> mk.vblocknr + b - 1]
    IN
    /\ mk.stage = "commit" /\ Len(mk.bmap) < Len(mk.files)
    /\ IF n = 0 THEN mk' = [mk EXCEPT !.bmap = Append(@, <<>>)]
       ELSE IF fi.ino = DAT
       THEN mk' = [mk EXCEPT !.bmap = Append(@, [b \in 1 .. n |-> fi.start + b - 1]),
                !.items = Append(@, p.at), !.sum_offset = p.end]
       ELSE IF AssignFails(n) THEN MkFail("internal error")
       ELSE mk' = [mk EXCEPT !.bmap = Append(@, vs), !.items = Append(@, p.at),
                !.sum_offset = p.end, !.vblocknr = @ + n,
                !.dat = @ \o [b \in 1 .. n |-> fi.start + b - 1],
                !.dat_bitmap = @ \cup {vs[b] : b \in 1 .. n}, !.dat_nfrees = @ - n]

\* commit_cpfile(), commit_sufile(), fill_in_checksums(), the reference to
\* the log, and commit_super_block(); BUG_ON() in erase_disk() comes next.
CommitSegment ==
    /\ mk.stage = "commit" /\ Len(mk.bmap) = Len(mk.files)
    /\ mk' = [mk EXCEPT !.stage = "formatted", !.su_nblocks = mk.nblocks]
             @@ [cp |-> [inodes |-> 1, blocks |-> mk.nblocks_used, nblk_inc |-> mk.nblocks],
                 su_segnum |-> FileOf(SUFILE).start \div mk.bps,
                 sb |-> [last_pseg |-> mk.start, last_seq |-> 0, last_cno |-> 1,
                         free_blocks |-> mk.bps * (mk.nsegments - mk.nsegments_to_write)]]

\* The size of the area erase_disk() clears at each end.
EraseDisk ==
    /\ mk.stage = "formatted"
    /\ LET end == mk.dev_size - (mk.dev_size % 512) IN
       MkFail(IF end < NILFS_DISK_ERASE_SIZE THEN "aborted" ELSE "written")

MkNext ==
    InitDiskLayout \/ AddFile \/ FixDiskLayout \/ PrepareSegment \/ UpdateBlocknr
    \/ CommitSegment \/ EraseDisk

\* The new segment is read by the iterators: what they have to find are the
\* blocks of the files, at the places where mkfs put their binfos.
WithItems == SelectSeq(mk.files, LAMBDA f : f.nblocks > 0)
MkfsLog ==
    [nblocks |-> mk.nblocks, sumbytes |-> mk.sumbytes \div 8, hdr |-> SIZEOF.summary \div 8,
     aligned |-> TRUE, sumsum |-> TRUE, nfinfo |-> mk.nfinfo,
     finfos |-> [o \in {mk.items[k][1] \div 8 : k \in DOMAIN mk.items} |->
        LET f == WithItems[CHOOSE k \in DOMAIN mk.items : mk.items[k][1] \div 8 = o]
        IN [dat |-> f.ino = DAT, nb |-> f.nblocks, nd |-> f.nblocks]],
     blocks |-> FlattenSeq([k \in DOMAIN mk.items |-> [b \in 1 .. WithItems[k].nblocks |->
        [off |-> mk.items[k][b + 1] \div 8, data |-> TRUE,
         at |-> WithItems[k].start - mk.start + b - 1]]])]

ReadNewSegment ==
    /\ mk.stage = "written" /\ iter = NoSegment
    /\ iter' = Reading([blksize |-> mk.blocksize \div 8, nblocks |-> mk.bps - mk.first,
                        sui_nblocks |-> mk.su_nblocks, logs |-> <<MkfsLog>>, old |-> MkfsLog], TRUE)
    /\ UNCHANGED mk

-----------------------------------------------------------------------------
MkDone == mk.stage \in {"formatted", "written"}

\* The summary fills the space reserved for it while the files were added,
\* and ends before their first block.
MkfsSummaryFits ==
    MkDone => /\ mk.sum_offset = mk.sumbytes
              /\ mk.sum_offset <= mk.nblk_sum * mk.blocksize

\* Every block of every file is found through its inode: directly for the
\* DAT file, for the others through an entry of their own in the DAT, which
\* is marked in use; no two files share a block or an inode slot, and none
\* has a block of the summary or of the super root.
MkfsMapsBlocks ==
    MkDone =>
        LET blocks(k) == {mk.files[k].start + b - 1 : b \in 1 .. mk.files[k].nblocks} IN
        /\ \A k \in DOMAIN mk.files : \A b \in 1 .. mk.files[k].nblocks :
              (IF mk.files[k].ino = DAT THEN mk.bmap[k][b] ELSE mk.dat[mk.bmap[k][b]])
                  = mk.files[k].start + b - 1
        /\ mk.dat_bitmap = 0 .. Len(mk.dat)
        /\ mk.dat_nfrees + Cardinality(mk.dat_bitmap) = mk.blocksize * 8
        /\ \A k, j \in DOMAIN mk.files :
              /\ blocks(k) \subseteq mk.start + mk.nblk_sum .. mk.start + mk.nblocks - 2
              /\ k # j => /\ blocks(k) \cap blocks(j) = {}
                          /\ mk.raw_inode[mk.files[k].ino] # mk.raw_inode[mk.files[j].ino]
              /\ mk.raw_inode[mk.files[k].ino].block >= mk.start + mk.nblk_sum

\* The initial log stays in the first segment, behind the primary super
\* block; the segments end before the secondary one (also where the size of
\* the device is no multiple of anything); the counters agree.
MkfsInsideDevice ==
    mk.stage = "written" =>
        /\ mk.first * mk.blocksize >= 2 * 1024
        /\ mk.start + mk.nblocks <= mk.bps /\ mk.nsegments_to_write = 1
        /\ mk.nsegments * mk.bps * mk.blocksize <= sb2_offset(mk.dev_size)
        /\ mk.sh.ncleansegs + mk.sh.ndirtysegs = mk.nsegments
        /\ mk.su_dirty = 0 .. mk.sh.ndirtysegs - 1 /\ mk.su_segnum = 0 /\ mk.cp_valid = {1}
        /\ mk.next >= mk.start + mk.nblocks

\* No option and no device leads to an internal error; to an assertion, only a
\* device of less than 1 MiB.
MkfsNoInternalError ==
    /\ mk.stage # "internal error"
    /\ mk.stage = "aborted" => mk.dev_size < NILFS_DISK_ERASE_SIZE

\* Layout and contents mkfs computes agree with each other and with the device.
MkfsSound == MkfsSummaryFits /\ MkfsMapsBlocks /\ MkfsInsideDevice /\ MkfsNoInternalError
===============================================================================
