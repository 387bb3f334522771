----------------------------- MODULE SegmentIter -----------------------------
(***************************************************************************)
(* lib/segment.c: the iterators over the logs of a segment, the files of a *)
(* log and the blocks of a file, as nilfs_acc_blocks_segment() nests them. *)
(* Sizes are in units of 8 bytes.  No item of a summary crosses the end of *)
(* a block; where one would, the writer skips to the next block, and the   *)
(* iterators must find out where it did so.                                *)
(***************************************************************************)
EXTENDS Integers, SequencesExt

CONSTANTS
    SegBlkSizes,   \* block sizes
    SegHdrSizes,   \* sizes of the header of a summary (ss_bytes)
    SegFiles,      \* files of the logs written
    SegBadCounts,  \* block counts a damaged summary may show
    M32            \* stands for 2^32: block counts wrap around

VARIABLE
    iter           \* the segment read, and the three iterators

FINFO == 3         \* sizeof(struct nilfs_finfo)
dsize(dat) == IF dat THEN 1 ELSE 2    \* of a data block's binfo
nsize(dat) == IF dat THEN 2 ELSE 1    \* of a node block's
NILFS_PSEG_MIN_BLOCKS == 2

CeilDiv(a, b) == (a + b - 1) \div b

-----------------------------------------------------------------------------
(***************************************************************************)
(* Segments as they are written (external: segment construction).          *)
(***************************************************************************)
\* Where the next item goes.
Placed(B, off, size) == IF size > B - (off % B) THEN (off \div B + 1) * B ELSE off

\* The items of a file: its finfo, and a binfo for each block.
ItemSizes(f) ==
    <<FINFO>> \o [k \in 1 .. f.nb |-> IF k <= f.nd THEN dsize(f.dat) ELSE nsize(f.dat)]

\* Offsets of the items of all files, and the end of the summary.
Summary(B, hdr, files) ==
    LET put(acc, size) == LET o == Placed(B, acc.end, size)
                          IN [at |-> Append(acc.at, o), end |-> o + size]
        sizes == FlattenSeq([k \in DOMAIN files |-> ItemSizes(files[k])])
    IN FoldLeft(put, [at |-> <<>>, end |-> hdr], sizes)

\* Index of the first item of file k.
FirstItem(files, k) == 1 + FoldLeft(LAMBDA n, f : n + 1 + f.nb, 0, SubSeq(files, 1, k - 1))

\* A log: its summary, the blocks of its files, and a super root.
Log(B, hdr, files) ==
    LET sum == Summary(B, hdr, files) IN
    [nblocks  |-> CeilDiv(sum.end, B) + FoldLeft(LAMBDA n, f : n + f.nb, 0, files) + 1,
     sumbytes |-> sum.end, hdr |-> hdr, aligned |-> TRUE, sumsum |-> TRUE,
     nfinfo   |-> Len(files),
     \* what is read at the place of a finfo
     finfos   |-> [o \in {sum.at[FirstItem(files, k)] : k \in DOMAIN files} |->
                     files[CHOOSE k \in DOMAIN files : sum.at[FirstItem(files, k)] = o]],
     \* history: the blocks, by file, place of their binfo, and offset in the log
     blocks   |-> FlattenSeq([k \in DOMAIN files |-> [b \in 1 .. files[k].nb |->
                     [off |-> sum.at[FirstItem(files, k) + b], data |-> b <= files[k].nd,
                      at |-> CeilDiv(sum.end, B) + b - 1
                             + FoldLeft(LAMBDA n, f : n + f.nb, 0, SubSeq(files, 1, k - 1))]]])]

\* The summary with other counts in its only finfo, or a header of another
\* size, though the checksum is right.
Damaged(log, nb, nd, what) ==
    CASE what = "finfo"   -> [log EXCEPT !.finfos = [o \in DOMAIN @ |-> [@[o] EXCEPT !.nb = nb, !.nd = nd]]]
      [] what = "nfinfo"  -> [log EXCEPT !.nfinfo = nb]
      [] what = "nblocks" -> [log EXCEPT !.nblocks = nb]
      [] what = "header"  -> [log EXCEPT !.hdr = @ + nb]
      [] what = "aligned" -> [log EXCEPT !.aligned = FALSE]

\* A segment: the logs written since it was allocated, their blocks being
\* counted in the segment usage (sui_nblocks), and a log of an earlier use
\* in the blocks behind.  (A damaged log keeps its place.)
Segment(B, logs, old) ==
    LET used == FoldLeft(LAMBDA n, l : n + l.nblocks, 0, logs) IN
    [blksize |-> B, nblocks |-> used + old.nblocks, sui_nblocks |-> used,
     logs |-> logs, old |-> old]

\* The log that begins at a block of the segment.
LogStart(seg, k) == FoldLeft(LAMBDA n, l : n + l.nblocks, 0, SubSeq(seg.logs, 1, k - 1))
LogAt(seg, b) ==
    IF \E k \in DOMAIN seg.logs : LogStart(seg, k) = b
    THEN seg.logs[CHOOSE k \in DOMAIN seg.logs : LogStart(seg, k) = b]
    ELSE seg.old

-----------------------------------------------------------------------------
(***************************************************************************)
(* nilfs_psegment                                                          *)
(***************************************************************************)
\* nilfs_psegment_is_valid(): "no" for the end of the logs, or an error.
psegment_is_valid(seg, blocknr) ==
    LET log == LogAt(seg, blocknr)
        B   == seg.blksize
    IN CASE ~log.sumsum \/ blocknr * B + log.sumbytes >= seg.nblocks * B -> "no"
         [] ~log.aligned                                        -> "bad alignment"
         [] blocknr + log.nblocks > seg.nblocks                 -> "too big partial segment"
         [] log.hdr > log.sumbytes                              -> "too big summary header"
         [] CeilDiv(log.sumbytes, B) >= log.nblocks             -> "too big summary info"
         [] OTHER                                               -> "yes"

\* Mutation of psegment_left: what the segment usage says is not looked at.
psegment_left_all(seg, blocknr) == seg.nblocks - blocknr

\* blkcnt: the blocks left of those in use; nilfs_psegment_init(), _next().
psegment_left(seg, blocknr) ==
    IF blocknr <= seg.sui_nblocks THEN seg.sui_nblocks - blocknr ELSE 0

psegment_is_end(seg, blocknr) ==
    psegment_left(seg, blocknr) < NILFS_PSEG_MIN_BLOCKS \/ psegment_is_valid(seg, blocknr) # "yes"

(***************************************************************************)
(* nilfs_file                                                              *)
(***************************************************************************)
\* nilfs_file_adjust_finfo_position(), nilfs_block_adjust_binfo_position()
adjust_position(B, off, size) ==
    LET rest == B - (off % B) IN IF size > rest THEN off + rest ELSE off

\* Mutation of binfo_total_size: the rest of the first block is counted as
\* if items filled it.
binfo_total_size_dense(B, off, size, count) == (size * count) % (M32 \div 8)

\* nilfs_binfo_total_size(): products are 32 bits wide.
binfo_total_size(B, off, size, count) ==
    LET rest == B - (off % B)
        all  == (size * count) % (M32 \div 8)
        c    == (count - rest \div size) % M32
        per  == B \div size
    IN IF all <= rest THEN all
       ELSE rest + (c \div per) * B + (c % per) * size

\* nilfs_file_info_size()
file_info_size(B, off, fi) ==
    LET d1 == FINFO + binfo_total_size(B, off + FINFO, dsize(fi.dat), fi.nd)
    IN d1 + binfo_total_size(B, off + d1, nsize(fi.dat), (fi.nb - fi.nd) % M32)

\* What is read where no finfo was written.
Nothing == [dat |-> FALSE, nb |-> 0, nd |-> 0]
FinfoAt(log, off) == IF off \in DOMAIN log.finfos THEN log.finfos[off] ELSE Nothing

\* nilfs_file_init_from_finfo(), at an adjusted position.
FileAt(B, log, off, blocknr, index) ==
    LET fi == FinfoAt(log, off) IN
    [off |-> off, blocknr |-> blocknr, index |-> index, fi |-> fi,
     sumlen |-> IF off + FINFO > log.sumbytes THEN FINFO ELSE file_info_size(B, off, fi)]

\* nilfs_file_init()
file_init(B, log, blocknr) ==
    FileAt(B, log, adjust_position(B, log.hdr, FINFO), blocknr + CeilDiv(log.sumbytes, B), 0)

\* nilfs_file_next()
file_next(B, log, f) ==
    FileAt(B, log, adjust_position(B, f.off + f.sumlen, FINFO), f.blocknr + f.fi.nb, f.index + 1)

\* Mutation of file_error: the number of blocks is not checked.
file_error_unbounded(log, start, f) ==
    CASE f.off + f.sumlen > log.sumbytes -> "finfo/binfo overrun"
      [] f.fi.nd > f.fi.nb               -> "inconsistent block count"
      [] OTHER                           -> "none"

\* nilfs_file_is_valid()
file_error(log, start, f) ==
    CASE f.off + f.sumlen > log.sumbytes                        -> "finfo/binfo overrun"
      [] (f.blocknr - start + f.fi.nb) % M32 > log.nblocks      -> "too many payload blocks"
      [] f.fi.nd > f.fi.nb                                      -> "inconsistent block count"
      [] OTHER                                                  -> "none"

(***************************************************************************)
(* nilfs_block                                                             *)
(***************************************************************************)
binfosize(fi, index) == IF index < fi.nd THEN dsize(fi.dat) ELSE nsize(fi.dat)

\* nilfs_block_init()
block_init(B, f) ==
    [off |-> adjust_position(B, f.off + FINFO, binfosize(f.fi, 0)), blocknr |-> f.blocknr, index |-> 0]

\* Mutation of block_next: the position is adjusted for the binfo just read.
block_next_late(B, f, blk) ==
    [off |-> adjust_position(B, blk.off + binfosize(f.fi, blk.index), binfosize(f.fi, blk.index)),
     blocknr |-> blk.blocknr + 1, index |-> blk.index + 1]

\* nilfs_block_next()
block_next(B, f, blk) ==
    [off |-> adjust_position(B, blk.off + binfosize(f.fi, blk.index),
                                binfosize(f.fi, blk.index + 1)),
     blocknr |-> blk.blocknr + 1, index |-> blk.index + 1]

-----------------------------------------------------------------------------
NoSegment == [at |-> "none"]
NoFile == [off |-> 0, blocknr |-> 0, index |-> 0, fi |-> Nothing, sumlen |-> 0]
NoBlock == [off |-> 0, blocknr |-> 0, index |-> 0]

Reading(seg, healthy) ==
    [at |-> "pseg", seg |-> seg, healthy |-> healthy, blocknr |-> 0, file |-> NoFile,
     blk |-> NoBlock, seen |-> <<>>, error |-> "none"]

Small == [dat |-> FALSE, nb |-> 1, nd |-> 1]

SegInit ==
    \E B \in SegBlkSizes, hdr \in SegHdrSizes, f, g \in SegFiles :
        LET one == Log(B, hdr, <<f, g>>)
            two == Log(B, hdr, <<g>>)
        IN \/ iter = Reading(Segment(B, <<one, two>>, Log(B, hdr, <<Small>>)), TRUE)
           \/ /\ g = Small
              /\ \E nb, nd \in SegBadCounts, what \in {"finfo", "nfinfo", "nblocks", "header", "aligned"} :
                    /\ what # "finfo" => nd = 0
                    /\ LET seg == Segment(B, <<Log(B, hdr, <<f>>), two>>, Log(B, hdr, <<Small>>))
                       IN iter = Reading([seg EXCEPT !.logs[2] = Damaged(@, nb, nd, what)], FALSE)

SegOff == iter = NoSegment

blksize == iter.seg.blksize
curlog == LogAt(iter.seg, iter.blocknr)

\* nilfs_acc_blocks_segment(): the next log, or the end.
ReadPsegment ==
    /\ iter.at = "pseg"
    /\ iter' = IF psegment_is_end(iter.seg, iter.blocknr)
               THEN [iter EXCEPT !.at = "end", !.error =
                       IF /\ psegment_left(iter.seg, iter.blocknr) >= NILFS_PSEG_MIN_BLOCKS
                          /\ psegment_is_valid(iter.seg, iter.blocknr) # "no"
                       THEN psegment_is_valid(iter.seg, iter.blocknr) ELSE @]
               ELSE [iter EXCEPT !.at = "file", !.file = file_init(blksize, curlog, iter.blocknr)]

\* nilfs_acc_blocks_psegment(): the next file, or the end of the log.
ReadFile ==
    /\ iter.at = "file"
    /\ LET err == file_error(curlog, iter.blocknr, iter.file) IN
       iter' = IF iter.file.index >= curlog.nfinfo
               THEN [iter EXCEPT !.at = "pseg", !.blocknr = @ + curlog.nblocks]
               ELSE IF err # "none" THEN [iter EXCEPT !.at = "end", !.error = err]
               ELSE [iter EXCEPT !.at = "block", !.blk = block_init(blksize, iter.file)]

\* nilfs_acc_blocks_file(): the next block, or the end of the file.
ReadBlock ==
    /\ iter.at = "block"
    /\ iter' = IF iter.blk.index >= iter.file.fi.nb
               THEN [iter EXCEPT !.at = "file", !.file = file_next(blksize, curlog, iter.file)]
               ELSE [iter EXCEPT !.blk = block_next(blksize, iter.file, iter.blk),
                       !.seen = Append(@, [off |-> iter.blk.off, at |-> iter.blk.blocknr,
                                           data |-> iter.blk.index < iter.file.fi.nd])]

SegNext == ReadPsegment \/ ReadFile \/ ReadBlock

-----------------------------------------------------------------------------
\* What the logs hold: the blocks with the places of their binfos.
Written(seg) ==
    FlattenSeq([k \in DOMAIN seg.logs |->
        LET l == seg.logs[k] IN
        [j \in DOMAIN l.blocks |->
            [off |-> l.blocks[j].off, at |-> LogStart(seg, k) + l.blocks[j].at,
             data |-> l.blocks[j].data]]])

\* The iterators find every block of every log since the segment was
\* allocated, with its own binfo, wherever items were moved to the next
\* block; and nothing of what an earlier use left behind, though it is valid.
IterFindsAll ==
    iter # NoSegment /\ iter.at = "end" /\ iter.healthy =>
        iter.error = "none" /\ iter.seen = Written(iter.seg)

\* The checks are enough: with any counts in a damaged summary no binfo is
\* read outside it, and no block is reported that is not in the log.
IterStaysInside ==
    iter # NoSegment /\ iter.at = "block" /\ iter.blk.index < iter.file.fi.nb =>
        /\ iter.blk.off + binfosize(iter.file.fi, iter.blk.index) <= curlog.sumbytes
        /\ iter.blk.blocknr < iter.blocknr + curlog.nblocks
        /\ iter.blocknr + curlog.nblocks <= iter.seg.nblocks

\* The iterators of segment.c report what was written, and never step outside.
IterExact == IterFindsAll /\ IterStaysInside
=============================================================================
