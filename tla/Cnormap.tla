------------------------------- MODULE Cnormap -------------------------------
(***************************************************************************)
(* The checkpoint number reverse mapper (lib/cnormap.c): the cleaner asks  *)
(* which checkpoint was the oldest one taken within the protection period. *)
(* The mapper keeps a history of spans of checkpoints, newest first, and   *)
(* extends or trims it from call to call, while checkpoints are made and   *)
(* deleted and the system's clock may be set back.                         *)
(***************************************************************************)
EXTENDS Integers, SequencesExt

CONSTANTS
    Period,             \* periods the mapper is asked for, in seconds
    NcpPerSpan,         \* NCP_PER_SPAN
    MaxClock,           \* when the monotonic clock stops
    MaxCno,             \* last checkpoint made
    MaxBack,            \* how far the clock may be set back, all in all
    MaxRewind,          \* how often
    MaxFail             \* how many calls fail half way

ASSUME CnormapAssumption ==
    /\ Period \subseteq Nat
    /\ NcpPerSpan \in Nat \ {0}
    /\ MaxClock \in Nat /\ MaxCno \in Nat /\ MaxBack \in Nat /\ MaxRewind \in Nat
    /\ MaxFail \in Nat

VARIABLES
    clock,      \* monotonic clock
    back,       \* by how much the realtime clock lags behind it
    cps,        \* checkpoint number -> its creation time, by either clock
    next_cno,   \* cs_cno of nilfs_cpstat: the number of the next checkpoint
    cphist,     \* spans of checkpoints, newest first
    cphist_elapsed_time, base_time, base_clock,
    last,       \* the call that was just made
    rewinds, fails

mapVars == <<cphist, cphist_elapsed_time, base_time, base_clock>>
fsVars == <<clock, back, cps, next_cno, rewinds>>
vars == <<clock, back, cps, next_cno, cphist, cphist_elapsed_time, base_time,
          base_clock, last, rewinds, fails>>

CNO_MIN == 1
CNO_MAX == MaxCno + 1
INTERVAL_ON_REWIND == 1
realtime == clock - back

Cptime == [cno : CNO_MIN .. MaxCno, time : -MaxBack .. MaxClock]
Cpspan == [start : Cptime, end : Cptime, approx_ncp : Nat \ {0}]
Cpinfo == [create : -MaxBack .. MaxClock, born : 0 .. MaxClock]

\* No call: what last is set to by every other step.
NoCall == [period |-> 0, cno |-> CNO_MAX, how |-> "none"]

TypeOK ==
    /\ clock \in 0 .. MaxClock /\ back \in 0 .. MaxBack
    /\ next_cno \in CNO_MIN .. CNO_MAX
    /\ DOMAIN cps \subseteq CNO_MIN .. next_cno - 1
    /\ \A c \in DOMAIN cps : cps[c] \in Cpinfo
    /\ cphist \in Seq(Cpspan)
    /\ cphist_elapsed_time \in Nat
    /\ base_time \in -MaxBack .. MaxClock /\ base_clock \in 0 .. MaxClock
    /\ last.period \in Period \cup {0} /\ last.cno \in CNO_MIN .. CNO_MAX
    /\ rewinds \in 0 .. MaxRewind /\ fails \in 0 .. MaxFail

\* nilfs_cnormap_create: an empty history.
Init ==
    /\ clock = 0 /\ back = 0
    /\ cps = <<>> /\ next_cno = CNO_MIN
    /\ cphist = <<>> /\ cphist_elapsed_time = 0
    /\ base_time = 0 /\ base_clock = 0
    /\ last = NoCall
    /\ rewinds = 0 /\ fails = 0

-----------------------------------------------------------------------------
(* The file system and the clocks around the mapper.                       *)

Tick ==
    /\ clock < MaxClock
    /\ clock' = clock + 1
    /\ last' = NoCall
    /\ UNCHANGED <<mapVars, back, cps, next_cno, rewinds, fails>>

SetBack ==
    /\ rewinds < MaxRewind
    /\ \E b \in back + 1 .. MaxBack : back' = b
    /\ rewinds' = rewinds + 1
    /\ last' = NoCall
    /\ UNCHANGED <<mapVars, clock, cps, next_cno, fails>>

MakeCheckpoint ==
    /\ next_cno <= MaxCno
    /\ cps' = [c \in DOMAIN cps \cup {next_cno} |->
                  IF c = next_cno THEN [create |-> realtime, born |-> clock] ELSE cps[c]]
    /\ next_cno' = next_cno + 1
    /\ last' = NoCall
    /\ UNCHANGED <<mapVars, clock, back, rewinds, fails>>

DeleteCheckpoint ==
    /\ \E c \in DOMAIN cps : cps' = [k \in DOMAIN cps \ {c} |-> cps[k]]
    /\ last' = NoCall
    /\ UNCHANGED <<mapVars, clock, back, next_cno, rewinds, fails>>

-----------------------------------------------------------------------------
(* The callbacks, on the history and the scan context.                     *)

Cp(c) == [cno |-> c, time |-> cps[c].create]
NewSpan(cp) == [start |-> cp, end |-> cp, approx_ncp |-> 1]
oldest(hist) == hist[Len(hist)]

\* Mutation of gap_of_spans: a clock set back counts with its difference.
gap_signed(from, to) == to - from

gap_of_spans(from, to) == IF to >= from THEN to - from ELSE INTERVAL_ON_REWIND

\* nilfs_cpinfo_scan_backward, first checkpoint of a new history.
ScanFirst(ctx, cp) ==
    LET age == IF ctx.time > cp.time THEN ctx.time - cp.time ELSE 0
        new == [ctx EXCEPT !.hist = <<NewSpan(cp)>>, !.elapsed = 0]
    IN IF ctx.period < age
       THEN [new EXCEPT !.state = "done"]
       ELSE [new EXCEPT !.period = @ - age, !.state = "normal", !.min = cp.cno]

\* Mutation of ScanBackward: the checkpoint that is too old is included.
ScanBackwardIncl(ctx, cp) ==
    LET span == oldest(ctx.hist)
        elapsed == ctx.elapsed + gap_of_spans(cp.time, span.start.time)
        joins == cp.time <= span.start.time /\ span.approx_ncp < NcpPerSpan
    IN [ctx EXCEPT !.hist = IF joins THEN [@ EXCEPT ![Len(@)] =
                                [span EXCEPT !.start = cp, !.approx_ncp = @ + 1]]
                            ELSE Append(@, NewSpan(cp)),
                   !.elapsed = elapsed, !.min = cp.cno,
                   !.state = IF elapsed > ctx.period THEN "done" ELSE @]

\* nilfs_cpinfo_scan_backward, an older checkpoint: it joins the oldest span
\* or starts an older one, and ends the scan once the period is exceeded.
ScanBackward(ctx, cp) ==
    LET span == oldest(ctx.hist)
        elapsed == ctx.elapsed + gap_of_spans(cp.time, span.start.time)
        same == cp.time = span.start.time
        joins == same \/ (cp.time < span.start.time /\ span.approx_ncp < NcpPerSpan)
        done == ~same /\ elapsed > ctx.period
    IN [ctx EXCEPT !.hist = IF joins THEN [@ EXCEPT ![Len(@)] =
                                [span EXCEPT !.start = cp, !.approx_ncp = @ + 1]]
                            ELSE Append(@, NewSpan(cp)),
                   !.elapsed = IF same THEN @ ELSE elapsed,
                   !.min = IF done THEN @ ELSE cp.cno,
                   !.state = IF done THEN "done" ELSE @]

nilfs_cpinfo_scan_backward(ctx, cp) ==
    CASE ctx.state = "init" -> ScanFirst(ctx, cp)
      [] ctx.state = "normal" -> ScanBackward(ctx, cp)
      [] ctx.state = "done" -> ctx

\* Mutation of nilfs_cpinfo_scan_forward: the elapsed time is not kept.
scan_forward_lost(ctx, cp) ==
    LET span == ctx.hist[1]
        elapsed == ctx.elapsed + gap_of_spans(span.end.time, cp.time)
        joins == cp.time >= span.end.time /\ span.approx_ncp < NcpPerSpan
        done == elapsed >= ctx.period
    IN IF ctx.state = "done" THEN ctx ELSE
       [ctx EXCEPT !.hist = IF joins THEN [@ EXCEPT ![1] =
                                [span EXCEPT !.end = cp, !.approx_ncp = @ + 1]]
                            ELSE <<NewSpan(cp)>> \o @,
                   !.min = IF done THEN cp.cno ELSE @,
                   !.state = IF done THEN "done" ELSE @]

\* A newer checkpoint joins the newest span or starts a newer one; the first
\* one at or after the period's end is the answer.
nilfs_cpinfo_scan_forward(ctx, cp) ==
    LET span == ctx.hist[1]
        elapsed == ctx.elapsed + gap_of_spans(span.end.time, cp.time)
        same == cp.time = span.end.time
        joins == same \/ (cp.time > span.end.time /\ span.approx_ncp < NcpPerSpan)
        done == ~same /\ elapsed >= ctx.period
    IN IF ctx.state = "done" THEN ctx ELSE
       [ctx EXCEPT !.hist = IF joins THEN [@ EXCEPT ![1] =
                                [span EXCEPT !.end = cp, !.approx_ncp = @ + 1]]
                            ELSE <<NewSpan(cp)>> \o @,
                   !.elapsed = IF same THEN @ ELSE elapsed,
                   !.min = IF done THEN cp.cno ELSE @,
                   !.state = IF done THEN "done" ELSE @]

\* What nilfs_enum_cpinfo_backward and _forward hand to the callback, given
\* the first number (see CpEnum for how they find it).
Forward(from) ==
    LET s == SelectSeq([i \in 1 .. MaxCno |-> i], LAMBDA c : c \in DOMAIN cps /\ c >= from)
    IN [i \in DOMAIN s |-> Cp(s[i])]

Backward(from) == Reverse(SelectSeq(Forward(CNO_MIN), LAMBDA cp : cp.cno <= from))

\* The outcomes of a scan: complete, or broken off by an ioctl or an
\* allocation that fails before the scan is done.
Scans(op(_, _), ctx, seq) ==
    {[ok |-> TRUE, ctx |-> FoldLeft(op, ctx, seq)]} \cup
    IF fails = MaxFail THEN {} ELSE
    {s \in {[ok |-> FALSE, ctx |-> FoldLeft(op, ctx, SubSeq(seq, 1, k))] :
               k \in 0 .. Len(seq)} : s.ctx.state # "done"}

-----------------------------------------------------------------------------
(* nilfs_cnormap_track_back(period), one action for each of its ways.      *)

cphist_offset ==
    (clock - base_clock) +
    IF base_time > cphist[1].end.time THEN base_time - cphist[1].end.time ELSE 0

Context(time, period, state, min) ==
    [hist |-> cphist, elapsed |-> cphist_elapsed_time, time |-> time,
     period |-> period, state |-> state, min |-> min]

\* What a scan leaves in the mapper, and the answer if it succeeded.
Finish(p, how, s) ==
    /\ cphist' = s.ctx.hist
    /\ cphist_elapsed_time' = s.ctx.elapsed
    /\ fails' = fails + IF s.ok THEN 0 ELSE 1
    /\ last' = [period |-> p, cno |-> s.ctx.min, how |-> IF s.ok THEN how ELSE "failed"]
    /\ UNCHANGED fsVars

Rebase ==
    /\ base_time' = realtime
    /\ base_clock' = clock

TrackNothing(p) ==
    /\ p = 0
    /\ last' = [period |-> p, cno |-> CNO_MAX, how |-> "zero"]
    /\ UNCHANGED <<mapVars, fsVars, fails>>

\* nilfs_cnormap_cphist_init, on an empty history or one that is too old.
nilfs_cnormap_cphist_init(p) ==
    /\ p > 0
    /\ cphist # <<>> => p < cphist_offset \div 2
    /\ \E s \in Scans(nilfs_cpinfo_scan_backward,
                      [Context(realtime, p, "init", CNO_MAX) EXCEPT !.hist = <<>>, !.elapsed = 0],
                      Backward(next_cno - 1)) :
          /\ Finish(p, "init", s)
          /\ IF s.ctx.state = "init" THEN UNCHANGED <<base_time, base_clock>> ELSE Rebase

\* The history ends before the period: its newest span is extended.
nilfs_cnormap_cphist_extend_forward(p) ==
    /\ p > 0 /\ cphist # <<>>
    /\ p >= cphist_offset \div 2 /\ p < cphist_offset
    /\ \E s \in Scans(nilfs_cpinfo_scan_forward,
                      [Context(0, cphist_offset - p, "normal", CNO_MAX) EXCEPT
                          !.hist = <<cphist[1]>>,
                          !.elapsed = IF Len(cphist) > 1
                                      THEN cphist[1].end.time - cphist[1].start.time ELSE @],
                      Forward(cphist[1].end.cno + 1)) :
          Finish(p, "forward", s) /\ Rebase

\* Distance of the start of span i from the start of the history.
Delta(i) ==
    LET D[k \in 1 .. Len(cphist)] ==
          IF k = Len(cphist) THEN 0
          ELSE D[k + 1] + (cphist[k + 1].end.time - cphist[k + 1].start.time)
                        + gap_of_spans(cphist[k + 1].end.time, cphist[k].start.time)
    IN D[i]

width(i) == cphist[i].end.time - cphist[i].start.time

\* Mutation of FindInSpan: the span's end is the answer.
FindInSpanEnd(i, t) ==
    [min |-> cphist[i].end.cno, start |-> cphist[i].start, ncp |-> cphist[i].approx_ncp]

\* nilfs_cpinfo_find over the checkpoints of span i: the first one at time t
\* or later, the span's end if that was deleted; the span then starts at the
\* last one before t.
FindInSpan(i, t) ==
    LET span == cphist[i]
        left == SelectSeq(Forward(span.start.cno + 1), LAMBDA cp : cp.cno <= span.end.cno)
        hits == {j \in DOMAIN left : left[j].time >= t}
        n    == IF hits = {} THEN Len(left) ELSE (CHOOSE j \in hits : \A k \in hits : j <= k) - 1
    IN [min   |-> IF hits = {} THEN span.end.cno ELSE left[n + 1].cno,
        start |-> IF n = 0 THEN span.start ELSE left[n],
        ncp   |-> span.approx_ncp - IF n < span.approx_ncp THEN n ELSE span.approx_ncp - 1]

\* The period starts within the history: the answer is searched there and
\* what is older is dropped.
nilfs_cnormap_cphist_search(p) ==
    LET t == cphist_offset + cphist_elapsed_time - p
        \* spans whose end is not before the start of the period, and the
        \* span after which the period starts
        inside == {i \in DOMAIN cphist : t <= Delta(i) + width(i)}
        before == {i \in DOMAIN cphist : i > 1 /\ t > Delta(i) + width(i) /\ t <= Delta(i - 1)}
        i == CHOOSE k \in inside \cup before : \A j \in inside \cup before : j <= k
        found == FindInSpan(i, cphist[i].start.time + (t - Delta(i)))
        trims == i \in inside /\ cphist[i].end.cno > cphist[i].start.cno
        moved == IF trims THEN found.start.time - cphist[i].start.time ELSE 0
    IN
    /\ p > 0 /\ cphist # <<>>
    /\ p >= cphist_offset /\ p < cphist_offset + cphist_elapsed_time
    /\ \/ /\ cphist' = [SubSeq(cphist, 1, i) EXCEPT ![i] =
                IF trims THEN [@ EXCEPT !.start = found.start, !.approx_ncp = found.ncp] ELSE @]
          /\ cphist_elapsed_time' = cphist_elapsed_time - Delta(i) - moved
          /\ last' = [period |-> p, how |-> "search",
                      cno |-> IF i \in before THEN cphist[i - 1].start.cno
                              ELSE IF trims THEN found.min ELSE cphist[i].end.cno]
          /\ UNCHANGED fails
       \/ /\ trims /\ fails < MaxFail
          /\ fails' = fails + 1
          /\ last' = [period |-> p, cno |-> CNO_MAX, how |-> "failed"]
          /\ UNCHANGED <<cphist, cphist_elapsed_time>>
    /\ UNCHANGED <<base_time, base_clock, fsVars>>

\* The period starts before the history, which grows at its old end.
nilfs_cnormap_cphist_extend_backward(p) ==
    LET start == oldest(cphist).start.cno IN
    /\ p > 0 /\ cphist # <<>>
    /\ p >= cphist_offset /\ p > cphist_offset + cphist_elapsed_time
    /\ \E s \in Scans(nilfs_cpinfo_scan_backward,
                      Context(0, p - cphist_offset, "normal", start),
                      IF start = CNO_MIN THEN <<>> ELSE Backward(start - 1)) :
          /\ start = CNO_MIN => s.ok
          /\ Finish(p, "backward", s)
    /\ UNCHANGED <<base_time, base_clock>>

\* The period starts where the history does.
TrackOldest(p) ==
    /\ p > 0 /\ cphist # <<>>
    /\ p >= cphist_offset /\ p = cphist_offset + cphist_elapsed_time
    /\ last' = [period |-> p, cno |-> oldest(cphist).start.cno, how |-> "oldest"]
    /\ UNCHANGED <<mapVars, fsVars, fails>>

nilfs_cnormap_track_back(p) ==
    \/ TrackNothing(p)
    \/ nilfs_cnormap_cphist_init(p)
    \/ nilfs_cnormap_cphist_extend_forward(p)
    \/ nilfs_cnormap_cphist_search(p)
    \/ nilfs_cnormap_cphist_extend_backward(p)
    \/ TrackOldest(p)

Next ==
    \/ Tick \/ SetBack \/ MakeCheckpoint \/ DeleteCheckpoint
    \/ \E p \in Period : nilfs_cnormap_track_back(p)

Spec == Init /\ [][Next]_vars

-----------------------------------------------------------------------------
age(c) == clock - cps[c].born
Answered == last.how \notin {"none", "failed", "zero"}

\* No checkpoint taken within the period is given up to the cleaner, by
\* whichever way the answer was found, after deletions, failed calls and a
\* clock that was set back (each time costs INTERVAL_ON_REWIND at most).  The
\* second at the period's edge is left open: TrackOldest answers with the
\* oldest checkpoint it knows, not the oldest one of that second.
PeriodProtected ==
    Answered =>
        \A c \in DOMAIN cps :
            age(c) + INTERVAL_ON_REWIND * rewinds < last.period => c >= last.cno

\* With a steady clock no checkpoint older than the period is protected, except
\* where the history is extended forward: there the code takes a distance from
\* the end of the newest span for one from its start, and answers too early.
NotOverprotected ==
    Answered /\ rewinds = 0 /\ last.how # "forward" =>
        \A c \in DOMAIN cps : c >= last.cno => age(c) <= last.period

\* The cached duration is that of the cached spans after every call, also one
\* that failed half way; the spans are ordered and do not overlap.
HistoryConsistent ==
    cphist # <<>> =>
        /\ cphist_elapsed_time = Delta(1) + width(1)
        /\ \A i \in DOMAIN cphist :
              /\ cphist[i].start.cno <= cphist[i].end.cno /\ width(i) >= 0
              /\ i > 1 => cphist[i].end.cno < cphist[i - 1].start.cno

\* nilfs_cnormap_track_back() answers with the first checkpoint of the period,
\* neither too young nor, with a steady clock, too old.
PeriodAnswered == PeriodProtected /\ NotOverprotected

\* The history the mapper keeps between calls is one of ordered spans with the
\* duration it records.
HistorySound == TypeOK /\ HistoryConsistent
===============================================================================
