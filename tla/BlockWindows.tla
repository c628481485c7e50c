---------------------------- MODULE BlockWindows ----------------------------
(***************************************************************************)
(* The time ranges in which output is masked (time_block_ranges), as pure  *)
(* operators: nsfw_filter_worker.c keeps them in an array that the filter  *)
(* thread and the detector workers read and update under worker_lock.      *)
(* Here the array is a sequence of records [start, end], both ends         *)
(* inclusive, in milliseconds.  A range list is only ever built by         *)
(* ApplyBlockWindow from the empty list, so it stays sorted and disjoint;  *)
(* BlockRangeEndAt relies on that order to stop early.                     *)
(*                                                                         *)
(* Allocation failures of the array (EnsureTimeBlockRangeCapacity) are     *)
(* left out.                                                               *)
(***************************************************************************)
EXTENDS Integers, Sequences

Span(a, b) == [start |-> a, end |-> b]

Larger(a, b) == IF a >= b THEN a ELSE b

(***************************************************************************)
(* How many leading positions of ranges are in the set `yes`: what a       *)
(* `while (pos < count && ...) pos++` loop leaves in pos.                  *)
(***************************************************************************)
LeadingIn(ranges, yes) ==
    CHOOSE n \in 0..Len(ranges) :
        /\ \A i \in 1..n : i \in yes
        /\ n < Len(ranges) => (n + 1) \notin yes

(***************************************************************************)
(* BlockRangeEndAtLocked: the scan stops at the first range that starts    *)
(* after the timestamp.  Holding(ranges, ts) is the set of the range it    *)
(* finds, empty when it answers false.                                     *)
(***************************************************************************)
Holding(ranges, ts) ==
    {i \in DOMAIN ranges :
        /\ ts <= ranges[i].end
        /\ \A j \in 1..i : ts >= ranges[j].start
        /\ \A j \in 1..(i - 1) : ts > ranges[j].end}

TimeInBlockedRange(ranges, ts) == Holding(ranges, ts) # {}

BlockRangeEndAt(ranges, ts) ==
    ranges[CHOOSE i \in Holding(ranges, ts) : TRUE].end

\* PruneExpiredTimeBlockRangesLocked: drop the leading ranges that are over.
PruneExpired(ranges, minTs) ==
    LET drop == LeadingIn(ranges, {i \in DOMAIN ranges : ranges[i].end < minTs})
    IN  SubSeq(ranges, drop + 1, Len(ranges))

\* Whether a range that ends at `end` swallows the next one (676).
Reaches(end, next) == end >= next.start

(***************************************************************************)
(* ApplyBlockWindowLocked up to the marking of queued frames: prune by the *)
(* window's start, find its place, join the range before it when the two   *)
(* touch, else insert it, then swallow the following ranges that the       *)
(* growing range reaches.                                                  *)
(***************************************************************************)
ApplyBlockWindow(ranges, start, end) ==
    LET live   == PruneExpired(ranges, start)
        pos    == LeadingIn(live, {i \in DOMAIN live : live[i].start < start})
        joins  == pos > 0 /\ live[pos].end >= start
        before == SubSeq(live, 1, IF joins THEN pos - 1 ELSE pos)
        after  == SubSeq(live, pos + 1, Len(live))
        from   == IF joins THEN live[pos].start ELSE start
        own    == IF joins THEN Larger(live[pos].end, end) ELSE end
        \* The end of the growing range once it has swallowed n of `after`,
        \* whose ends increase.
        reach(n) == IF n = 0 THEN own ELSE Larger(own, after[n].end)
        n      == LeadingIn(after, {i \in DOMAIN after :
                                        Reaches(reach(i - 1), after[i])})
    IN  before \o <<Span(from, reach(n))>> \o SubSeq(after, n + 1, Len(after))

(***************************************************************************)
(* The window RegisterPositiveDetection asks for around a detection.       *)
(***************************************************************************)
WindowStart(ts, padding) == IF ts > padding THEN ts - padding ELSE 0
WindowEnd(ts, padding)   == ts + padding

(***************************************************************************)
(* RegisterPositiveDetection's effect on the ranges and on the renewal     *)
(* deadline: the deadline is forgotten when the window moved the end of    *)
(* the range that holds the detection.                                     *)
(***************************************************************************)
RangesAfterDetection(ranges, ts, padding) ==
    ApplyBlockWindow(ranges, WindowStart(ts, padding), WindowEnd(ts, padding))

RenewalAfterDetection(ranges, renewal, ts, padding) ==
    LET updated == RangesAfterDetection(ranges, ts, padding)
        moved   == /\ TimeInBlockedRange(updated, ts)
                   /\ TimeInBlockedRange(ranges, ts)
                        => BlockRangeEndAt(updated, ts) > BlockRangeEndAt(ranges, ts)
    IN  IF moved THEN 0 ELSE renewal

(***************************************************************************)
(* ShouldScheduleAnalysisLocked.  `stride` is analysis_stride, `lead` is   *)
(* the renewal lead, one stride of frame intervals.  A stride-aligned      *)
(* frame is analysed unless it lies in a range: there, one renewal sample  *)
(* per range end, and only within the lead of that end.                    *)
(***************************************************************************)
StrideAligned(seq, stride) == stride > 0 /\ (seq - 1) % stride = 0

RenewalDue_Never(ranges, renewal, ts, lead) == FALSE

RenewalDue(ranges, renewal, ts, lead) ==
    /\ renewal # BlockRangeEndAt(ranges, ts)
    /\ BlockRangeEndAt(ranges, ts) - ts <= lead

ShouldScheduleAnalysis(ranges, renewal, seq, ts, stride, lead) ==
    /\ StrideAligned(seq, stride)
    /\ TimeInBlockedRange(ranges, ts) => RenewalDue(ranges, renewal, ts, lead)

RenewalAfterSchedule(ranges, renewal, seq, ts, stride, lead) ==
    IF /\ TimeInBlockedRange(ranges, ts)
       /\ ShouldScheduleAnalysis(ranges, renewal, seq, ts, stride, lead)
    THEN BlockRangeEndAt(ranges, ts)
    ELSE renewal

(***************************************************************************)
(* What a range list must look like for the early exit of                  *)
(* BlockRangeEndAtLocked to be right.                                      *)
(***************************************************************************)
SortedAndDisjoint(ranges) ==
    /\ \A i \in DOMAIN ranges : ranges[i].start <= ranges[i].end
    /\ \A i, j \in DOMAIN ranges : i < j => ranges[i].end < ranges[j].start
=============================================================================
