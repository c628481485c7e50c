----------------------------- MODULE ScanAhead -----------------------------
(***************************************************************************)
(* The scan-ahead scanner (tools/nsfw_scan_ahead.py), a process of its own *)
(* that samples a film faster than it is played and publishes what it      *)
(* found through two files: the decision map, with the time ranges to be   *)
(* masked, and the scan status, which says up to what time the map can be  *)
(* trusted.  The two are replaced one after the other, each atomically,    *)
(* and another process reads them at any moment.                           *)
(*                                                                         *)
(* Abstracted: the detector (a film is the set of its unsafe samples), the *)
(* format of the files, and the fallback that rewrites a file in place     *)
(* where the operating system refuses the replacement.                     *)
(***************************************************************************)
EXTENDS Integers, Sequences

CONSTANTS
    Films,       \* a film is the set of the numbers of its unsafe samples
    Samples,     \* samples in a film
    Unit,        \* interval_ms, from one sample to the next
    Hold,        \* hold_ms, masked time after an unsafe sample
    Duration,    \* duration_ms, what ffprobe reports
    WriteEvery,  \* --write-every
    Elapsed      \* whole seconds that may pass from one write to the next

ASSUME ScanAssumption ==
    /\ {Samples, Unit, WriteEvery} \subseteq Nat \ {0}
    /\ {Hold, Duration} \subseteq Nat
    /\ \A film \in Films : film \subseteq 0..(Samples - 1)
    /\ Elapsed \subseteq Nat

VARIABLES
    film,        \* never changes
    scanPC,      \* where run_scan is
    scan,        \* its locals: processed_frames, active_block_until_ms, ranges
    mapFile,     \* the decision map on disk
    statusFile,  \* the scan status on disk
    clock        \* the second of the last write

scanVars == <<film, scanPC, scan, mapFile, statusFile, clock>>

Span(a, b)   == [start |-> a, end |-> b]
Larger(a, b) == IF a >= b THEN a ELSE b

\* Whether a half-open range holds the time; DecisionMapContains stops at the
\* first range that starts later.
DecisionMapContains(ranges, ts) ==
    \E i \in DOMAIN ranges :
        /\ ts < ranges[i].end
        /\ \A j \in 1..i : ts >= ranges[j].start

\* The times of a film's pictures: the duration that ffprobe reports may be 0.
Times == 0..Larger(Duration, Samples * Unit)

\* update_ranges, for an interval that is blocked
UpdateRanges(ranges, start, end) ==
    IF ranges # <<>> /\ start <= ranges[Len(ranges)].end
    THEN [ranges EXCEPT ![Len(ranges)].end = Larger(@, end)]
    ELSE Append(ranges, Span(start, end))

\* last_scanned_ms
LastScanned == scan.processed * Unit

Finished == scan.processed = Samples

(***************************************************************************)
(* One round of run_scan: classify a sample, extend the ranges, and        *)
(* publish after the first sample and after every WriteEvery ones.         *)
(***************************************************************************)
ScanSample ==
    /\ scanPC = "sample"
    /\ ~Finished
    /\ LET start   == LastScanned
           end     == start + Unit
           until   == IF scan.processed \in film
                      THEN Larger(scan.until, end + Hold)
                      ELSE scan.until
           n       == scan.processed + 1
       IN  /\ scan' = [processed |-> n,
                       until     |-> until,
                       ranges    |-> IF start < until
                                     THEN UpdateRanges(scan.ranges, start, Larger(end, until))
                                     ELSE scan.ranges]
           /\ scanPC' = IF n = 1 \/ n % WriteEvery = 0 THEN "first" ELSE "sample"
    /\ UNCHANGED <<film, mapFile, statusFile, clock>>

\* The end of ffmpeg's output: the last two writes.
ScanEnd ==
    /\ scanPC = "sample"
    /\ Finished
    /\ scanPC' = "lastFirst"
    /\ UNCHANGED <<film, scan, mapFile, statusFile, clock>>

WriteOrder_StatusFirst == <<"status", "map">>

\* The map is written before the status that vouches for it (253-254, 263-264).
WriteOrder == <<"map", "status">>

Writing ==
    IF scanPC \in {"first", "lastFirst"} THEN WriteOrder[1]
    ELSE IF scanPC \in {"second", "lastSecond"} THEN WriteOrder[2]
    ELSE "nothing"

AfterWrite ==
    [first |-> "second", second |-> "sample", lastFirst |-> "lastSecond",
     lastSecond |-> "finished"][scanPC]

NoFile == [there |-> FALSE, content |-> <<>>, mtime |-> 0]

File(content, mtime) == [there |-> TRUE, content |-> content, mtime |-> mtime]

\* atomic_write, at a time that is some seconds after the write before it.
WriteDecisionMap ==
    /\ Writing = "map"
    /\ \E gap \in Elapsed : clock' = clock + gap
    /\ mapFile' = File(scan.ranges, clock')
    /\ scanPC' = AfterWrite
    /\ UNCHANGED <<film, scan, statusFile>>

\* The scan status: time scanned, and whether that is all.  While scanning, the time
\* is kept within the duration; at the end it is the duration, unless ffprobe had
\* none to report.
CurrentStatus ==
    LET done == scanPC \in {"lastFirst", "lastSecond"}
    IN  [scanned |-> IF done THEN IF Duration > 0 THEN Duration ELSE LastScanned
                     ELSE IF Duration < LastScanned THEN Duration ELSE LastScanned,
         done    |-> done]

WriteStatus ==
    /\ Writing = "status"
    /\ \E gap \in Elapsed : clock' = clock + gap
    /\ statusFile' = File(CurrentStatus, clock')
    /\ scanPC' = AfterWrite
    /\ UNCHANGED <<film, scan, mapFile>>

\* The scanner raises, or is killed, at any point; the files stay.
ScanFail ==
    /\ scanPC \notin {"finished", "failed"}
    /\ scanPC' = "failed"
    /\ UNCHANGED <<film, scan, mapFile, statusFile, clock>>

ScanInit ==
    /\ film \in Films
    /\ scanPC = "sample"
    /\ scan = [processed |-> 0, until |-> 0, ranges |-> <<>>]
    /\ mapFile = NoFile
    /\ statusFile = NoFile
    /\ clock = 1

ScanStep == ScanSample \/ ScanEnd \/ WriteDecisionMap \/ WriteStatus

(***************************************************************************)
(* What has been published agrees with itself: wherever the status says    *)
(* the film has been scanned, the map on disk masks what the scanner       *)
(* found, between the two writes and after a crash too.                    *)
(***************************************************************************)
StatusVouchesForMap ==
    statusFile.there =>
        /\ mapFile.there
        /\ \A ts \in Times :
            ts < statusFile.content.scanned =>
                (DecisionMapContains(mapFile.content, ts)
                    <=> DecisionMapContains(scan.ranges, ts))
=============================================================================
