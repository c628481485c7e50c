----------------------------- MODULE SyncFilter -----------------------------
(***************************************************************************)
(* Filter when no detector worker runs (nsfw_filter.c: an opaque input, or *)
(* a failed StartDetectorWorker): the picture is analysed on VLC's own     *)
(* thread and output by the same call.  One thread, no queue: a call is    *)
(* one step.  The sampling of the stream and the renewal of a running      *)
(* block use the same operators as the worker path; here they meet longer  *)
(* and less regular timelines.                                             *)
(*                                                                         *)
(* A picture is `unsafe` or not and a detector that answers is taken to be *)
(* right about it, so that the properties can speak of the content.        *)
(* Abstracted: pixels, buffers, the heuristic's score, logging.            *)
(***************************************************************************)
EXTENDS BlockWindows

CONSTANTS
    Modes,          \* how Open left the filter: a set of records of ModeType
    Stride,         \* analysis_stride
    Padding,        \* block_padding_frames
    Interval,       \* frame_interval_ms
    SeekThreshold,  \* SeekResetThresholdMs
    Steps,          \* time from one picture to the next, a seek included
    Origins,        \* media times at which a timeline can start
    MaxFrames       \* pictures in a run (a bound)

\* detector: a detector or an inference host exists; backend: a hardware backend
\* reads the frames; opaque: opaque_fallback, frames must be converted to be read.
ModeType == [detector : BOOLEAN, backend : BOOLEAN, opaque : BOOLEAN]

ASSUME ModeAssumption == Modes \subseteq ModeType
ASSUME NumbersAssumption ==
    /\ {Stride, Padding, SeekThreshold, MaxFrames} \subseteq Nat
    /\ Interval \in Nat \ {0}
    /\ Steps \subseteq Int
    /\ Origins \subseteq Nat

PaddingMs == Padding * Interval

LeadMs_OneFrame == Interval

\* renewal_lead_ms, one stride of frames
LeadMs == Stride * Interval
NoTime    == -1

VARIABLES
    mode,        \* never changes
    timeline,    \* what a flush resets
    hostFailed,  \* cuda_host_failed
    arrived,     \* pictures so far
    last         \* history: the last picture's analysis and output

vars == <<mode, timeline, hostFailed, arrived, last>>

(***************************************************************************)
(* The fields Flush resets.  Two are history: the pictures since the last  *)
(* analysed one, and whether some picture was detected, all of them since  *)
(* then are unsafe and every analysis due gave a verdict.                  *)
(***************************************************************************)
FreshTimeline ==
    [frameCount |-> 0, lastTs |-> NoTime, ranges |-> <<>>, renewal |-> 0,
     audioRequested |-> FALSE, maskActive |-> FALSE,
     sinceSample |-> 0, streak |-> FALSE]

Readable == ~mode.backend /\ ~mode.opaque

Fallback_Heuristic == {"masked", "raw"}

\* The end of Filter, for a picture no detector judged: fail closed where the
\* pixels cannot be read, else the heuristic says one or the other (981-1015).
Fallback == IF Readable THEN {"masked", "raw"} ELSE {"masked"}

(***************************************************************************)
(* How an analysis ends: the detector answers or fails (a failure counts   *)
(* as positive and latches cuda_host_failed), the picture cannot be packed *)
(* (positive only where pixels are not readable), or the buffer for it     *)
(* cannot be had.                                                          *)
(***************************************************************************)
Results == {"classified", "failed", "unpacked", "nobuffer"}

VerdictOf(result, unsafe) ==
    CASE result = "classified" -> IF unsafe THEN "positive" ELSE "clean"
      [] result = "failed"     -> "positive"
      [] result = "unpacked"   -> IF Readable THEN "none" ELSE "positive"
      [] OTHER                 -> "none"

\* ApplyBlockedOutput: the timeline after a picture was output as `how`.
Displayed(t, how) ==
    [t EXCEPT !.maskActive = (how = "masked"),
              !.audioRequested = how = "masked" \/ (@ /\ ~t.maskActive)]

(***************************************************************************)
(* The detector branch (888-979): analyse when the picture is due, register*)
(* a positive result, and mask the picture when it lies in a range or is   *)
(* positive.                                                               *)
(***************************************************************************)
Analyse(t, ts, unsafe) ==
    LET due     == ShouldScheduleAnalysis(t.ranges, t.renewal, t.frameCount, ts,
                                          Stride, LeadMs)
        renewed == RenewalAfterSchedule(t.ranges, t.renewal, t.frameCount, ts,
                                        Stride, LeadMs)
        inRange == TimeInBlockedRange(t.ranges, ts)
    IN  \E result \in IF due THEN Results ELSE {"skipped"} :
          LET verdict  == VerdictOf(result, unsafe)
              positive == verdict = "positive"
              sampled  ==
                [t EXCEPT
                    !.ranges  = IF positive THEN RangesAfterDetection(@, ts, PaddingMs)
                                            ELSE @,
                    !.renewal = IF positive
                                THEN RenewalAfterDetection(t.ranges, renewed, ts, PaddingMs)
                                ELSE renewed,
                    !.audioRequested = @ \/ positive,
                    !.sinceSample = IF due THEN 0 ELSE @ + 1,
                    !.streak = /\ unsafe
                               /\ positive \/ (@ /\ (due => verdict # "none"))]
          IN  \E how \in IF inRange \/ positive THEN {"masked"}
                        ELSE IF result \in {"skipped", "classified"} THEN {"raw"}
                        ELSE Fallback :
                /\ timeline' = Displayed(sampled, how)
                /\ last' = [due |-> due, verdict |-> verdict, shown |-> how]
                /\ hostFailed' = (hostFailed \/ result = "failed")

\* A picture that gets no analysis, output as one of `hows`.
Unjudged(t, hows) ==
    /\ \E how \in hows :
        /\ timeline' = Displayed(t, how)
        /\ last' = [due |-> FALSE, verdict |-> "none", shown |-> how]
    /\ UNCHANGED hostFailed

\* After a failed inference every picture is masked, before anything is asked (791-799).
AfterFailure == {"masked"}

FilterPicture(t, ts, unsafe) ==
    \/ hostFailed /\ Unjudged(t, AfterFailure)
    \/ ~hostFailed /\ mode.detector /\ Analyse(t, ts, unsafe)
    \/ ~hostFailed /\ ~mode.detector /\ Unjudged(t, Fallback)

Numbered(t, ts) == [t EXCEPT !.frameCount = @ + 1, !.lastTs = ts]

\* TimelineDiscontinuityDetected
Discontinuity(ts) ==
    /\ timeline.lastTs # NoTime
    /\ ts < timeline.lastTs \/ ts - timeline.lastTs > SeekThreshold

PictureTimes ==
    IF timeline.lastTs = NoTime THEN Origins
    ELSE {timeline.lastTs + d : d \in Steps} \cap Nat

\* Filter, which flushes and starts a new timeline when the time jumped.
FilterCall ==
    /\ arrived < MaxFrames
    /\ arrived' = arrived + 1
    /\ \E ts \in PictureTimes, unsafe \in BOOLEAN :
        \/ /\ ~Discontinuity(ts)
           /\ FilterPicture(Numbered(timeline, ts), ts, unsafe)
        \/ /\ Discontinuity(ts)
           /\ \E origin \in Origins :
                FilterPicture(Numbered(FreshTimeline, origin), origin, unsafe)
    /\ UNCHANGED mode

\* Flush, called by VLC; cuda_host_failed is not among what it resets.
FlushCall ==
    /\ timeline' = FreshTimeline
    /\ UNCHANGED <<mode, hostFailed, arrived, last>>

Init ==
    /\ mode \in Modes
    /\ timeline = FreshTimeline
    /\ hostFailed = FALSE
    /\ arrived = 0
    /\ last = [due |-> FALSE, verdict |-> "none", shown |-> "nothing"]

Next == FilterCall \/ FlushCall

Spec == Init /\ [][Next]_vars
-----------------------------------------------------------------------------
(***************************************************************************)
(* README.md:74-75, "Renews an active block ..., avoiding raw-frame        *)
(* flashes during a continuous detection": once a picture is detected,     *)
(* no picture is shown unmasked while the content stays unsafe and the     *)
(* detector answers.                                                       *)
(***************************************************************************)
NoRawFlash == timeline.streak => last.shown # "raw"

(***************************************************************************)
(* nsfw_filter.c:314, "Analyze every Nth frame": a picture shown unmasked  *)
(* is one that was analysed or has an analysed one among the Stride - 1    *)
(* before it; analyses are skipped only under the mask.  True where two    *)
(* strides of pictures last longer than the padding.                       *)
(***************************************************************************)
SampleSpacing ==
    mode.detector /\ last.shown = "raw" => timeline.sinceSample < Stride

(***************************************************************************)
(* README.md:106-107, where the pixels are not readable: a picture that    *)
(* requires analysis is shown unmasked only after a clean verdict, however *)
(* its analysis went, and with no detector none is shown unmasked.         *)
(***************************************************************************)
UnreadableFailsClosed ==
    ~Readable /\ last.shown = "raw" =>
        /\ mode.detector
        /\ last.due => last.verdict = "clean"
=============================================================================
