--------------------------- MODULE InferenceHost ---------------------------
(***************************************************************************)
(* How a worker of the Windows GPU build gets its verdicts: from a helper  *)
(* process over a pair of pipes (plugin/nsfw_cuda_host.c is the plugin's   *)
(* end, nsfw_cuda_host.c the helper), first one with CUDA, then one with   *)
(* DirectML, then from a CPU detector of its own (nsfw_filter_worker.c).   *)
(*                                                                         *)
(* The helper may die at any moment, with some of its answers written; the *)
(* plugin sees that only when the pipe has run dry.  A helper that hangs   *)
(* is not noticed by the code, which reads without a timeout; safety holds *)
(* then too, and fairness excludes it.  There is one worker in GPU mode    *)
(* (ResolveWorkerCount), and a verdict is represented by the number of the *)
(* frame it was computed from.                                             *)
(***************************************************************************)
EXTENDS Naturals, Sequences

CONSTANTS
    BatchSize,   \* gpu_batch_size
    MaxFrames    \* frames that are classified (a bound)

ASSUME InferenceAssumption == BatchSize \in 1..4 /\ MaxFrames \in Nat

VARIABLES
    batches,    \* the model's graph takes more than one frame; never changes
    endpoint,   \* use_cuda_host, host_kind and detector
    batchable,  \* gpu_batch_supported
    pc,         \* where the worker is
    taken,      \* frames taken so far
    frames,     \* the frames of the running call
    results,    \* its results
    ask,        \* the request that is being answered
    helper,     \* the helper process
    answers,    \* what is in its output pipe
    failed,     \* cuda_host_failed
    gaveUp      \* history: the endpoints that failed

call == <<taken, frames, results, ask>>
host == <<helper, answers>>
vars == <<batches, endpoint, batchable, pc, call, host, failed, gaveUp>>

Hosts == {"cuda", "dml"}
Zero == 0   \* a cleared nsfw_result_t: it reads as "not nsfw"

Answer(status, frame) == [status |-> status, frame |-> frame]
Ready == Answer("ready", Zero)

Indices(s) == 1..Len(s)

\* The answers that are to come, whether one frame is asked for at a time, and
\* whether an answer has said that the batch is not supported.
Request(from, to, single, unsupported) ==
    [from |-> from, to |-> to, single |-> single, unsupported |-> unsupported]
NoRequest == Request(1, 0, FALSE, FALSE)
WholeBatch(s) == Request(1, Len(s), FALSE, FALSE)
Single(i) == Request(i, i, TRUE, FALSE)

(***************************************************************************)
(* The endpoints, in their order.                                          *)
(***************************************************************************)
Fallback_Retries == [cuda |-> "cuda", dml |-> "cpu"]
Fallback_NoDml   == [cuda |-> "cpu", dml |-> "cpu"]

Fallback == [cuda |-> "dml", dml |-> "cpu"]

\* Once there is an endpoint: at start the worker runs, in a call it asks again.
Resumed(at) == IF frames = <<>> THEN "idle" ELSE at

StopHost_Leaks == UNCHANGED host

\* nsfw_cuda_host_stop: the pipes are closed, and the process ends or is terminated.
StopHost == helper' = "none" /\ answers' = <<>>

FallBack ==
    /\ StopHost
    /\ gaveUp' = gaveUp \cup {endpoint}
    /\ endpoint' = Fallback[endpoint]
    /\ pc' = IF endpoint' = "cpu" THEN "create" ELSE "spawn"

\* nsfw_inference_host_start, up to CreateProcess
Spawn ==
    /\ pc = "spawn"
    /\ \/ FallBack
       \/ /\ helper' = "starting"
          /\ pc' = "handshake"
          /\ UNCHANGED <<answers, endpoint, gaveUp>>
    /\ UNCHANGED <<batches, batchable, call, failed>>

HostIsUp ==
    /\ pc = "handshake"
    /\ answers # <<>>
    /\ Head(answers) = Ready
    /\ answers' = Tail(answers)
    /\ pc' = Resumed("send")
    /\ ask' = WholeBatch(frames)
    /\ UNCHANGED <<batches, endpoint, batchable, taken, frames, results, helper, failed, gaveUp>>

\* The pipe has run dry and nobody holds its other end.
Broken == answers = <<>> /\ helper = "dead"

HostIsDown ==
    /\ pc \in {"handshake", "receive"}
    /\ Broken
    /\ FallBack
    /\ UNCHANGED <<batches, batchable, call, failed>>

\* CreateCpuFallbackDetector
CreateCpu ==
    /\ pc = "create"
    /\ \/ pc' = Resumed("cpu") /\ UNCHANGED <<endpoint, gaveUp>>
       \/ /\ endpoint' = "none"
          /\ gaveUp' = gaveUp \cup {"cpu"}
          /\ pc' = IF frames = <<>> THEN "gone" ELSE "failed"
    /\ UNCHANGED <<batches, batchable, call, host, failed>>

(***************************************************************************)
(* A call.                                                                 *)
(***************************************************************************)
\* WorkerUsesGpuBatch
UsesGpuBatch == endpoint \in Hosts /\ batchable /\ BatchSize > 1

\* The worker has claimed and packed n frames.
Call(n) ==
    /\ pc = "idle"
    /\ n = 1 \/ (UsesGpuBatch /\ n <= BatchSize)
    /\ taken + n <= MaxFrames
    /\ taken' = taken + n
    /\ frames' = [i \in 1..n |-> taken + i]
    /\ results' = [i \in 1..n |-> Zero]
    /\ ask' = WholeBatch(frames')
    /\ pc' = IF endpoint \in Hosts THEN "send" ELSE IF endpoint = "cpu" THEN "cpu" ELSE "failed"
    /\ UNCHANGED <<batches, endpoint, batchable, host, failed, gaveUp>>

\* nsfw_cuda_host_classify_batch writes its request; to a dead helper it cannot.
Send ==
    /\ pc = "send"
    /\ IF helper = "dead" THEN FallBack
                          ELSE pc' = "receive" /\ UNCHANGED <<endpoint, host, gaveUp>>
    /\ UNCHANGED <<batches, batchable, call, failed>>

NeedsSingles_Never(request) == FALSE

\* NSFW_BATCH_UNSUPPORTED: the results that came with it are not verdicts.
NeedsSingles(request) == request.unsupported

\* A failed answer, or a single frame's that is no verdict: the call gives up on the host.
Rejected(status) == status = "failed" \/ (ask.single /\ status = "unsupported")

\* What follows the last answer to `request`.
Answered(request) ==
    CASE NeedsSingles(request) ->
            batchable' = FALSE /\ ask' = Single(1) /\ pc' = "send"
      [] request.single /\ request.to < Len(frames) ->
            ask' = Single(request.to + 1) /\ pc' = "send" /\ UNCHANGED batchable
      [] OTHER -> ask' = request /\ pc' = "done" /\ UNCHANGED batchable

\* One answer is read; after a failed one the others are left in the pipe.
Receive ==
    /\ pc = "receive"
    /\ answers # <<>>
    /\ IF Rejected(Head(answers).status)
         THEN FallBack /\ UNCHANGED <<batchable, results, ask>>
         ELSE LET request == Request(ask.from + 1, ask.to, ask.single,
                                     ask.unsupported \/ Head(answers).status = "unsupported")
              IN  /\ results' = [results EXCEPT ![ask.from] = Head(answers).frame]
                  /\ answers' = Tail(answers)
                  /\ IF ask.from < ask.to
                       THEN ask' = request /\ UNCHANGED <<pc, batchable>>
                       ELSE Answered(request)
                  /\ UNCHANGED <<helper, endpoint, gaveUp>>
    /\ UNCHANGED <<batches, taken, frames, failed>>

\* ClassifyDetector, for each frame
ClassifyCpu ==
    /\ pc = "cpu"
    /\ \/ results' = frames /\ pc' = "done" /\ UNCHANGED gaveUp
       \/ pc' = "failed" /\ gaveUp' = gaveUp \cup {"cpu"} /\ UNCHANGED results
    /\ UNCHANGED <<batches, endpoint, batchable, taken, frames, ask, host, failed>>

\* The worker publishes what it got; after a failed call every frame is blocked.
Publish ==
    /\ pc \in {"done", "failed"}
    /\ failed' = (failed \/ pc = "failed")
    /\ frames' = <<>>
    /\ results' = <<>>
    /\ ask' = NoRequest
    /\ pc' = "idle"
    /\ UNCHANGED <<batches, endpoint, batchable, taken, host, gaveUp>>

\* StopDetectorWorker, once the thread has ended
Stop ==
    /\ pc = "idle"
    /\ StopHost
    /\ endpoint' = "none"
    /\ pc' = "gone"
    /\ UNCHANGED <<batches, batchable, call, failed, gaveUp>>

(***************************************************************************)
(* The helper process.                                                     *)
(***************************************************************************)
HelperReady ==
    /\ helper = "starting"
    /\ helper' = "serving"
    /\ answers' = Append(answers, Ready)
    /\ UNCHANGED <<batches, endpoint, batchable, pc, call, failed, gaveUp>>

Requested == [i \in 1..(ask.to + 1 - ask.from) |-> frames[ask.from + i - 1]]

\* nsfw_detector_classify_batch_checked gives one status, and clears what it does not fill.
Classified(status) ==
    [i \in Indices(Requested) |-> Answer(status, IF status = "ok" THEN Requested[i] ELSE Zero)]

Statuses == IF Len(Requested) > 1 /\ ~batches THEN {"unsupported", "failed"} ELSE {"ok", "failed"}

\* A request is taken and answered, or answered in part by a helper that dies doing it.
HelperServes ==
    /\ helper = "serving"
    /\ pc = "receive"
    /\ answers = <<>> /\ ask.from <= ask.to
    /\ \E status \in Statuses : \E n \in 0..Len(Requested) :
        /\ answers' = SubSeq(Classified(status), 1, n)
        /\ helper' = IF n = Len(Requested) THEN "serving" ELSE "dead"
    /\ UNCHANGED <<batches, endpoint, batchable, pc, call, failed, gaveUp>>

HelperDies ==
    /\ helper \in {"starting", "serving"}
    /\ helper' = "dead"
    /\ UNCHANGED <<batches, endpoint, batchable, pc, call, answers, failed, gaveUp>>

\* After StopDetectorWorker nothing is left to do.
Gone == pc = "gone" /\ UNCHANGED vars

Init ==
    /\ batches \in BOOLEAN
    /\ endpoint = "cuda"
    /\ batchable = TRUE
    /\ pc = "spawn"
    /\ taken = 0
    /\ frames = <<>>
    /\ results = <<>>
    /\ ask = NoRequest
    /\ helper = "none"
    /\ answers = <<>>
    /\ failed = FALSE
    /\ gaveUp = {}

\* What the worker does of its own accord.
WorkerStep == \/ Spawn \/ HostIsUp \/ HostIsDown \/ CreateCpu
              \/ Send \/ Receive \/ ClassifyCpu \/ Publish

HelperStep == HelperReady \/ HelperServes \/ HelperDies

Next == (\E n \in 1..BatchSize : Call(n)) \/ Stop \/ WorkerStep \/ HelperStep \/ Gone

Spec == Init /\ [][Next]_vars

\* The worker's thread runs, and a helper that owes an answer gives it or dies.
FairSpec == Spec /\ WF_vars(WorkerStep) /\ WF_vars(HelperReady) /\ WF_vars(HelperServes)
-----------------------------------------------------------------------------
\* Every variable holds a value of its kind.
TypeOK ==
    /\ batches \in BOOLEAN /\ batchable \in BOOLEAN /\ failed \in BOOLEAN
    /\ endpoint \in Hosts \cup {"cpu", "none"}
    /\ pc \in {"spawn", "handshake", "create", "idle", "send", "receive", "cpu", "done",
               "failed", "gone"}
    /\ taken \in 0..MaxFrames
    /\ frames \in Seq(1..MaxFrames)
    /\ results \in Seq(0..MaxFrames) /\ Len(results) = Len(frames)
    /\ ask \in [from : 1..(BatchSize + 1), to : 0..BatchSize, single : BOOLEAN,
                unsupported : BOOLEAN]
    /\ helper \in {"none", "starting", "serving", "dead"}
    /\ answers \in Seq([status : {"ready", "ok", "failed", "unsupported"}, frame : 0..MaxFrames])
    /\ gaveUp \in SUBSET {"cuda", "dml", "cpu"}

(***************************************************************************)
(* nsfw_cuda_host.c:227-246 and nsfw_filter_worker.c:176-240: when a call  *)
(* succeeds, each frame has the verdict that was computed from it: none is *)
(* left over from an earlier frame or from a helper that died during its   *)
(* answer, and none is the cleared result (it reads as "not nsfw") that    *)
(* goes with a batch the model cannot take.                                *)
(***************************************************************************)
VerdictsAreTheFrames == pc = "done" => results = frames

(***************************************************************************)
(* README.md:157-158: the filter "blocks fail-closed only when all three   *)
(* fail", in whatever state the helpers were lost.                         *)
(***************************************************************************)
BlocksOnlyWhenAllFail == failed => gaveUp = {"cuda", "dml", "cpu"}

(***************************************************************************)
(* nsfw_cuda_host_stop on every way out: no helper process outlives its    *)
(* use, when the worker falls back to the CPU or is stopped, or when a     *)
(* helper does not get as far as its handshake.                            *)
(***************************************************************************)
NoHelperLeftBehind ==
    helper # "none" =>
        /\ endpoint \in Hosts
        /\ pc \notin {"spawn", "gone"}

(***************************************************************************)
(* The loop in ClassifyBatchWithWindowsFallback (176-239) ends, and so     *)
(* does the start: a worker comes back to its queue however the helpers    *)
(* fail, if none of them hangs.                                            *)
(***************************************************************************)
CallReturns == (pc # "idle" /\ pc # "gone") ~> (pc = "idle" \/ pc = "gone")
=============================================================================
