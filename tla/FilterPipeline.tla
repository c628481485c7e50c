--------------------------- MODULE FilterPipeline ---------------------------
(***************************************************************************)
(* The plugin's live path: VLC's video output thread (the host) calls      *)
(* Filter, Flush and Close one after the other; the detector workers (the  *)
(* pthread build, DetectorWorkerThreadPthread) classify queued pictures.   *)
(* They share the frame queue and the block ranges under worker_lock, and  *)
(* all of them sleep on the ONE condition variable worker_cond, which the  *)
(* filter signals and everybody else broadcasts.                           *)
(*                                                                         *)
(* A step is what one thread does between two points where another thread  *)
(* can be seen: a critical section, or code that runs without the lock.    *)
(* The host keeps the lock from QueuePictureLocked to its first test of    *)
(* the oldest frame; hostPC = "held" is that moment, and no worker step    *)
(* that needs the lock is enabled in it.                                   *)
(*                                                                         *)
(* Abstracted: pictures are numbered in arrival order; the classification  *)
(* of a picture is a choice of outcome; picture formats, reading back, and *)
(* drawing the mask are left out; so is the audio device behind            *)
(* SyncAudioMutedForBlockedFrame (its request, audio_mute_requested, is    *)
(* here).  Logging counters are left out.                                  *)
(***************************************************************************)
EXTENDS BlockWindows, FrameQueue

CONSTANTS
    Workers,          \* detector worker threads, at least one is started
    Host,             \* VLC's video output thread
    Prebuffer,        \* prebuffer_frames
    Stride,           \* analysis_stride
    Padding,          \* block_padding_frames
    Interval,         \* frame_interval_ms
    SeekThreshold,    \* SeekResetThresholdMs
    Steps,            \* time from one picture to the next, a seek included
    Origins,          \* media times at which a timeline can start
    Outcomes,         \* how the analysis of a picture can end
    SpuriousWakeups   \* whether a wait may end without a wakeup

ASSUME ThreadsAssumption    == Workers # {} /\ Host \notin Workers
ASSUME PrebufferAssumption  == Prebuffer \in 1..MaxBufferFrames
ASSUME StrideAssumption     == Stride \in Nat /\ Padding \in Nat /\ Interval \in Nat \ {0}
ASSUME TimelineAssumption   == SeekThreshold \in Nat /\ Steps \subseteq Int /\ Origins \subseteq Nat
ASSUME OutcomesAssumption   == Outcomes \subseteq {"clean", "positive", "failed"}
ASSUME SpuriousAssumption   == SpuriousWakeups \in BOOLEAN

PaddingMs == Padding * Interval
LeadMs    == Stride * Interval
NoTime    == -1

VARIABLES
    queue,          \* the ring of frame slots
    ranges,         \* time_block_ranges
    renewal,        \* renewal_block_end_ms
    frameCount,     \* frame_count, the sequence number of the last frame
    lastTs,         \* last_frame_timestamp_ms, NoTime when not valid
    hostFailed,     \* cuda_host_failed
    audioRequested, \* audio_mute_requested
    maskActive,     \* output_mask_active
    stop,           \* worker_stop
    waiting,        \* the threads asleep on worker_cond
    hostPC,         \* where the host is
    resume,         \* what the host does once the running flush is over
    arrived,        \* pictures delivered so far; the last is the call's argument
    inTs,           \* timestamp_ms of the picture in the running Filter call
    outBlocked,     \* `blocked` of the picture being output
    workerPC, workerSlot, workerPicture   \* per worker: state, slot, picture taken

\* History, for the properties: what became of each picture, and in the running
\* timeline the times that were detected and the times shown unmasked.
VARIABLES fate, wanted, verdict, positives, rawTimes

queueVars    == <<queue, ranges, renewal>>
timelineVars == <<frameCount, lastTs>>
outputVars   == <<audioRequested, maskActive, outBlocked>>
callVars     == <<hostPC, resume, arrived, inTs>>
workerVars   == <<workerPC, workerSlot, workerPicture>>
history      == <<fate, wanted, verdict, positives, rawTimes>>

vars == <<queueVars, timelineVars, hostFailed, outputVars, stop, waiting,
          callVars, workerVars, history>>

Awake(t) == t \notin waiting

\* pthread_cond_wait, called with the predicate false.
Sleep(t) == waiting' = waiting \cup {t}

\* pthread_cond_signal: one sleeping thread, any of them, wakes up.
SignalOne ==
    IF waiting = {} THEN waiting' = waiting
                    ELSE \E t \in waiting : waiting' = waiting \ {t}

\* pthread_cond_broadcast
Broadcast == waiting' = {}

FilterWakes_Nobody == UNCHANGED waiting

\* Filter, after it has queued a picture.
FilterWakes == SignalOne

WorkerWakes_One == SignalOne

\* A worker, after it has published a decision.
WorkerWakes == Broadcast

LockFree == hostPC # "held"
-----------------------------------------------------------------------------
(***************************************************************************)
(* The host: Filter.                                                       *)
(***************************************************************************)
\* TimelineDiscontinuityDetected
Discontinuity(ts) ==
    /\ lastTs # NoTime
    /\ ts < lastTs \/ ts - lastTs > SeekThreshold

\* RawPictureTimeMs and PictureTimeMs: media time, counted from the timeline's origin,
\* of a picture that has a date: the same whenever the code asks for it again.
PictureTimes ==
    IF lastTs = NoTime THEN Origins ELSE {lastTs + d : d \in Steps} \cap Nat

\* The part of Filter that numbers a frame, once its time is known.
NumberFrame(ts) ==
    /\ frameCount' = frameCount + 1
    /\ lastTs' = ts
    /\ inTs' = ts
    /\ hostPC' = "enqueue"

\* Filter is called: take the picture's time, flush first when the timeline jumped.
FilterCall ==
    /\ hostPC = "idle"
    /\ arrived < MaxPictures
    /\ arrived' = arrived + 1
    /\ \E ts \in PictureTimes :
        \/ /\ ~Discontinuity(ts)
           /\ NumberFrame(ts)
           /\ UNCHANGED resume
        \/ /\ Discontinuity(ts)
           /\ hostPC' = "flush"
           /\ resume' = "filter"
           /\ UNCHANGED <<timelineVars, inTs>>
    /\ UNCHANGED <<queueVars, hostFailed, outputVars, stop, waiting, workerVars, history>>

FilterBlocked_IgnoresFailure(slot) ==
    slot.blocked \/ TimeInBlockedRange(ranges, slot.ts)

\* What TakeReadyOutputLocked and the worker compute as `blocked`.
FilterBlocked(slot) ==
    \/ hostFailed
    \/ slot.blocked
    \/ TimeInBlockedRange(ranges, slot.ts)

ShownAs(slot) == IF FilterBlocked(slot) THEN "masked" ELSE "raw"

StillBuffering_OffByOne(q) == q.count <= Prebuffer

\* Filter returns without output until the prebuffer is full (851).
StillBuffering(q) == q.count < Prebuffer

\* The host waits for room: the queue is full and its oldest frame undecided.
FilterWaitsForRoom == Full(queue) /\ ~OldestFrameReady(queue)

(***************************************************************************)
(* The critical section that queues the picture.  A full queue gives up    *)
(* its oldest frame first, and that frame is then the call's output.       *)
(***************************************************************************)
FilterEnqueue ==
    /\ hostPC = "enqueue"
    /\ Awake(Host)
    /\ ~FilterWaitsForRoom
    /\ LET oldest   == queue.slots[queue.head]
           room     == IF Full(queue) THEN TakeOldest(queue) ELSE queue
           analyze  == ShouldScheduleAnalysis(ranges, renewal, frameCount, inTs,
                                              Stride, LeadMs)
           entered  == [fate EXCEPT ![arrived] = "inside"]
       IN  /\ queue' = QueuePicture(room, arrived, inTs, analyze,
                                    TimeInBlockedRange(ranges, inTs))
           /\ renewal' = RenewalAfterSchedule(ranges, renewal, frameCount, inTs,
                                              Stride, LeadMs)
           /\ wanted' = [wanted EXCEPT ![arrived] = analyze]
           /\ IF Full(queue)
              THEN /\ outBlocked' = FilterBlocked(oldest)
                   /\ fate' = [entered EXCEPT ![oldest.picture] = ShownAs(oldest)]
                   /\ rawTimes' = IF FilterBlocked(oldest) THEN rawTimes
                                  ELSE rawTimes \cup {oldest.ts}
                   /\ hostPC' = "display"
              ELSE /\ fate' = entered
                   /\ hostPC' = IF StillBuffering(queue') THEN "idle" ELSE "held"
                   /\ UNCHANGED <<outBlocked, rawTimes>>
    /\ FilterWakes
    /\ UNCHANGED <<ranges, timelineVars, hostFailed, audioRequested, maskActive, stop,
                   resume, arrived, inTs, workerVars, verdict, positives>>

\* Both of Filter's waits: for room in a full queue, and for the oldest frame's decision.
FilterWait ==
    /\ Awake(Host)
    /\ \/ hostPC = "enqueue" /\ FilterWaitsForRoom /\ UNCHANGED hostPC
       \/ /\ hostPC \in {"held", "await"}
          /\ ~OldestFrameReady(queue)
          /\ hostPC' = "await"
    /\ Sleep(Host)
    /\ UNCHANGED <<queueVars, timelineVars, hostFailed, outputVars, stop,
                   resume, arrived, inTs, workerVars, history>>

\* TakeReadyOutputLocked: the decision is looked at again on the way out.
FilterTake ==
    /\ hostPC \in {"held", "await"}
    /\ Awake(Host)
    /\ OldestFrameReady(queue)
    /\ LET oldest == queue.slots[queue.head]
       IN  /\ outBlocked' = FilterBlocked(oldest)
           /\ fate' = [fate EXCEPT ![oldest.picture] = ShownAs(oldest)]
           /\ rawTimes' = IF FilterBlocked(oldest) THEN rawTimes
                          ELSE rawTimes \cup {oldest.ts}
    /\ queue' = TakeOldest(queue)
    /\ hostPC' = "display"
    /\ UNCHANGED <<ranges, renewal, timelineVars, hostFailed, audioRequested, maskActive,
                   stop, waiting, resume, arrived, inTs, workerVars,
                   wanted, verdict, positives>>

\* What ApplyBlockedOutput leaves in audio_mute_requested.
RequestAfterDisplay(blocked) ==
    blocked \/ (audioRequested /\ ~maskActive)

\* ApplyDisplayOutput runs without the lock, and Filter returns.
FilterDisplay ==
    /\ hostPC = "display"
    /\ audioRequested' = RequestAfterDisplay(outBlocked)
    /\ maskActive' = outBlocked
    /\ hostPC' = "idle"
    /\ UNCHANGED <<queueVars, timelineVars, hostFailed, outBlocked, stop, waiting,
                   resume, arrived, inTs, workerVars, history>>
-----------------------------------------------------------------------------
(***************************************************************************)
(* The host: Flush and Close.                                              *)
(***************************************************************************)
FlushCall ==
    /\ hostPC = "idle"
    /\ hostPC' = "flush"
    /\ resume' \in {"idle", "stop"}      \* VLC flushes, or closes the filter
    /\ UNCHANGED <<queueVars, timelineVars, hostFailed, outputVars, stop, waiting,
                   arrived, inTs, workerVars, history>>

\* Flush waits until no worker holds a slot.
FlushWait ==
    /\ hostPC = "flush"
    /\ Awake(Host)
    /\ HasProcessing(queue)
    /\ Sleep(Host)
    /\ UNCHANGED <<queueVars, timelineVars, hostFailed, outputVars, stop,
                   callVars, workerVars, history>>

\* ReleaseQueuedFramesLocked
FlushRelease ==
    /\ hostPC = "flush"
    /\ Awake(Host)
    /\ ~HasProcessing(queue)
    /\ queue' = EmptyQueue
    /\ fate' = [p \in Pictures |-> IF fate[p] = "inside" THEN "dropped" ELSE fate[p]]
    /\ Broadcast
    /\ hostPC' = "reset"
    /\ UNCHANGED <<ranges, renewal, timelineVars, hostFailed, outputVars, stop,
                   resume, arrived, inTs, workerVars,
                   wanted, verdict, positives, rawTimes>>

ResetRanges_Kept == ranges

\* ClearTimeBlockRanges
ResetRanges == <<>>

(***************************************************************************)
(* The rest of Flush runs after the lock is released.  cuda_host_failed is *)
(* not among what it resets.  A flush from Filter goes on with the picture *)
(* at a new origin, a flush from Close with StopDetectorWorker.            *)
(***************************************************************************)
FlushReset ==
    /\ hostPC = "reset"
    /\ audioRequested' = FALSE
    /\ maskActive' = FALSE
    /\ ranges' = ResetRanges
    /\ renewal' = 0
    /\ \/ /\ resume # "filter"
          /\ frameCount' = 0
          /\ lastTs' = NoTime
          /\ hostPC' = resume
          /\ UNCHANGED inTs
       \/ /\ resume = "filter"
          /\ \E ts \in Origins : lastTs' = ts /\ inTs' = ts
          /\ frameCount' = 1
          /\ hostPC' = "enqueue"
    /\ positives' = {}
    /\ rawTimes' = {}
    /\ UNCHANGED <<queue, hostFailed, outBlocked, stop, waiting, resume, arrived,
                   workerVars, fate, wanted, verdict>>

\* StopDetectorWorker: raise worker_stop, wake everybody, then join each worker.
StopWorkers ==
    /\ hostPC = "stop"
    /\ stop' = TRUE
    /\ Broadcast
    /\ hostPC' = "join"
    /\ UNCHANGED <<queueVars, timelineVars, hostFailed, outputVars,
                   resume, arrived, inTs, workerVars, history>>

JoinWorkers ==
    /\ hostPC = "join"
    /\ \A w \in Workers : workerPC[w] = "exited"
    /\ hostPC' = "closed"
    /\ UNCHANGED <<queueVars, timelineVars, hostFailed, outputVars, stop, waiting,
                   resume, arrived, inTs, workerVars, history>>
-----------------------------------------------------------------------------
(***************************************************************************)
(* A detector worker.                                                      *)
(***************************************************************************)
WorkerIdle(w) == LockFree /\ workerPC[w] = "idle" /\ Awake(w)

WorkerSleep(w) ==
    /\ WorkerIdle(w)
    /\ ~stop
    /\ NextPending(queue) = {}
    /\ Sleep(w)
    /\ UNCHANGED <<queueVars, timelineVars, hostFailed, outputVars, stop,
                   callVars, workerVars, history>>

\* Take the oldest pending slot, and leave the lock with its index.
WorkerClaim(w) ==
    /\ WorkerIdle(w)
    /\ ~stop
    /\ \E k \in NextPending(queue) :
        LET i == QueueIndex(queue, k)
        IN  /\ queue' = WithSlot(queue, i, [queue.slots[i] EXCEPT !.processing = TRUE])
            /\ workerSlot' = [workerSlot EXCEPT ![w] = i]
            /\ workerPicture' = [workerPicture EXCEPT ![w] = queue.slots[i].picture]
    /\ workerPC' = [workerPC EXCEPT ![w] = "busy"]
    /\ UNCHANGED <<ranges, renewal, timelineVars, hostFailed, outputVars, stop, waiting,
                   callVars, history>>

\* The worker's last writes to its slot.
MarkDecided(q, i, positive, blocked) ==
    WithSlot(q, i, [q.slots[i] EXCEPT !.processing = FALSE, !.ready = TRUE,
                                      !.nsfw = positive, !.blocked = blocked])

(***************************************************************************)
(* The outcome of an analysis is a clean or a positive result, or a failed *)
(* one, which counts as positive and latches cuda_host_failed.  (A failed  *)
(* read-back and a worker without a detector give a positive result.)      *)
(***************************************************************************)
PublishOutcome(w, outcome) ==
    LET i        == workerSlot[w]
        slot     == queue.slots[i]
        positive == outcome # "clean"
        blocked  == \/ hostFailed'
                    \/ FilterBlocked(slot)
                    \/ positive
        marked   == IF positive
                    THEN EnsureQueuedFramesInWindow(queue, WindowStart(slot.ts, PaddingMs),
                                                    WindowEnd(slot.ts, PaddingMs))
                    ELSE queue
    IN  /\ hostFailed' = (hostFailed \/ outcome = "failed")
        /\ queue' = MarkDecided(marked, i, positive, blocked)
        /\ IF positive
           THEN /\ ranges' = RangesAfterDetection(ranges, slot.ts, PaddingMs)
                /\ renewal' = RenewalAfterDetection(ranges, renewal, slot.ts, PaddingMs)
                /\ audioRequested' = TRUE
                /\ positives' = positives \cup {slot.ts}
           ELSE UNCHANGED <<ranges, renewal, audioRequested, positives>>

\* The second critical section of a worker's round.
WorkerPublish(w) ==
    /\ LockFree
    /\ workerPC[w] = "busy"
    /\ \/ /\ ~queue.slots[workerSlot[w]].analyze
          /\ PublishOutcome(w, "clean")
          /\ UNCHANGED verdict
       \/ /\ queue.slots[workerSlot[w]].analyze
          /\ \E outcome \in Outcomes :
                /\ PublishOutcome(w, outcome)
                /\ verdict' = [verdict EXCEPT ![workerPicture[w]] =
                                    IF outcome = "clean" THEN "clean" ELSE "positive"]
    /\ workerPC' = [workerPC EXCEPT ![w] = "idle"]
    /\ WorkerWakes
    /\ UNCHANGED <<timelineVars, maskActive, outBlocked, stop, callVars,
                   workerSlot, workerPicture, fate, wanted, rawTimes>>

WorkerExit(w) ==
    /\ WorkerIdle(w)
    /\ stop
    /\ workerPC' = [workerPC EXCEPT ![w] = "exited"]
    /\ UNCHANGED <<queueVars, timelineVars, hostFailed, outputVars, stop, waiting,
                   callVars, workerSlot, workerPicture, history>>
-----------------------------------------------------------------------------
\* A wait on a condition variable may return without a wakeup.
SpuriousWakeup ==
    /\ SpuriousWakeups
    /\ \E t \in waiting : waiting' = waiting \ {t}
    /\ UNCHANGED <<queueVars, timelineVars, hostFailed, outputVars, stop,
                   callVars, workerVars, history>>

\* After Close nothing is left to do.
Closed == hostPC = "closed" /\ UNCHANGED vars

\* Everything but which workers were started.
SharedInit ==
    /\ queue = EmptyQueue
    /\ ranges = <<>>
    /\ renewal = 0
    /\ frameCount = 0
    /\ lastTs = NoTime
    /\ hostFailed = FALSE
    /\ audioRequested = FALSE
    /\ maskActive = FALSE
    /\ stop = FALSE
    /\ waiting = {}
    /\ hostPC = "idle"
    /\ resume = "idle"
    /\ arrived = 0
    /\ inTs = 0
    /\ outBlocked = FALSE
    /\ workerSlot = [w \in Workers |-> 0]
    /\ workerPicture = [w \in Workers |-> NoPicture]
    /\ fate = [p \in Pictures |-> "unseen"]
    /\ wanted = [p \in Pictures |-> FALSE]
    /\ verdict = [p \in Pictures |-> "pending"]
    /\ positives = {}
    /\ rawTimes = {}

\* The workers that could be started, all of them before their first claim.
Init == SharedInit /\ workerPC = [w \in Workers |-> "idle"]

FilterStep == FilterEnqueue \/ FilterWait \/ FilterTake \/ FilterDisplay

FlushStep == FlushWait \/ FlushRelease \/ FlushReset

CloseStep == StopWorkers \/ JoinWorkers

WorkerStep(w) == WorkerSleep(w) \/ WorkerClaim(w) \/ WorkerPublish(w) \/ WorkerExit(w)

Next ==
    \/ FilterCall
    \/ FilterStep
    \/ FlushCall
    \/ FlushStep
    \/ CloseStep
    \/ \E w \in Workers : WorkerStep(w)
    \/ SpuriousWakeup
    \/ Closed

Spec == Init /\ [][Next]_vars
-----------------------------------------------------------------------------
HostPCs   == {"idle", "enqueue", "held", "await", "display", "flush", "reset",
              "stop", "join", "closed"}
WorkerPCs == {"idle", "busy", "exited"}

\* The gate's picture is the pipeline's, and its state the pipeline's history.
Gate == INSTANCE OutputGate
            WITH Pictures <- Pictures, fate <- fate, wanted <- wanted, verdict <- verdict

\* Every variable holds a value of its kind; a range list is a sequence of ranges.
TypeOK ==
    /\ queue \in QueueType
    /\ ranges \in Seq([start : Nat, end : Nat])
    /\ renewal \in Nat
    /\ frameCount \in Nat
    /\ lastTs \in Nat \cup {NoTime}
    /\ hostFailed \in BOOLEAN
    /\ audioRequested \in BOOLEAN
    /\ maskActive \in BOOLEAN
    /\ stop \in BOOLEAN
    /\ waiting \subseteq Workers \cup {Host}
    /\ hostPC \in HostPCs
    /\ resume \in {"idle", "stop", "filter"}
    /\ arrived \in 0..MaxPictures
    /\ inTs \in Nat
    /\ outBlocked \in BOOLEAN
    /\ workerPC \in [Workers -> WorkerPCs]
    /\ workerSlot \in [Workers -> SlotIndex]
    /\ workerPicture \in [Workers -> Pictures \cup {NoPicture}]
    /\ fate \in [Pictures -> Gate!Fates]
    /\ wanted \in [Pictures -> BOOLEAN]
    /\ verdict \in [Pictures -> Gate!Verdicts]
    /\ positives \subseteq Nat
    /\ rawTimes \subseteq Nat
-----------------------------------------------------------------------------
InWindow(ts, detection) ==
    ts \in WindowStart(detection, PaddingMs)..WindowEnd(detection, PaddingMs)

(***************************************************************************)
(* A worker writes its result through a slot pointer it took before it     *)
(* left the lock (974-1066).  By then the slot still holds the picture it  *)
(* classified, and no other worker has the slot.                           *)
(***************************************************************************)
WorkerOwnsItsSlot ==
    \A w \in Workers :
        workerPC[w] = "busy" =>
            /\ workerSlot[w] \in Occupied(queue)
            /\ queue.slots[workerSlot[w]].processing
            /\ queue.slots[workerSlot[w]].picture = workerPicture[w]
            /\ \A v \in Workers \ {w} :
                    workerPC[v] = "busy" => workerSlot[v] # workerSlot[w]

(***************************************************************************)
(* A decided slot carries the verdict on its own picture, and a positive   *)
(* one is marked to be masked, whatever other workers wrote meanwhile.     *)
(***************************************************************************)
DecisionMatchesPicture ==
    \A i \in Occupied(queue) :
        LET slot == queue.slots[i]
        IN  slot.ready =>
                /\ slot.analyze => verdict[slot.picture] # "pending"
                /\ slot.nsfw <=> verdict[slot.picture] = "positive"
                /\ slot.nsfw => slot.blocked

(***************************************************************************)
(* README.md:106-107: a picture that required analysis has its decision    *)
(* when it is output, and is unmasked only when the decision was clean.    *)
(***************************************************************************)
NoUndecidedOutput ==
    \A p \in Pictures :
        /\ fate[p] \in {"raw", "masked"} /\ wanted[p] => verdict[p] # "pending"
        /\ fate[p] = "raw" => verdict[p] # "positive"

(***************************************************************************)
(* Once a detection is registered, every picture in its window that has    *)
(* not been output yet is going to be masked: those queued at that moment, *)
(* and those queued later, whatever order two workers finish in and        *)
(* whatever range pruning forgets.                                         *)
(***************************************************************************)
WindowHolds ==
    \A i \in Occupied(queue) :
        (\E t \in positives : InWindow(queue.slots[i].ts, t))
            => FilterBlocked(queue.slots[i])

(***************************************************************************)
(* The mask has a cause: while inference works, a picture is marked only   *)
(* for a detection of the running timeline in whose window it lies.        *)
(* Merged ranges cover no more than the windows they were merged from, and *)
(* nothing of the timeline before a flush is left.                         *)
(***************************************************************************)
MaskHasCause ==
    \A i \in Occupied(queue) :
        FilterBlocked(queue.slots[i]) /\ ~hostFailed
            => \E t \in positives : InWindow(queue.slots[i].ts, t)

(***************************************************************************)
(* Between two calls the filter holds fewer than prebuffer_frames          *)
(* pictures, so the path of Filter for a full queue is never taken.        *)
(***************************************************************************)
BacklogBound ==
    hostPC \in {"idle", "enqueue"} => queue.count < Prebuffer

(***************************************************************************)
(* A thread asleep on worker_cond has nothing to do: the host's predicate  *)
(* is false while it sleeps, and workers never all sleep over a pending    *)
(* picture, although the filter signals only one of them.                  *)
(***************************************************************************)
NoLostWakeup ==
    /\ Host \in waiting =>
        \/ hostPC = "await" /\ ~OldestFrameReady(queue)
        \/ hostPC = "flush" /\ HasProcessing(queue)
    /\ PendingOffsets(queue) # {} => ~(Workers \subseteq waiting)
    /\ stop => waiting \cap Workers = {}

(***************************************************************************)
(* The ranges stay sorted and disjoint while workers register detections   *)
(* out of order: the early exit of BlockRangeEndAtLocked depends on it.    *)
(***************************************************************************)
RangesInOrder == SortedAndDisjoint(ranges)

(***************************************************************************)
(* Between two calls a request to mute the audio has a cause: the mask is  *)
(* up, or a detected picture is still queued.  The request is written by   *)
(* the workers under the lock and by the host without it.                  *)
(***************************************************************************)
MuteRequestHasCause ==
    hostPC = "idle" /\ audioRequested =>
        \/ maskActive
        \/ \E i \in Occupied(queue) : verdict[queue.slots[i].picture] = "positive"

(***************************************************************************)
(* A failed inference is for good (README.md:158-159, "blocks              *)
(* fail-closed"): no later step, flush included, clears it, and none shows *)
(* a picture unmasked.                                                     *)
(***************************************************************************)
FailClosed ==
    [][hostFailed =>
        /\ hostFailed'
        /\ \A p \in Pictures : fate'[p] = "raw" => fate[p] = "raw"]_vars

\* The pipeline is an output gate.
GateSpec == Gate!GateSpec

(***************************************************************************)
(* nsfw_filter.c:318, the block padding option: "Frames to include before  *)
(* and after a detection".  What the code does not deliver: frames before  *)
(* the detection that left the queue before the detector answered.         *)
(***************************************************************************)
PaddingBeforeDetection ==
    \A t \in positives, ts \in rawTimes : ~InWindow(ts, t)
=============================================================================
