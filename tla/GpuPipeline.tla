---------------------------- MODULE GpuPipeline ----------------------------
(***************************************************************************)
(* The live path with either kind of worker.  In the Windows build a       *)
(* worker whose inference runs in a helper process takes several pictures  *)
(* at a time (ProcessGpuBatch): it waits until the prebuffer is full,      *)
(* claims up to gpu_batch_size pending pictures in one critical section,   *)
(* classifies them without the lock and publishes all their decisions in a *)
(* second critical section.                                                *)
(*                                                                         *)
(* The host's part is FilterPipeline's, and so is the single-frame path of *)
(* DetectorWorkerThread, which a batching worker takes for a round when    *)
(* the oldest pending picture needs no analysis, and for good when the     *)
(* helper cannot batch or inference has moved to the CPU.  There is one    *)
(* worker in this mode (ResolveWorkerCount); a worker that never batches   *)
(* is one of the pthread build, and there may be several.                  *)
(***************************************************************************)
EXTENDS FilterPipeline

CONSTANTS
    GpuBatchSize,     \* gpu_batch_size, at most NSFW_MAX_GPU_BATCH_FRAMES
    MaxSeveral        \* pictures in a run of several workers (a bound)

ASSUME GpuBatchAssumption == GpuBatchSize \in 2..4 /\ MaxSeveral \in Nat

VARIABLES
    mode,   \* per worker: "batch" in ProcessGpuBatch, "single" for this round, "off"
    batch   \* per worker: the claimed slots and their pictures, in queue order

batchVars == <<mode, batch>>
gpuVars   == <<vars, batchVars>>

\* The oldest pending slot wants analysis, the others are found behind it.
BatchHead == \E k \in NextPending(queue) : queue.slots[QueueIndex(queue, k)].analyze

BatchWaits_FullRing == queue.count < MaxBufferFrames

\* The batch is not formed before the prebuffer is full.
BatchWaits == queue.count < Prebuffer

BatchSleep(w) ==
    /\ WorkerIdle(w)
    /\ mode[w] = "batch"
    /\ ~stop
    /\ NextPending(queue) = {} \/ (BatchHead /\ BatchWaits)
    /\ Sleep(w)
    /\ UNCHANGED <<queueVars, timelineVars, hostFailed, outputVars, stop,
                   callVars, workerVars, history, batchVars>>

\* ProcessGpuBatch returns 0: this round belongs to the single-frame path.
BatchYield(w) ==
    /\ WorkerIdle(w)
    /\ mode[w] = "batch"
    /\ ~stop
    /\ NextPending(queue) # {} /\ ~BatchHead
    /\ mode' = [mode EXCEPT ![w] = "single"]
    /\ UNCHANGED <<vars, batch>>

\* One round of the loop that forms a batch: the slot at offset k is looked at.
TakeOne(offsets, wantedOffsets, k) ==
    IF Len(offsets) < GpuBatchSize /\ k \in wantedOffsets THEN Append(offsets, k) ELSE offsets

\* The loop over the queue, oldest slot first, until the batch is full.
TakeInOrder(q, wantedOffsets) ==
    LET taken[n \in 0..q.count] ==
            IF n = 0 THEN <<>> ELSE TakeOne(taken[n - 1], wantedOffsets, n - 1)
    IN  taken[q.count]

BatchOffsets_NotOnlyAnalysed(q) == TakeInOrder(q, PendingOffsets(q))

\* The pending slots that are to be analysed, oldest first, no more than a batch.
BatchOffsets(q) ==
    TakeInOrder(q, {k \in PendingOffsets(q) : q.slots[QueueIndex(q, k)].analyze})

BatchClaim(w) ==
    /\ WorkerIdle(w)
    /\ mode[w] = "batch"
    /\ ~stop
    /\ BatchHead /\ ~BatchWaits
    /\ LET claims == [j \in DOMAIN BatchOffsets(queue) |->
                          LET i == QueueIndex(queue, BatchOffsets(queue)[j])
                          IN  [slot |-> i, picture |-> queue.slots[i].picture]]
           taken  == {claims[j].slot : j \in DOMAIN claims}
       IN  /\ batch' = [batch EXCEPT ![w] = claims]
           /\ queue' = [queue EXCEPT !.slots =
                           [i \in SlotIndex |-> IF i \in taken
                                THEN [queue.slots[i] EXCEPT !.processing = TRUE]
                                ELSE queue.slots[i]]]
    /\ workerPC' = [workerPC EXCEPT ![w] = "busy"]
    /\ UNCHANGED <<ranges, renewal, timelineVars, hostFailed, outputVars, stop, waiting,
                   callVars, workerSlot, workerPicture, history, mode>>

(***************************************************************************)
(* What a batch can come to: every picture has a result of its own; or     *)
(* inference failed for all; or a picture could not be read back, and all  *)
(* of them count as positive.                                              *)
(***************************************************************************)
BatchResults(n) ==
    [1..n -> Outcomes \ {"failed"}] \cup [1..n -> {"failed"}]

PublishOne_KeepsRanges(s, failed, slotIndex, positive) ==
    [s EXCEPT !.queue = MarkDecided(s.queue, slotIndex, positive, failed \/ positive)]

\* One round of the publishing loop: s is the shared state before it.
PublishOne(s, failed, slotIndex, positive) ==
    LET slot    == s.queue.slots[slotIndex]
        blocked == \/ failed
                   \/ slot.blocked
                   \/ TimeInBlockedRange(s.ranges, slot.ts)
                   \/ positive
    IN  IF positive
        THEN [queue   |-> MarkDecided(EnsureQueuedFramesInWindow(s.queue,
                                          WindowStart(slot.ts, PaddingMs),
                                          WindowEnd(slot.ts, PaddingMs)),
                                      slotIndex, positive, blocked),
              ranges  |-> RangesAfterDetection(s.ranges, slot.ts, PaddingMs),
              renewal |-> RenewalAfterDetection(s.ranges, s.renewal, slot.ts, PaddingMs)]
        ELSE [s EXCEPT !.queue = MarkDecided(s.queue, slotIndex, positive, blocked)]

\* The publishing loop, in the order of the batch.
PublishAll(start, failed, claims, results) ==
    LET published[n \in 0..Len(claims)] ==
            IF n = 0 THEN start
            ELSE PublishOne(published[n - 1], failed, claims[n].slot, results[n] # "clean")
    IN  published[Len(claims)]

\* WorkerUsesGpuBatch after a call to the helper, which may end the batching.
BatchingAfterCall == {"batch", "off"}

BatchPublish(w) ==
    /\ LockFree
    /\ workerPC[w] = "busy"
    /\ mode[w] = "batch"
    /\ \E results \in BatchResults(Len(batch[w])) :
        LET failed == \E j \in DOMAIN results : results[j] = "failed"
            hits   == {j \in DOMAIN results : results[j] # "clean"}
            after  == PublishAll([queue |-> queue, ranges |-> ranges, renewal |-> renewal],
                                 hostFailed \/ failed, batch[w], results)
        IN  /\ hostFailed' = (hostFailed \/ failed)
            /\ queue' = after.queue
            /\ ranges' = after.ranges
            /\ renewal' = after.renewal
            /\ audioRequested' = (audioRequested \/ hits # {})
            /\ positives' = positives \cup {queue.slots[batch[w][j].slot].ts : j \in hits}
            /\ verdict' = [p \in Pictures |->
                              IF \E j \in hits : batch[w][j].picture = p THEN "positive"
                              ELSE IF \E j \in DOMAIN results : batch[w][j].picture = p
                                   THEN "clean" ELSE verdict[p]]
    /\ workerPC' = [workerPC EXCEPT ![w] = "idle"]
    /\ batch' = [batch EXCEPT ![w] = <<>>]
    /\ mode' \in {[mode EXCEPT ![w] = m] : m \in BatchingAfterCall}
    /\ WorkerWakes
    /\ UNCHANGED <<timelineVars, maskActive, outBlocked, stop, callVars,
                   workerSlot, workerPicture, fate, wanted, rawTimes>>

(***************************************************************************)
(* The single-frame path.  A batching worker goes back to ProcessGpuBatch  *)
(* after its round; the helper is called for an analysed picture only.     *)
(***************************************************************************)
SinglePublish(w) ==
    /\ mode[w] # "batch"
    /\ WorkerPublish(w)
    /\ \/ /\ mode[w] = "single"
          /\ \E m \in IF queue.slots[workerSlot[w]].analyze THEN BatchingAfterCall ELSE {"batch"} :
                mode' = [mode EXCEPT ![w] = m]
       \/ mode[w] = "off" /\ UNCHANGED mode
    /\ UNCHANGED batch

SingleRound(w) ==
    /\ mode[w] # "batch"
    /\ WorkerSleep(w) \/ WorkerClaim(w)
    /\ UNCHANGED batchVars

GpuWorkerExit(w) == WorkerExit(w) /\ UNCHANGED batchVars

GpuWorkerStep(w) ==
    \/ BatchSleep(w) \/ BatchYield(w) \/ BatchClaim(w) \/ BatchPublish(w)
    \/ SingleRound(w) \/ SinglePublish(w)
    \/ GpuWorkerExit(w)

OneWorker == \E w \in Workers : workerPC[w] = "exited"

\* Everything but the workers is as in the pthread build.
HostStep ==
    /\ \/ FilterCall /\ (arrived < MaxSeveral \/ OneWorker)
       \/ FilterStep \/ FlushCall \/ FlushStep \/ CloseStep
       \/ SpuriousWakeup \/ Closed
    /\ UNCHANGED batchVars

(***************************************************************************)
(* StartDetectorWorker: one worker with a helper, batching until the model *)
(* refuses, and no other thread; or workers with detectors of their own.   *)
(***************************************************************************)
StartedWorkers == {<<{w}, "batch">> : w \in Workers} \cup {<<Workers, "off">>}

GpuInit ==
    /\ SharedInit
    /\ \E started \in StartedWorkers :
        /\ workerPC = [w \in Workers |-> IF w \in started[1] THEN "idle" ELSE "exited"]
        /\ mode = [w \in Workers |-> IF w \in started[1] THEN started[2] ELSE "off"]
    /\ batch = [w \in Workers |-> <<>>]

GpuNext == HostStep \/ \E w \in Workers : GpuWorkerStep(w)

(***************************************************************************)
(* Threads that can run do run; VLC need not call the filter again.  That  *)
(* a busy worker publishes assumes that its classification returns, and    *)
(* that a helper that was asked answers or dies.                           *)
(***************************************************************************)
GpuFairness ==
    /\ WF_gpuVars(FilterStep /\ UNCHANGED batchVars)
    /\ WF_gpuVars(FlushStep /\ UNCHANGED batchVars)
    /\ WF_gpuVars(CloseStep /\ UNCHANGED batchVars)
    /\ \A w \in Workers : WF_gpuVars(GpuWorkerStep(w))

GpuSpec == GpuInit /\ [][GpuNext]_gpuVars /\ GpuFairness
-----------------------------------------------------------------------------
(***************************************************************************)
(* A worker writes its results through the slot pointers of its batch,     *)
(* taken before it left the lock.  By then each slot still holds the       *)
(* picture that was classified, undecided, and the pictures stand in the   *)
(* batch in the order in which the queue lets them go.                     *)
(***************************************************************************)
BatchOwnsItsSlots ==
    \A w \in Workers : workerPC[w] = "busy" /\ mode[w] = "batch" =>
        /\ batch[w] # <<>>
        /\ \A j \in DOMAIN batch[w] :
              LET slot == queue.slots[batch[w][j].slot]
              IN  /\ batch[w][j].slot \in Occupied(queue)
                  /\ slot.processing /\ slot.analyze /\ ~slot.ready
                  /\ slot.picture = batch[w][j].picture
        /\ \A i, j \in DOMAIN batch[w] : i < j => batch[w][i].picture < batch[w][j].picture

Running == {w \in Workers : workerPC[w] # "exited"}

HasWork(w) ==
    \/ stop
    \/ mode[w] = "batch" /\ NextPending(queue) # {} /\ ~(BatchHead /\ BatchWaits)
    \/ mode[w] # "batch" /\ NextPending(queue) # {}

(***************************************************************************)
(* When all the workers there are sleep, none of them has work it could    *)
(* do: a batching one with pictures in the queue waits for the prebuffer   *)
(* to fill.  And the host does not sleep with them: Filter only waits for  *)
(* a decision once the prebuffer is full.                                  *)
(***************************************************************************)
SleepersHaveNoWork ==
    Running # {} /\ Running \subseteq waiting =>
        /\ Host \notin waiting
        /\ \A w \in Running : ~HasWork(w)

\* Verdicts that arrive in batches make no other gate.
BatchGateSpec == Gate!GateSpec

(***************************************************************************)
(* Every call of the host returns, whatever the workers are doing.  Filter: *)
(* the batch the oldest picture belongs to is formed and published although *)
(* no other picture arrives before Filter has returned.  Flush, also as a  *)
(* part of Filter or Close, and the join of the workers in Close: no batch *)
(* leaves a slot processing.                                               *)
(***************************************************************************)
HostReturns ==
    /\ (hostPC = "enqueue") ~> (hostPC = "idle")
    /\ (hostPC = "flush") ~> (hostPC \in {"idle", "enqueue", "stop"})
    /\ (hostPC = "stop") ~> (hostPC = "closed")

(***************************************************************************)
(* A queued picture that must be analysed gets its verdict or is flushed,  *)
(* except that a batching worker leaves a short queue alone: then pictures *)
(* wait for the next call of Filter.                                       *)
(***************************************************************************)
LeftToNextCall == queue.count < Prebuffer /\ \E w \in Workers : mode[w] = "batch"

EveryPictureDecided ==
    \A p \in Pictures :
        (fate[p] = "inside" /\ wanted[p])
            ~> (verdict[p] # "pending" \/ fate[p] = "dropped" \/ LeftToNextCall)
=============================================================================
