----------------------------- MODULE FrameQueue -----------------------------
(***************************************************************************)
(* The ring of frame slots (frame_queue, queue_head, queue_count of        *)
(* filter_sys_t), as pure operators on a record [slots, head, count].      *)
(* nsfw_filter_worker.c calls each of them with worker_lock held.  A       *)
(* worker keeps the INDEX of its slot (a pointer, in the code) while it    *)
(* classifies the picture without the lock, so the ring is modelled as a   *)
(* ring, with its head and its wrap-around, and not as a sequence.         *)
(***************************************************************************)
EXTENDS Integers

CONSTANTS
    MaxBufferFrames, \* NSFW_MAX_BUFFER_FRAMES, the number of slots
    MaxPictures      \* how many pictures the decoder delivers (a bound)

ASSUME MaxBufferAssumption == MaxBufferFrames \in Nat \ {0}
ASSUME MaxPicturesAssumption == MaxPictures \in Nat

Pictures  == 1..MaxPictures   \* numbered in order of arrival
NoPicture == 0                \* the null pointer of an empty slot

SlotIndex == 0..(MaxBufferFrames - 1)

(***************************************************************************)
(* nsfw_frame_slot_t.  Of the result only is_nsfw is kept; the sequence    *)
(* number is stored by the code and never read again.                      *)
(***************************************************************************)
Slot == [picture    : Pictures \cup {NoPicture},
         ts         : Nat,
         analyze    : BOOLEAN,
         processing : BOOLEAN,
         ready      : BOOLEAN,
         blocked    : BOOLEAN,
         nsfw       : BOOLEAN]

\* A slot after memset(slot, 0, sizeof(*slot)).
EmptySlot == [picture |-> NoPicture, ts |-> 0, analyze |-> FALSE,
              processing |-> FALSE, ready |-> FALSE, blocked |-> FALSE,
              nsfw |-> FALSE]

EmptyQueue == [slots |-> [i \in SlotIndex |-> EmptySlot],
               head  |-> 0,
               count |-> 0]

\* QueueIndex
QueueIndex(q, offset) == (q.head + offset) % MaxBufferFrames

\* The slots GetFrameSlotLocked hands out: offsets below queue_count.
Occupied(q) == {QueueIndex(q, k) : k \in 0..(q.count - 1)}

Full(q) == q.count >= MaxBufferFrames

OldestFrameReady_Undecided(q) == q.count > 0

\* OldestFrameReadyLocked
OldestFrameReady(q) ==
    /\ q.count > 0
    /\ LET slot == q.slots[q.head]
       IN  slot.picture # NoPicture /\ slot.ready /\ ~slot.processing

\* What FindNextPendingFrameLocked looks for, whether it is to be analysed or not.
IsPending(slot) == slot.picture # NoPicture /\ ~slot.ready /\ ~slot.processing

PendingOffsets(q) ==
    {k \in 0..(q.count - 1) : IsPending(q.slots[QueueIndex(q, k)])}

\* FindNextPendingFrameLocked: the oldest pending offset, none when there is no such slot.
NextPending(q) == {k \in PendingOffsets(q) : \A j \in PendingOffsets(q) : k <= j}

HasProcessing_Never(q) == FALSE

\* HasProcessingFramesLocked
HasProcessing(q) == \E i \in Occupied(q) : q.slots[i].processing

\* QueuePictureLocked, for a queue that is not full.
QueuePicture(q, picture, ts, analyze, blocked) ==
    [slots |-> [q.slots EXCEPT ![QueueIndex(q, q.count)] =
                   [picture |-> picture, ts |-> ts, analyze |-> analyze,
                    processing |-> FALSE, ready |-> FALSE, blocked |-> blocked,
                    nsfw |-> FALSE]],
     head  |-> q.head,
     count |-> q.count + 1]

\* What a worker writes through the pointer it keeps: one slot, in its place.
WithSlot(q, i, slot) ==
    [slots |-> [q.slots EXCEPT ![i] = slot], head |-> q.head, count |-> q.count]

\* TakeReadyOutputLocked's effect on the ring: an emptied ring starts again at slot 0.
TakeOldest(q) ==
    [slots |-> [q.slots EXCEPT ![q.head] = EmptySlot],
     head  |-> IF q.count = 1 THEN 0 ELSE (q.head + 1) % MaxBufferFrames,
     count |-> q.count - 1]

EnsureQueuedFramesInWindow_Skip(q, start, end) == q

\* EnsureQueuedFramesInWindowLocked: mark the queued frames whose time lies in the window.
EnsureQueuedFramesInWindow(q, start, end) ==
    [slots |-> [i \in SlotIndex |->
                   IF i \in Occupied(q) /\ q.slots[i].ts \in start..end
                   THEN [q.slots[i] EXCEPT !.blocked = TRUE]
                   ELSE q.slots[i]],
     head  |-> q.head,
     count |-> q.count]

QueueType == [slots : [SlotIndex -> Slot],
              head  : SlotIndex,
              count : 0..MaxBufferFrames]
=============================================================================
