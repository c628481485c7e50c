# icop: a verification development in TLA+

icop is a VLC video filter that classifies frames with a neural network and masks the
ones it takes for unsafe. This directory models the parts of it that decide *what is
shown when*: the delay queue and its worker threads, the block windows around a
detection, the settings these run with, the decision map that an ahead-of-time scanner
publishes, the audio mute, the chain of inference helpers, what the treatments write into a
picture, in memory and on the GPU, and how instances of the filter come and go in one
process. TLC checks small instances of every module; TLAPS proves, for every value of the
constants, the pipeline with either kind of worker, the block windows, filtering without
workers, the playback behind a scanner, the configuration, the audio mute, the inference
helpers, the GPU surfaces and what a viewer gets from them, what the treatments write into
pictures of any size, what a backend takes from its driver, and what instances hold and
release. Where a theorem needs more of the constants than the code guarantees, it says so in
its hypotheses, and section 6 says what goes wrong without them.

Paths below are relative to the repository (`src/plugin/...` is the plugin,
`tools/...` the Python tools).

## 1. The system

### 1.1 Components

| Component | State | Operations | Talks to |
|---|---|---|---|
| Frame queue and detector workers (`nsfw_filter_worker.c`) | ring `frame_queue[]` with head and count; per slot analyze / processing / ready / nsfw / blocked; `worker_stop` | queue, take oldest, claim oldest pending, publish, release all, start, stop and join | host thread and workers, under `worker_lock`; all sleep on one `worker_cond` |
| Entry points `Filter`, `Flush`, `Close`, `Open` (`nsfw_filter.c`) | `frame_count`, `last_frame_timestamp_ms`, `cuda_host_failed` | one picture in, at most one out; reset; shut down | everything below |
| Block windows (`nsfw_filter_worker.c` 480-680) | `time_block_ranges`, `renewal_block_end_ms` | prune, insert and merge, look up with early exit, decide whether a picture is sampled | written by workers, read by the host |
| Display output and mask state (`nsfw_filter_decision.c`) | `output_mask_active`, `audio_mute_requested` | `ApplyBlockedOutput`, `ApplyDisplayOutput` | audio mute |
| Configuration (`nsfw_filter_config.c`) | stride, padding, prebuffer, workers, batch | resolve options and environment, replace the old preset, constrain to decoder surfaces | `Open`, first hardware picture |
| Decision map mode (`nsfw_filter_decision.c`) | parsed ranges, `last_scanned_ms`, `done`, two file signatures | reload on a stride and on flush, judge a picture | the scanner, through two files |
| Scanner and guard (`tools/nsfw_scan_ahead.py`, `tools/nsfw_vlc_guard.py`) | processed samples, active block, ranges; the guard's last look at VLC and at the status | sample, write map then status; pause and resume VLC over its remote control | files, environment, remote control |
| Audio mute (`nsfw_filter_audio.c`) | `audio_muted_by_filter` | look at the switch, write it | VLC's audio output, which the user moves too |
| Inference hosts (`nsfw_cuda_host.c` on both ends, `nsfw_filter_worker.c` 1-430) | helper process, its pipe, `gpu_batch_supported`, current endpoint | start with handshake, classify a batch, fall back CUDA -> DirectML -> CPU | a worker and a child process |
| Detector core (`nsfw_filter_core.cpp`, `nsfw_onnx_providers.cpp`, `nsfw_model_registry.cpp`) | process-wide: statics of ONNX Runtime's load; the environment variable `NSFW_ONNX_PROVIDER` | create a detector (model path, load, session, provider), destroy, classify | the openers and workers of every instance |
| Backend choice, core loader, window icon (`nsfw_backend.c`, `nsfw_filter_core_loader.c`, `nsfw_window_icon.c`) | what an instance holds: backend or converter, `icop_core`, a use of the icon | open, size, close; load, unload; enable, disable | `Open`, `Close`, other instances |
| Windows GPU batch worker (`nsfw_filter_worker.c` 186-430) | the batch it has claimed | wait for a full prebuffer, claim several slots, classify, publish all | the ring and the hosts |
| Pixel processing and debug panel (`frame_processor.c`, `nsfw_debug_overlay.c`) | none: the picture itself | pack to RGB, heuristic, black, blur, warning, panel | the display output, on VLC's thread; packing on the workers |
| Hardware backends (`nsfw_filter_d3d11*.c`, `nsfw_filter_vaapi*.c`) | driver objects, view cache, effect targets, cached panel, the lock | open, size, close; read back, render blocked, render panel | a worker and VLC's thread at the same time |

Not modelled: preprocessing and inference (numeric code; a classification is a *choice of
outcome* here), which windows carry the icon, the look-up of symbols, build files and tests.

### 1.2 What is hard in it

- **One condition variable for everybody.** `Filter` waits on it for a decision,
  `Flush` for workers to finish, workers for work. `Filter` only *signals* (848): the
  wakeup goes to one sleeper, of any kind. That no wakeup is lost rests on the host never
  sleeping while it signals, which nothing in the code says.
- **A slot pointer used after an unlock.** A worker classifies without the lock and writes
  through the pointer it took before (974-1066). Meanwhile the ring turns, other frames
  leave, a flush may empty it.
- **A batch that waits.** The Windows worker does not form a batch before the prebuffer is
  full, while `Filter` waits for the oldest picture of just that prebuffer, and a flush for
  slots that the batch keeps.
- **Detections out of order.** Two workers finish in any order; each prunes the range list
  by *its* window and inserts at the right place. Pictures queued earlier are masked by a
  flag in their slot, later ones by the list.
- **Sampling and renewal.** Only every Nth picture is analysed; within a block only one
  renewal sample is, and it must fall before the window ends, although windows are in
  milliseconds and samples in pictures.
- **Sticky and unlocked state.** `cuda_host_failed` is never cleared;
  `audio_mute_requested` is written under the lock by workers and without it by the host.
- **Two files, four system calls.** Map and status are replaced one after the other and
  read one after the other, with signatures taken before the reads.
- **A helper process that dies mid-answer**, and a batch whose results must be read and
  thrown away.
- **Open that fails half-way.** `Open` takes up to nine kinds of things and may fail or do
  without at every step; workers start one by one, some of them not at all, and the first
  may already be running. `Close` has only the pointers to go by.
- **One GPU, two threads.** The worker reads a surface back while VLC's thread masks another
  through the same cache of views and the same targets; an entry may be evicted by either.
- **A driver that refuses.** Any call may fail: while opening (some forty resources, local
  variables that `Close` does not know), and in the middle of a treatment, when a target has
  been written and two surfaces are held.
- **Thirty-six pixel layouts.** 8 to 16 bits, two byte orders, two orders of the chroma
  planes, odd sizes, marks larger than the picture: what is written must mean black, or red,
  to what reads it, and stay inside the plane.
- **State of the process, not of the instance.** The environment variable that selects the
  provider is saved, changed and restored without a lock, and ONNX Runtime is loaded under
  plain static flags, by the threads of every open filter.
- **A user at the same mute switch**, and a pause command that is a toggle.
- **Numeric edges.** Options are any integer, an environment variable may be half a
  number, a decoder may have fewer surfaces than the reserve.

`PROJECT.json` lists each hazard at its line with the properties that guard it, or why
none does (section 8).

## 2. The modules

| Module | Models | Notes |
|---|---|---|
| `OutputGate` | what the plugin promises of delayed pictures, abstractly | Enter, Decide, Leave, DropAll |
| `BlockWindows` | range list, pruning, merging, sampling and renewal | operators only, no RECURSIVE |
| `FrameQueue` | the ring of slots | operators only |
| `FilterPipeline` | host thread and workers over the two | the core; refines `OutputGate` |
| `GpuPipeline` | the same host with the Windows batch worker, or with single-frame ones; liveness; extends `FilterPipeline` | refines `OutputGate` too |
| `SyncFilter` | `Filter` when no worker runs | same `BlockWindows`, longer timelines |
| `PluginConfig` | `Open`, first hardware picture, `Close` as far as settings go | |
| `ScanAhead` | the scanner and its files | |
| `DecisionMap` | the plugin in map mode, extends `ScanAhead` | |
| `PlaybackGuard` | guard, VLC and user, extends `DecisionMap` | the whole of scan-ahead playback |
| `AudioMute` | the mute switch between filter, workers and user | |
| `InferenceHost` | one worker, its helper process and the fallback chain | |
| `DetectorCore` | `nsfw_detector_create` and the CPU fallback, per calling thread | shared: environment, load of ONNX Runtime, `icop_core` |
| `PluginLifecycle` | `Open` and `Close` of several instances, extends `DetectorCore` | what is taken, named, given back, left behind |
| `PixelFormats` | the layouts of software pictures | operators only |
| `FrameProcessor` | packing, heuristic, treatments and panel on pixels | pure operators, two actions |
| `BackendResources` | what a backend takes, call by call, and gives back | |
| `HardwareBackend` | read-back, treatments and panel on GPU surfaces, extends `BackendResources` | worker and VLC's thread |
| `DisplayOutput` | `ApplyDisplayOutput`, extends `FrameProcessor` and `HardwareBackend` | one instance, of either kind |
| `MC*` | instances for TLC | constants only |
| `*_proofs` | lemmas and theorems, for the module they are named after | sections 5 and 6 |

`FilterPipeline_proofs` also has the theorems of `BlockWindows`, `FrameQueue` and
`GpuPipeline` (it extends the last), `PlaybackGuard_proofs` those of `ScanAhead` and
`DecisionMap`, `DisplayOutput_proofs` those of `HardwareBackend`, `BackendResources`,
`PixelFormats` and `FrameProcessor`.

### 2.1 How state and steps correspond to the code

**FilterPipeline.** A step is what one thread does between two points where another thread
can see it: a critical section, or a stretch without the lock. `Filter` is `FilterCall`
(time, discontinuity test, frame number), `FilterEnqueue` (the critical section that
queues), `FilterWait` (both `pthread_cond_wait`s), `FilterTake` (`TakeReadyOutputLocked`)
and `FilterDisplay` (after the unlock). The code does *not* unlock between queueing and its
first test of the oldest frame; `hostPC = "held"` is that moment, and `LockFree` keeps
workers out of it. `Flush` is `FlushWait`, `FlushRelease` under the lock, and `FlushReset`
after it; `resume` says whether it was called by VLC, by `Filter` (a jump in time) or by
`Close`, which goes on with `StopWorkers` and `JoinWorkers`. A worker's round is
`WorkerSleep` or `WorkerClaim`, then `WorkerPublish` through `workerSlot`, and `WorkerExit`.
`SignalOne` picks any sleeper; waits may end spuriously. `fate`, `wanted`, `verdict`,
`positives` and `rawTimes` are history: no guard reads them.

**GpuPipeline.** `ProcessGpuBatch` is `BatchSleep`, `BatchYield` (it returns 0 and the round
goes down the single-frame path), `BatchClaim` (one critical section, several slots) and
`BatchPublish` (the loop over the batch, in one critical section). The two loops are
functions of the number of rounds done. A worker's
`mode` is "off" once the helper cannot batch. `StartedWorkers` is what `StartDetectorWorker`
starts: one batching worker or several that never batch.

**SyncFilter.** Without workers one thread does everything in one call, so a call is one
step. Content (`unsafe`) is explicit here, so that a property can speak of continuous unsafe
content; a detector that answers is taken to be right.

**PluginConfig.** An option or environment value is a record of what parsing yields, a
number and whether the whole text was one. Products wrap at `Word`, as `unsigned` does.
`Open` includes the replacement of the old preset.

**ScanAhead, DecisionMap, PlaybackGuard.** A film is its set of unsafe samples. A refresh of
the map is four steps (two `stat`s, two reads) and the scanner may write between any two.
A signature is (second of the last write, number of lines). The guard asks for the status,
the time and the state, then toggles, one step each; `get_time` answers in whole seconds and
may answer late. Either a guard starts VLC, or a user does and may seek.

**AudioMute.** `SyncAudioMutedForBlockedFrame` is its early returns, a look at the switch and
a write; the user moves the switch between any two of them, and VLC may refuse a write. The
four routes are playlist, audio output, the input's variable alone, and none.

**InferenceHost.** A worker's call is the request, one step per answer read, and the
fallback. The helper answers all of a request, or dies after a part of it; the plugin sees
the death when the pipe has run dry. A verdict is represented by the frame it was computed
from, so a verdict on the wrong frame is visible. GPU mode has one worker
(`ResolveWorkerCount`), which is why there is one here.

**PixelFormats, FrameProcessor.** A plane is a function from cells to units (the bytes that
one step of `pixel_stride` covers), with one row and one column behind the visible part for
the padding. A chroma is its family, depth and byte order; the switch tables of
`frame_processor.c` become sets of these. `BlockFrame` is what `ApplyBlockedOutput` calls,
`DebugOverlay` what follows it; the colours are those of the code, in its integer arithmetic.

**BackendResources, HardwareBackend.** `script` is the list of calls an Open makes; at each it
may go on, go without, or fail and clean up as the function it is in does. A surface is a
<<texture, slice>> with an owner and what it shows; a step is a driver call that another
thread can come between, so a D3D11 treatment is `MaskD3D11` (view, output, lock) and
`EffectD3D11` (blits, unlock), a read-back `BeginReadback` and `EndReadback`. VAAPI's calls
are one step each; its lock is never taken, and its surfaces are not cached. `seen` and `shown`
are history: what the detector and the viewer got last.
A read-back is represented by the picture whose pixels were read, not by their values. In a
script, `Take` and `Get` hold one thing more, `Give` one less, `Try` may go without, and `Risk`
is a call that takes nothing but may fail with what is held: the upload of pixels into a new
surface, which is its helper's until that succeeds. `Locals` is what functions release on their
own way out. It is one set for all of them: at each call that can fail, what is held of it
belongs to that function or to a caller that releases it too. An image and its mapping are one
resource.

**DisplayOutput.** An instance is opened for software or for hardware pictures and stays so
(`backend_ops` and `opaque_fallback` are set by `Open` only); the product is by `backend`.

**DetectorCore, PluginLifecycle.** A step ends where another thread of the process can see
or change something: the read, change and restore of the environment variable, the test and
the end of the one-time load, a thread's start, exit and join, load and unload of
`icop_core`; and after each of `Open`'s decisions. `held` is what an instance really has,
`named` and `slot` are the pointers of `filter_sys_t` and of a worker, and `Close` releases
`named` only. `StartDetectorWorker` reads the variable three times (number of workers, own
detectors, helpers), so the three answers may differ. A backend is one resource; what it
takes inside is its own affair.

## 3. Runs

| Run | Question | Result |
|---|---|---|
| `pipeline_safety` | Do slots, decisions, windows, wakeups and the abstract gate survive every interleaving? | holds, about 1.2 million states up to the symmetry of workers |
| `workers_liveness` | Either kind of worker: do batches own their slots, hold the windows and the gate; do `Filter`, `Flush`, `Close` return, is every queued picture decided or flushed? | holds, 0.14 million states |
| `pipeline_lookback` | Is the padding *before* a detection delivered? | violated, see 7.1 |
| `sync_default` | Default stride and padding, one lost picture at a time, seeks, every failure: raw flashes, spacing of samples, fail-closed | holds |
| `config` | Are settings in range at the edges of every option? | holds |
| `map_playback` | Scanner, plugin and guard, call by call, with crashes and seeks | holds, about 0.3 million states |
| `guard_env` | Does a guarded playback use the map? | violated, see 7.2 |
| `audio_mute` | Masked means silent, and what the filter muted it lets go of | holds |
| `inference` | Do verdicts belong to their frames, does the chain end, is no helper left? | holds |
| `lifecycle` | Two instances open, fail, fall back and close: is anything left behind, or taken from a running thread? | holds, about 1.3 million states |
| `display` | Treatments and panel, on pixels of every chroma and on GPU surfaces with every driver call failing | holds |
| `display_warning` | Is a blocked picture treated, whatever the backend? | violated, see 7.3 |

What the passing runs show, beyond types:

- `WorkerOwnsItsSlot`: when a worker writes through its old pointer, the slot still holds the
  picture it classified, and nobody else has it.
- `DecisionMatchesPicture`, `GateSpec`: a decided slot has the verdict
  on its own picture; no picture leaves before its decision, or unmasked against a positive
  one; pictures leave in order; a flush drops all that is inside.
- `WindowHolds`, `MaskHasCause`: once
  a detection is registered every picture of its window that is still inside, or comes
  later, is masked; and nothing is masked without a detection of the running timeline.
- `NoLostWakeup`: a sleeping thread has nothing to do.
- `BacklogBound`: `Filter`'s branch for a full queue is never entered.
- `BatchOwnsItsSlots`, `SleepersHaveNoWork`, `BatchGateSpec`, `WindowHolds`: with a batching
  worker too, results are written to the slots that were claimed, when all workers sleep none
  of them has work and the host is awake, the gate is the same gate, and a detection inside a
  batch masks the earlier pictures of that batch.
- `HostReturns`, `EveryPictureDecided`: `Filter`, `Flush` and `Close` return, and pictures are
  decided, or wait for the next call in a prebuffer that is not full.
- `FailClosed`: a failed inference is never forgotten, and nothing is shown
  unmasked after it.
- `NoRawFlash`, `SampleSpacing`, `UnreadableFailsClosed`: no raw picture inside continuous
  unsafe content; a raw picture has a sample among itself and the `Stride - 1` before it
  (at the default stride and padding; section 6 has the condition);
  where pixels cannot be read, raw means analysed and clean.
- `DecoderKeepsItsReserve`, `PrebufferCoversWindow`: the queue leaves the decoder its surfaces
  and is deep enough for the window around a detection.
- `StatusVouchesForMap`: up to the time the status on disk names, the map on disk agrees with
  what the scanner found, between two writes and after a crash.
- `NoStaleMap`: the plugin judges by a map at least as new as the one on disk when its last
  refresh began.
- `PlaybackBehindScan`, `NoMappedPictureShown`, `GuardResumes`: playback stays behind the
  scan, no picture of a mapped block is shown, and a paused playback goes on.
- `MutedWhileMasked`, `ReleasedAfterBlock`: masked means silent, and what the filter muted it
  lets go of.
- `VerdictsAreTheFrames`, `BlocksOnlyWhenAllFail`, `NoHelperLeftBehind`, `CallReturns`: an
  answer belongs to the frame it is taken for, everything is blocked only when the CPU has
  failed too, no process stays behind, and the chain ends.
- `NothingLeftBehind`: wherever `Open` fails, and after every `Close`, all that the instance
  took has been given back. The one exception is written into the property: when the paths
  of the decision map cannot be copied, `Open` frees the structure and forgets the backend
  or converter it has opened (`nsfw_filter.c:462-470`).
- `ThreadsHaveWhatTheyUse`: no failed start of a worker and no order of closing takes the
  lock, the worker array, the backend or `icop_core` from a thread that still runs.

- `BlackedOutIsBlack`, `WarningIsRed`, `BlurKeepsOneColourPerBlock`: what a treatment writes
  is read back by the packer as black, as red where luma and chroma mark meet, as one colour
  per block, in every layout.
- `OnlyVisibleWritten`: nothing is written behind the visible part of a plane.
- `OutputIsTheVerdict`: what VLC gets for a picture is that picture, masked or not as it was
  decided, and never what a target, a recycled surface or an evicted view showed before; a
  panel shows the score of the last evaluated picture.
- `ReadbackIsThePicture`: the detector sees the picture it was asked about, or nothing.
- `SurfacesAccountedFor`: every surface has one holder, and D3D11 loses none.
- `NothingLeftInBackend`: whichever call of Open fails, and after Close, nothing of the
  driver's is held.

Every property also has a mutant in `PROJECT.json`: a plausible slip in one definition (a
dropped guard, a lost reset, a swapped order) under which TLC finds it violated. Named
definitions that no run lists are theorems instead (section 5): `TypeOK` of the pipeline and
of the playback, `NoUndecidedOutput`, `RangesInOrder`, `MuteRequestHasCause`,
`SettingsInRange`.

### 3.1 Bounds, and why they are enough

- **Pipeline**: a ring of 3 slots, 2 workers, prebuffer 3, stride 2, padding 1, 5 pictures. Five pictures make a ring of three turn once and one more; two
  workers are the smallest number that can finish out of order; steps of 1, 3 and 9 are the
  next picture, a gap wider than two paddings, and a seek. The theorems have none of these
  bounds, except that the set of pictures is `1..MaxPictures` for some `MaxPictures`.
- **Either kind of worker**: 4 pictures for two single-frame workers (`MaxSeveral`), 5 for a
  batching one, whose second batch needs the fifth; batches of 2, prebuffer 3 in a ring of 4,
  stride 2: a batch can be full or short, the prebuffer can be full while the ring is not, and
  the oldest pending picture is one that needs no analysis as often as one that does.
- **Sync**: the default stride 3 and padding 5 and up to 10 pictures, so that a window (11
  frame times) ends inside the run; steps 1 and 2, and 9 for a seek. Windows are in
  milliseconds and samples on every Nth picture: with *two* pictures lost in a row, again
  and again, no sample falls within a window, and `NoRawFlash` fails. `SampleSpacing` holds
  where two strides of pictures last longer than the padding; with stride 3, padding 6 and
  steps of 1, up to `2 * Stride - 1` pictures pass without a sample (section 6).
- **Config**: each option below, at and above its range; `Word` is 65536 instead of 2^32 so
  that products wrap with small numbers.
- **Map**: 5 samples, films with none, with separate and with adjoining unsafe samples, a
  write every 2, reload every 2 pictures, a watermark of three samples. Every write falls in
  a second of its own (`Elapsed = {1}`): two writes in the same second that leave the number
  of lines alone have the same signature, and then `NoStaleMap` fails (with
  `Elapsed = {0, 1}` TLC finds it in 28 steps; listed as a hazard).
  `MaxAdvance = 1`: at most one picture is shown between two rounds of the guard. This is the
  model's only statement about real time. `PlaybackBehindScan` takes the scanned time as
  scanned, as the code does, although a sample covers a half-open interval that ends there.
  A film's times go to the longer of its samples and the duration that ffprobe reports; it may
  report 0, and then the last status says the time of the last sample. The properties hold
  with a duration of 0, and with ones below and above the time of the samples, too.
- **Audio**: no bound, all states.
- **Inference**: batches of up to 3, 6 frames: several calls of every size, with a helper
  lost in any of them.
- **Display**: every chroma, in pictures of 1x1, 7x3, 27x26 and 108x10 pixels: smaller than
  the mark and the panel, with odd chroma planes and blocks that do not divide them, with
  room for the mark, and with room for the panel's width only. On the GPU two pictures, three
  surfaces (two slices of one texture, one of another) and *one* entry in the view cache, so
  that every look-up of another surface evicts: with two entries and two pictures no view in
  use could be evicted, and nothing would be tested. One score besides the failure's.
- **Lifecycle**: two instances, the least that can share the process; one with any kind of
  picture and up to two workers, so that one worker can fail before or after another has
  started, and one with software pictures and one worker. Files that are missing are missing
  throughout a behaviour; whether a map is used, the build and the user's provider are
  chosen once. Instances open and close without end.

### 3.2 Fairness

- Either kind of worker (`GpuSpec`): weak fairness of each thread's own steps (`FilterStep`,
  `FlushStep`, `CloseStep`, each `GpuWorkerStep(w)`): a runnable thread runs, and a classification returns.
  `FilterCall` and `FlushCall` are VLC's and have none: VLC may stop calling. Spurious
  wakeups have none and are switched off in the liveness run, so that nothing rests on them.
- Playback: weak fairness of scanner, guard and plugin; strong fairness of an *answered*
  `get_time`, since it may be late repeatedly but not for ever. Neither the user nor the
  decoder has to do anything.
- Inference: the worker runs; a helper that owes its handshake or an answer gives it or dies.
  Death is always possible and never forced. A helper that hangs is excluded, because the
  code reads without a timeout: `CallReturns` does not hold of one.
- Modules with safety properties only have no fairness.

`CHECK_DEADLOCK FALSE` appears in the sync run, which stops at `MaxFrames`, and in the two
display runs, which stop when the backend is closed, failed, or the software picture is done.
The other modules say explicitly where the system may rest (`Closed`, `Ended`, `Gone`).

## 4. Composition and refinement

`FilterPipeline` extends `BlockWindows` and `FrameQueue` and implements `OutputGate` through
its history variables: `Gate == INSTANCE OutputGate WITH ...`, `GateSpec == Gate!GateSpec`.
A worker that publishes is `Decide`, `FilterTake` is `Leave`,
`FilterEnqueue` is `Enter`, `FlushRelease` is `DropAll`; everything else stutters. The full
ring, in which one step would be `Leave` *and* `Enter`, would break this; `BacklogBound`
shows the branch dead, and the refinement proof uses it. `Decide` lets several verdicts
arrive in one step: `GpuPipeline`, which extends `FilterPipeline` and keeps its host, implements
the same gate with batches (`BatchGateSpec`).

`DisplayOutput` extends `FrameProcessor` and `HardwareBackend`, and the latter
`BackendResources`: GPU pictures are taken only while the backend is open, and `Close` drops
what is queued before the resources go. The verdict on a picture is a choice there; the
pipeline has what makes it.

`ScanAhead`, `DecisionMap` and `PlaybackGuard` compose by extension: three processes, one
next-state relation, shared variables being the two files, the environment and the player.

`PluginLifecycle` extends `DetectorCore`: a thread that wants a detector hands its call over
(`AskDetector`, `AskCpuFallback`) and goes on when it is `Answered`. It abstracts what the
other modules detail: pictures (`FilterPipeline`, `SyncFilter`), the helper's protocol
(`InferenceHost`), the settings (`PluginConfig`).

## 5. What is proved

All proofs are checked by TLAPS; the assumptions are the named `ASSUME`s of the modules
(at least one worker, prebuffer within the ring, positive intervals, and so on). A theorem
whose third column is empty has no other hypothesis.

| Theorem | Says | Hypotheses |
|---|---|---|
| `TypeCorrect` | types, and every slot index is in the ring | |
| `BacklogBounded` | the queue holds fewer than prebuffer pictures between calls | |
| `RangesStayInOrder` | ranges sorted and disjoint for any order of detections | |
| `WorkersOwnTheirSlots` | the slot pointer is still good when it is used | |
| `DecisionsMatchPictures` | a decided slot carries its own picture's verdict | |
| `PipelineIsAGate` | the pipeline refines `OutputGate` | |
| `NothingLeavesUndecided` | proved of the gate, carried over by the refinement | |
| `FailureIsForGood` | a failed inference is never forgotten | |
| `NoWakeupIsLost` | one condition variable and a filter that only signals are enough | |
| `WindowsHold`, `MasksHaveCause` | masked if, and while inference works only if, in a window | |
| `MuteRequestsHaveCause` | a mute request has a cause between calls | |
| `EarlyExitIsRight` | the look-up that stops early is exact on a sorted list | |
| `DetectionWindow` | a detection keeps order, covers its window, forgets nothing from its start on, adds nothing else | |
| `BatchesOwnTheirSlots` | a batch's results are written to slots that still hold its pictures, undecided | |
| `SleepersRest` | either kind of worker: when all sleep, none has work and the host is awake | |
| `BatchesAreAGate`, `NothingLeavesBatchesUndecided` | with batches too the pipeline refines `OutputGate`, and so keeps its promise | |
| `BatchWindowsHold`, `BatchMasksHaveCause` | with batches too a picture is masked if, and while inference works only if, in a window | |
| `UnreadableIsMasked` | without workers, where pixels cannot be read, raw means analysed and clean | |
| `StreamIsSampled` | a raw picture has a sample among itself and the `Stride - 1` before it | `StepsWithinLead`, `SecondSampleIsPast` |
| `DetectionIsContinuous` | no raw picture inside continuous unsafe content | `TimeAdvances`, `StepsWithinLead`, `StepsWithinPadding` |
| `PublishedMapsAgree` | where the status on disk vouches, the map on disk is the scanner's | |
| `RefreshMissesNothing` | the plugin judges by a map at least as new as the one its refresh found | `WritesApart` |
| `PlaybackStaysBehind` | guarded playback shows nothing the status on disk does not vouch for | `WatermarkHolds`, `StepsAreNoSeeks` |
| `GuardKeepsPromise` | no picture the scanner masks is shown raw under the guard | `WatermarkCoversStride`, `StepsAreNoSeeks`, `WritesApart` |
| `SettingsSafe`, `ReserveSafe`, `PrebufferSafe` | the settings, for all options, environments, formats and surface counts | |
| `MaskedIsSilent`, `MuteIsReleased` | the audio mute, for every route, refusal and move of the user's | |
| `VerdictsBelong` | a verdict is that of the frame it is taken for, for any size of batch | |
| `BlockingIsTheLastResort`, `HelpersEnd` | a call fails only when all three endpoints have; no helper outlives its endpoint | |
| `ClosedLeavesNothing` | a failed or closed instance has left nothing, for any number of instances and workers | |
| `RunningThreadsAreSafe` | nothing is taken from a worker that runs | |
| `SurfacesStayAccountedFor` | every GPU surface has one holder, for any pictures, surfaces and size of the view cache | |
| `ReadbackIsRight` | the detector sees the picture it was asked about, or nothing | |
| `VerdictReachesViewer` | VLC gets each picture masked or not as decided, and never another's content | |
| `BackendGivesAllBack` | whichever call of Open fails, and after Close, nothing of the driver's is held | |
| `PaddingIsLeftAlone` | no treatment and no panel writes outside the visible part of a plane | |
| `BlackoutIsComplete` | a black picture reads as black, at any size and in every layout but ARGB (section 7) | |
| `BlurHidesDetail` | a blurred picture shows one colour per block, luma and chroma together | |
| `WarningIsSeen` | the two marks of a warning meet, and are red where they do | |

The last four are about every set of pictures that `OriginalsAssumption` allows. `IsPicture`
says what VLC guarantees of a picture: it is not empty, it has the planes of its chroma, with the
rounded sizes of `picture_Setup`, and each plane has units for its visible cells and possibly for
more. Nothing is assumed of what the units are. The scores on a panel and the sizes that the
packer is asked for are pairs of naturals (`ScoresAssumption`, `TargetsAssumption`), and the
backends those that `nsfw_backend_open` knows (`BackendsAssumption`).

## 6. How the proofs go

**The pipeline** is proved in layers, each inductive relative to those below:

1. `Typed`: `TypeOK` with `Backlog` (what the queue can hold where the host is) and
   `CallHasPicture` (a running `Filter` call has a picture). `TypeOK` by itself does not
   keep the count within the ring over `FilterEnqueue`.
2. `RangesInOrder`, from `ApplyBlockWindowProperties`.
3. `WorkerOwnsItsSlot`: a slot that is processing is never taken (only a ready one is) and
   never released (`FlushRelease` waits), so it keeps its picture.
4. `Queued`: the occupied slots hold the pictures whose fate is "inside", in the order of
   their arrival. This is what makes "oldest slot" the gate's "oldest picture".
5. `Decisions`: a slot's flags agree with `wanted` and `verdict`. From 1 to 5 follow
   `DecisionsMatchPictures` and the step simulation `GateStep`, hence `PipelineIsAGate`.
   `NothingLeavesUndecided` is then proved of the gate's four actions alone
   (`GateKeepsPromise`) and carried over by the refinement.
6. `Windows`: a queued picture in a window is marked in its slot (`WindowsMarked`), and from
   the last picture's time on the list covers every window (`WindowsCovered`); conversely
   what is marked or listed has a detection (`MarksHaveCause`, `RangesHaveCause`); `Clock`
   says no queued picture is later than the last. `WindowHolds` by itself is not inductive:
   pruning forgets ranges that queued pictures lie in, and only their marks remain.
7. `RequestHasCause`: where the host is decides which of the mask, the running output or a
   queued picture accounts for the request.

`NoWakeupIsLost` needs only layer 1: the one place where `Filter` signals is one where the
host is awake, so the sleeper that is woken is a worker (`SignalWakesAWorker`), and every
other place broadcasts.

**Workers that batch** keep layers 1, 2, 4, 5 and 6, whose lemmas are about the host's steps and
about a slot, not about the worker that has it. Two layers are their own. `HeldInv`: a slot
that is processing belongs to exactly one worker, to a batch (`BatchesOwn`) or to a worker on
the single-frame path (`SinglesOwn`), and every processing slot has such an owner. `Asleep`:
who waits has let go of all slots (`WaitingAreIdle`), `Filter` sleeps only over a full
prebuffer (`Awaiting`), the host has a reason to sleep, and a stop wakes all; with all
workers asleep nothing is processing, so the oldest picture of a full prebuffer is decided or
would be work. The two loops of `ProcessGpuBatch` are functions of the number of rounds;
that such a function exists is `LoopExists`, from the least number without one, and what a
loop does to the ring is an invariant of its rounds (`TakeInOrderProperties`,
`PublishAllEffect`). For layer 6 that invariant is `WindowsOf` with the detections of the
rounds so far (`PublishAllWindows`): a round masks the pictures before its own too, although
their results are written.

**BlockWindows** is proved through what `ApplyBlockWindow` is built from: a leading part of
the list, a splice, a prune, each with the set of times it covers.
**FrameQueue** is index arithmetic modulo the ring's size (`IndexInjective`) and what each
operation does to the slots. **PluginConfig** has one invariant, `ConfigInv`, that adds
that options and format keep their types.

**SyncFilter**: `UnreadableFailsClosed` follows from each call by itself. For the other two,
without workers the list never has more than one range (`Shaped`), and what is not masked
lies outside it (`OutsideMask`), so the timeline is an age and an end. `SamplingInv` says how
many pictures have passed since the last sample and how far the renewal and the window are
(`Aged`, `Spaced`), and that a window is renewed once (`RenewedOnce`). The hypotheses are
about frame times d (the steps that are not seeks): a stride of pictures fits in the lead
(`(Stride - 1) * d <= LeadMs + 1`); two strides are longer than the padding
(`2 * Stride * d > PaddingMs`) for `SampleSpacing`; a stride fits in the padding for
`NoRawFlash`. `PluginConfig` has stride > 0. The defaults (`nsfw_filter_config.c:409-450`:
strides 3 to 6, a padding of stride + 2 frames) satisfy all of them at a steady rate.
Without them TLC finds counterexamples: a window that ends on an aligned picture whose
renewal was already taken leaves up to `2 * Stride - 1` pictures without a sample (stride 3,
padding 6), and so does a stride of 4 with frame times of 1 and 2, longer than the lead.

**Playback behind a scanner**: `Published` orders the writes (the map is there before the
status that speaks of it, a done status is the last write, and a status is no further than
the scanner), so `StatusVouchesForMap` holds after a crash between the writes as well.
`Refreshed` orders the reads: signatures are no later than the clock (`TimesPassed`), a map
read under the current time is the current map (`SignedMap`), and what the plugin has is not
older than what its refresh found (`NotOlder`). `SignedMap` needs `WritesApart`, no two writes
in one second: the code does not see to that, and with `Elapsed = {0, 1}` the property fails.
`KeptBehind` measures how far playback can be past what the guard last saw: the time is
rounded down by up to a second, and a round lets 1 + 2 * `MaxAdvance` pictures pass
(`InReach`), where what the guard knows is old but not wrong (`Informed`). A watermark of that
size is `WatermarkHolds`; one that covers the plugin's reload stride too,
`WatermarkCoversStride`, makes the plugin's map contain every block up to its next refresh
(`KnownAhead`). The code's defaults satisfy these: a watermark of 10 s against whole seconds, a
round of 0.75 s and 12 pictures; and a seek is at least eight frame intervals
(`nsfw_filter_decision.c:253-265`). They are needed: a reload stride or a watermark beyond
the bound, or a seek threshold below a picture's step, gives TLC a counterexample.

**AudioMute** has one invariant, `MuteInv`. Neither property is inductive: what holds between
two calls rests on what was asked when the synchronisation began (`WantIsPending`,
`WantHasCause`), on the look still being right when the write comes unless the user moved the
switch (`LookIsCurrent`), and on the user's having the last word whenever the filter has let
go (`UsersSwitch`).

**InferenceHost** has one invariant, `HostInv`: what failed so far follows from the endpoint in
use (`Chain`), a helper belongs to one (`Helper`), and the pipe is empty except between a
request and its answers (`Pipe`). `Verdicts` says that the answers still in the pipe are those
the request asked for, in order, after the ones already read. An answer left over from an earlier request would
shift all later verdicts; so a refused batch must be read to its end (`Progress`, `Owed`).

**PluginLifecycle**: `LifecycleInv` is a statement about each instance (`Mine`) besides the
types of what is shared. What an instance holds is what it has named (`Things`); array and
lock of the workers live from their allocation to the end of the joins (`Names`); which slots
are in use follows from the count and from how far start or join has come (`Filling`,
`Counting`); a thread is in `icop_core` only while it or its opener waits for it (`JobsOf`).
A step changes one instance and, of the shared state, nothing that another's `Mine` speaks of
(`Untouched`, `SameJobs`), which is why any number of instances can be proved at once.

**DisplayOutput** has two invariants. `SurfacesAccountedFor` by itself does not
say what VLC's thread has in hand at each of its steps (`Handling`: no output before a mask,
source and output distinct and the lock held during an effect), so that a failure could hand
back a surface twice. `ReadbackIsThePicture` needs that a view belongs to its key
(`ViewsMatch`) and, at the blit, that the worker's view is still cached (`Reading`): it has
had the lock since `GetInputView`, and every step that changes the cache takes it
(`NewView`). One lemma serves all steps of VLC's thread (`FilterStepKeeps`): they leave what
waits alone (`Holders`) and respect the lock (`Caching`). These make `BackendInv`; on top of it
`OutputInv` follows one picture from `TakeOutput` to the viewer: before the mask its surface
shows it raw, after the mask what is due (`Making`), and the panel changes the score alone.

**What a backend takes** is proved along the script of its Open. A part of a script is `Settled`
when each call in it that takes something is matched by a later one that gives it back, or takes
what the close function releases, or is *owed*, left to the part that follows; settled parts join
where what the first owes the second repays (`SettledTogether`). So each helper of Open is looked
at by itself and `ScriptsSettled` follows without going through all forty calls at once. The
invariant `Owned` then says that whatever is held while opening is the close function's or has its
release still to come; a failure gives back both. The local variables of the helpers that fail
are where this can go wrong (the mutant forgets the shader blobs).

**The pixels** have one invariant, `PixelInv`: the picture is the original as its style masks it
until a panel is drawn on it, and the same as the original outside the visible part of its
planes. The four properties are then lemmas about a treated picture.

- `OnlyVisibleWritten`: marks and panel are unions of rectangles, and a rectangle that was cut to
  its plane is visible, wherever its corner is (`RectsAreVisible`).
- `BlurKeepsOneColourPerBlock`: a chroma plane is cut with the luma plane's block size, so a block
  of chroma is two or more of luma. The chroma cell of the corner of a block and the chroma cell of
  any cell in it lie in the same chroma block (`CornersNest`): halving and going to the corner
  commute, as far as the corner of the chroma block goes.
- `BlackedOutIsBlack`: what one function encodes the other decodes, for either byte order and each
  depth of samples (`WordsRoundTrip`, `SamplesRoundTrip`), and the neutral sample of every depth
  scales to 128 (`ScaledSamples`); 0, 128, 128 is black for the packer (`BlackColour`) and no skin
  for the heuristic.
- `WarningIsRed`: the colour is as for black. That the marks *meet* is the hard half, because they
  are drawn for each plane by itself, with a size that is an eighth of the plane but at least 20
  and at most 72, at a distance from the corner that is a quarter of it. `Placed` states this as
  linear inequalities, and `MarkShape` names cells that are surely drawn. The common cell is then
  found by cases: with chroma halved both ways the left edge of the luma triangle crosses the
  bottom bar of the chroma triangle, or the two bars overlap, and in small pictures the chroma mark
  is cut (`MarksMeetHalved`); with chroma of half the width the luma bar crosses the right edge of
  the chroma triangle (`MarksMeetNarrowed`); other layouts follow from these (`MarksMeet`). All of
  this needs no more room than the property asks for, 26 pixels either way.

For these proofs the scale factors are a table (`PowerOfTwo`): samples have at most 16 bits, and
the SMT backend does not know powers.

**Only model-checked**:

- All liveness (`HostReturns`, `EveryPictureDecided`, `GuardResumes`, `CallReturns`), since
  neither fairness nor ENABLED is within the prover's reach.
- `DetectorCore` has no property of its own but the ones of `PluginLifecycle`.

## 7. Where the code and its documents differ

Shown by a run:

1. `pipeline_lookback`: the option's help says "Frames to include before and after a
   detection" (`nsfw_filter.c:318`). `TakeReadyOutputLocked` waits for the oldest picture's
   own decision only, so a clean picture just before an unsafe one may be out, unmasked,
   before the detector has answered for the latter.
2. `guard_env`: the guard hands the map over in the environment
   (`nsfw_vlc_guard.py:158-159`). `Open` first copies VLC's options into it, the empty
   default included, and so enters live mode.
3. `display_warning`: a blocked frame gets "a black, blur, or warning treatment"
   (`README.md:31-32`). VAAPI's `render_blocked` returns a copy of the source for the warning
   style (`nsfw_filter_vaapi_effects.c:562-569`); the watermark it made at Open is never drawn.

Met while modelling, in the models as the code has them, without a run of their own:

- The changelog announces mute restore (`CHANGELOG.md:156`), and `audio_previous_mute` is
  saved for it, but nothing reads it: a user's own mute made before a block is lifted after it
  (`nsfw_filter_audio.c:156-166`). `ReleasedAfterBlock` therefore says "muted only what the
  user muted", not the converse.
- `CreateCpuFallbackDetector` works "without changing the user's provider setting permanently"
  (`nsfw_filter_worker.c:72-73`). It saves, sets and restores a variable of the whole process:
  when two open filters fall back at the same time, one saves the other's "cpu" and restores
  that last. The next `Open` repairs it.
- VAAPI and the converter never release the source picture that a treatment replaces or drops
  (`SurfacesAccountedFor` promises that for D3D11 only); VAAPI initialises a lock that it never
  takes; it draws the debug panel and does not composite it; a failed copy for the panel drops
  the picture.
- `BlackoutFrameContent` writes 00 00 00 FF into ARGB as into RGBA, which makes an alpha-first
  picture blue and transparent (`BlackedOutIsBlack` leaves ARGB out); a chroma it does not know
  is left as it is by black and by warning, while blur falls back to black.
- In wide planar layouts warning and panel write 8-bit values unscaled, so the mark is nearly
  black there (`WarningIsRed` leaves them out). The mark of a chroma plane is sized for that
  plane and does not cover the luma mark exactly.
- VAAPI's read-back of P010 applies the constants of 8-bit video (16, 128) to samples of 10 bits
  (`nsfw_filter_vaapi_readback.c:157-187`), so the detector gets wrong colours there.
  `ReadbackIsThePicture` says which picture was read, not that its colours are right.
- `DestroyImage` unmaps with the image's identifier where every other function passes that of
  the image's buffer (`nsfw_filter_vaapi_readback.c:52`). The model takes a mapping to end with
  its image, which is destroyed next.
- The heuristic for wide planar layouts takes the width in bytes for a number of samples
  (`frame_processor.c:320-328`), and its subsampling for YUVA differs from the packer's.

## 8. Not modelled, and hazards without a property

- A helper that hangs (no timeout exists), excluded by fairness.
- ONNX Runtime's one-time initialisation through plain statics: `DetectorCore` has the race,
  and a thread that comes while another is loading may be refused its detector; no property
  says that it should not be.
- The provider variable under two simultaneous fallbacks, and the surfaces lost by VAAPI and
  the converter: modelled, and not as they should be (section 7).
- `NSFW_ONNX_INTRA_OP_THREADS`, which travels through the environment too.
- Liveness of `Open` and `Close` across instances: they share no lock, so what can block a
  `Close` is in `FilterPipeline`, `GpuPipeline` and `InferenceHost`.
- Two writes of the map in the same second with the same size (3.1).
- The guard's first wait, which does not look at a scanner that failed.
- Map and status left in the state directory by an earlier run; `atomic_write`'s
  fallback to writing in place.
- The input's variable `mute`, set and never cleared without an audio output; `AudioMute`
  has the variable, no document says what it should be.
- Pictures without a date. Their time is made from `frame_count`, and made again for the slot
  after the count has moved (`nsfw_filter.c:760`, `nsfw_filter_worker.c:563`), so from the
  second such picture on the two differ by a frame's interval; the models' pictures have dates.
- The last `prebuffer_frames - 1` pictures of a stream, which leave only by a flush.
- The GPU's geometry (cropping, scaling, letterboxing), the quality of its blur, timing
  queries, the dump of blocked pictures, and the PQ transfer of HDR panels, which is floating
  point.
- Which windows carry the icon; the look-up of symbols; allocation failures; logging.

## 9. Plan

Done: modules in the order `BlockWindows`, `FrameQueue`, `OutputGate`, `FilterPipeline`,
`SyncFilter`, `PluginConfig`, `ScanAhead`, `DecisionMap`, `PlaybackGuard`, `AudioMute`,
`InferenceHost`, `DetectorCore`, `PluginLifecycle`, `GpuPipeline`, `PixelFormats`,
`FrameProcessor`, `BackendResources`, `HardwareBackend`, `DisplayOutput`; and the proofs of
section 5, which state every safety property of the runs that pass. What is left unproved is
liveness.

Next, to model: files with partial or left-over contents under `ScanAhead`, the guard's first
wait, and which windows carry the icon.
