---------------------------- MODULE PluginConfig ----------------------------
(***************************************************************************)
(* How Open turns VLC's options into the numbers the filter runs with      *)
(* (nsfw_filter_config.c): the analysis stride, the padding of a block,    *)
(* the prebuffer depth, the worker count and the GPU batch, the            *)
(* replacement of an old saved preset, and the tightening of the queue to  *)
(* the decoder's surfaces when the first hardware picture arrives.         *)
(* FilterPipeline takes the outcome as its constants; what it assumes of   *)
(* them is shown here.                                                     *)
(*                                                                         *)
(* An option is the integer VLC holds; SyncVlcOptionsToEnv writes a        *)
(* positive one to the environment and empties the variable otherwise, so  *)
(* that an unset variable and an option <= 0 are the same.  NSFW_BUFFER_MS *)
(* and NSFW_BUFFER_SECONDS come from the user's own environment.  Products *)
(* of 64 bits wrap.  Left out: model, block style, threshold.              *)
(***************************************************************************)
EXTENDS Integers

CONSTANTS
    ClockFreq,   \* CLOCK_FREQ, ticks per second
    Word,        \* 2^64
    Cpus,        \* nsfw_plat_cpu_count()
    Options,     \* VLC's settings of the plugin: a set of OptionsType
    Videos,      \* formats that are played: a set of VideoType
    Surfaces     \* sizes of the decoder's surface pool

ASSUME ClockAssumption == ClockFreq \in Nat \ {0} /\ Word \in Nat \ {0} /\ Cpus \in Nat
ASSUME SurfacesAssumption == Surfaces \subseteq Nat

MaxBufferFrames == 24   \* NSFW_MAX_BUFFER_FRAMES
MaxWorkers      == 8    \* NSFW_MAX_WORKER_THREADS
MaxGpuBatch     == 4    \* NSFW_MAX_GPU_BATCH_FRAMES
MaxSurfaceQueue == 8    \* NSFW_D3D11_MAX_BUFFERED_FRAMES
Reserved        == 3    \* NSFW_D3D11_RESERVED_DECODER_SURFACES

\* What ParseUnsignedEnv leaves: the number read, even when the text goes on after it.
EnvNumber == [value : Nat, valid : BOOLEAN]

OptionsType == [stride : Int, padding : Int, frames : Int, workers : Int, batch : Int,
                gpu : BOOLEAN,        \* nsfw-provider is "gpu"
                oldPreset : BOOLEAN,  \* the other settings are those of the old preset
                bufferMs : EnvNumber, bufferSeconds : EnvNumber]

\* resolution: 0 below 1080p, 1 from 1080p, 2 from 1440p, 3 from 2160p.
VideoType == [resolution : 0..3, interval : Nat \ {0}]

ASSUME InputsAssumption == Options \subseteq OptionsType /\ Videos \subseteq VideoType

VARIABLES
    options,    \* what VLC has saved
    video,      \* the format of the open filter
    phase,      \* "closed", "open", and "sized" once the queue fits the decoder
    surfaces,   \* the decoder's surface count, once known
    settings    \* the numbers in filter_sys_t

vars == <<options, video, phase, surfaces, settings>>

AtMost(n, cap)   == IF n > cap THEN cap ELSE n
AtLeast(n, low)  == IF n < low THEN low ELSE n

DefaultAnalysisStride(v)  == <<3, 3, 5, 6>>[v.resolution + 1]
DefaultPrebufferFrames(v) == <<3, 4, 4, 6>>[v.resolution + 1]
DefaultPadding(stride)    == AtMost(stride + 2, 32)
DefaultWorkers            == AtMost(IF Cpus = 0 THEN 4 ELSE Cpus, MaxWorkers)

\* The shape of the Resolve functions: an option that is not positive means the default.
Chosen(option, default, cap) == IF option <= 0 THEN default ELSE AtMost(option, cap)

(***************************************************************************)
(* ResolvePrebufferFrames: a depth in frames, else one in milliseconds or  *)
(* in seconds, rounded up to whole frames and one more.  A malformed       *)
(* number of milliseconds still counts when the seconds are well formed.   *)
(***************************************************************************)
BufferTicks(o) ==
    IF o.bufferMs.value > 0
    THEN ((o.bufferMs.value * ClockFreq) % Word) \div 1000
    ELSE (o.bufferSeconds.value * ClockFreq) % Word

FramesFor(ticks, interval) ==
    (ticks \div interval + (IF ticks % interval # 0 THEN 1 ELSE 0) + 1) % Word

ResolvePrebufferFrames(o, v) ==
    IF o.frames > 0 THEN AtMost(o.frames, MaxBufferFrames)
    ELSE IF /\ o.bufferMs.valid \/ o.bufferSeconds.valid
            /\ o.bufferMs.value # 0 \/ (~o.bufferMs.valid /\ o.bufferSeconds.value # 0)
         THEN AtMost(AtLeast(FramesFor(BufferTicks(o), v.interval), 1), MaxBufferFrames)
         ELSE DefaultPrebufferFrames(v)

MinimumPrebufferFrames_OneSide(stride, padding) ==
    AtMost(AtLeast(padding + 1, 4 * stride), MaxBufferFrames)

\* MinimumPrebufferFrames: the padding on both sides, and four strides.
MinimumPrebufferFrames(stride, padding) ==
    AtMost(AtLeast(2 * padding + 1, 4 * stride), MaxBufferFrames)

Resolved(o, v) ==
    LET stride  == Chosen(o.stride, DefaultAnalysisStride(v), 32)
        padding == Chosen(o.padding, DefaultPadding(stride), 32)
    IN  [stride    |-> stride,
         padding   |-> padding,
         prebuffer |-> AtLeast(ResolvePrebufferFrames(o, v),
                               MinimumPrebufferFrames(stride, padding)),
         workers   |-> IF o.gpu THEN 1 ELSE Chosen(o.workers, DefaultWorkers, MaxWorkers),
         batch     |-> Chosen(o.batch, 2, MaxGpuBatch)]

(***************************************************************************)
(* MaybeReplaceLegacyPreset: settings that are exactly those of the old    *)
(* preset become the current defaults, in the filter and, when VLC's       *)
(* configuration can be written, in VLC.  The batch is left as resolved.   *)
(***************************************************************************)
IsOldPreset(o) ==
    /\ o.oldPreset
    /\ o.stride = 5 /\ o.padding = 5 /\ o.frames = MaxBufferFrames /\ o.workers = 4

Modern(o) == [stride |-> 0, padding |-> 0, frames |-> 0, workers |-> 0, batch |-> 0,
              gpu |-> FALSE, oldPreset |-> FALSE,
              bufferMs |-> o.bufferMs, bufferSeconds |-> o.bufferSeconds]

ModernSettings(o, v) ==
    LET stride  == DefaultAnalysisStride(v)
        padding == DefaultPadding(stride)
    IN  [stride    |-> stride,
         padding   |-> padding,
         prebuffer |-> AtLeast(DefaultPrebufferFrames(v),
                               MinimumPrebufferFrames(stride, padding)),
         workers   |-> DefaultWorkers,
         batch     |-> Resolved(o, v).batch]

Open ==
    /\ phase = "closed"
    /\ phase' = "open"
    /\ video' \in Videos
    /\ IF IsOldPreset(options)
       THEN /\ settings' = ModernSettings(options, video')
            /\ options' \in {options, Modern(options)}
       ELSE /\ settings' = Resolved(options, video')
            /\ UNCHANGED options
    /\ surfaces' = 0

QueueLimit_NoReserve(n) == AtMost(n, MaxSurfaceQueue)

\* How many pictures the queue may keep from a decoder with n surfaces.
QueueLimit(n) == AtMost(IF n > Reserved THEN n - Reserved ELSE 1, MaxSurfaceQueue)

\* ConstrainDecoderQueue
Constrained(s, n) ==
    LET stride == AtMost(s.stride, QueueLimit(n))
    IN  [s EXCEPT !.stride = stride,
                  !.prebuffer = AtLeast(AtMost(@, QueueLimit(n)), stride)]

\* The first picture of a hardware backend (Filter, 739-744).
FirstHardwarePicture ==
    /\ phase = "open"
    /\ phase' = "sized"
    /\ surfaces' \in Surfaces
    /\ settings' = Constrained(settings, surfaces')
    /\ UNCHANGED <<options, video>>

Close ==
    /\ phase \in {"open", "sized"}
    /\ phase' = "closed"
    /\ UNCHANGED <<options, video, surfaces, settings>>

NoSettings == [stride |-> 0, padding |-> 0, prebuffer |-> 0, workers |-> 0, batch |-> 0]

Init ==
    /\ options \in Options
    /\ video \in Videos
    /\ phase = "closed"
    /\ surfaces = 0
    /\ settings = NoSettings

Next == Open \/ FirstHardwarePicture \/ Close

Spec == Init /\ [][Next]_vars
-----------------------------------------------------------------------------
Running == phase \in {"open", "sized"}

SettingsType == [stride : 1..32, padding : 1..32, prebuffer : 1..MaxBufferFrames,
                 workers : 1..MaxWorkers, batch : 1..MaxGpuBatch]

(***************************************************************************)
(* Whatever the options and the environment hold, a running filter has     *)
(* settings its arrays can take: the ring has MaxBufferFrames slots, the   *)
(* worker array MaxWorkers, the batch MaxGpuBatch, and no setting is zero. *)
(***************************************************************************)
SettingsInRange == Running => settings \in SettingsType

(***************************************************************************)
(* README.md:76-77, "hardware queue depth is constrained by the decoder's  *)
(* available surfaces": the pictures the filter holds leave the decoder    *)
(* its reserve, if it has as many surfaces, and the queue is still at      *)
(* least one stride deep.                                                  *)
(***************************************************************************)
DecoderKeepsItsReserve ==
    phase = "sized" =>
        /\ surfaces > Reserved => settings.prebuffer + Reserved <= surfaces
        /\ settings.prebuffer <= MaxSurfaceQueue
        /\ settings.stride <= settings.prebuffer

(***************************************************************************)
(* A filter that is not bound by decoder surfaces holds the pictures on    *)
(* both sides of a detection, and four strides for the workers, or as many *)
(* as the ring has slots; the replaced preset included.                    *)
(***************************************************************************)
PrebufferCoversWindow ==
    phase = "open" =>
        /\ settings.prebuffer >= AtMost(2 * settings.padding + 1, MaxBufferFrames)
        /\ settings.prebuffer >= AtMost(4 * settings.stride, MaxBufferFrames)
=============================================================================
