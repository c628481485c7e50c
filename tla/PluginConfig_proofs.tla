------------------------ MODULE PluginConfig_proofs ------------------------
(***************************************************************************)
(* Proofs about PluginConfig: the settings of a running filter are in      *)
(* range for every options record, format, clock and surface count.        *)
(***************************************************************************)
EXTENDS PluginConfig, TLAPS

\* What the settings rest on: the inputs keep their types.
ConfigInv ==
    /\ options \in OptionsType
    /\ video \in VideoType
    /\ SettingsInRange
    /\ DecoderKeepsItsReserve
    /\ PrebufferCoversWindow

\* What PrebufferCoversWindow says of settings s.
CoversWindow(s) ==
    /\ s.prebuffer >= AtMost(2 * s.padding + 1, MaxBufferFrames)
    /\ s.prebuffer >= AtMost(4 * s.stride, MaxBufferFrames)

\* What DecoderKeepsItsReserve says of settings s and n surfaces.
KeepsReserve(s, n) ==
    /\ n > Reserved => s.prebuffer + Reserved <= n
    /\ s.prebuffer <= MaxSurfaceQueue
    /\ s.stride <= s.prebuffer

(***************************************************************************)
(* The defaults of a format are within the caps (409-422, 467-480).        *)
(***************************************************************************)
LEMMA DefaultsInRange ==
    ASSUME NEW v \in VideoType
    PROVE  /\ DefaultAnalysisStride(v) \in 1..32
           /\ DefaultPrebufferFrames(v) \in 1..MaxBufferFrames
<1>1. v.resolution \in 0..3
  BY DEF VideoType
<1>2. CASE v.resolution = 0
  BY <1>2 DEF DefaultAnalysisStride, DefaultPrebufferFrames, MaxBufferFrames
<1>3. CASE v.resolution = 1
  BY <1>3 DEF DefaultAnalysisStride, DefaultPrebufferFrames, MaxBufferFrames
<1>4. CASE v.resolution = 2
  BY <1>4 DEF DefaultAnalysisStride, DefaultPrebufferFrames, MaxBufferFrames
<1>5. CASE v.resolution = 3
  BY <1>5 DEF DefaultAnalysisStride, DefaultPrebufferFrames, MaxBufferFrames
<1> QED
  BY <1>1, <1>2, <1>3, <1>4, <1>5

(***************************************************************************)
(* The prebuffer of the options alone is within the ring (506-552),        *)
(* however the products of milliseconds and ticks wrap.                    *)
(***************************************************************************)
LEMMA PrebufferInRange ==
    ASSUME NEW o \in OptionsType, NEW v \in VideoType
    PROVE  ResolvePrebufferFrames(o, v) \in 1..MaxBufferFrames
<1> DEFINE frames == FramesFor(BufferTicks(o), v.interval)
<1>1. BufferTicks(o) \in Int
  BY ClockAssumption DEF BufferTicks, OptionsType, EnvNumber
<1>2. v.interval \in Nat \ {0}
  BY DEF VideoType
<1>3. BufferTicks(o) \div v.interval \in Int
  BY <1>1, <1>2
<1>4. frames \in Int
  BY <1>3, ClockAssumption DEF FramesFor
<1>5. AtMost(AtLeast(frames, 1), MaxBufferFrames) \in 1..MaxBufferFrames
  BY <1>4 DEF AtMost, AtLeast, MaxBufferFrames
<1>6. o.frames > 0 => AtMost(o.frames, MaxBufferFrames) \in 1..MaxBufferFrames
  BY DEF OptionsType, AtMost, MaxBufferFrames
<1> QED
  BY <1>5, <1>6, DefaultsInRange DEF ResolvePrebufferFrames

\* Raising the prebuffer to its minimum keeps it within the ring (633-647).
LEMMA MinimumInRange ==
    ASSUME NEW stride \in 1..32, NEW padding \in 1..32
    PROVE  MinimumPrebufferFrames(stride, padding) \in 1..MaxBufferFrames
BY DEF MinimumPrebufferFrames, AtMost, AtLeast, MaxBufferFrames

\* At least one worker is started by default, and at most MaxWorkers (569-587).
LEMMA DefaultWorkersInRange == DefaultWorkers \in 1..MaxWorkers
BY ClockAssumption DEF DefaultWorkers, AtMost, MaxWorkers

\* The padding that follows from a stride (439-450).
LEMMA PaddingInRange ==
    ASSUME NEW stride \in 1..32
    PROVE  DefaultPadding(stride) \in 1..32
BY DEF DefaultPadding, AtMost

(***************************************************************************)
(* What Open resolves from the options is in range (nsfw_filter.c 417-438).*)
(***************************************************************************)
LEMMA ResolvedInRange ==
    ASSUME NEW o \in OptionsType, NEW v \in VideoType
    PROVE  Resolved(o, v) \in SettingsType
<1> DEFINE stride  == Chosen(o.stride, DefaultAnalysisStride(v), 32)
           padding == Chosen(o.padding, DefaultPadding(stride), 32)
<1>1. o.stride \in Int /\ o.padding \in Int /\ o.workers \in Int /\ o.batch \in Int
  BY DEF OptionsType
<1>2. stride \in 1..32
  BY <1>1, DefaultsInRange DEF Chosen, AtMost
<1>3. DefaultPadding(stride) \in 1..32
  BY <1>2, PaddingInRange
<1>4. padding \in 1..32
  <2> HIDE DEF stride
  <2> QED BY <1>1, <1>3 DEF Chosen, AtMost
<1>5. AtLeast(ResolvePrebufferFrames(o, v), MinimumPrebufferFrames(stride, padding))
        \in 1..MaxBufferFrames
  <2> HIDE DEF stride, padding
  <2>1. MinimumPrebufferFrames(stride, padding) \in 1..MaxBufferFrames
    BY <1>2, <1>4, MinimumInRange
  <2>2. ResolvePrebufferFrames(o, v) \in 1..MaxBufferFrames
    BY PrebufferInRange
  <2> QED BY <2>1, <2>2 DEF AtLeast
<1>6. Chosen(o.workers, DefaultWorkers, MaxWorkers) \in 1..MaxWorkers
  <2> HIDE DEF stride, padding
  <2> QED BY <1>1, DefaultWorkersInRange DEF Chosen, AtMost, MaxWorkers
<1>7. Chosen(o.batch, 2, MaxGpuBatch) \in 1..MaxGpuBatch
  BY <1>1 DEF Chosen, AtMost, MaxGpuBatch
<1>8. 1 \in 1..MaxWorkers
  BY DEF MaxWorkers
<1> QED
  BY <1>2, <1>4, <1>5, <1>6, <1>7, <1>8 DEF SettingsType, Resolved

(***************************************************************************)
(* The defaults that replace the old preset are in range (741-829).        *)
(***************************************************************************)
LEMMA ModernInRange ==
    ASSUME NEW o \in OptionsType, NEW v \in VideoType
    PROVE  ModernSettings(o, v) \in SettingsType
<1> DEFINE stride  == DefaultAnalysisStride(v)
           padding == DefaultPadding(stride)
<1>1. stride \in 1..32 /\ DefaultPrebufferFrames(v) \in 1..MaxBufferFrames
  BY DefaultsInRange
<1>2. padding \in 1..32
  BY <1>1, PaddingInRange
<1>3. MinimumPrebufferFrames(stride, padding) \in 1..MaxBufferFrames
  BY <1>1, <1>2, MinimumInRange
<1>4. AtLeast(DefaultPrebufferFrames(v), MinimumPrebufferFrames(stride, padding))
        \in 1..MaxBufferFrames
  BY <1>1, <1>3 DEF AtLeast
<1>5. Resolved(o, v).batch \in 1..MaxGpuBatch
  BY ResolvedInRange DEF SettingsType
<1>6. DefaultWorkers \in 1..MaxWorkers
  BY DefaultWorkersInRange
<1> QED
  BY <1>1, <1>2, <1>4, <1>5, <1>6 DEF SettingsType, ModernSettings

(***************************************************************************)
(* Tightening the queue to the decoder keeps it in range (649-679).        *)
(***************************************************************************)
LEMMA ConstrainedInRange ==
    ASSUME NEW s \in SettingsType, NEW n \in Nat
    PROVE  Constrained(s, n) \in SettingsType
<1>1. QueueLimit(n) \in 1..MaxSurfaceQueue
  BY DEF QueueLimit, AtMost, Reserved, MaxSurfaceQueue
<1>2. AtMost(s.stride, QueueLimit(n)) \in 1..MaxSurfaceQueue
  BY <1>1 DEF SettingsType, AtMost, MaxSurfaceQueue
<1>3. AtMost(s.prebuffer, QueueLimit(n)) \in 1..MaxSurfaceQueue
  BY <1>1 DEF SettingsType, AtMost, MaxSurfaceQueue, MaxBufferFrames
<1>4. AtLeast(AtMost(s.prebuffer, QueueLimit(n)), AtMost(s.stride, QueueLimit(n)))
        \in 1..MaxSurfaceQueue
  BY <1>2, <1>3 DEF AtLeast
<1>5. AtMost(s.stride, QueueLimit(n)) \in 1..32
  BY <1>2 DEF MaxSurfaceQueue
<1>6. AtLeast(AtMost(s.prebuffer, QueueLimit(n)), AtMost(s.stride, QueueLimit(n)))
        \in 1..MaxBufferFrames
  BY <1>4 DEF MaxSurfaceQueue, MaxBufferFrames
<1> QED
  BY <1>5, <1>6 DEF SettingsType, Constrained

(***************************************************************************)
(* The minimum covers both windows, so a depth that is at least the        *)
(* minimum does (633-647).                                                 *)
(***************************************************************************)
LEMMA ResolvedCovers ==
    ASSUME NEW o \in OptionsType, NEW v \in VideoType
    PROVE  CoversWindow(Resolved(o, v))
<1> DEFINE s == Resolved(o, v)
<1>1. s.stride \in 1..32 /\ s.padding \in 1..32
  BY ResolvedInRange DEF SettingsType
<1>2. s.prebuffer = AtLeast(ResolvePrebufferFrames(o, v),
                            MinimumPrebufferFrames(s.stride, s.padding))
  BY DEF Resolved
<1>3. ResolvePrebufferFrames(o, v) \in Int
  BY PrebufferInRange DEF MaxBufferFrames
<1>4. CoversWindow(s)
  <2> HIDE DEF s
  <2> QED BY <1>1, <1>2, <1>3 DEF CoversWindow, MinimumPrebufferFrames, AtMost, AtLeast,
             MaxBufferFrames
<1> QED
  BY <1>4

\* The defaults that replace the old preset cover both windows, too.
LEMMA ModernCovers ==
    ASSUME NEW o \in OptionsType, NEW v \in VideoType
    PROVE  CoversWindow(ModernSettings(o, v))
<1> DEFINE s == ModernSettings(o, v)
<1>1. s.stride \in 1..32 /\ s.padding \in 1..32
  BY ModernInRange DEF SettingsType
<1>2. s.prebuffer = AtLeast(DefaultPrebufferFrames(v),
                            MinimumPrebufferFrames(s.stride, s.padding))
  BY DEF ModernSettings
<1>3. DefaultPrebufferFrames(v) \in Int
  BY DefaultsInRange DEF MaxBufferFrames
<1>4. CoversWindow(s)
  <2> HIDE DEF s
  <2> QED BY <1>1, <1>2, <1>3 DEF CoversWindow, MinimumPrebufferFrames, AtMost, AtLeast,
             MaxBufferFrames
<1> QED
  BY <1>4

(***************************************************************************)
(* The queue of a hardware backend leaves the decoder its reserve.         *)
(***************************************************************************)
LEMMA ConstrainedKeepsReserve ==
    ASSUME NEW s \in SettingsType, NEW n \in Nat
    PROVE  KeepsReserve(Constrained(s, n), n)
<1>1. /\ QueueLimit(n) \in 1..MaxSurfaceQueue
      /\ n > Reserved => QueueLimit(n) + Reserved <= n
  BY DEF QueueLimit, AtMost, Reserved, MaxSurfaceQueue
<1>2. /\ Constrained(s, n).stride = AtMost(s.stride, QueueLimit(n))
      /\ Constrained(s, n).prebuffer =
            AtLeast(AtMost(s.prebuffer, QueueLimit(n)), AtMost(s.stride, QueueLimit(n)))
  BY DEF Constrained, SettingsType
<1>3. s.stride \in Int /\ s.prebuffer \in Int
  BY DEF SettingsType, MaxBufferFrames
<1> QED
  BY <1>1, <1>2, <1>3 DEF KeepsReserve, AtMost, AtLeast, Reserved, MaxSurfaceQueue

\* Rewriting the saved options keeps their types.
LEMMA ModernType ==
    ASSUME NEW o \in OptionsType
    PROVE  Modern(o) \in OptionsType
BY DEF Modern, OptionsType

(***************************************************************************)
(* Every step keeps the inputs' types and the running settings in range.   *)
(***************************************************************************)
LEMMA ConfigStep == ConfigInv /\ [Next]_vars => ConfigInv'
<1> SUFFICES ASSUME ConfigInv, [Next]_vars
             PROVE  ConfigInv'
  OBVIOUS
<1> USE DEF ConfigInv, SettingsInRange, Running, DecoderKeepsItsReserve,
            PrebufferCoversWindow, CoversWindow, KeepsReserve
<1>1. CASE Open
  <2>1. video' \in VideoType
    BY <1>1, InputsAssumption DEF Open
  <2>2. options' \in OptionsType
    BY <1>1, ModernType DEF Open
  <2>3. settings' \in SettingsType
    BY <1>1, <2>1, ResolvedInRange, ModernInRange DEF Open
  <2>4. CoversWindow(settings')
    BY <1>1, <2>1, ResolvedCovers, ModernCovers DEF Open
  <2> QED
    BY <1>1, <2>1, <2>2, <2>3, <2>4 DEF Open
<1>2. CASE FirstHardwarePicture
  <2>1. surfaces' \in Nat /\ settings \in SettingsType
    BY <1>2, SurfacesAssumption DEF FirstHardwarePicture
  <2>2. settings' \in SettingsType
    BY <1>2, <2>1, ConstrainedInRange DEF FirstHardwarePicture
  <2>3. KeepsReserve(settings', surfaces')
    BY <1>2, <2>1, ConstrainedKeepsReserve DEF FirstHardwarePicture
  <2> QED
    BY <1>2, <2>2, <2>3 DEF FirstHardwarePicture
<1>3. CASE Close
  BY <1>3 DEF Close
<1>4. CASE UNCHANGED vars
  BY <1>4 DEF vars
<1> QED
  BY <1>1, <1>2, <1>3, <1>4 DEF Next

\* The inductive invariant holds of every behaviour of the configuration.
LEMMA ConfigInvariant == Spec => []ConfigInv
<1>1. Init => ConfigInv
  BY InputsAssumption DEF Init, ConfigInv, SettingsInRange, Running,
     DecoderKeepsItsReserve, PrebufferCoversWindow
<1> QED
  BY <1>1, ConfigStep, PTL DEF Spec

(***************************************************************************)
(* Whatever the options, the environment, the format and the decoder, a    *)
(* running filter has settings within its arrays: what FilterPipeline      *)
(* assumes of Prebuffer, Stride and Workers.                               *)
(***************************************************************************)
THEOREM SettingsSafe == Spec => []SettingsInRange
<1>1. ConfigInv => SettingsInRange
  BY DEF ConfigInv
<1> QED
  BY <1>1, ConfigInvariant, PTL

(***************************************************************************)
(* The pictures held never exhaust the decoder's surfaces                  *)
(* (ConstrainDecoderQueue; README.md:76-77).                               *)
(***************************************************************************)
THEOREM ReserveSafe == Spec => []DecoderKeepsItsReserve
<1>1. ConfigInv => DecoderKeepsItsReserve
  BY DEF ConfigInv
<1> QED
  BY <1>1, ConfigInvariant, PTL

(***************************************************************************)
(* Until a decoder's surfaces bind it, the prebuffer holds both sides of a *)
(* detection's window and four strides, as far as the ring has room.       *)
(***************************************************************************)
THEOREM PrebufferSafe == Spec => []PrebufferCoversWindow
<1>1. ConfigInv => PrebufferCoversWindow
  BY DEF ConfigInv
<1> QED
  BY <1>1, ConfigInvariant, PTL

=============================================================================
