SPECIFICATION GpuSpec
CONSTANTS
    MaxPictures = 5
    MaxBufferFrames = 4
    Workers = {w1, w2}
    Host = Host
    Prebuffer = 3
    Stride = 2
    Padding = 1
    Interval = 1
    SeekThreshold = 8
    Steps <- MCJumps
    Origins <- MCOrigins
    Outcomes = {"clean", "positive"}
    SpuriousWakeups = FALSE
    GpuBatchSize = 2
    MaxSeveral = 4
INVARIANTS
    BatchOwnsItsSlots
    SleepersHaveNoWork
    WindowHolds
PROPERTIES
    BatchGateSpec
    HostReturns
    EveryPictureDecided
