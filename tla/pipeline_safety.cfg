SPECIFICATION Spec
CONSTANTS
    MaxPictures = 5
    MaxBufferFrames = 3
    Workers = {w1, w2}
    Host = Host
    Prebuffer = 3
    Stride = 2
    Padding = 1
    Interval = 1
    SeekThreshold = 8
    Steps <- MCSteps
    Origins <- MCOrigins
    Outcomes = {"clean", "positive", "failed"}
    SpuriousWakeups = TRUE
SYMMETRY WorkerSymmetry
INVARIANTS
    WorkerOwnsItsSlot
    DecisionMatchesPicture
    BacklogBound
    NoLostWakeup
    WindowHolds
    MaskHasCause
PROPERTIES
    FailClosed
    GateSpec
