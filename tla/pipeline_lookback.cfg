SPECIFICATION Spec
CONSTANTS
    MaxPictures = 4
    MaxBufferFrames = 4
    Workers = {w1, w2}
    Host = Host
    Prebuffer = 4
    Stride = 1
    Padding = 1
    Interval = 1
    SeekThreshold = 8
    Steps <- MCSteps
    Origins <- MCOrigins
    Outcomes = {"clean", "positive"}
    SpuriousWakeups = FALSE
SYMMETRY WorkerSymmetry
INVARIANT PaddingBeforeDetection
