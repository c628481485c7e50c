SPECIFICATION Spec
CONSTANTS
    Modes <- AllModes
    Stride = 3
    Padding = 5
    Interval = 1
    SeekThreshold = 8
    Steps <- OneDropped
    Origins <- MCOrigins
    MaxFrames = 10
CHECK_DEADLOCK FALSE
INVARIANTS
    NoRawFlash
    SampleSpacing
    UnreadableFailsClosed

