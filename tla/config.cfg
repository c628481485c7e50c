SPECIFICATION Spec
CONSTANTS
    ClockFreq = 1000
    Word = 65536
    Cpus = 16
    Options <- MCOptions
    Videos <- MCVideos
    Surfaces <- MCSurfaces
INVARIANTS
    DecoderKeepsItsReserve
    PrebufferCoversWindow
