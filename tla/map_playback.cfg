SPECIFICATION FairSpec
CONSTANTS
    Films         <- MCFilms
    Samples       = 5
    Unit          = 2
    Hold          = 1
    Duration      = 10
    WriteEvery    = 2
    Elapsed       = {1}
    ReloadStride  = 2
    SeekThreshold = 3
    Guarded       = {TRUE, FALSE}
    MapOption     = TRUE
    Target        = 6
    Second        = 2
    PictureStep   = 1
    SeekTimes     = {1, 4, 9}
    MaxAdvance    = 1
INVARIANTS
    StatusVouchesForMap
    NoStaleMap
    PlaybackBehindScan
    NoMappedPictureShown
PROPERTIES
    GuardResumes
