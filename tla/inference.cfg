SPECIFICATION FairSpec
CONSTANTS
    BatchSize = 3
    MaxFrames = 6
INVARIANTS
    VerdictsAreTheFrames
    BlocksOnlyWhenAllFail
    NoHelperLeftBehind
PROPERTY CallReturns
