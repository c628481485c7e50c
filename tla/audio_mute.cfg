SPECIFICATION Spec
CONSTANTS
    Routes      <- MCReached
    Refusals    = {TRUE, FALSE}
    UserToggles = TRUE
INVARIANTS
    MutedWhileMasked
    ReleasedAfterBlock
