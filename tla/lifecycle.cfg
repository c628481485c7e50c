SPECIFICATION Spec
CONSTANTS
    f1 = f1
    f2 = f2
    Filters <- MCFilters
    MaxWorkers <- MCMaxWorkers
    Inputs <- MCInputs
INVARIANTS
    NothingLeftBehind
    ThreadsHaveWhatTheyUse
