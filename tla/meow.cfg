SPECIFICATION FairSpec
CONSTANTS
    Thunk <- MCThunk
    Deps <- MCDeps
    After <- MCAfter
    Size <- MCSize
    Local <- MCLocal
    MaxWorkers = 3
    Faults = {"invoke", "upload", "die"}
CHECK_DEADLOCK FALSE
INVARIANTS JobsConserved DepsInPlace EndsOnlyOnFailure
PROPERTIES EveryThunkIsDone
