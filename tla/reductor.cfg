SPECIFICATION FairSpec
CONSTANTS
    TargetHashes <- MCTargetHashes
    Thunk <- MCThunk
    Value <- MCValue
    Tag <- MCTag
    Main <- MCMain
    Eval <- MCEval
    ExecEngines <- MCExecEngines
    FallbackEngines <- MCFallbackEngines
    LocalEngines <- MCLocalEngines
    TlsEngines <- MCTlsEngines
    MaxJobs <- MCMaxJobs
    CanExecute <- MCCanExecute
    TimeoutsOn = TRUE
    Faults <- FaultKinds
    Warm <- SomeWarm
    JobId = {1, 2, 3, 4}
    MaxFaults = 1
    MaxQueue = 1
    Unknown = Unknown
INVARIANTS NeverOvercommitted NoJobForgotten NeverThrows ReturnsRightAnswers
PROPERTIES ImplementsReduction Terminates
