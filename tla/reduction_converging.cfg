SPECIFICATION Spec
CONSTANTS
    Targets <- Converging
    Thunk <- ConvergingThunk
    Value <- MCValue
    Tag <- MCTag
    Main <- MCMain
    Eval <- MCEval
    Unknown = Unknown
INVARIANTS NoLostReference
