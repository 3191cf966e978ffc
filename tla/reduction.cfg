SPECIFICATION Spec
CONSTANTS
    Targets <- MCTargets
    Thunk <- MCThunk
    Value <- MCValue
    Tag <- MCTag
    Main <- MCMain
    Eval <- MCEval
    Unknown = Unknown
INVARIANTS NoLostReference ForcingNeverThrows HandedOut MeaningPreserved
