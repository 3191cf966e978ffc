SPECIFICATION FairSpec
CONSTANTS
    Child <- Children
    Connection = {"k"}
    Strict = {"c1"}
    MayFail = TRUE
    Interrupts = TRUE
    MaxStops = 2
INVARIANTS NothingIsLost NoOrphans
PROPERTIES EveryChildIsReaped
