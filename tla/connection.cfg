SPECIFICATION FairSpec
CONSTANTS
    Conn = {"tcp", "tls"}
    Tls = {"tls"}
    Size <- MCSize
    Answer <- MCAnswer
    Expected <- MCExpected
    Cuts <- MCCuts
    Parsers <- MCParsers
    Cap = 1
    Faults = {"refuse", "close", "reset"}
    MaxFaults = 1
INVARIANTS CallbackIsRight ThrowsOnlyWhen
PROPERTY EveryRequestSettles
