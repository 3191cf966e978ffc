CONSTANTS
    Proc = {make, cc, sh}
    Root = make
    Faults = {"kill", "SIGSTOP", "SIGTRAP", "early", "path", "force", "threads", "status"}
    MaxCalls = 2
    MaxVersions = 1
    MaxFaults = 1
SPECIFICATION FairSpec
INVARIANT OnlyFaultsThrow
PROPERTIES ForcedBeforeOpen TracerEnds
CHECK_DEADLOCK FALSE
