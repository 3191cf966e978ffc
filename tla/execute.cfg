SPECIFICATION FairSpec
CONSTANTS
    Proc <- MCProc
    Thunk <- MCThunk
    Jobs <- MCJobs
    Needs <- MCNeeds
    Result <- MCResult
    Setups <- MCSetups
INVARIANTS BareEntryIsLast EntriesHaveBlobs FinishedIsEntered FinishedIsStored LockExcludes
PROPERTIES EveryoneExits
