SPECIFICATION HandlerFairSpec
CONSTANTS
    Proc <- MCProc
    Thunk <- MCThunk
    Jobs <- MCJobs
    Needs <- MCNeeds
    Result <- MCResult
    Setups <- MCSetups
    Packaged = {"exe"}
INVARIANTS HonestIfUploaded FatalHasACause AnswerFindsBlobs
PROPERTIES EveryRequestAnswered
