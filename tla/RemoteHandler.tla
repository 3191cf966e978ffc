--------------------------- MODULE RemoteHandler ----------------------------
(***************************************************************************)
(* The function that the Lambda and Google Cloud engines invoke,           *)
(* src/src/remote/lambda_function/main.py and gcloud_function/main.py: it  *)
(* writes the thunk, runs gg-execute and answers with what it finds in the *)
(* reductions directory. An instance serves one request at a time and      *)
(* keeps its disk between requests. A member of Proc is a request and the  *)
(* gg-execute started for it.                                              *)
(***************************************************************************)
EXTENDS GGExecute, FiniteSetsExt

CONSTANT
    Packaged      \* executables that come with the function

\* A request carries one thunk (response.cc:35), and gg-execute is told to fetch, to
\* upload and to clean up (lambda_function/main.py:77-80).
ASSUME HandlerAssumption ==
    /\ \A s \in Setups : /\ s.platform \in {"lambda", "gcloud"}
                         /\ {"get", "put", "cleanup"} \subseteq s.flags
    /\ \A p \in Proc : Len(Jobs[p]) = 1

VARIABLE answer   \* the returnCode of each request, or "FunctionError"

hvars == <<setup, blobs, inode, reductions, stored, proc, answer>>

\* A setup also says which of the two functions it is; a function may be stopped
\* ("timeout") or find its disk full ("nospace").
Platform == setup.platform

Serving(p) == proc[p].pc # "idle" /\ answer[p] = "none"

\* A request comes when the instance serves none.
Arriving(p) == At(p, "idle") /\ answer[p] = "none" /\ ~ \E q \in Proc : Serving(q)

HandlerInit == Init /\ answer = [p \in Proc |-> "none"]

\* Lambda starts from empty directories, Google Cloud from what is there.
KeptBetween(old) == IF Platform = "lambda" THEN {} ELSE old

\* Mutant of Invoke: the reductions directory is not emptied.
InvokeKeepingCache(p) ==
    /\ Arriving(p)
    /\ blobs' = KeptBetween(blobs) \cup {thunk(p)} \cup Packaged
    /\ Goto(p, "open", 0)
    /\ UNCHANGED <<setup, inode, reductions, stored, answer>>

Invoke(p) ==
    /\ Arriving(p)
    /\ blobs' = KeptBetween(blobs) \cup {thunk(p)} \cup Packaged
    /\ reductions' = KeptBetween(reductions)
    /\ Goto(p, "open", 0)
    /\ UNCHANGED <<setup, inode, stored, answer>>

\* The disk is full, on Lambda for the second time: gg-execute is not started.
InvokeFails(p) ==
    /\ Arriving(p)
    /\ "nospace" \in Faults
    /\ blobs' = KeptBetween(blobs)
    /\ reductions' = KeptBetween(reductions)
    /\ answer' = [answer EXCEPT ![p] = "FunctionError"]
    /\ UNCHANGED <<setup, inode, stored, proc>>

Execute(p) == Serving(p) /\ (Progress(p) \/ Kill(p)) /\ UNCHANGED answer

\* The platform stops the function.
TimeOut(p) ==
    /\ Serving(p) /\ ~ At(p, "exited")
    /\ "timeout" \in Faults
    /\ Exit(p, "Killed")
    /\ answer' = [answer EXCEPT ![p] = "FunctionError"]
    /\ UNCHANGED <<setup, blobs, inode, reductions, stored>>

\* The outputs without an entry, or without the blob it names.
Missing(p) ==
    { i \in Tags(thunk(p)) : \/ Entry(thunk(p), i) \notin reductions
                             \/ Result[thunk(p)][i] \notin blobs }

\* Mutant of Answer: nothing is returned for want of outputs.
AnswerIfEntered(p) ==
    /\ Serving(p) /\ At(p, "exited")
    /\ Missing(p) = {}
    /\ answer' = [answer EXCEPT ![p] = "Success"]
    /\ UNCHANGED vars

\* The tags are looked up in their order. Without an entry gg-execute's status is
\* the answer; an entry without its blob raises an exception; otherwise the
\* returnCode is 0, whatever gg-execute has returned.
Answer(p) ==
    /\ Serving(p) /\ At(p, "exited")
    /\ answer' = [answer EXCEPT ![p] =
          CASE Missing(p) = {} -> "Success"
            [] Missing(p) # {} /\ Entry(thunk(p), Min(Missing(p))) \in reductions -> "FunctionError"
            [] OTHER -> proc[p].status]
    /\ UNCHANGED vars

HandlerNext ==
    \/ \E p \in Proc : Invoke(p) \/ InvokeFails(p) \/ Execute(p) \/ TimeOut(p) \/ Answer(p)
    \/ (\A p \in Proc : answer[p] # "none") /\ UNCHANGED hvars

HandlerSpec == HandlerInit /\ [][HandlerNext]_hvars

\* Requests are delivered and the instance keeps running.
HandlerFairSpec ==
    /\ HandlerSpec
    /\ \A p \in Proc : WF_hvars(Invoke(p)) /\ WF_hvars(Execute(p)) /\ WF_hvars(Answer(p))

\* What the engines make of an answer: the body of a failed Lambda function does
\* not parse, a failed Google Cloud function has no HTTP status 200.
Verdict(p) ==
    IF answer[p] # "FunctionError" THEN answer[p]
    ELSE IF Platform = "lambda" THEN "OperationalFailure" ELSE "ExecutionFailure"

-----------------------------------------------------------------------------
\* A request answered with success has its outputs in the storage backend: the
\* coordinator's next thunk will be sent there to fetch them
\* (lambda_function/main.py:81-129).
HonestAnswer ==
    \A p \in Proc : answer[p] = "Success" => Outputs(thunk(p)) \subseteq stored

\* That is so if no upload fails, seen or unseen, and gg-execute is not killed before
\* its uploads, by itself or, where the cache is kept, with the function: whatever else
\* goes wrong, no request is answered with success because of what an earlier request
\* has left in the cache (lambda_function/main.py:38-42).
HonestIfUploaded ==
    (/\ Faults \cap {"upload", "unseen", "kill"} = {}
     /\ Platform = "gcloud" => "timeout" \notin Faults) => HonestAnswer

\* The thunk was in an earlier request.
RequestedBefore(p) == \E q \in Proc \ {p} : thunk(q) = thunk(p) /\ answer[q] # "none"

\* The coordinator gives up a thunk only
\*   - when its program has failed, which reductor.cc:120 calls the only fatal failure,
\*   - when gg-execute died of a signal, or the platform stopped it,
\*   - when gg-execute aborted: a transfer failed in a thread of the backend, or there
\*     was no timelog,
\*   - when a Google Cloud function had no room for the thunk, or found entries that an
\*     earlier request for the same thunk has left, without the blobs that --cleanup has
\*     removed, and the thunk was not executed to its end this time.
\* All other failures are to be retried, and a thunk that was executed to its end is
\* never given up (engine_gcloud.cc:51-56, gcloud_function/main.py:76-96).
FatalHasACause ==
    \A p \in Proc : Verdict(p) \in {"ExecutionFailure", "Aborted", "Killed"} =>
        \/ proc[p].status \in {"ExecutionFailure", "Killed"}
        \/ proc[p].status = "Aborted" /\ (Threaded \/ "timelog" \notin Flags)
        \/ /\ Platform = "gcloud" /\ answer[p] = "FunctionError"
           /\ At(p, "idle") \/ (RequestedBefore(p) /\ proc[p].status # "Success")

\* On Lambda the function itself fails only if it is stopped or finds no room for
\* the thunk: an entry never names a blob that is gone, although gg-execute
\* --cleanup removes blobs and not entries (lambda_function/main.py:38-42, 93-118).
AnswerFindsBlobs ==
    Platform = "lambda" => \A p \in Proc : answer[p] = "FunctionError" =>
        proc[p].status = "Killed" \/ At(p, "idle")

\* Every request is answered (lambda_function/main.py:33-129).
EveryRequestAnswered == \A p \in Proc : <>(answer[p] # "none")
=============================================================================
