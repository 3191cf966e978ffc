------------------------------ MODULE GGForce ------------------------------
(***************************************************************************)
(* One run of gg-force after another: src/src/frontend/gg-force.cc with    *)
(* the parts of the Reductor that move files (reductor.cc                  *)
(* upload_dependencies, download_targets), the storage backends            *)
(* (storage/backend*.cc) and their clients (net/s3.cc, net/redis.cc,       *)
(* net/jiffy.cc).                                                          *)
(*                                                                         *)
(* A run uploads what the index of remote objects does not list, reduces   *)
(* the targets, downloads the outputs it does not have and replaces the    *)
(* placeholders one by one. The S3 and Redis clients move files on several *)
(* threads, each with requests pipelined on a connection of its own; the   *)
(* answers come back in any pieces. A run may be killed at any point; the  *)
(* index, the blobs and the replaced placeholders stay.                    *)
(***************************************************************************)
EXTENDS HTTPParser

CONSTANTS
    Dependencies,      \* value and executable dependencies, in the order they are visited
    Outputs,           \* the object that each target reduces to, one per target
    Setups,            \* backends with their threads, batch size and option
    Faults,            \* failures that may happen with each backend
    MaxFaults,         \* bound: failures in one behaviour
    MaxRuns            \* bound: runs of gg-force

Rng(s) == { s[i] : i \in DOMAIN s }

\* The elements of s at the positions in K, in their order.
At(s, K) ==
    [k \in 1 .. Cardinality(K) |->
        s[CHOOSE i \in K : Cardinality({ j \in K : j <= i }) = k]]

Thread  == 1 .. Max({ s.threads : s \in Setups })
Targets == DOMAIN Outputs

ASSUME ForceAssumption ==
    /\ \A s \in Setups : /\ s.backend \in {"s3", "redis", "jiffy", "none"}
                         /\ s.threads \in Nat \ {0} /\ s.batch \in Nat \ {0}
                         /\ s.no_download \in BOOLEAN
                         /\ Faults[s.backend] \subseteq {"kill", "connect", "error", "early"}
    /\ Dependencies \in Seq(Rng(Dependencies)) /\ Outputs \in Seq(Rng(Outputs))
    /\ MaxFaults \in Nat /\ MaxRuns \in Nat

VARIABLES
    setup,             \* the member of Setups this behaviour is about
    phase,             \* where main() is
    runs,              \* runs of gg-force started so far
    targets,           \* what the target files hold
    actual,            \* the targets this run forces, in order
    copied,            \* how many of them it has replaced
    blobs,             \* the blobs directory: object -> its content
    index,             \* the index of remote objects
    remote,            \* objects in the storage service
    requests,          \* the requests of the put or get in progress
    threads,           \* the client's threads and their connections
    refused,           \* objects whose upload the service has refused
    faults             \* failures so far

vars == <<setup, phase, runs, targets, actual, copied, blobs, index, remote, requests,
          threads, refused, faults>>

files == <<targets, actual, copied>>

Content(o) == <<o, o>>         \* two bytes, so that a read may end within a body

Placeholder == << "placeholder" >>

\* A thread before it opens a connection. asked: requests the service has not
\* answered; wire: the answers on their way; open: the service has not closed.
NewThread(from) == [pc |-> "connect", first |-> from, sent |-> 0, count |-> 0,
                     parser |-> NewParser, asked |-> << >>, wire |-> << >>, open |-> TRUE]
NoThreads == << >>

Fault(kind) ==
    /\ kind \in Faults[setup.backend]
    /\ Cardinality(faults) < MaxFaults
    /\ kind \notin faults
    /\ faults' = faults \cup {kind}

Init ==
    /\ setup \in Setups
    /\ phase = "start"
    /\ runs = 1
    /\ targets = [i \in Targets |-> Placeholder]
    /\ actual = << >>
    /\ copied = 0
    /\ blobs = [o \in Rng(Dependencies) |-> Content(o)]
    /\ index = {}
    /\ remote = {}
    /\ requests = << >>
    /\ threads = NoThreads
    /\ refused = {}
    /\ faults = {}

(***************************************************************************)
(* Moving files: who asks for what                                         *)
(***************************************************************************)

Moving == phase \in {"put", "get"}

\* put() or get() with these requests: a thread for each index below their number.
StartTransfer(what, reqs) ==
    /\ phase' = what
    /\ requests' = reqs
    /\ threads' = [t \in 1 .. Min({setup.threads, Len(reqs)}) |-> NewThread(t)]

\* Mutant of BatchOf: the bound of the inner loop is one request short.
BatchShort(t) == { j \in 1 .. setup.batch :
                      threads[t].first + (j - 1) * setup.threads < Len(requests) }

\* The iterations of the loop that sends a batch of thread t.
BatchOf(t) == { j \in 1 .. setup.batch :
                   threads[t].first + (j - 1) * setup.threads <= Len(requests) }

\* The request of iteration j, and the one that the next response answers.
Request(t, j) == requests[threads[t].first + (j - 1) * setup.threads]
Answered(t)   == Request(t, threads[t].count + 1)

\* The thread after a whole batch: the next one, or the end. S3 opens a new
\* connection for every batch, Redis keeps its own.
AfterBatch(th) ==
    LET next == th.first + setup.threads * setup.batch
    IN  CASE next > Len(requests) -> [th EXCEPT !.pc = "done"]
          [] next <= Len(requests) /\ setup.backend = "s3" -> NewThread(next)
          [] next <= Len(requests) /\ setup.backend = "redis" ->
                [th EXCEPT !.first = next, !.pc = "send", !.count = 0, !.sent = 0]

\* std::terminate: an exception has left a thread's function.
Terminate ==
    /\ phase' = "aborted"
    /\ threads' = NoThreads

(***************************************************************************)
(* upload_files and download_files of the S3 and Redis clients             *)
(***************************************************************************)

Connect(t) ==
    /\ Moving /\ setup.backend \in {"s3", "redis"}
    /\ threads[t].pc = "connect"
    /\ threads' = [threads EXCEPT ![t].pc = "send"]
    /\ UNCHANGED <<setup, phase, runs, files, blobs, index, remote, requests, refused, faults>>

\* The connection or the authentication fails.
ConnectFails(t) ==
    /\ Moving /\ setup.backend \in {"s3", "redis"}
    /\ threads[t].pc = "connect"
    /\ Fault("connect")
    /\ Terminate
    /\ UNCHANGED <<setup, runs, files, blobs, index, remote, requests, refused>>

\* All requests of a batch are written before any response is read.
Send(t) ==
    /\ Moving
    /\ threads[t].pc = "send"
    /\ LET th   == threads[t]
           sent == Cardinality(BatchOf(t))
       IN  threads' = [threads EXCEPT ![t] =
              [th EXCEPT !.pc     = "drain",
                         !.sent   = sent,
                         !.asked  = th.asked \o [j \in 1 .. sent |-> Request(t, j)],
                         !.parser = IF setup.backend = "redis" THEN th.parser
                                    ELSE new_requests_arrived(th.parser, sent)]]
    /\ UNCHANGED <<setup, phase, runs, files, blobs, index, remote, requests, refused, faults>>

\* What a successful answer does: put records the object in the index, get
\* creates the blob.
Success(o, body) ==
    /\ index' = IF phase = "put" THEN index \cup {o} ELSE index
    /\ blobs' = IF phase = "get"
                THEN [x \in DOMAIN blobs \cup {o} |-> IF x = o THEN body ELSE blobs[x]]
                ELSE blobs

\* Mutant of DrainPending: the S3 download waits for one response too many.
DrainTooLong(th) ==
    CASE setup.backend = "s3" /\ phase = "put" -> pending_requests(th.parser) > 0
      [] setup.backend = "s3" /\ phase = "get" -> th.count <= th.sent
      [] setup.backend # "s3"                  -> th.count # th.sent

\* The condition of the loops over the responses.
DrainPending(th) ==
    IF phase = "put" /\ setup.backend = "s3" THEN pending_requests(th.parser) > 0
                                             ELSE th.count # th.sent

\* What s3.read() returns: some of what has arrived, or the end of the stream.
Reads(th) == { SubSeq(th.wire, 1, n) : n \in 1 .. Len(th.wire) }
                \cup (IF th.wire = << >> /\ ~ th.open THEN { << >> } ELSE {})

\* Mutant of Fails: only the download looks at the status.
FailsOnGet(p) == p.threw \/ (phase = "get" /\ p.complete # << >> /\ p.complete[1].status # "200")

\* The parser throws, or the response at the front is an error.
Fails(p) == p.threw \/ (p.complete # << >> /\ p.complete[1].status # "200")

\* One iteration of the loop over S3's responses: at most one response is looked
\* at, however many the read has completed.
DrainS3(t, buf) ==
    LET th == threads[t]
        p  == parse(th.parser, buf)
        wire == SubSeq(th.wire, Len(buf) + 1, Len(th.wire))
    IN  /\ setup.backend = "s3"
        /\ \/ /\ Fails(p)
              /\ Terminate
              /\ UNCHANGED <<blobs, index>>
           \/ /\ ~ Fails(p) /\ p.complete = << >>
              /\ threads' = [threads EXCEPT ![t] = [th EXCEPT !.parser = p, !.wire = wire]]
              /\ UNCHANGED <<phase, blobs, index>>
           \/ /\ ~ Fails(p) /\ p.complete # << >>
              /\ Success(Answered(t), p.complete[1].body)
              /\ threads' = [threads EXCEPT ![t] =
                    [th EXCEPT !.parser = pop(p), !.wire = wire, !.count = th.count + 1]]
              /\ UNCHANGED phase

\* One reply from Redis: put takes any reply for success, get wants a string.
DrainRedis(t) ==
    LET th == threads[t]
    IN  /\ setup.backend = "redis"
        /\ \/ /\ th.wire = << >> /\ ~ th.open
              /\ Terminate
              /\ UNCHANGED <<blobs, index>>
           \/ /\ th.wire # << >>
              /\ phase = "get" /\ Head(th.wire).type # "string"
              /\ Terminate
              /\ UNCHANGED <<blobs, index>>
           \/ /\ th.wire # << >>
              /\ phase = "get" => Head(th.wire).type = "string"
              /\ Success(Answered(t), Head(th.wire).body)
              /\ threads' = [threads EXCEPT ![t] =
                    [th EXCEPT !.wire = Tail(th.wire), !.count = th.count + 1]]
              /\ UNCHANGED phase

Drain(t) ==
    /\ Moving
    /\ threads[t].pc = "drain" /\ DrainPending(threads[t])
    /\ DrainRedis(t) \/ \E buf \in Reads(threads[t]) : DrainS3(t, buf)
    /\ UNCHANGED <<setup, runs, files, remote, requests, refused, faults>>

BatchDone(t) ==
    /\ Moving
    /\ threads[t].pc = "drain" /\ ~ DrainPending(threads[t])
    /\ threads' = [threads EXCEPT ![t] = AfterBatch(@)]
    /\ UNCHANGED <<setup, phase, runs, files, blobs, index, remote, requests, refused, faults>>

(***************************************************************************)
(* The storage service                                                     *)
(***************************************************************************)

\* The response to one request, as the client's protocol writes it.
Response(ok, o) ==
    CASE setup.backend = "redis" ->
            << [type |-> CASE ~ ok -> "error" [] ok /\ phase = "put" -> "status"
                            [] ok /\ phase = "get" -> "string",
                body |-> Content(o)] >>
      [] setup.backend = "s3" /\ ~ ok ->
            << "503", "CR", "LF", "chunked", "CR", "LF", "CR", "LF",
               "c1", "CR", "LF", "x", "CR", "LF", "c0", "CR", "LF", "CR", "LF" >>
      [] setup.backend = "s3" /\ ok /\ phase = "put" ->
            << "200", "CR", "LF", "length0", "CR", "LF", "CR", "LF" >>
      [] setup.backend = "s3" /\ ok /\ phase = "get" ->
            << "200", "CR", "LF", "length2", "CR", "LF", "CR", "LF" >> \o Content(o)

\* Requests on a connection are answered in order.
Serve(t) ==
    /\ Moving
    /\ threads[t].open /\ threads[t].asked # << >>
    /\ LET th == threads[t]
           o  == Head(th.asked)
       IN  /\ \/ /\ phase = "get" => o \in remote
                 /\ remote' = remote \cup {o}
                 /\ threads' = [threads EXCEPT ![t] =
                       [th EXCEPT !.asked = Tail(th.asked), !.wire = th.wire \o Response(TRUE, o)]]
                 /\ UNCHANGED <<refused, faults>>
              \/ /\ \/ phase = "get" /\ o \notin remote /\ UNCHANGED <<faults>>
                    \/ Fault("error")
                 /\ refused' = IF phase = "put" THEN refused \cup {o} ELSE refused
                 /\ threads' = [threads EXCEPT ![t] =
                       [th EXCEPT !.asked = Tail(th.asked), !.wire = th.wire \o Response(FALSE, o)]]
                 /\ UNCHANGED remote
    /\ UNCHANGED <<setup, phase, runs, files, blobs, index, requests>>

\* The service closes a connection on which nothing has been going on.
CloseIdle(t) ==
    /\ Moving /\ setup.backend = "s3"
    /\ threads[t].pc = "drain" /\ threads[t].open
    /\ threads[t].asked = << >> /\ threads[t].wire = << >>
    /\ threads' = [threads EXCEPT ![t].open = FALSE]
    /\ UNCHANGED <<setup, phase, runs, files, blobs, index, remote, requests, refused, faults>>

\* It closes a connection with requests unanswered, perhaps within a response.
CloseEarly(t) ==
    /\ Moving
    /\ threads[t].pc = "drain" /\ threads[t].open
    /\ threads[t].asked # << >> \/ threads[t].wire # << >>
    /\ Fault("early")
    /\ LET th == threads[t]
       IN  \E n \in 0 .. Len(th.wire) :
              threads' = [threads EXCEPT ![t] =
                             [th EXCEPT !.open = FALSE, !.wire = SubSeq(th.wire, 1, n)]]
    /\ UNCHANGED <<setup, phase, runs, files, blobs, index, remote, requests, refused>>

(***************************************************************************)
(* The Jiffy client: one request after the other, on the main thread       *)
(***************************************************************************)

JiffyMove ==
    /\ Moving /\ setup.backend = "jiffy"
    /\ threads[1].count < Len(requests)
    /\ LET o == requests[threads[1].count + 1]
       IN  \/ /\ phase = "get" => o \in remote
              /\ Success(o, Content(o))
              /\ remote' = IF phase = "put" THEN remote \cup {o} ELSE remote
              /\ threads' = [threads EXCEPT ![1].count = @ + 1]
              /\ UNCHANGED <<phase, faults>>
           \/ /\ \/ phase = "get" /\ o \notin remote /\ UNCHANGED faults
                 \/ Fault("error")
              /\ phase' = "threw"
              /\ threads' = NoThreads
              /\ UNCHANGED <<blobs, index, remote>>
    /\ UNCHANGED <<setup, runs, files, requests, refused>>

TransferDone ==
    \/ setup.backend = "jiffy" /\ threads[1].count = Len(requests)
    \/ setup.backend # "jiffy" /\ \A t \in DOMAIN threads : threads[t].pc = "done"

(***************************************************************************)
(* main()                                                                  *)
(***************************************************************************)

\* The targets that are still placeholders, then upload_dependencies.
Start ==
    /\ phase = "start"
    /\ LET todo    == At([i \in Targets |-> i], { i \in Targets : targets[i] = Placeholder })
           missing == At(Dependencies, { i \in DOMAIN Dependencies : Dependencies[i] \notin index })
       IN  /\ actual' = todo
           /\ \/ /\ todo = << >>                 \* "Nothing to force. Bye."
                 /\ phase' = "returned"
                 /\ UNCHANGED <<requests, threads>>
              \/ /\ todo # << >>
                 /\ setup.backend = "none" \/ missing = << >>
                 /\ phase' = "reduce"
                 /\ UNCHANGED <<requests, threads>>
              \/ /\ todo # << >>
                 /\ setup.backend # "none" /\ missing # << >>
                 /\ StartTransfer("put", missing)
    /\ UNCHANGED <<setup, runs, targets, copied, blobs, index, remote, refused, faults>>

UploadDone ==
    /\ phase = "put" /\ TransferDone
    /\ phase' = "reduce"
    /\ requests' = << >>
    /\ threads' = NoThreads
    /\ UNCHANGED <<setup, runs, files, blobs, index, remote, refused, faults>>

\* The hashes that reduce() returns, and download_targets of those it has no blob
\* of. Where the work is done decides where the outputs are; a worker that does
\* not find a dependency fails, and the Reductor throws.
ReduceDone ==
    /\ phase = "reduce"
    /\ LET hashes == [i \in DOMAIN actual |-> Outputs[actual[i]]]
           unseen == At(hashes, { i \in DOMAIN hashes : hashes[i] \notin DOMAIN blobs })
       IN  \/ /\ setup.backend = "none"
              /\ blobs' = [o \in DOMAIN blobs \cup Rng(hashes) |-> Content(o)]
              /\ phase' = IF setup.no_download THEN "returned" ELSE "copy"
              /\ UNCHANGED <<remote, requests, threads>>
           \/ /\ setup.backend # "none"
              /\ ~ (Rng(Dependencies) \subseteq remote)
              /\ phase' = "threw"
              /\ UNCHANGED <<blobs, remote, requests, threads>>
           \/ /\ setup.backend # "none"
              /\ Rng(Dependencies) \subseteq remote
              /\ remote' = remote \cup Rng(hashes)
              /\ \/ /\ ~ setup.no_download /\ unseen # << >>
                    /\ StartTransfer("get", unseen)
                 \/ /\ setup.no_download \/ unseen = << >>
                    /\ phase' = IF setup.no_download THEN "returned" ELSE "copy"
                    /\ UNCHANGED <<requests, threads>>
              /\ UNCHANGED blobs
    /\ UNCHANGED <<setup, runs, files, index, refused, faults>>

DownloadDone ==
    /\ phase = "get" /\ TransferDone
    /\ phase' = "copy"
    /\ requests' = << >>
    /\ threads' = NoThreads
    /\ UNCHANGED <<setup, runs, files, blobs, index, remote, refused, faults>>

\* Mutant of CopiedTo: targets that were no placeholders are not skipped.
CopiedToAny(i) == i

\* The target file for the i-th hash that reduce() has returned.
CopiedTo(i) == actual[i]

\* copy_then_rename replaces one placeholder; without the blob it throws.
CopyTarget ==
    /\ phase = "copy"
    /\ copied < Len(actual)
    /\ LET i == copied + 1
           o == Outputs[actual[i]]
       IN  \/ /\ o \in DOMAIN blobs
              /\ targets' = [targets EXCEPT ![CopiedTo(i)] = blobs[o]]
              /\ copied' = i
              /\ UNCHANGED phase
           \/ /\ o \notin DOMAIN blobs
              /\ phase' = "threw"
              /\ UNCHANGED <<targets, copied>>
    /\ UNCHANGED <<setup, runs, actual, blobs, index, remote, requests, threads, refused, faults>>

CopyDone ==
    /\ phase = "copy" /\ copied = Len(actual)
    /\ phase' = "returned"
    /\ UNCHANGED <<setup, runs, files, blobs, index, remote, requests, threads,
                   refused, faults>>

Ended == phase \in {"returned", "threw", "aborted", "killed"}

\* The process is killed; what it has written stays.
Kill ==
    /\ ~ Ended
    /\ Fault("kill")
    /\ phase' = "killed"
    /\ threads' = NoThreads
    /\ UNCHANGED <<setup, runs, files, blobs, index, remote, requests, refused>>

\* The user runs gg-force again on the same targets.
Rerun ==
    /\ Ended /\ runs < MaxRuns
    /\ runs' = runs + 1
    /\ phase' = "start"
    /\ actual' = << >>
    /\ copied' = 0
    /\ requests' = << >>
    /\ UNCHANGED <<setup, targets, blobs, index, remote, threads, refused, faults>>

Stopped == Ended /\ UNCHANGED vars

Client(t) == Connect(t) \/ ConnectFails(t) \/ Send(t) \/ Drain(t) \/ BatchDone(t)
Service(t) == Serve(t) \/ CloseIdle(t) \/ CloseEarly(t)
main == Start \/ UploadDone \/ ReduceDone \/ DownloadDone \/ CopyTarget \/ CopyDone \/ JiffyMove

Next ==
    \/ main
    \/ \E t \in DOMAIN threads : Client(t) \/ Service(t)
    \/ Kill
    \/ Rerun
    \/ Stopped

Spec == Init /\ [][Next]_vars

(***************************************************************************)
(* Fairness. The threads of a process run, the service answers what it is  *)
(* asked, and it does not keep an idle connection open for ever.           *)
(***************************************************************************)

\* Thread t can take a step: it has something to do besides waiting for the service,
\* and its reads do not return the end of the stream over and over.
ClientReady(t) ==
    /\ Moving /\ t \in DOMAIN threads /\ threads[t].pc # "done"
    /\ LET th == threads[t]
       IN  \/ th.pc # "drain" \/ ~ DrainPending(th)
           \/ th.wire # << >>
           \/ ~ th.open /\ \/ setup.backend = "redis"
                           \/ th.parser.complete # << >>
                           \/ th.parser.message.state # "FIRST_LINE_PENDING"

ClientMoved(t) ==
    /\ t \in DOMAIN threads
    /\ t \in DOMAIN threads' =>
          \/ threads'[t].pc # threads[t].pc
          \/ threads'[t].parser # threads[t].parser
          \/ Len(threads'[t].wire) < Len(threads[t].wire)

ServiceThread(t) == t \in DOMAIN threads /\ (Serve(t) \/ CloseIdle(t))

\* The second conjunct is weak fairness of Client(t), which is enabled when
\* ClientReady(t) holds.
Fairness ==
    /\ WF_vars(main)
    /\ \A t \in Thread : []<>(~ ClientReady(t)) \/ []<><<ClientMoved(t)>>_vars
    /\ \A t \in Thread : WF_vars(ServiceThread(t))

FairSpec == Spec /\ Fairness

-----------------------------------------------------------------------------
\* The index never lists an object that the service does not have, whatever is
\* refused, cut off or killed: a later run will not upload it again. (Redis is left
\* out: its client takes an error reply for success, redis.cc:79-91.)
IndexIsTrue == setup.backend # "redis" => index \subseteq remote

\* Every dependency has been moved by some thread when the reduction starts: the
\* strides of the threads and batches leave none out. One can be missing only
\* because the service refused it in an answer that nobody looked at
\* (s3.cc:161-178, redis.cc:76-92, reductor.cc:349-403).
DependenciesUploaded ==
    phase = "reduce" /\ setup.backend # "none" => Rng(Dependencies) \subseteq remote \cup refused

\* Every blob and every replaced target holds its own object's content, however the
\* answers were cut and whichever thread fetched them; and a run that succeeds has
\* replaced every target (s3.cc:234-258, gg-force.cc:335-345).
FilesAreRight ==
    /\ \A o \in DOMAIN blobs : blobs[o] = Content(o)
    /\ \A i \in Targets : targets[i] = Placeholder \/ targets[i] = Content(Outputs[i])
    /\ phase = "returned" /\ ~ setup.no_download =>
          \A i \in Targets : targets[i] = Content(Outputs[i])

\* A run ends, even when the S3 client waits for a response it has already read;
\* only a connection closed early makes it spin (s3.cc:163, 234).
EveryRunEnds == []<>(Ended \/ "early" \in faults)
=============================================================================
