------------------------------ MODULE Reductor ------------------------------
(***************************************************************************)
(* The coordinator of gg-force, src/src/execution/reductor.cc, with the    *)
(* engines it hands jobs to (engine_local.cc, engine_lambda.cc,            *)
(* engine_gg.cc, engine_gcloud.cc) and the part of the event loop through  *)
(* which their answers reach it (loop.cc, poller.cc).                      *)
(*                                                                         *)
(* One thread alternates between dispatching the job queue and polling.    *)
(* While it polls, answers of jobs in flight run callbacks that change the *)
(* queue and the graph. The same thunk may be in flight several times: it  *)
(* is queued once per target that needs it, again when a job fails, and    *)
(* again when it takes longer than its timeout.                            *)
(***************************************************************************)
EXTENDS ExecutionGraph

CONSTANTS
    TargetHashes,      \* target_hashes_, a sequence of thunks
    Eval(_),           \* the vector<ThunkOutput> that executing a thunk yields
    ExecEngines,       \* exec_engines_, a sequence of engines
    FallbackEngines,   \* fallback_engines_, a sequence of engines
    LocalEngines,      \* the engines that run gg-execute in a child process
    TlsEngines,        \* the engines that are reached over an SSLConnection
    MaxJobs,           \* max_jobs() of each engine
    CanExecute(_, _),  \* can_execute: is the thunk small enough for the engine?
    TimeoutsOn,        \* a timeout is set (timeout_check_interval_ is not 0)
    Faults,            \* the kinds of failure that may happen
    Warm,              \* thunks that an earlier run may have left in the cache
    JobId,             \* names of jobs in flight (connection and child ids)
    MaxFaults,         \* bound: failures in one behaviour
    MaxQueue           \* bound: queue length up to which jobs are duplicated

SeqRange(s) == { s[i] : i \in DOMAIN s }

Engines == SeqRange(ExecEngines) \cup SeqRange(FallbackEngines)
Targets == SeqRange(TargetHashes)

\* What may go wrong:
\*   "retryable"  an answer that tells the coordinator to try again
\*   "fatal"      an answer of ExecutionFailure, or one that makes no sense
\*   "socket"     an error on a connection that poll reports
\*   "closed"     a TCP connection closed before a whole response has come
\*   "silent"     the same of a TLS connection, which the loop does not notice
\*   "tls"        an exception of a TLS connection: an error of the library, the end of
\*                the connection in its handshake, bytes from the peer while a request
\*                is half written (nb_secure_socket.cc:85, 137, 202, 226)
\*   "child"      a gg-execute that exits with an error
\*   "system"     a system call of the coordinator that fails, or a SIGHUP, SIGTERM or
\*                SIGQUIT sent to it
FaultKinds == {"retryable", "fatal", "socket", "closed", "silent", "tls", "child", "system"}

ASSUME ReductorAssumption ==
    /\ TargetHashes \in Seq(Thunk) /\ TargetHashes # << >>
    /\ ExecEngines \in Seq(Engines) /\ ExecEngines # << >>
    /\ FallbackEngines \in Seq(Engines)
    /\ Warm \subseteq Thunk
    /\ LocalEngines \subseteq Engines
    /\ TlsEngines \subseteq Engines \ LocalEngines
    /\ MaxJobs \in [Engines -> Nat \ {0}]
    /\ TimeoutsOn \in BOOLEAN
    /\ Faults \subseteq FaultKinds
    /\ IsFiniteSet(JobId)
    /\ MaxFaults \in Nat
    /\ MaxQueue \in Nat

VARIABLES
    pc,                 \* where the coordinator is
    loaded,             \* how many targets the constructor has loaded
    dep_graph,          \* dep_graph_
    remaining_targets,  \* remaining_targets_
    job_queue,          \* job_queue_
    running_jobs,       \* the keys of running_jobs_
    job_count,          \* running_jobs_ of each engine
    jobs,               \* open connections and child processes of the loop
    sigchld,            \* a SIGCHLD waits to be read
    todo,               \* children that the handler of a SIGCHLD has yet to look at
    cache,              \* the reductions directory: thunk -> its outputs
    final_hashes,       \* what reduce() has returned
    faults              \* the kinds of the failures so far

vars == <<pc, loaded, dep_graph, remaining_targets, job_queue, running_jobs, job_count,
          jobs, sigchld, todo, cache, final_hashes, faults>>

(***************************************************************************)
(* The constructor: load the targets, queue what can be executed.          *)
(***************************************************************************)

Init ==
    /\ pc = "load"
    /\ loaded = 0
    /\ dep_graph = EmptyGraph
    /\ remaining_targets = {}
    /\ job_queue = << >>
    /\ running_jobs = {}
    /\ job_count = [e \in Engines |-> 0]
    /\ jobs = << >>
    /\ sigchld = FALSE
    /\ todo = {}
    /\ \E W \in SUBSET Warm : cache = [h \in W |-> Eval(h)]
    /\ final_hashes = << >>
    /\ faults = << >>

\* One iteration of the loop over target_hashes_.
AddTarget ==
    /\ pc = "load"
    /\ LET t        == TargetHashes[loaded + 1]
           inserted == AddedHash(dep_graph, t)
       IN  /\ dep_graph' = add_thunk(dep_graph, t)
           /\ \/ /\ inserted \in remaining_targets
                 /\ UNCHANGED <<remaining_targets, job_queue>>
              \/ /\ inserted \notin remaining_targets
                 /\ remaining_targets' = remaining_targets \cup {inserted}
                 /\ \E o1 \in Orders(order_one_dependencies(dep_graph', t)) :
                       job_queue' = job_queue \o o1
    /\ loaded' = loaded + 1
    /\ pc' = IF loaded' = Len(TargetHashes) THEN "dispatch" ELSE "load"
    /\ UNCHANGED <<running_jobs, job_count, jobs, sigchld, todo, cache, final_hashes, faults>>

\* Mutant of finalize_execution: it does not ask whether the graph still holds h.
finalize_unchecked(h, outs, q, at) ==
    /\ running_jobs' = running_jobs \ {h}
    /\ \/ /\ ~ ForceThrows(dep_graph, h, outs)
          /\ \E r \in force_thunk(dep_graph, h, outs) : \E o1 \in Orders(r.next) :
                /\ dep_graph' = r.graph
                /\ job_queue' = q \o o1
                /\ remaining_targets' = IF outs[1].hash \in Value
                                        THEN remaining_targets \ {original_hash(r.graph, h)}
                                        ELSE remaining_targets
          /\ pc' = at
       \/ /\ ForceThrows(dep_graph, h, outs)
          /\ pc' = "threw"
          /\ UNCHANGED <<dep_graph, remaining_targets, job_queue>>

\* Mutant of finalize_execution: the target is erased under its current hash.
finalize_current_hash(h, outs, q, at) ==
    /\ running_jobs' = running_jobs \ {h}
    /\ \/ /\ h \notin DOMAIN dep_graph.thunks
          /\ job_queue' = q
          /\ pc' = at
          /\ UNCHANGED <<dep_graph, remaining_targets>>
       \/ /\ h \in DOMAIN dep_graph.thunks
          /\ \E r \in force_thunk(dep_graph, h, outs) : \E o1 \in Orders(r.next) :
                /\ dep_graph' = r.graph
                /\ job_queue' = q \o o1
                /\ remaining_targets' = remaining_targets \ {h}
          /\ pc' = at

(***************************************************************************)
(* finalize_execution(h, outs), with q the queue it appends to and `at`    *)
(* where reduce() goes on. Results of a thunk that the graph no longer     *)
(* holds (a duplicate's) leave everything but running_jobs_ alone.         *)
(***************************************************************************)
finalize_execution(h, outs, q, at) ==
    /\ running_jobs' = running_jobs \ {h}
    /\ \/ /\ h \notin DOMAIN dep_graph.thunks
          /\ job_queue' = q
          /\ pc' = at
          /\ UNCHANGED <<dep_graph, remaining_targets>>
       \/ /\ h \in DOMAIN dep_graph.thunks
          /\ IF ForceThrows(dep_graph, h, outs)
             THEN pc' = "threw" /\ UNCHANGED <<dep_graph, remaining_targets, job_queue>>
             ELSE /\ \E r \in force_thunk(dep_graph, h, outs) : \E o1 \in Orders(r.next) :
                        /\ dep_graph' = r.graph
                        /\ job_queue' = q \o o1
                        /\ remaining_targets' =
                              IF outs[1].hash \in Value
                              THEN remaining_targets \ {original_hash(r.graph, h)}
                              ELSE remaining_targets
                  /\ pc' = at

(***************************************************************************)
(* reduce(): the inner loop that dispatches the queue                      *)
(***************************************************************************)

Dispatching == pc = "dispatch" /\ job_queue # << >>

\* The front of the queue has been reduced before.
TakeCached ==
    /\ Dispatching
    /\ Head(job_queue) \in DOMAIN cache
    /\ finalize_execution(Head(job_queue), cache[Head(job_queue)], Tail(job_queue), "dispatch")
    /\ UNCHANGED <<loaded, job_count, jobs, sigchld, todo, cache, final_hashes, faults>>

\* The engines tried for h: the fallback engines only if no execution engine
\* can execute it at all.
Able(es, h) == { i \in DOMAIN es : CanExecute(es[i], h) }
TriedFor(h) == IF Able(ExecEngines, h) # {} THEN ExecEngines ELSE FallbackEngines

\* Mutant of WithRoom: an off-by-one.
WithOneMore(h) == { i \in Able(TriedFor(h), h) :
                       job_count[TriedFor(h)[i]] <= MaxJobs[TriedFor(h)[i]] }

WithRoom(h) == { i \in Able(TriedFor(h), h) :
                    job_count[TriedFor(h)[i]] < MaxJobs[TriedFor(h)[i]] }

FirstWithRoom(h) == { i \in WithRoom(h) : \A j \in WithRoom(h) : i <= j }

\* ExecutionEngine::force_thunk: a request or a child process is started.
StartJob(id, h, e) ==
    /\ jobs' = [i \in DOMAIN jobs \cup {id} |->
                   IF i = id THEN [hash |-> h, engine |-> e, state |-> "open"] ELSE jobs[i]]
    /\ job_count' = [job_count EXCEPT ![e] = @ + 1]

Execute ==
    /\ Dispatching
    /\ LET h == Head(job_queue)
       IN  /\ h \notin DOMAIN cache
           /\ h \in DOMAIN dep_graph.thunks
           /\ DOMAIN jobs # JobId
           /\ \E i \in FirstWithRoom(h) :
                 StartJob(CHOOSE id \in JobId : id \notin DOMAIN jobs, h, TriedFor(h)[i])
           /\ running_jobs' = running_jobs \cup {h}
    /\ job_queue' = Tail(job_queue)
    /\ UNCHANGED <<pc, loaded, dep_graph, remaining_targets, sigchld, todo, cache,
                   final_hashes, faults>>

\* The front of the queue cannot be started. If every engine that could execute
\* it is full, it goes back to the front and reduce() polls; if no engine can, or
\* get_thunk does not find it, reduce() throws.
NotStarted ==
    /\ Dispatching
    /\ LET h == Head(job_queue)
       IN  /\ h \notin DOMAIN cache
           /\ h \notin DOMAIN dep_graph.thunks \/ WithRoom(h) = {}
           /\ pc' = IF h \in DOMAIN dep_graph.thunks /\ Able(TriedFor(h), h) # {}
                    THEN "poll" ELSE "threw"
    /\ UNCHANGED <<loaded, dep_graph, remaining_targets, job_queue, running_jobs, job_count,
                   jobs, sigchld, todo, cache, final_hashes, faults>>

QueueEmpty ==
    /\ pc = "dispatch"
    /\ job_queue = << >>
    /\ pc' = "poll"
    /\ UNCHANGED <<loaded, dep_graph, remaining_targets, job_queue, running_jobs, job_count,
                   jobs, sigchld, todo, cache, final_hashes, faults>>

(***************************************************************************)
(* Answers: callbacks of the engines, run while reduce() is in loop_once.  *)
(* The poller services every descriptor that is ready before it returns,   *)
(* the signals first; the handler of a SIGCHLD looks at all the children   *)
(* before a connection is looked at.                                       *)
(***************************************************************************)

Polling == pc \in {"poll", "serviced"}

IsLocal(id)  == jobs[id].engine \in LocalEngines
IsRemote(id) == jobs[id].engine \notin LocalEngines
IsTls(id)    == jobs[id].engine \in TlsEngines

\* The poller has come to the connections, and this one is not at its end.
Listening(id) == Polling /\ todo = {} /\ IsRemote(id) /\ jobs[id].state = "open"

CloseJob(id) == jobs' = [i \in DOMAIN jobs \ {id} |-> jobs[i]]

ReleaseSlot(id) == job_count' = [job_count EXCEPT ![jobs[id].engine] = @ - 1]

\* A remote engine answers 200 with the outputs: they are entered in the cache
\* and the success callback runs.
RemoteSuccess(id) ==
    /\ Listening(id)
    /\ CloseJob(id)
    /\ ReleaseSlot(id)
    /\ LET h == jobs[id].hash
       IN  /\ cache' = [x \in DOMAIN cache \cup {h} |-> IF x = h THEN Eval(h) ELSE cache[x]]
           /\ finalize_execution(h, Eval(h), job_queue, "serviced")
    /\ UNCHANGED <<loaded, sigchld, todo, final_hashes, faults>>

Fault(kind) ==
    /\ kind \in Faults
    /\ Len(faults) < MaxFaults
    /\ faults' = Append(faults, kind)

\* A child ends, and its parent is sent a SIGCHLD; two that have not been read are one.
\* What children do after reduce() has ended is left out.
ChildEnds(id, state) ==
    /\ pc \notin {"returned", "threw"}
    /\ IsLocal(id)
    /\ jobs[id].state = "open"
    /\ jobs' = [jobs EXCEPT ![id].state = state]
    /\ sigchld' = TRUE
    /\ UNCHANGED <<pc, loaded, dep_graph, remaining_targets, job_queue, running_jobs,
                   job_count, todo, final_hashes>>

\* gg-execute, in its own process, enters its results in the cache and exits.
ChildRuns(id) ==
    /\ ChildEnds(id, "exited")
    /\ LET h == jobs[id].hash
       IN  cache' = [x \in DOMAIN cache \cup {h} |-> IF x = h THEN Eval(h) ELSE cache[x]]
    /\ UNCHANGED faults

\* gg-execute exits with an error.
ChildFails(id) == ChildEnds(id, "failed") /\ Fault("child") /\ UNCHANGED cache

LocalJobs == { i \in DOMAIN jobs : IsLocal(i) }

\* handle_signal: the loop listens to signals while it has a connection or a child. A
\* SIGCHLD makes it look at every child; left over from an earlier round that found all
\* its children ended, it makes it throw.
ReadSignal ==
    /\ pc = "poll"
    /\ DOMAIN jobs # {}
    /\ sigchld
    /\ \/ /\ LocalJobs = {}
          /\ pc' = "threw"
          /\ UNCHANGED <<sigchld, todo>>
       \/ /\ LocalJobs # {}
          /\ pc' = "serviced"
          /\ sigchld' = FALSE
          /\ todo' = LocalJobs
    /\ UNCHANGED <<loaded, dep_graph, remaining_targets, job_queue, running_jobs, job_count,
                   jobs, cache, final_hashes, faults>>

\* The handler comes to a child, which it finds in the given state.
LooksAt(id, state) ==
    /\ Polling
    /\ id \in todo
    /\ todo' = todo \ {id}
    /\ jobs[id].state = state
    /\ UNCHANGED <<loaded, sigchld, cache, final_hashes, faults>>

\* The child is still running.
StillRunning(id) ==
    /\ LooksAt(id, "open")
    /\ UNCHANGED <<pc, dep_graph, remaining_targets, job_queue, running_jobs, job_count, jobs>>

\* The child is reaped; the callback takes the results from the cache.
LocalSuccess(id) ==
    /\ LooksAt(id, "exited")
    /\ CloseJob(id)
    /\ ReleaseSlot(id)
    /\ finalize_execution(jobs[id].hash, cache[jobs[id].hash], job_queue, "serviced")

\* The child has exited with an error: the loop throws before any callback.
ChildFailure(id) ==
    /\ LooksAt(id, "failed")
    /\ pc' = "threw"
    /\ UNCHANGED <<dep_graph, remaining_targets, job_queue, running_jobs, job_count, jobs>>

\* Mutant of Retry: the failed job is dropped.
GiveUp(id) ==
    /\ pc' = "serviced"
    /\ UNCHANGED <<loaded, dep_graph, remaining_targets, job_queue, running_jobs, sigchld,
                   todo, cache, final_hashes>>

\* The failure callback with any status but ExecutionFailure: queue it again.
Retry(id) ==
    /\ job_queue' = Append(job_queue, jobs[id].hash)
    /\ pc' = "serviced"
    /\ UNCHANGED <<loaded, dep_graph, remaining_targets, running_jobs, sigchld, todo, cache,
                   final_hashes>>

\* A remote engine answers with a failure: rate limit, invocation failure,
\* or a job status that says the thunk could not be run to its end.
RemoteFailure(id) ==
    /\ Listening(id)
    /\ Fault("retryable")
    /\ CloseJob(id)
    /\ ReleaseSlot(id)
    /\ Retry(id)

\* poll reports an error of the connection, of a silent one too: the failure callback
\* runs, the slot is kept.
SocketFailure(id) ==
    /\ Polling /\ todo = {} /\ IsRemote(id)
    /\ Fault("socket")
    /\ CloseJob(id)
    /\ UNCHANGED job_count
    /\ Retry(id)

\* Nothing of the coordinator's picture changes.
NothingHeard == UNCHANGED <<loaded, dep_graph, remaining_targets, job_queue, running_jobs,
                            job_count, sigchld, todo, cache, final_hashes>>

\* The peer closes a TCP connection before a whole response has arrived: the
\* connection is dropped and no callback of the engine runs.
ConnectionClosed(id) ==
    /\ Listening(id) /\ ~ IsTls(id)
    /\ Fault("closed")
    /\ CloseJob(id)
    /\ pc' = "serviced"
    /\ NothingHeard

\* The peer closes a TLS connection before a whole response has arrived: the In action
\* finds nothing to read and does not call the loop back, and a socket that has had its
\* EOF is not polled again. The connection stays in the loop.
GoesSilent(id) ==
    /\ Listening(id) /\ IsTls(id)
    /\ Fault("silent")
    /\ jobs' = [jobs EXCEPT ![id].state = "silent"]
    /\ pc' = "serviced"
    /\ NothingHeard

\* A TLS connection throws out of the poller.
TlsFailure(id) ==
    /\ Listening(id) /\ IsTls(id)
    /\ Fault("tls")
    /\ pc' = "threw"
    /\ NothingHeard
    /\ UNCHANGED jobs

\* A remote engine answers ExecutionFailure, and the failure callback throws; or its
\* answer cannot be parsed or is about another thunk, and the response callback does.
ExecutionFailure(id) ==
    /\ Listening(id)
    /\ Fault("fatal")
    /\ CloseJob(id)
    /\ ReleaseSlot(id)
    /\ pc' = "threw"
    /\ UNCHANGED <<loaded, dep_graph, remaining_targets, job_queue, running_jobs, sigchld,
                   todo, cache, final_hashes>>

Answered(id) ==
    \/ RemoteSuccess(id)
    \/ StillRunning(id)
    \/ LocalSuccess(id)
    \/ ChildFailure(id)
    \/ RemoteFailure(id)
    \/ SocketFailure(id)
    \/ ConnectionClosed(id)
    \/ GoesSilent(id)
    \/ TlsFailure(id)
    \/ ExecutionFailure(id)

\* A system call of reduce() fails (socket, connect, fork, poll, open, rename), or
\* handle_signal reads a signal that asks it to end.
SystemFailure ==
    /\ pc \in {"dispatch", "poll", "serviced"}
    /\ Fault("system")
    /\ pc' = "threw"
    /\ NothingHeard
    /\ UNCHANGED jobs

(***************************************************************************)
(* reduce(): after loop_once, with its result                              *)
(***************************************************************************)

FinalThunk(t) == updated_hash(dep_graph, t)

AnswersFound == \A t \in Targets : FinalThunk(t) \in DOMAIN cache

\* Jobs past their timeout are queued again; then reduce() returns, throws or
\* goes back to the queue.
AfterPoll(exit) ==
    /\ \E late \in SUBSET running_jobs :
          /\ late # {} => TimeoutsOn /\ Len(job_queue) + Cardinality(late) <= MaxQueue
          /\ \E dup \in Orders(late) : job_queue' = job_queue \o dup
    /\ pc' = CASE remaining_targets = {} /\ AnswersFound   -> "returned"
               [] remaining_targets = {} /\ ~ AnswersFound -> "threw"
               [] remaining_targets # {} /\ exit           -> "threw"
               [] remaining_targets # {} /\ ~ exit         -> "dispatch"
    /\ final_hashes' = IF remaining_targets = {} /\ AnswersFound
                       THEN [i \in DOMAIN TargetHashes |->
                                cache[FinalThunk(TargetHashes[i])][1].hash]
                       ELSE final_hashes
    /\ UNCHANGED <<loaded, dep_graph, remaining_targets, running_jobs, job_count, jobs,
                   sigchld, todo, cache, faults>>

\* At least one descriptor was serviced.
PollSuccess == pc = "serviced" /\ todo = {} /\ AfterPoll(FALSE)

\* Nothing was ready before the timeout that reduce() passes to the poller.
PollTimeout == pc = "poll" /\ TimeoutsOn /\ jobs # << >> /\ ~ sigchld /\ AfterPoll(FALSE)

\* Mutant of PollExit: reduce() does not look at what loop_once returns.
PollExitIgnored == pc = "poll" /\ jobs = << >> /\ AfterPoll(FALSE)

\* No connection and no child process is left to wait for.
PollExit == pc = "poll" /\ jobs = << >> /\ AfterPoll(TRUE)

Terminated == pc \in {"returned", "threw"} /\ UNCHANGED vars

reduce ==
    \/ TakeCached
    \/ Execute
    \/ NotStarted
    \/ QueueEmpty
    \/ PollSuccess
    \/ PollTimeout
    \/ PollExit

Next ==
    \/ AddTarget
    \/ reduce
    \/ ReadSignal
    \/ \E id \in DOMAIN jobs : Answered(id) \/ ChildRuns(id) \/ ChildFails(id)
    \/ SystemFailure
    \/ Terminated

Spec == Init /\ [][Next]_vars

(***************************************************************************)
(* Fairness. The coordinator's thread runs; while children run, one of     *)
(* them ends at last; and while there are connections that are not silent, *)
(* one of them is answered at last, in some way. Every poll services the   *)
(* signals and all descriptors that are ready, so neither a SIGCHLD nor an *)
(* answer can be passed over for ever (strong fairness, because reduce()   *)
(* keeps entering and leaving the poller). Nothing is assumed of a silent  *)
(* connection.                                                             *)
(***************************************************************************)

Loads == pc = "load" /\ loaded' = loaded + 1

LooksAtNext == Polling /\ \E id \in todo : todo' = todo \ {id}

IsAnswered == \E id \in DOMAIN jobs : Listening(id) /\ CloseJob(id)

Exits ==
    /\ pc \notin {"returned", "threw"}
    /\ \E id \in LocalJobs : /\ jobs[id].state = "open"
                             /\ jobs' = [jobs EXCEPT ![id].state = "exited"]

Fairness ==
    /\ WF_loaded(Loads)
    /\ WF_vars(reduce)
    /\ SF_vars(ReadSignal) /\ WF_todo(LooksAtNext)
    /\ SF_jobs(IsAnswered) /\ WF_jobs(Exits)

FairSpec == Spec /\ Fairness

-----------------------------------------------------------------------------
Happened(kind) == kind \in SeqRange(faults)
InFlight == { jobs[i].hash : i \in DOMAIN jobs }
InFlightOn(e) == { i \in DOMAIN jobs : jobs[i].engine = e }

\* The maps and counters of the coordinator hold what their types say (the type
\* invariant).
TypeOK ==
    /\ pc \in {"load", "dispatch", "poll", "serviced", "returned", "threw"}
    /\ loaded \in 0 .. Len(TargetHashes)
    /\ pc = "load" => loaded < Len(TargetHashes)
    /\ DOMAIN dep_graph = DOMAIN EmptyGraph
    /\ IsFiniteSet(DOMAIN dep_graph.thunks)
    /\ job_queue \in Seq(SeqRange(job_queue))
    /\ IsFiniteSet(running_jobs)
    /\ job_count \in [Engines -> Nat]
    /\ DOMAIN jobs \subseteq JobId
    /\ \A i \in DOMAIN jobs : /\ DOMAIN jobs[i] = {"hash", "engine", "state"}
                              /\ jobs[i].engine \in Engines
                              /\ jobs[i].state \in {"open", "exited", "failed", "silent"}
    /\ sigchld \in BOOLEAN
    /\ todo \subseteq JobId
    /\ faults \in Seq(FaultKinds) /\ Len(faults) <= MaxFaults

\* No engine is given more jobs than it was configured for, however often jobs
\* are duplicated, and its counter never falls behind the requests that are
\* really open (reductor.cc:251, engine_*.cc running_jobs_).
NeverOvercommitted ==
    \A e \in Engines : /\ Cardinality(InFlightOn(e)) <= job_count[e]
                        /\ job_count[e] <= MaxJobs[e]

\* No job is forgotten: a thunk that can be executed is queued or in flight,
\* whatever duplicates and failures of it came before; only a TCP connection that is
\* closed early takes its job along. A job on a silent connection counts as in flight:
\* the coordinator keeps waiting for it (reductor.cc:159, 191, 289, loop.cc:117).
NoJobForgotten ==
    pc \notin {"load", "threw"} /\ ~ Happened("closed") =>
        { h \in DOMAIN dep_graph.thunks : CanBeExecuted(dep_graph.thunks[h]) }
            \subseteq SeqRange(job_queue) \cup InFlight

\* A SIGCHLD has outlived the last child, while a connection keeps the loop listening.
SignalLeftOver == sigchld /\ LocalJobs = {} /\ DOMAIN jobs # {}

\* Late jobs, duplicates, failures that can be retried and connections that fall silent
\* never end reduce() in an exception: get_thunk finds every queued thunk, the graph finds
\* every referrer, the cache holds the final answers, and the loop does not run out of
\* things to wait for while targets remain. What may are the failures of FaultKinds that
\* throw, a socket error, which loses a slot, a TCP connection closed early, which loses a
\* job, and, with no failure at all, a SIGCHLD that comes while the handler of another one
\* is reaping the last child (reductor.cc:242, 293, 330, 339, loop.cc:311-346,
\* engine_lambda.cc:66-112).
NeverThrows ==
    pc = "threw" => \/ \E kind \in FaultKinds \ {"retryable", "silent"} : Happened(kind)
                    \/ SignalLeftOver

\* Every thunk that can be executed finds an engine: what the proof of NeverThrows takes
\* of the engines that a user names (reductor.cc:249-276).
EnginesSuffice == \A h \in Thunk : CanBeExecuted(h) => Able(TriedFor(h), h) # {}

\* reduce() ends: it returns, or it throws, and then NeverThrows says why. If not, it is
\* left with nothing but silent connections, which it waits for although no answer can
\* come from them: for good when no timeout is set or when they hold the slots that
\* are needed (reductor.cc:202-345, nb_secure_socket.cc:88, poller.cc:52-54).
WaitsInVain == jobs # << >> /\ \A i \in DOMAIN jobs : jobs[i].state = "silent"
Terminates == <>[](pc \in {"returned", "threw"} \/ WaitsInVain)
=============================================================================
