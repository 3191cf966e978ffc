----------------------------- MODULE JobTimeouts -----------------------------
(***************************************************************************)
(* The clock arithmetic of re-execution in src/src/execution/reductor.cc:  *)
(* when a running job counts as late, how its timeout grows, and what that *)
(* does to the queue. The Reductor module lets any running job be late at  *)
(* any time; here the times, the growing timeout and the 8-bit counter     *)
(* `restarts`, which starts at its maximum, are the program's.             *)
(***************************************************************************)
EXTENDS Integers, Sequences, SequencesExt

CONSTANTS
    Job,               \* thunks that can be executed at the start
    ThunkTimeout,      \* thunk.timeout() of each, 0 when it has none
    Multiplier,        \* timeout_multiplier_
    DefaultTimeout,    \* default_timeout_
    Interval,          \* timeout_check_interval_
    Width,             \* values of `restarts`: 256 in the code
    Capacity,          \* jobs the engines run at a time
    MaxTime,           \* bound: the clock
    MaxFailures        \* bound: failed executions

ASSUME TimeoutsAssumption ==
    /\ IsFiniteSet(Job)
    /\ ThunkTimeout \in [Job -> Nat]
    /\ Multiplier \in Nat
    /\ DefaultTimeout \in Nat \ {0}
    /\ Interval \in Nat \ {0}
    /\ Width \in Nat \ {0}
    /\ Capacity \in Nat
    /\ MaxTime \in Nat
    /\ MaxFailures \in Nat

VARIABLES
    pc,                  \* where reduce() is
    now,                 \* Clock::now()
    job_queue,           \* job_queue_
    running_jobs,        \* running_jobs_: job -> its JobInfo
    in_flight,           \* executions of each job that are not over
    finished,            \* jobs whose outputs are in the cache
    next_timeout_check,  \* next_timeout_check_
    failures,            \* failed executions so far
    first,               \* history: when a job was first started
    duplicated           \* history: how often a job was queued for being late

times_vars == <<pc, now, job_queue, running_jobs, in_flight, finished, next_timeout_check,
          failures, first, duplicated>>

\* job_info.timeout at a start: the thunk's own timeout, or else the default.
InitialTimeout(j) == IF ThunkTimeout[j] * Multiplier = 0
                     THEN DefaultTimeout ELSE ThunkTimeout[j] * Multiplier

\* A new JobInfo's counter is numeric_limits<uint8_t>::max().
FreshRestarts == Width - 1

\* Mutant of Incremented: the counter is wider than the value it starts with.
IncrementedWide(n) == n + 1

Incremented(n) == (n + 1) % Width

Busy == FoldFunction(+, 0, in_flight)

TimesInit ==
    /\ pc = "dispatch"
    /\ now = 0
    /\ job_queue \in SetToSeqs(Job)
    /\ running_jobs = << >>
    /\ in_flight = [j \in Job |-> 0]
    /\ finished = {}
    /\ next_timeout_check = Interval
    /\ failures = 0
    /\ first = [j \in Job |-> 0]
    /\ duplicated = [j \in Job |-> 0]

\* The clock runs whatever the coordinator does.
Tick ==
    /\ pc # "returned"
    /\ now < MaxTime
    /\ now' = now + 1
    /\ UNCHANGED <<pc, job_queue, running_jobs, in_flight, finished, next_timeout_check,
                   failures, first, duplicated>>

(***************************************************************************)
(* reduce(): the queue                                                     *)
(***************************************************************************)

Dispatching == pc = "dispatch" /\ job_queue # << >>

\* A copy of a job that is already reduced.
TakeCached ==
    /\ Dispatching
    /\ Head(job_queue) \in finished
    /\ job_queue' = Tail(job_queue)
    /\ UNCHANGED <<pc, now, running_jobs, in_flight, finished, next_timeout_check,
                   failures, first, duplicated>>

Restarts(j) == IF j \in DOMAIN running_jobs THEN running_jobs[j].restarts ELSE FreshRestarts

\* The JobInfo of a job that is handed to an engine; operator[] creates it if
\* it is not there. A timeout that had grown is back at its initial value.
Started(j) == [start    |-> now,
               timeout  |-> InitialTimeout(j),
               restarts |-> Incremented(Restarts(j))]

Execute ==
    /\ Dispatching
    /\ LET j == Head(job_queue)
       IN  /\ j \notin finished
           /\ Busy < Capacity
           /\ running_jobs' = [k \in DOMAIN running_jobs \cup {j} |->
                                  IF k = j THEN Started(j) ELSE running_jobs[k]]
           /\ in_flight' = [in_flight EXCEPT ![j] = @ + 1]
           /\ first' = [first EXCEPT ![j] = IF j \in DOMAIN running_jobs THEN @ ELSE now]
    /\ job_queue' = Tail(job_queue)
    /\ UNCHANGED <<pc, now, finished, next_timeout_check, failures, duplicated>>

\* The queue is empty, or its front stays there because the engines are full.
StopDispatching ==
    /\ pc = "dispatch"
    /\ \/ job_queue = << >>
       \/ job_queue # << >> /\ Head(job_queue) \notin finished /\ Busy >= Capacity
    /\ pc' = "poll"
    /\ UNCHANGED <<now, job_queue, running_jobs, in_flight, finished, next_timeout_check,
                   failures, first, duplicated>>

(***************************************************************************)
(* Answers, while reduce() is in loop_once                                 *)
(***************************************************************************)

\* finalize_execution erases the job, whichever of its executions answers.
Success(j) ==
    /\ pc = "poll"
    /\ in_flight[j] > 0
    /\ in_flight' = [in_flight EXCEPT ![j] = @ - 1]
    /\ finished' = finished \cup {j}
    /\ running_jobs' = [k \in DOMAIN running_jobs \ {j} |-> running_jobs[k]]
    /\ UNCHANGED <<pc, now, job_queue, next_timeout_check, failures, first, duplicated>>

\* The failure callback queues the job again and leaves running_jobs_ alone: its
\* time keeps running although nothing may be executing it.
Failure(j) ==
    /\ pc = "poll"
    /\ in_flight[j] > 0
    /\ failures < MaxFailures
    /\ failures' = failures + 1
    /\ in_flight' = [in_flight EXCEPT ![j] = @ - 1]
    /\ job_queue' = Append(job_queue, j)
    /\ UNCHANGED <<pc, now, running_jobs, finished, next_timeout_check, first, duplicated>>

(***************************************************************************)
(* reduce(): the check for late jobs after loop_once                       *)
(***************************************************************************)

Late == { j \in DOMAIN running_jobs :
             now - running_jobs[j].start > running_jobs[j].timeout }

\* Mutant of Duplicated: the time of a late job is not started again.
DuplicatedNoReset(info) == [start    |-> info.start,
                            timeout  |-> info.timeout + info.restarts * info.timeout,
                            restarts |-> Incremented(info.restarts)]

\* What becomes of a late job's JobInfo.
Duplicated(info) == [start    |-> now,
                     timeout  |-> info.timeout + info.restarts * info.timeout,
                     restarts |-> Incremented(info.restarts)]

CheckTimeouts ==
    /\ now >= next_timeout_check
    /\ \E dup \in SetToSeqs(Late) : job_queue' = job_queue \o dup
    /\ running_jobs' = [j \in DOMAIN running_jobs |->
                           IF j \in Late THEN Duplicated(running_jobs[j]) ELSE running_jobs[j]]
    /\ duplicated' = [j \in Job |-> IF j \in Late THEN duplicated[j] + 1 ELSE duplicated[j]]
    /\ next_timeout_check' = next_timeout_check + Interval

NoCheckDue ==
    /\ now < next_timeout_check
    /\ UNCHANGED <<job_queue, running_jobs, duplicated, next_timeout_check>>

PollReturns ==
    /\ pc = "poll"
    /\ CheckTimeouts \/ NoCheckDue
    /\ pc' = IF finished = Job THEN "returned" ELSE "dispatch"
    /\ UNCHANGED <<now, in_flight, finished, failures, first>>

Terminated == pc = "returned" /\ UNCHANGED times_vars

TimesNext ==
    \/ Tick
    \/ TakeCached
    \/ Execute
    \/ StopDispatching
    \/ \E j \in Job : Success(j) \/ Failure(j)
    \/ PollReturns
    \/ Terminated

TimesSpec == TimesInit /\ [][TimesNext]_times_vars

-----------------------------------------------------------------------------
\* A late job is duplicated at most once in each of its timeouts, counted from
\* the moment it was first started: a check that is made several times in a row
\* because next_timeout_check_ has fallen behind, restarts, failures and the wrap
\* of the counter never make the queue fill up faster (reductor.cc:306-317).
DuplicatesAreRationed ==
    \A j \in Job : duplicated[j] * (InitialTimeout(j) + 1) <= now - first[j]

\* A timeout is never below its initial value, and once grown it stays below
\* Width times the time since the job was first started: with Width = 256 and
\* times in nanoseconds the comparison at reductor.cc:310 cannot overflow 64 bits
\* in the first year of a run.
TimeoutStaysBounded ==
    \A j \in DOMAIN running_jobs :
        /\ running_jobs[j].timeout >= InitialTimeout(j)
        /\ \/ running_jobs[j].timeout = InitialTimeout(j)
           \/ running_jobs[j].timeout <= Width * (now - first[j])
=============================================================================
