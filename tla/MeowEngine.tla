----------------------------- MODULE MeowEngine -----------------------------
(***************************************************************************)
(* The Meow engine and its workers, src/src/execution/engine_meow.cc,      *)
(* src/src/execution/meow/ and src/src/frontend/gg-meow-worker.cc: the     *)
(* coordinator launches one lambda for every thunk that finds no free one, *)
(* the lambda's worker connects back, and from then on thunks and their    *)
(* dependencies are pushed to it over the connection. The coordinator      *)
(* remembers what a worker holds so as not to send it twice.               *)
(*                                                                         *)
(* The connections are FIFO queues of messages (message.cc frames them by  *)
(* their length). Workers are numbered as they connect.                    *)
(***************************************************************************)
EXTENDS Naturals, Sequences, FiniteSets, SequencesExt

CONSTANTS
    Thunk,         \* the thunks
    Deps,          \* values and executables of each thunk
    After,         \* the thunks whose outputs are among them
    Size,          \* the size of each object
    Local,         \* the objects that are surely in the coordinator's blobs directory
    MaxWorkers,    \* bound: workers that connect
    Faults         \* "invoke", "upload", "die"

Worker == 1 .. MaxWorkers
NoThunk == "none"

ASSUME MeowAssumption ==
    /\ DOMAIN Deps = Thunk /\ DOMAIN After = Thunk
    /\ \A t \in Thunk : IsFiniteSet(Deps[t])
    /\ NoThunk \notin Thunk
    /\ MaxWorkers \in Nat

VARIABLES
    disk,           \* the objects in the coordinator's blobs directory
    forced,         \* thunks passed to force_thunk
    done,           \* thunks whose success callback was called
    thunks_queue,   \* thunks that wait for a lambda to connect
    running_jobs,
    launches,       \* invocations without a connection yet
    lost,           \* invocations that have failed
    current_id,     \* workers connected so far
    lambda,         \* what the coordinator knows of each lambda: its objects, its thunk while Busy
    free_lambdas,
    down,           \* messages on their way to each worker
    up,             \* messages on their way back
    worker,         \* each worker's blobs and the thunk its gg-execute works on
    thrown          \* the exception that has ended gg-force, or "none"

vars == <<disk, forced, done, thunks_queue, running_jobs, launches, lost, current_id, lambda,
          free_lambdas, down, up, worker, thrown>>

Put(o) == [op |-> "Put", of |-> o]
Execute(t) == [op |-> "Execute", of |-> t]
Executed(t) == [op |-> "Executed", of |-> t]
ExecutionFailed(t) == [op |-> "ExecutionFailed", of |-> t]
Hey == [op |-> "Hey", of |-> NoThunk]

\* An output may be there from an earlier reduction.
Init ==
    /\ \E left \in SUBSET (UNION { Deps[t] : t \in Thunk }) : disk = Local \cup left
    /\ forced = {} /\ done = {}
    /\ thunks_queue = <<>>
    /\ running_jobs = 0 /\ launches = 0 /\ lost = 0 /\ current_id = 0
    /\ lambda = [l \in Worker |-> [objects |-> {}, executing |-> NoThunk]]
    /\ free_lambdas = {}
    /\ down = [l \in Worker |-> <<>>] /\ up = [l \in Worker |-> <<>>]
    /\ worker = [l \in Worker |-> [blobs |-> {}, child |-> NoThunk]]
    /\ thrown = "none"

(***************************************************************************)
(* The coordinator                                                         *)
(***************************************************************************)

SizeOf(objects) == FoldLeft(LAMBDA sum, o : sum + Size[o], 0, SetToSeq(objects))
Common(l, t) == SizeOf(lambda[l].objects \cap Deps[t])

\* The free lambda with the most bytes in common, the first one of several.
pick_lambda(t) ==
    { l \in free_lambdas : \A k \in free_lambdas :
        Common(k, t) < Common(l, t) \/ (Common(k, t) = Common(l, t) /\ l <= k) }

\* Mutant of prepare_lambda: what was sent once is never sent again.
PrepareRemembering(l, t, free) ==
    LET missing == Deps[t] \ lambda[l].objects IN
    /\ down' = [down EXCEPT ![l] = @ \o SetToSeq({ Put(o) : o \in missing }) \o <<Execute(t)>>]
    /\ lambda' = [lambda EXCEPT ![l] = [objects |-> @.objects \cup Deps[t], executing |-> t]]
    /\ free_lambdas' = free \ {l}
    /\ UNCHANGED thrown

\* The missing dependencies are read and sent, then the thunk. A dependency that
\* is not on the coordinator's disk ends gg-force.
prepare_lambda(l, t, free) ==
    LET missing == Deps[t] \ lambda[l].objects IN
    IF missing \subseteq disk
    THEN /\ down' = [down EXCEPT ![l] = @ \o SetToSeq({ Put(o) : o \in missing }) \o <<Execute(t)>>]
         /\ lambda' = [lambda EXCEPT ![l] = [objects |-> Deps[t], executing |-> t]]
         /\ free_lambdas' = free \ {l}
         /\ UNCHANGED thrown
    ELSE thrown' = "read_file" /\ UNCHANGED <<down, lambda>> /\ free_lambdas' = free

\* The Reductor forces a thunk once its dependencies are values.
force_thunk(t) ==
    /\ thrown = "none" /\ t \notin forced /\ After[t] \subseteq done
    /\ forced' = forced \cup {t}
    /\ running_jobs' = running_jobs + 1
    /\ IF free_lambdas # {}
       THEN /\ \E l \in pick_lambda(t) : prepare_lambda(l, t, free_lambdas)
            /\ UNCHANGED <<thunks_queue, launches>>
       ELSE /\ thunks_queue' = Append(thunks_queue, t)
            /\ launches' = launches + 1
            /\ UNCHANGED <<lambda, free_lambdas, down, thrown>>
    /\ UNCHANGED <<disk, done, lost, current_id, up, worker>>

\* The invocation request fails: a line is printed.
InvocationFails ==
    /\ "invoke" \in Faults /\ thrown = "none"
    /\ launches > 0
    /\ launches' = launches - 1
    /\ lost' = lost + 1
    /\ UNCHANGED <<disk, forced, done, thunks_queue, running_jobs, current_id, lambda, free_lambdas,
                   down, up, worker, thrown>>

\* Mutant of Incoming: the new lambda waits for the next thunk.
IncomingIdle ==
    /\ thrown = "none"
    /\ launches > 0 /\ current_id < MaxWorkers
    /\ launches' = launches - 1
    /\ current_id' = current_id + 1
    /\ up' = [up EXCEPT ![current_id'] = <<Hey>>]
    /\ free_lambdas' = free_lambdas \cup {current_id'}
    /\ UNCHANGED <<disk, forced, done, lost, thunks_queue, running_jobs, lambda, down, worker, thrown>>

\* A worker connects, and says so: the thunk that has waited longest is for it.
Incoming ==
    /\ thrown = "none"
    /\ launches > 0 /\ current_id < MaxWorkers
    /\ launches' = launches - 1
    /\ current_id' = current_id + 1
    /\ up' = [up EXCEPT ![current_id'] = <<Hey>>]
    /\ IF thunks_queue = <<>>
       THEN /\ free_lambdas' = free_lambdas \cup {current_id'}
            /\ UNCHANGED <<thunks_queue, lambda, down, thrown>>
       ELSE /\ prepare_lambda(current_id', Head(thunks_queue), free_lambdas \cup {current_id'})
            /\ thunks_queue' = IF thrown' = "none" THEN Tail(thunks_queue) ELSE thunks_queue
    /\ UNCHANGED <<disk, forced, done, lost, running_jobs, worker>>

\* Mutant of Receive: the lambda is free before its job is counted as ended.
ReceiveWithoutCounting(l) ==
    /\ thrown = "none" /\ up[l] # <<>>
    /\ up' = [up EXCEPT ![l] = Tail(@)]
    /\ CASE Head(up[l]).op = "Hey" -> UNCHANGED <<done, lambda, free_lambdas, thrown>>
         [] Head(up[l]).op = "Executed" ->
              /\ lambda' = [lambda EXCEPT ![l].executing = NoThunk]
              /\ free_lambdas' = free_lambdas \cup {l}
              /\ done' = done \cup {Head(up[l]).of}
              /\ UNCHANGED thrown
         [] OTHER -> thrown' = "unexpected opcode" /\ UNCHANGED <<done, lambda, free_lambdas>>
    /\ UNCHANGED <<disk, forced, thunks_queue, running_jobs, launches, lost, current_id, down, worker>>

\* Mutant of Receive: nobody expects a greeting.
ReceiveNoHey(l) ==
    /\ thrown = "none" /\ up[l] # <<>>
    /\ up' = [up EXCEPT ![l] = Tail(@)]
    /\ thrown' = IF Head(up[l]).op = "Executed" THEN "none" ELSE "unexpected opcode"
    /\ UNCHANGED <<disk, forced, done, thunks_queue, running_jobs, launches, lost, current_id, lambda,
                   free_lambdas, down, worker>>

\* A message from a worker.
Receive(l) ==
    /\ thrown = "none" /\ up[l] # <<>>
    /\ up' = [up EXCEPT ![l] = Tail(@)]
    /\ CASE Head(up[l]).op = "Hey" ->
              UNCHANGED <<done, lambda, free_lambdas, running_jobs, thrown>>
         [] Head(up[l]).op = "Executed" ->
              /\ lambda' = [lambda EXCEPT ![l].executing = NoThunk]
              /\ free_lambdas' = free_lambdas \cup {l}
              /\ running_jobs' = running_jobs - 1
              /\ done' = done \cup {Head(up[l]).of}
              /\ UNCHANGED thrown
         [] OTHER ->
              /\ thrown' = "unexpected opcode"
              /\ UNCHANGED <<done, lambda, free_lambdas, running_jobs>>
    /\ UNCHANGED <<disk, forced, thunks_queue, launches, lost, current_id, down, worker>>

\* The connection to a worker is closed.
LambdaDies(l) ==
    /\ "die" \in Faults /\ thrown = "none" /\ l <= current_id
    /\ thrown' = "a lambda died"
    /\ UNCHANGED <<disk, forced, done, thunks_queue, running_jobs, launches, lost, current_id, lambda,
                   free_lambdas, down, up, worker>>

(***************************************************************************)
(* The workers                                                             *)
(***************************************************************************)

WorkerReceives(l) ==
    /\ thrown = "none" /\ down[l] # <<>>
    /\ down' = [down EXCEPT ![l] = Tail(@)]
    /\ worker' = [worker EXCEPT ![l].blobs = @ \cup {Head(down[l]).of},
                                ![l].child = IF Head(down[l]).op = "Execute"
                                             THEN Head(down[l]).of ELSE @]
    /\ UNCHANGED <<disk, forced, done, thunks_queue, running_jobs, launches, lost, current_id, lambda,
                   free_lambdas, up, thrown>>

\* gg-execute --cleanup leaves the thunk and its dependencies, fetched if need be.
\* It leaves its outputs too, which the coordinator does not count on.
ChildExits(l, ok) ==
    /\ thrown = "none" /\ worker[l].child # NoThunk
    /\ ok \/ "upload" \in Faults
    /\ LET t == worker[l].child IN
       /\ worker' = [worker EXCEPT ![l] = [blobs |-> {t} \cup Deps[t], child |-> NoThunk]]
       /\ up' = [up EXCEPT ![l] = Append(@, IF ok THEN Executed(t) ELSE ExecutionFailed(t))]
    /\ UNCHANGED <<disk, forced, done, thunks_queue, running_jobs, launches, lost, current_id, lambda,
                   free_lambdas, down, thrown>>

Next ==
    \/ \E t \in Thunk : force_thunk(t)
    \/ InvocationFails
    \/ Incoming
    \/ \E l \in Worker : \/ Receive(l) \/ LambdaDies(l) \/ WorkerReceives(l)
                         \/ \E ok \in BOOLEAN : ChildExits(l, ok)
    \/ (thrown # "none" \/ done = Thunk) /\ UNCHANGED vars

Spec == Init /\ [][Next]_vars

\* The Reductor forces what it can, launched workers connect, messages arrive and
\* gg-execute ends.
FairSpec ==
    /\ Spec
    /\ \A t \in Thunk : WF_vars(force_thunk(t))
    /\ WF_vars(Incoming)
    /\ \A l \in Worker : /\ WF_vars(Receive(l)) /\ WF_vars(WorkerReceives(l))
                         /\ WF_vars(ChildExits(l, TRUE))

-----------------------------------------------------------------------------
Busy == { l \in 1 .. current_id : lambda[l].executing # NoThunk }
Waiting == { thunks_queue[i] : i \in DOMAIN thunks_queue }

\* Every thunk that is forced and not done waits in the queue or is executed by
\* one lambda, running_jobs counts these, and a lambda is free unless it executes
\* (engine_meow.cc:98-101, 134-139, 167-170, 255-267).
JobsConserved ==
    thrown = "none" =>
        /\ running_jobs = Len(thunks_queue) + Cardinality(Busy)
        /\ running_jobs = Cardinality(forced \ done)
        /\ forced \ done = Waiting \cup { lambda[l].executing : l \in Busy }
        /\ free_lambdas = (1 .. current_id) \ Busy

\* What the coordinator thinks a worker holds is there, or on its way ahead of
\* the thunk, although every gg-execute removes what its thunk does not read
\* (engine_meow.cc:151-162, gg-meow-worker.cc:150-154).
DepsInPlace ==
    thrown = "none" => \A l \in 1 .. current_id :
        lambda[l].objects \subseteq
            worker[l].blobs \cup { down[l][i].of : i \in DOMAIN down[l] }

\* gg-force ends with an exception only if a worker is gone, or has answered the
\* thunk it was given with a failure, or if it has to send an object that it does not
\* have, as is every output that a worker computed: those stay where they are
\* (engine_meow.cc:63-121, 151-160, gg-meow-worker.cc:133-140). No order of messages
\* that it does not expect ends it.
EndsOnlyOnFailure ==
    \/ thrown \in {"none", "a lambda died"}
    \/ /\ thrown = "read_file"
       /\ \E t \in forced \ done :
             ~ (Deps[t] \subseteq disk) /\ \A l \in Busy : lambda[l].executing # t
    \/ /\ thrown = "unexpected opcode"
       /\ \E l \in Busy : worker[l].child = NoThunk /\ down[l] = <<>> /\ up[l] = <<>>

\* Every thunk the Reductor forces is executed, unless gg-force ends or an
\* invocation has failed (engine_meow.cc:255-278).
EveryThunkIsDone == <>(done = Thunk \/ thrown # "none" \/ lost > 0)
=============================================================================
