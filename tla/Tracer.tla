-------------------------------- MODULE Tracer --------------------------------
(***************************************************************************)
(* gg-mock COMMAND (src/src/frontend/gg-mock.cc): a build runs under       *)
(* ptrace, and a traced process that opens a thunk placeholder is held at  *)
(* the entry of the system call while gg-force replaces the file by its    *)
(* value. The module has the event loop of the tracer                      *)
(* (src/src/trace/tracer.cc), the callback that gg-mock gives it, and what *)
(* they rely on: the stops that the kernel reports for a tracee, and       *)
(* gg-force.                                                               *)
(***************************************************************************)
EXTENDS Integers, FiniteSets

CONSTANTS
    Proc,          \* thread ids
    Root,          \* the process that runs COMMAND
    Faults,        \* what else may happen: some of FaultKinds
    MaxCalls,      \* bound: system calls of a process before it exits, its parents' included
    MaxVersions,   \* bound: how often the file is written again
    MaxFaults      \* bound: how many kinds of faults a behaviour meets

\* SIGKILL from outside, a second SIGSTOP, a SIGTRAP of the tracee's own, a signal
\* before the first stop, a path that cannot be read, a gg-force that fails, a
\* process with threads, a build that fails.
FaultKinds == {"kill", "SIGSTOP", "SIGTRAP", "early", "path", "force", "threads", "status"}

ASSUME TracerAssumption ==
    /\ Root \in Proc
    /\ Faults \subseteq FaultKinds
    /\ MaxCalls \in Nat /\ MaxVersions \in Nat /\ MaxFaults \in Nat

VARIABLES
    proc,       \* the kernel's view of each thread
    file,       \* the one file that everybody opens: a placeholder or a value
    force,      \* the gg-force that was started for a tracee: its ChildProcess
    tracers,    \* tracers_: a ProcessTracer for each tracee
    children,   \* the direct child in children_; the gg-forces are in force
    waiting,    \* tracers_waiting_for_children_: the tracees whose gg-force runs
    outcome,    \* of loop_until_all_done
    status,     \* exit status of the direct child
    faults      \* the kinds of faults that have happened

vars == <<proc, file, force, tracers, children, waiting, outcome, status, faults>>
flock == <<tracers, children, waiting, outcome>>

Calls == {"open", "unreadable", "truncate", "detach", "fork", "clone", "exec", "exit"}

\* Where a thread is, or why it is stopped.
Places == {"start", "user", "signal", "SIGSTOP", "SIGTRAP", "entry", "event", "exit", "dying"}

Rng(f) == {f[x] : x \in DOMAIN f}
Without(f, x) == [y \in DOMAIN f \ {x} |-> f[y]]
With(f, x, v) == [y \in DOMAIN f \cup {x} |-> IF y = x THEN v ELSE f[y]]

Fault(kind) ==
    /\ kind \in Faults
    /\ Cardinality(faults \cup {kind}) <= MaxFaults
    /\ faults' = faults \cup {kind}

-----------------------------------------------------------------------------
(***************************************************************************)
(* The kernel. A tracee that stops waits until waitid has reported the     *)
(* stop and ptrace lets it go on. `former' is the event message of an      *)
(* exec, `looked' the version of the file that was there when the tracer   *)
(* looked at the call.                                                     *)
(***************************************************************************)

NewProcess(leader, calls) ==
    [st |-> "stop", at |-> "start", call |-> "none", seen |-> FALSE, traced |-> TRUE,
     leader |-> leader, former |-> leader, calls |-> calls, looked |-> 0]

Unborn == [st |-> "unborn", at |-> "start", call |-> "none", seen |-> FALSE, traced |-> FALSE,
           leader |-> Root, former |-> Root, calls |-> 0, looked |-> 0]

\* A zombie; `traced' tells whether the tracer will hear of it.
Ended(traced) == [Unborn EXCEPT !.st = "gone", !.traced = traced]

Alive(p) == proc[p].st \in {"run", "stop"}
Group(p) == {q \in Proc : Alive(q) /\ proc[q].leader = proc[p].leader}

StopAt(p, place) == [proc[p] EXCEPT !.st = "stop", !.at = place, !.seen = FALSE]

\* p is to end: a tracee stops once more, with PTRACE_EVENT_EXIT.
Dying(p) ==
    IF ~ proc[p].traced THEN Ended(FALSE)
    ELSE IF proc[p].at = "dying" THEN proc[p]
    ELSE StopAt(p, "dying")

Untouched == UNCHANGED <<file, force, flock, status>>

InUserMode(p) == proc[p].st = "run" /\ proc[p].at \in {"start", "user", "exit"}

\* Calls that count as faults: a second thread, and an open whose path ptrace cannot
\* read, because it ends at the end of what is mapped or is not mapped at all.
FaultOf(c) ==
    CASE c = "clone" -> Fault("threads")
      [] c = "unreadable" -> Fault("path")
      [] OTHER -> UNCHANGED faults

\* p makes a system call: its entry is a stop.
Enter(p) ==
    /\ InUserMode(p) /\ proc[p].traced
    /\ \E c \in Calls :
          /\ c = "exit" \/ proc[p].calls < MaxCalls
          /\ proc' = [proc EXCEPT ![p] = [StopAt(p, "entry") EXCEPT !.call = c, !.calls = @ + 1]]
          /\ FaultOf(c)
    /\ Untouched

\* A signal is reported before it is delivered. A second SIGSTOP is a fault, and so
\* is a SIGTRAP, which reads like an event of ptrace.
Signal(p) ==
    /\ InUserMode(p) /\ proc[p].traced /\ proc[p].calls < MaxCalls
    /\ \/ /\ proc' = [proc EXCEPT ![p] = [StopAt(p, "signal") EXCEPT !.calls = @ + 1]]
          /\ UNCHANGED faults
       \/ \E sig \in {"SIGSTOP", "SIGTRAP"} :
             /\ proc' = [proc EXCEPT ![p] = StopAt(p, sig)]
             /\ Fault(sig)
    /\ Untouched

\* A signal that a new process gets before it has run comes before its SIGSTOP: the
\* kernel delivers the lowest number first.
EarlySignal(p) ==
    /\ proc[p].st = "stop" /\ proc[p].at = "start" /\ ~ proc[p].seen
    /\ p \notin DOMAIN tracers
    /\ proc' = [proc EXCEPT ![p].at = "signal"]
    /\ Fault("early")
    /\ Untouched

\* The delivered signal is caught, or it ends the process.
Delivered(p) ==
    /\ proc[p].st = "run" /\ proc[p].at = "signal"
    /\ \/ /\ proc' = [proc EXCEPT ![p].at = "user"]
          /\ UNCHANGED <<status, faults>>
       \/ /\ proc' = [q \in Proc |-> IF q \in Group(p) THEN Dying(q) ELSE proc[q]]
          /\ IF proc[p].leader = Root THEN status' = 1 /\ Fault("status")
                                      ELSE UNCHANGED <<status, faults>>
    /\ UNCHANGED <<file, force, flock>>

InCall(p, c) == proc[p].st = "run" /\ proc[p].at = "entry" /\ proc[p].call = c

\* open reads the file; with O_TRUNC it replaces it.
Opens(p) ==
    /\ InCall(p, "open")
    /\ proc' = [proc EXCEPT ![p] = StopAt(p, "exit")]
    /\ UNCHANGED faults /\ Untouched

Truncates(p) ==
    /\ InCall(p, "truncate")
    /\ file' = IF file.v < MaxVersions THEN [kind |-> "value", v |-> file.v + 1] ELSE file
    /\ proc' = [proc EXCEPT ![p] = StopAt(p, "exit")]
    /\ UNCHANGED <<force, flock, status, faults>>

\* A new process or thread is traced from its first instruction, where it stops
\* with SIGSTOP, before or after the tracer hears of the fork. When no id is left,
\* the call fails.
Forks(p) ==
    /\ proc[p].call \in {"fork", "clone"} /\ InCall(p, proc[p].call)
    /\ \/ \E q \in Proc :
             /\ proc[q].st = "unborn"
             /\ proc' = [proc EXCEPT
                  ![p] = StopAt(p, "event"),
                  ![q] = NewProcess(IF proc[p].call = "fork" THEN q ELSE proc[p].leader, proc[p].calls)]
       \/ /\ \A q \in Proc : proc[q].st # "unborn"
          /\ proc' = [proc EXCEPT ![p] = StopAt(p, "exit")]
    /\ UNCHANGED faults /\ Untouched

\* exec ends the other threads of the process, then goes on under the id of the
\* leader, whichever thread called it: ptrace(2), "execve(2) under ptrace".
Execs(p) ==
    /\ InCall(p, "exec")
    /\ LET l == proc[p].leader
           others == Group(p) \ {p}
       IN  IF \E q \in others : proc[q].at # "dying"
           THEN proc' = [q \in Proc |-> IF q \in others THEN Dying(q) ELSE proc[q]]
           ELSE /\ others = {}
                /\ proc' = [q \in Proc |->
                              IF q = l THEN [StopAt(p, "event") EXCEPT !.former = p]
                              ELSE IF q = p THEN Ended(FALSE)
                              ELSE proc[q]]
    /\ UNCHANGED faults /\ Untouched

\* exit_group. Only the status of the direct child is read by the tracer.
Exits(p) ==
    /\ InCall(p, "exit")
    /\ proc' = [q \in Proc |-> IF q \in Group(p) THEN Dying(q) ELSE proc[q]]
    /\ \/ UNCHANGED <<status, faults>>
       \/ proc[p].leader = Root /\ status' = 1 /\ Fault("status")
    /\ UNCHANGED <<file, force, flock>>

\* After the event of a call comes the stop at its exit.
LeavesEvent(p) ==
    /\ proc[p].st = "run" /\ proc[p].at = "event"
    /\ proc' = [proc EXCEPT ![p] = StopAt(p, "exit")]
    /\ UNCHANGED faults /\ Untouched

Dies(p) ==
    /\ proc[p].st = "run" /\ proc[p].at = "dying"
    /\ proc' = [proc EXCEPT ![p] = Ended(@.traced)]
    /\ UNCHANGED faults /\ Untouched

\* A detached process is one of gg's models: it leaves a placeholder, or it exits.
Untraced(p) ==
    /\ proc[p].st = "run" /\ ~ proc[p].traced /\ proc[p].at # "dying"
    /\ \/ /\ file.v < MaxVersions
          /\ file' = [kind |-> "placeholder", v |-> file.v + 1]
          /\ UNCHANGED proc
       \/ /\ proc' = [proc EXCEPT ![p] = Ended(FALSE)]
          /\ UNCHANGED file
    /\ UNCHANGED <<force, flock, status, faults>>

\* SIGKILL: a stop does not hold a process back from it, and its exit is reported.
Kill(p) ==
    /\ Alive(p) /\ proc[p].traced /\ proc[p].at \notin {"start", "dying"}
    /\ Fault("kill")
    /\ proc' = [q \in Proc |-> IF q \in Group(p) THEN Dying(q) ELSE proc[q]]
    /\ status' = IF proc[p].leader = Root THEN 1 ELSE status
    /\ UNCHANGED <<file, force, flock>>

Process(p) ==
    \/ Enter(p) \/ Delivered(p) \/ Opens(p) \/ Truncates(p) \/ Forks(p) \/ Execs(p)
    \/ Exits(p) \/ LeavesEvent(p) \/ Dies(p) \/ Untraced(p)

(***************************************************************************)
(* gg-force (module GGForce): it reads the placeholder and later renames   *)
(* the value over it. A file that is no placeholder is "Nothing to force". *)
(***************************************************************************)
NoForce == [st |-> "none", v |-> 0]

ForceReads(p) ==
    /\ force[p].st = "started"
    /\ force' = [force EXCEPT ![p] = IF file.kind = "placeholder"
                                     THEN [st |-> "read", v |-> file.v]
                                     ELSE [st |-> "done", v |-> file.v]]
    /\ UNCHANGED <<proc, file, flock, status, faults>>

ForceEnds(p) ==
    /\ force[p].st = "read"
    /\ \/ /\ file' = [file EXCEPT !.kind = "value"]
          /\ force' = [force EXCEPT ![p].st = "done"]
          /\ UNCHANGED faults
       \/ /\ Fault("force")
          /\ force' = [force EXCEPT ![p].st = "failed"]
          /\ UNCHANGED file
    /\ UNCHANGED <<proc, flock, status>>

GGForce(p) == ForceReads(p) \/ ForceEnds(p)

-----------------------------------------------------------------------------
(***************************************************************************)
(* tracer.cc                                                               *)
(***************************************************************************)

NewTracer == [options_set |-> FALSE, invocation |-> FALSE, pause |-> FALSE, detach |-> FALSE]

Throw ==
    /\ outcome' = "threw"
    /\ UNCHANGED <<proc, force, tracers, children, waiting>>

\* ptrace(PTRACE_SYSCALL)
Resumed(p) == [proc EXCEPT ![p].st = "run", ![p].seen = TRUE]

\* Mutant of Detached: the tracer is dropped and the process left where it is.
DetachedNever(p) == [proc EXCEPT ![p].seen = TRUE]

\* ~ProcessTracer: ptrace(PTRACE_DETACH)
Detached(p) == [proc EXCEPT ![p].st = "run", ![p].seen = TRUE, ![p].traced = FALSE]

\* resume() of p, whose tracer has become t.
resume(p, t) ==
    /\ proc' = Resumed(p)
    /\ tracers' = With(tracers, p, [t EXCEPT !.pause = FALSE])
    /\ UNCHANGED <<force, children, waiting, outcome>>

\* remove(): the tracer of p is destructed.
remove(p) ==
    /\ proc' = Detached(p)
    /\ tracers' = Without(tracers, p)
    /\ UNCHANGED <<force, children, waiting, outcome>>

IsPlaceholder == file.kind = "placeholder"

\* Mutant of Holds: one gg-force is enough for all that open the placeholder.
HoldsOnce(p) ==
    /\ proc[p].call = "open" /\ IsPlaceholder
    /\ \A q \in Proc : force[q].st = "none"

\* before_entry_function of gg-mock. Of the calls it looks at open only, whose path
\* it reads; it starts gg-force for a placeholder that is not to be truncated.
Holds(p) == proc[p].call = "open" /\ IsPlaceholder

before_entry(p, t) ==
    LET entered == [t EXCEPT !.invocation = TRUE]
        looked == [proc EXCEPT ![p].looked = file.v]
    IN  \/ proc[p].call = "unreadable" /\ Throw
        \/ proc[p].call = "detach" /\ remove(p)
        \/ /\ proc[p].call \notin {"detach", "unreadable"} /\ Holds(p)
           /\ proc' = [looked EXCEPT ![p].seen = TRUE]
           /\ force' = [force EXCEPT ![p] = [st |-> "started", v |-> file.v]]
           /\ tracers' = With(tracers, p, [entered EXCEPT !.pause = TRUE])
           /\ waiting' = waiting \cup {p}
           /\ UNCHANGED <<children, outcome>>
        \/ /\ proc[p].call \notin {"detach", "unreadable"} /\ ~ Holds(p)
           /\ proc' = [looked EXCEPT ![p].st = "run", ![p].seen = TRUE]
           /\ tracers' = With(tracers, p, entered)
           /\ UNCHANGED <<force, children, waiting, outcome>>

\* An exec that came from another thread than the leader: that thread's tracer goes,
\* and its destructor detaches from an id that is gone, which throws.
AfterExec(p, t) ==
    LET former == proc[p].former
    IN  \/ former = p /\ resume(p, t)
        \/ former # p /\ Throw

\* handle_one_event, where t is the tracer of p.
handle_one_event(p, t) ==
    \/ /\ proc[p].at \in {"start", "SIGSTOP"}
       /\ \/ t.options_set /\ Throw
          \/ ~ t.options_set /\ resume(p, [t EXCEPT !.options_set = TRUE])
    \/ proc[p].at = "dying" /\ remove(p)
    \/ /\ proc[p].at = "event"
       /\ IF proc[p].call = "exec" THEN AfterExec(p, t) ELSE resume(p, t)
    \/ /\ proc[p].at \in {"entry", "exit"}
       /\ \/ ~ t.invocation /\ before_entry(p, t)
          \/ t.invocation /\ resume(p, [t EXCEPT !.invocation = FALSE])
    \/ proc[p].at = "SIGTRAP" /\ Throw
    \/ proc[p].at = "signal" /\ resume(p, t)

\* Mutant of MayBeNew: a new tracee has to be announced by its parent's event.
MayBeNewExec(p) == proc[p].at = "event" /\ proc[p].call = "exec"

\* An event of a tracee that is not known must be of a new one, or of one that an
\* exec has brought back.
MayBeNew(p) ==
    \/ proc[p].at \in {"start", "SIGSTOP"}
    \/ proc[p].at = "event" /\ proc[p].call = "exec"

Known(p) == p \in DOMAIN tracers \/ MayBeNew(p)

\* insert(), when there is none
TracerOf(p) == IF p \in DOMAIN tracers THEN tracers[p] ELSE NewTracer

TraceeEvent(p) ==
    /\ outcome = "looping"
    /\ proc[p].st = "stop" /\ proc[p].traced /\ ~ proc[p].seen
    /\ \/ Known(p) /\ handle_one_event(p, TracerOf(p))
       \/ ~ Known(p) /\ Throw
    /\ UNCHANGED <<file, status, faults>>

\* The end of a tracee is reported to the tracer, unless it was detached when it
\* stopped for the last time; only a child may end.
LostDeath(p) ==
    /\ outcome = "looping"
    /\ p # Root /\ proc[p].st = "gone" /\ proc[p].traced
    /\ Throw
    /\ UNCHANGED <<file, status, faults>>

\* The direct child has ended, once all its threads have.
RootEvent ==
    /\ outcome = "looping"
    /\ children /\ proc[Root].st = "gone" /\ Group(Root) = {}
    /\ \/ status # 0 /\ Throw
       \/ /\ status = 0
          /\ children' = FALSE
          /\ proc' = [proc EXCEPT ![Root].traced = FALSE]
          /\ UNCHANGED << force, tracers, waiting, outcome>>
    /\ UNCHANGED <<file, status, faults>>

\* waitid fails when there is nobody left to wait for.
WaitFails ==
    /\ outcome = "looping" /\ tracers # << >>
    /\ ~ children /\ \A p \in Proc : ~ proc[p].traced /\ force[p].st = "none"
    /\ Throw
    /\ UNCHANGED <<file, status, faults>>

\* The tracee that a gg-force was for goes on: it must still be there, and paused.
IsWaiting(p) == p \in waiting /\ p \in DOMAIN tracers /\ tracers[p].pause

WakeUp(p) ==
    /\ proc' = Resumed(p)
    /\ tracers' = [tracers EXCEPT ![p].pause = FALSE]
    /\ force' = [force EXCEPT ![p] = NoForce]
    /\ waiting' = waiting \ {p}
    /\ UNCHANGED <<children, outcome>>

\* A gg-force has ended.
ForceEvent(p) ==
    /\ outcome = "looping"
    /\ \/ force[p].st = "failed" /\ Throw
       \/ force[p].st = "done" /\ ~ IsWaiting(p) /\ Throw
       \/ force[p].st = "done" /\ IsWaiting(p) /\ WakeUp(p)
    /\ UNCHANGED <<file, status, faults>>

AllDone == DOMAIN tracers = {} /\ ~ children /\ \A p \in Proc : force[p].st = "none"

LoopEnds ==
    /\ outcome = "looping" /\ AllDone
    /\ outcome' = "returned"
    /\ UNCHANGED <<proc, file, force, tracers, children, waiting, status, faults>>

\* Tracer::Tracer: the direct child has asked to be traced and raises SIGSTOP.
Init ==
    /\ proc = [p \in Proc |-> IF p = Root THEN NewProcess(Root, 0) ELSE Unborn]
    /\ file = [kind |-> "placeholder", v |-> 0]
    /\ force = [p \in Proc |-> NoForce]
    /\ tracers = [p \in {Root} |-> NewTracer]
    /\ children = TRUE
    /\ waiting = {}
    /\ outcome = "looping"
    /\ status = 0
    /\ faults = {}

Build(p) == outcome = "looping" /\ (Process(p) \/ Signal(p) \/ EarlySignal(p) \/ Kill(p) \/ GGForce(p))

Next ==
    \/ \E p \in Proc : Build(p) \/ TraceeEvent(p) \/ LostDeath(p) \/ ForceEvent(p)
    \/ RootEvent
    \/ WaitFails
    \/ LoopEnds

Spec == Init /\ [][Next]_vars

(***************************************************************************)
(* Fairness: processes run, gg-force ends, and waitid reports every event  *)
(* sooner or later. The processes of the build end by themselves, which    *)
(* MaxCalls sees to.                                                       *)
(***************************************************************************)
Fairness ==
    /\ \A p \in Proc :
          /\ WF_vars(outcome = "looping" /\ Process(p) /\ file' = file)
          /\ WF_vars(outcome = "looping" /\ Truncates(p))
          /\ WF_vars(outcome = "looping" /\ GGForce(p))
          /\ WF_vars(TraceeEvent(p) \/ LostDeath(p))
          /\ WF_vars(ForceEvent(p))
    /\ WF_vars(RootEvent \/ WaitFails)
    /\ WF_vars(LoopEnds)

FairSpec == Spec /\ Fairness

-----------------------------------------------------------------------------
\* A traced process that opens the file never gets a placeholder that was there when
\* the tracer looked at the call: it has been forced meanwhile, however many
\* processes have asked for it and whoever forced it first. Only a placeholder
\* written since then gets through (gg-mock.cc:73-91, tracer.cc:75-87).
ForcedBeforeOpen ==
    [][\A p \in Proc : Opens(p) /\ file.kind = "placeholder" => file.v > proc[p].looked]_vars

\* The loop throws only in a build that meets one of FaultKinds: a tracee is killed,
\* stopped or trapped by a signal, or signalled before it has run, the path of an
\* open cannot be read, a gg-force or the build itself fails, or a process has
\* several threads. Without one it never does, in whatever order the events of
\* parents, children, detached processes and gg-forces are reported, unless a system
\* call of the tracer fails (tracer.cc:47-116, 141-250).
OnlyFaultsThrow == outcome = "threw" => faults # {}

\* The loop ends: no tracee is left paused, and the end of the last process is
\* noticed (tracer.cc:49, 75-89).
TracerEnds == <>(outcome # "looping")
=============================================================================
