--------------------------- MODULE ExecutionLoop ----------------------------
(***************************************************************************)
(* The event loop of gg-force and gg-execute-server as far as it manages   *)
(* child processes, src/src/execution/loop.cc with util/child_process.cc,  *)
(* util/signalfd.cc and util/poller.cc. The kernel keeps one pending bit   *)
(* per signal, so SIGCHLDs coalesce; the loop reads one signal and then    *)
(* asks every child whether it has something to report. Children change    *)
(* state at any time, in the middle of that round too.                     *)
(*                                                                         *)
(* Connections matter only because the loop reads signals while one is     *)
(* open; what they carry is in Reductor. The order of the round is left    *)
(* open.                                                                   *)
(***************************************************************************)
EXTENDS Naturals, FiniteSets

CONSTANTS
    Child,           \* the children that may be started
    Connection,      \* connections that may be open, the listener included
    Strict,          \* the children added with throw_if_failed: their failure ends the loop
    MayFail,         \* may children fail?
    Interrupts,      \* may SIGHUP, SIGTERM or SIGQUIT arrive?
    MaxStops         \* bound: how often children are stopped

ASSUME LoopAssumption ==
    /\ Strict \subseteq Child /\ MayFail \in BOOLEAN /\ Interrupts \in BOOLEAN
    /\ MaxStops \in Nat

VARIABLES
    alive,        \* what the kernel knows of each child: "new", "running", "stopped", "dead"
    failed,       \* the children with an exit status other than 0
    news,         \* the change that waitid would report of each child, or "none"
    pending,      \* signals not read yet
    managed,      \* child_processes_
    suspended,    \* the children whose running_ is false
    todo,         \* the children that handle_signal has not looked at yet
    called,       \* the children whose callback has been called
    open,         \* connections_ and ssl_connections_
    ending,       \* the child that ~ChildProcess has told to end, if any
    loop,         \* "polling", "handling", "stopped"; "thrown", "waiting", "over" once it throws
    stops         \* how often children were stopped

vars == <<alive, failed, news, pending, managed, suspended, todo, called, open, ending, loop, stops>>
kernel == <<alive, failed, news, stops>>
lists == <<managed, suspended, called, open, ending>>

\* The loop has thrown: the destructors of its children run, or have run.
Ended == {"thrown", "waiting", "over"}

Init ==
    /\ alive = [c \in Child |-> "new"] /\ failed = {}
    /\ news = [c \in Child |-> "none"]
    /\ pending = {}
    /\ managed = {} /\ suspended = {} /\ todo = {} /\ called = {}
    /\ open = {} /\ ending = {}
    /\ loop = "polling"
    /\ stops = 0

(***************************************************************************)
(* The children                                                            *)
(***************************************************************************)

\* A change of state: waitid reports the last one.
Change(c, state, what) ==
    /\ alive' = [alive EXCEPT ![c] = state]
    /\ news' = [news EXCEPT ![c] = what]
    /\ pending' = pending \cup {"CHLD"}
    /\ UNCHANGED <<lists, todo, loop>>

ChildExits(c) ==
    /\ alive[c] = "running"
    /\ Change(c, "dead", "exited")
    /\ \E f \in {failed} \cup (IF MayFail THEN {failed \cup {c}} ELSE {}) : failed' = f
    /\ UNCHANGED stops

ChildStops(c) ==
    /\ alive[c] = "running"
    /\ stops < MaxStops
    /\ stops' = stops + 1
    /\ Change(c, "stopped", "stopped")
    /\ UNCHANGED failed

(***************************************************************************)
(* The loop                                                                *)
(***************************************************************************)

AddChild(c) ==
    /\ loop = "polling"
    /\ alive[c] = "new"
    /\ alive' = [alive EXCEPT ![c] = "running"]
    /\ managed' = managed \cup {c}
    /\ UNCHANGED <<failed, news, pending, suspended, todo, called, open, ending, loop, stops>>

Connect(k) ==
    /\ loop = "polling" /\ k \notin open
    /\ open' = open \cup {k}
    /\ UNCHANGED <<kernel, pending, managed, suspended, todo, called, ending, loop>>

Disconnect(k) ==
    /\ loop = "polling" /\ k \in open
    /\ open' = open \ {k}
    /\ UNCHANGED <<kernel, pending, managed, suspended, todo, called, ending, loop>>

\* Does the loop poll the signalfd?
Interested == managed # {} \/ open # {}

Reads(sig) ==
    /\ loop = "polling" /\ Interested
    /\ sig \in pending

HandleCHLD ==
    /\ Reads("CHLD")
    /\ pending' = pending \ {"CHLD"}
    /\ IF managed = {}
       THEN loop' = "thrown" /\ UNCHANGED todo
       ELSE loop' = "handling" /\ todo' = managed
    /\ UNCHANGED <<kernel, lists>>

\* resume(): a child known to be suspended gets a SIGCONT, which the others do
\* not notice. The signals of `left' stay pending.
Resume(children, left) ==
    LET resumed == { c \in children \cap suspended : alive[c] = "stopped" } IN
    /\ alive' = [c \in Child |-> IF c \in resumed THEN "running" ELSE alive[c]]
    /\ news' = [c \in Child |-> IF c \in resumed THEN "continued" ELSE news[c]]
    /\ pending' = left \cup (IF resumed = {} THEN {} ELSE {"CHLD"})

\* Mutant of HandleCONT: children stay as they are.
HandleCONTIdly ==
    /\ Reads("CONT")
    /\ pending' = pending \ {"CONT"}
    /\ UNCHANGED <<kernel, lists, todo, loop>>

HandleCONT ==
    /\ Reads("CONT")
    /\ Resume(managed, pending \ {"CONT"})
    /\ UNCHANGED <<failed, lists, todo, loop, stops>>

HandleTERM ==
    /\ Reads("TERM")
    /\ pending' = pending \ {"TERM"}
    /\ loop' = "thrown"
    /\ UNCHANGED <<kernel, lists, todo>>

\* The next child of the round has nothing to report.
Skip(c) ==
    /\ loop = "handling" /\ c \in todo
    /\ news[c] = "none"
    /\ todo' = todo \ {c}
    /\ UNCHANGED <<kernel, pending, lists, loop>>

\* It has stopped, and so does the loop, or it goes on.
NoteChange(c) ==
    /\ loop = "handling" /\ c \in todo
    /\ news[c] \in {"stopped", "continued"}
    /\ news' = [news EXCEPT ![c] = "none"]
    /\ todo' = todo \ {c}
    /\ IF news[c] = "stopped"
       THEN suspended' = suspended \cup {c} /\ loop' = "stopped"
       ELSE suspended' = suspended \ {c} /\ UNCHANGED loop
    /\ UNCHANGED <<alive, failed, pending, managed, called, open, ending, stops>>

\* Mutant of Reap: the round ends with the first child that has exited.
ReapAndLeave(c) ==
    /\ loop = "handling" /\ c \in todo
    /\ news[c] = "exited"
    /\ news' = [news EXCEPT ![c] = "none"]
    /\ todo' = {}
    /\ called' = called \cup {c} /\ managed' = managed \ {c}
    /\ UNCHANGED <<alive, failed, pending, suspended, open, ending, loop, stops>>

\* It has exited: its callback is called and it is erased, unless its failure
\* ends the loop.
Reap(c) ==
    /\ loop = "handling" /\ c \in todo
    /\ news[c] = "exited"
    /\ news' = [news EXCEPT ![c] = "none"]
    /\ todo' = todo \ {c}
    /\ IF c \in Strict \cap failed
       THEN loop' = "thrown" /\ UNCHANGED <<called, managed>>
       ELSE called' = called \cup {c} /\ managed' = managed \ {c} /\ UNCHANGED loop
    /\ UNCHANGED <<alive, failed, pending, suspended, open, ending, stops>>

RoundEnds ==
    /\ loop = "handling" /\ todo = {}
    /\ loop' = "polling"
    /\ UNCHANGED <<kernel, pending, lists, todo>>

\* The shell continues the loop, which goes on with its round.
Continue ==
    /\ loop = "stopped"
    /\ loop' = "handling"
    /\ pending' = pending \cup {"CONT"}
    /\ UNCHANGED <<kernel, lists, todo>>

Interrupt ==
    /\ Interrupts /\ loop \notin Ended
    /\ "TERM" \notin pending
    /\ pending' = pending \cup {"TERM"}
    /\ UNCHANGED <<kernel, lists, todo, loop>>

\* terminated_: the end of the child has been waited for.
IsTerminated(c) == alive[c] = "dead" /\ news[c] = "none"

\* The destructors run one after the other: a child that has been told to end
\* is waited for until it has.
NextToEnd(c) == loop = "thrown" /\ c \in managed /\ ~ IsTerminated(c) /\ ending \subseteq {c}

\* Mutant of Terminate: a suspended child is not resumed.
TerminateSuspended(c) ==
    /\ NextToEnd(c)
    /\ ending' = {c} /\ loop' = "waiting"
    /\ UNCHANGED <<kernel, pending, managed, suspended, called, open, todo>>

\* A turn of ~ChildProcess up to wait(): the child is resumed if it is known to
\* be suspended, and sent the signal after which it ends as soon as it runs.
Terminate(c) ==
    /\ NextToEnd(c)
    /\ ending' = {c} /\ loop' = "waiting"
    /\ Resume({c}, pending)
    /\ UNCHANGED <<failed, managed, suspended, called, open, todo, stops>>

\* wait() returns with the child's next change of state, whatever it is.
Waited(c) ==
    /\ loop = "waiting" /\ c \in ending
    /\ news[c] # "none"
    /\ news' = [news EXCEPT ![c] = "none"]
    /\ suspended' = CASE news[c] = "stopped" -> suspended \cup {c}
                      [] news[c] = "continued" -> suspended \ {c}
                      [] OTHER -> suspended
    /\ ending' = IF news[c] = "exited" THEN {} ELSE {c}
    /\ loop' = "thrown"
    /\ UNCHANGED <<alive, failed, pending, managed, called, open, todo, stops>>

Unwound ==
    /\ loop = "thrown"
    /\ \A c \in managed : IsTerminated(c)
    /\ loop' = "over"
    /\ UNCHANGED <<kernel, pending, lists, todo>>

Handle ==
    \/ HandleCHLD \/ HandleCONT \/ HandleTERM \/ RoundEnds \/ Continue \/ Unwound
    \/ \E c \in Child : Skip(c) \/ NoteChange(c) \/ Reap(c) \/ Terminate(c) \/ Waited(c)

Next ==
    \/ \E c \in Child : ChildExits(c) \/ ChildStops(c) \/ AddChild(c)
    \/ \E k \in Connection : Connect(k) \/ Disconnect(k)
    \/ Interrupt
    \/ Handle
    \/ (loop = "over" \/ called = Child) /\ UNCHANGED vars

Spec == Init /\ [][Next]_vars

\* The loop runs, and whoever stops it continues it; children end if they are
\* allowed to run.
FairSpec == Spec /\ WF_vars(Handle) /\ \A c \in Child : WF_vars(ChildExits(c))

-----------------------------------------------------------------------------
\* The type invariant; a child is managed from its fork to its callback.
TypeOK ==
    /\ alive \in [Child -> {"new", "running", "stopped", "dead"}]
    /\ news \in [Child -> {"none", "stopped", "continued", "exited"}]
    /\ pending \subseteq {"CHLD", "CONT", "TERM"}
    /\ loop \in {"polling", "handling", "stopped"} \cup Ended
    /\ ending \subseteq managed
    /\ todo \subseteq managed \cup called
    /\ open \subseteq Connection
    /\ \A c \in Child : alive[c] # "new" <=> c \in managed \cup called

\* However the SIGCHLDs coalesce, a child with something to report has a signal
\* pending or is still to be looked at in this round (loop.cc:310-341).
NothingIsLost ==
    loop \notin Ended =>
        \A c \in managed : news[c] # "none" => "CHLD" \in pending \/ c \in todo

\* A loop that throws leaves no child behind, and its destructors never wait for
\* a child that is suspended and has nothing to report: then wait() would not
\* return and gg-force hang (child_process.cc:149-162).
NoOrphans ==
    /\ loop = "over" => \A c \in Child : alive[c] \in {"new", "dead"}
    /\ loop = "waiting" => \A c \in ending : alive[c] = "running" \/ news[c] # "none"

\* The loop ends only if a child fails or a signal asks it to: a SIGCHLD always
\* finds a child that may have sent it (loop.cc:301-353).
OnlyFailuresThrow == (Strict = {} \/ ~ MayFail) /\ ~ Interrupts => loop \notin Ended

\* Every child that was started gets its callback, even if it stops on the way,
\* unless the loop throws and all destructors run to their ends (loop.cc:291-341,
\* child_process.cc:149-162).
EveryChildIsReaped ==
    \A c \in Child : alive[c] # "new" ~> (c \in called \/ loop = "over")
=============================================================================
