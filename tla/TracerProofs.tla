----------------------------- MODULE TracerProofs -----------------------------
(***************************************************************************)
(* What is proved of Tracer for any number of processes, calls, versions   *)
(* of the file and faults: a traced process never opens a placeholder that *)
(* the tracer saw when it looked at the call, and the loop throws only     *)
(* after a fault. LookInv is the inductive invariant of the first,         *)
(* QuietInv what it takes beyond that for the second.                      *)
(***************************************************************************)
EXTENDS Tracer, TLAPS

ProcRec ==
    [st : {"unborn", "run", "stop", "gone"}, at : Places, call : Calls \cup {"none"},
     seen : BOOLEAN, traced : BOOLEAN, leader : Proc, former : Proc, calls : Nat, looked : Nat]

TracerRec ==
    [options_set : BOOLEAN, invocation : BOOLEAN, pause : BOOLEAN, detach : BOOLEAN]

FileRec == [kind : {"placeholder", "value"}, v : Nat]

ForceRec == [st : {"none", "started", "read", "done", "failed"}, v : Nat]

\* The types of the variables.
TracerType ==
    /\ proc \in [Proc -> ProcRec]
    /\ file \in FileRec
    /\ force \in [Proc -> ForceRec]
    /\ DOMAIN tracers \subseteq Proc
    /\ tracers \in [DOMAIN tracers -> TracerRec]
    /\ waiting \subseteq Proc

-----------------------------------------------------------------------------
(***************************************************************************)
(* The invariant behind ForcedBeforeOpen, a conjunct at a time.            *)
(***************************************************************************)

\* A thread that comes back under the id of its leader after an exec. The loop
\* throws when it hears of it.
Stranger(p) == proc[p].at = "event" /\ proc[p].call = "exec" /\ proc[p].former # p

\* p is between the stop at the entry of a call and the stop at its exit, as far as
\* the tracer has heard.
Inside(p) ==
    \/ proc[p].at = "entry" /\ proc[p].seen
    \/ proc[p].at = "event"
    \/ proc[p].at = "exit" /\ ~ proc[p].seen

\* syscall_invocation is set exactly there: the tracer does not take an exit for an
\* entry.
InStep(p) ==
    p \in DOMAIN tracers /\ Alive(p) /\ proc[p].at # "dying" /\ ~ Stranger(p) =>
        (tracers[p].invocation <=> Inside(p))

\* A tracee for which gg-force runs is held at an entry, or it has been killed there;
\* one that is not known any more will not go on.
Held(p) ==
    force[p].st # "none" =>
        \/ /\ proc[p].st = "stop" /\ proc[p].traced
           /\ (proc[p].at = "entry" /\ proc[p].seen) \/ proc[p].at = "dying"
        \/ /\ p \notin DOMAIN tracers
           /\ proc[p].at = "dying" \/ proc[p].st = "gone" \/ Stranger(p)

\* The file is not the placeholder that the tracer saw.
Fresh(p) == file.v > proc[p].looked \/ file.kind = "value"

\* That is so once p is let into the call, and already when its gg-force has ended.
LetIn(p) ==
    /\ proc[p].looked <= file.v
    /\ proc[p].at = "entry" /\ proc[p].call = "open" /\ proc[p].st = "run" => Fresh(p)
    /\ proc[p].at = "entry" /\ force[p].st = "done" => Fresh(p)

Orderly(p) ==
    /\ proc[p].st = "run" => proc[p].seen
    /\ proc[p].st = "unborn" => p \notin DOMAIN tracers /\ force[p].st = "none"
    /\ Stranger(p) => proc[p].st = "stop"
    /\ proc[p].st = "run" /\ proc[p].at # "dying" =>
          p \in DOMAIN tracers \/ (proc[p].at = "entry" /\ proc[p].call = "detach")
    /\ proc[p].at = "event" /\ Alive(p) /\ ~ Stranger(p) => p \in DOMAIN tracers

LookAt(p) == InStep(p) /\ Held(p) /\ LetIn(p) /\ Orderly(p)

\* The leader of a thread has no other leader.
Kinship(p) ==
    Alive(p) => LET l == proc[p].leader
                IN  proc[l].st # "unborn" /\ (Alive(l) => proc[l].leader = l)

LookInv ==
    /\ TracerType
    /\ \A p \in Proc : Kinship(p)
    /\ \A p \in Proc : LookAt(p)

(***************************************************************************)
(* The invariant behind OnlyFaultsThrow: while nothing has gone wrong.     *)
(***************************************************************************)

\* A process has one thread, and a tracee is known unless its first stop is still
\* to be reported.
Alone(p) ==
    /\ Alive(p) => /\ proc[p].leader = p /\ proc[p].former = p
                   /\ proc[p].call \notin {"clone", "unreadable"} /\ proc[p].at \notin {"SIGSTOP", "SIGTRAP"}
    /\ Alive(p) /\ proc[p].traced =>
          \/ p \in DOMAIN tracers
          \/ proc[p].at = "start" /\ proc[p].st = "stop" /\ ~ proc[p].seen
    /\ p \in DOMAIN tracers => Alive(p) /\ proc[p].traced
    /\ p \in DOMAIN tracers /\ proc[p].at = "start" /\ ~ proc[p].seen => ~ tracers[p].options_set
    /\ proc[p].at = "dying" /\ proc[p].st = "run" => ~ proc[p].traced
    /\ proc[p].st = "gone" => ~ proc[p].traced

\* A gg-force has not failed, and somebody waits for it.
Awaited(p) ==
    /\ force[p].st # "failed"
    /\ force[p].st # "none" =>
          /\ IsWaiting(p)
          /\ proc[p].st = "stop" /\ proc[p].at = "entry" /\ proc[p].seen

Quiet ==
    /\ \A p \in Proc : Alone(p) /\ Awaited(p)
    /\ status = 0
    /\ outcome # "threw"

QuietInv == faults = {} => Quiet

-----------------------------------------------------------------------------
(***************************************************************************)
(* Lemmas on the operators of the model.                                   *)
(***************************************************************************)

LEMMA EndedFields ==
    ASSUME NEW traced \in BOOLEAN
    PROVE  /\ Ended(traced) \in ProcRec
           /\ Ended(traced).st = "gone" /\ Ended(traced).at = "start"
           /\ Ended(traced).traced = traced /\ Ended(traced).looked = 0
BY TracerAssumption DEF Ended, Unborn, ProcRec, Places, Calls

\* What becomes of a process that is to end.
LEMMA DyingFields ==
    ASSUME proc \in [Proc -> ProcRec], NEW p \in Proc
    PROVE  /\ Dying(p) \in ProcRec
           /\ Dying(p).looked = 0 \/ Dying(p).looked = proc[p].looked
           /\ \/ Dying(p).st = "gone" /\ Dying(p).traced = FALSE /\ ~ proc[p].traced
                    /\ Dying(p).at = "start"
              \/ Dying(p) = proc[p] /\ proc[p].at = "dying" /\ proc[p].traced
              \/ /\ proc[p].at # "dying" /\ proc[p].traced /\ Dying(p).at = "dying"
                 /\ Dying(p).st = "stop" /\ Dying(p).seen = FALSE /\ Dying(p).traced
                 /\ Dying(p).leader = proc[p].leader /\ Dying(p).former = proc[p].former
                 /\ Dying(p).call = proc[p].call
<1>1. "dying" \in Places
    BY DEF Places
<1>2. proc[p] \in ProcRec
    OBVIOUS
<1>3. CASE ~ proc[p].traced
    BY <1>3, EndedFields DEF Dying
<1>4. CASE proc[p].traced /\ proc[p].at = "dying"
    BY <1>2, <1>4 DEF Dying
<1>5. CASE proc[p].traced /\ proc[p].at # "dying"
  <2>1. Dying(p) = StopAt(p, "dying")
      BY <1>5 DEF Dying
  <2>2. /\ Dying(p) \in ProcRec /\ Dying(p).looked = proc[p].looked
        /\ Dying(p).at = "dying" /\ Dying(p).st = "stop" /\ Dying(p).seen = FALSE
        /\ Dying(p).traced = proc[p].traced /\ Dying(p).leader = proc[p].leader
        /\ Dying(p).former = proc[p].former /\ Dying(p).call = proc[p].call
      BY <1>1, <1>2, <2>1 DEF StopAt, ProcRec
  <2> QED
      BY <1>5, <2>2
<1> QED
    BY <1>2, <1>3, <1>4, <1>5 DEF ProcRec

LEMMA WithIs ==
    ASSUME DOMAIN tracers \subseteq Proc, tracers \in [DOMAIN tracers -> TracerRec],
           NEW p \in Proc, NEW t \in TracerRec, tracers' = With(tracers, p, t)
    PROVE  /\ DOMAIN tracers' = DOMAIN tracers \cup {p}
           /\ DOMAIN tracers' \subseteq Proc
           /\ tracers' \in [DOMAIN tracers' -> TracerRec]
           /\ tracers'[p] = t
           /\ \A q \in DOMAIN tracers : q # p => tracers'[q] = tracers[q]
BY DEF With

LEMMA WithoutIs ==
    ASSUME DOMAIN tracers \subseteq Proc, tracers \in [DOMAIN tracers -> TracerRec],
           NEW p \in Proc, tracers' = Without(tracers, p)
    PROVE  /\ DOMAIN tracers' = DOMAIN tracers \ {p}
           /\ DOMAIN tracers' \subseteq Proc
           /\ tracers' \in [DOMAIN tracers' -> TracerRec]
           /\ \A q \in DOMAIN tracers' : tracers'[q] = tracers[q]
BY DEF Without

\* A file that is no placeholder becomes one only as a new version.
Later ==
    /\ file'.v >= file.v
    /\ file'.v = file.v => (file.kind = "value" => file'.kind = "value")

LEMMA SameFileIsLater ==
    ASSUME file \in FileRec, file' = file
    PROVE  file' \in FileRec /\ Later
BY DEF Later, FileRec

\* A step that does not concern p.
Unmoved(p) ==
    /\ proc'[p] = proc[p] /\ force'[p] = force[p]
    /\ p \in DOMAIN tracers' <=> p \in DOMAIN tracers
    /\ p \in DOMAIN tracers => tracers'[p] = tracers[p]

LEMMA UnmovedLooks ==
    ASSUME TracerType, file' \in FileRec, Later, NEW p \in Proc, LookAt(p), Unmoved(p)
    PROVE  LookAt(p)'
<1>1. /\ file.v \in Nat /\ file'.v \in Nat /\ proc[p].looked \in Nat
      /\ file.kind \in {"placeholder", "value"} /\ file'.kind \in {"placeholder", "value"}
    BY DEF TracerType, FileRec, ProcRec
<1>2. InStep(p)' /\ Held(p)' /\ Orderly(p)'
    BY DEF LookAt, Unmoved, InStep, Held, Orderly, Stranger, Inside, Alive
<1>3. Fresh(p) => Fresh(p)'
    BY <1>1 DEF Fresh, Unmoved, Later, LookAt, LetIn
<1>4. LetIn(p)'
    BY <1>1, <1>3 DEF LookAt, LetIn, Unmoved, Later
<1> QED
    BY <1>2, <1>4 DEF LookAt

LEMMA UnmovedQuiet ==
    ASSUME NEW p \in Proc, Alone(p), Awaited(p), Unmoved(p), p \in waiting <=> p \in waiting'
    PROVE  Alone(p)' /\ Awaited(p)'
BY DEF Alone, Awaited, Unmoved, IsWaiting, Alive

-----------------------------------------------------------------------------
(***************************************************************************)
(* LookInv is inductive.                                                   *)
(***************************************************************************)

LEMMA LookInit == Init => LookInv
<1> SUFFICES ASSUME Init PROVE LookInv
    OBVIOUS
<1>1. TracerType
  <2>1. /\ NewProcess(Root, 0) \in ProcRec /\ Unborn \in ProcRec
        /\ NoForce \in ForceRec /\ NewTracer \in TracerRec
      BY TracerAssumption DEF NewProcess, Unborn, NoForce, NewTracer, ProcRec, ForceRec,
         TracerRec, Places, Calls
  <2> QED
      BY <2>1, TracerAssumption DEF Init, TracerType, FileRec
<1>2. ASSUME NEW p \in Proc PROVE LookAt(p) /\ Kinship(p)
    BY <1>2 DEF Init, Kinship, LookAt, InStep, Held, LetIn, Orderly, Stranger, Inside, Fresh,
       Alive, NewProcess, Unborn, NoForce, NewTracer
<1> QED
    BY <1>1, <1>2 DEF LookInv

\* A step that brings nobody to life keeps the threads' leaders.
LEMMA NobodyBorn ==
    ASSUME LookInv, TracerType',
           \A x \in Proc : /\ Alive(x)' => Alive(x) /\ proc'[x].leader = proc[x].leader
                           /\ proc[x].st # "unborn" => proc'[x].st # "unborn"
    PROVE  \A x \in Proc : Kinship(x)'
<1> SUFFICES ASSUME NEW x \in Proc PROVE Kinship(x)'
    OBVIOUS
<1>1. proc[x].leader \in Proc /\ Kinship(x)
    BY DEF LookInv, TracerType, ProcRec
<1> QED
    BY <1>1 DEF Kinship

\* A step of the kernel in which only p moves.
LEMMA OneMoves ==
    ASSUME LookInv, NEW p \in Proc, NEW r \in ProcRec, proc' = [proc EXCEPT ![p] = r],
           UNCHANGED <<force, tracers, waiting>>, file' \in FileRec, Later, LookAt(p)',
           r.st = "gone" \/ (r.st \in {"run", "stop"} /\ Alive(p) /\ r.leader = proc[p].leader)
    PROVE  LookInv'
<1>1. TracerType'
    BY DEF LookInv, TracerType
<1>2. ASSUME NEW q \in Proc PROVE LookAt(q)'
  <2>1. CASE q = p
      BY <2>1
  <2>2. CASE q # p
      BY <2>2, UnmovedLooks DEF LookInv, Unmoved, TracerType
  <2> QED
      BY <2>1, <2>2
<1>3. \A x \in Proc : Kinship(x)'
  <2>1. ASSUME NEW x \in Proc
        PROVE  /\ Alive(x)' => Alive(x) /\ proc'[x].leader = proc[x].leader
               /\ proc[x].st # "unborn" => proc'[x].st # "unborn"
    <3>1. CASE x = p
        BY <3>1 DEF LookInv, TracerType, Alive
    <3>2. CASE x # p
        BY <3>2 DEF LookInv, TracerType, Alive
    <3> QED
        BY <3>1, <3>2
  <2> QED
      BY <1>1, <2>1, NobodyBorn
<1> QED
    BY <1>1, <1>2, <1>3 DEF LookInv

\* A step of the kernel in which p stops at a place that it may have come to.
LEMMA OneStops ==
    ASSUME LookInv, NEW p \in Proc, NEW r \in ProcRec, proc' = [proc EXCEPT ![p] = r],
           UNCHANGED <<force, tracers, waiting>>, file' \in FileRec, Later,
           proc[p].st = "run", proc[p].at # "dying",
           r.st = "stop", r.seen = FALSE, r.looked = proc[p].looked, r.leader = proc[p].leader,
           r.at \in {"entry", "signal", "SIGSTOP", "SIGTRAP", "event", "exit"},
           r.at = "event" => proc[p].call # "detach" /\ (r.call # "exec" \/ r.former = p),
           r.at \in {"event", "exit"} <=> Inside(p)
    PROVE  LookInv'
<1>1. LookAt(p) /\ TracerType
    BY DEF LookInv
<1>2. proc'[p] = r /\ force'[p] = force[p] /\ tracers' = tracers
    BY DEF LookInv, TracerType
<1>3. force[p].st = "none"
    BY <1>1 DEF LookAt, Held, Orderly
<1>4. proc[p].looked \in Nat /\ file.v \in Nat /\ file'.v \in Nat
    BY <1>1 DEF TracerType, ProcRec, FileRec
<1>5. InStep(p)' /\ Held(p)' /\ Orderly(p)'
    BY <1>1, <1>2, <1>3 DEF LookAt, InStep, Held, Orderly, Stranger, Inside, Alive
<1>6. LetIn(p)'
    BY <1>1, <1>2, <1>3, <1>4 DEF LookAt, LetIn, Later
<1>7. LookAt(p)'
    BY <1>5, <1>6 DEF LookAt
<1>8. r.st \in {"run", "stop"} /\ Alive(p)
    BY DEF Alive
<1> QED
    BY <1>7, <1>8, OneMoves

\* A step of the kernel in which the processes of G are to end.
LEMMA SomeDie ==
    ASSUME LookInv, NEW G \in SUBSET Proc,
           proc' = [q \in Proc |-> IF q \in G THEN Dying(q) ELSE proc[q]],
           UNCHANGED <<file, force, tracers, waiting>>,
           \A q \in G : Alive(q)
    PROVE  LookInv'
<1>1. TracerType /\ file' \in FileRec /\ Later
    BY SameFileIsLater DEF LookInv, TracerType
<1>2. TracerType'
    BY <1>1, DyingFields DEF TracerType
<1>3. ASSUME NEW q \in Proc PROVE LookAt(q)'
  <2>1. CASE q \notin G
      BY <1>1, <2>1, UnmovedLooks DEF LookInv, Unmoved
  <2>2. CASE q \in G
    <3>1. proc'[q] = Dying(q) /\ force'[q] = force[q] /\ LookAt(q)
        BY <2>2 DEF LookInv
    <3>2. /\ proc[q].looked \in Nat /\ file.v \in Nat
          /\ Alive(q)
        BY <1>1, <2>2 DEF TracerType, ProcRec, FileRec
    <3>3. \/ proc'[q] = proc[q]
          \/ proc'[q].st = "gone" /\ proc'[q].at = "start" /\ ~ proc[q].traced
          \/ /\ proc'[q].st = "stop" /\ proc'[q].at = "dying" /\ proc'[q].seen = FALSE
             /\ proc'[q].traced
        BY <1>1, <3>1, DyingFields DEF TracerType
    <3>4. proc'[q].looked = 0 \/ proc'[q].looked = proc[q].looked
        BY <1>1, <3>1, DyingFields DEF TracerType
    <3>5. InStep(q)' /\ Held(q)' /\ Orderly(q)'
        BY <3>1, <3>2, <3>3 DEF LookAt, InStep, Held, Orderly, Stranger, Inside, Alive
    <3>6. LetIn(q)'
        BY <3>1, <3>2, <3>3, <3>4 DEF LookAt, LetIn, Fresh
    <3> QED
        BY <3>5, <3>6 DEF LookAt
  <2> QED
      BY <2>1, <2>2
<1>4. ASSUME NEW x \in Proc
      PROVE  /\ Alive(x)' => Alive(x) /\ proc'[x].leader = proc[x].leader
             /\ proc[x].st # "unborn" => proc'[x].st # "unborn"
  <2>1. CASE x \in G
    <3>1. proc'[x] = Dying(x) /\ Alive(x)
        BY <2>1
    <3> QED
        BY <1>1, <3>1, DyingFields DEF TracerType, Alive
  <2>2. CASE x \notin G
      BY <2>2 DEF Alive
  <2> QED
      BY <2>1, <2>2
<1> QED
    BY <1>2, <1>3, <1>4, NobodyBorn DEF LookInv

LEMMA GroupDies ==
    ASSUME LookInv, NEW p \in Proc,
           proc' = [q \in Proc |-> IF q \in Group(p) THEN Dying(q) ELSE proc[q]],
           UNCHANGED <<file, force, tracers, waiting>>
    PROVE  LookInv'
<1>1. Group(p) \in SUBSET Proc /\ \A q \in Group(p) : Alive(q)
    BY DEF Group
<1> DEFINE G == Group(p)
<1> HIDE DEF G
<1>2. /\ G \in SUBSET Proc /\ \A q \in G : Alive(q)
      /\ proc' = [q \in Proc |-> IF q \in G THEN Dying(q) ELSE proc[q]]
    BY <1>1 DEF G
<1> QED
    BY <1>2, SomeDie

LEMMA EnterLooks ==
    ASSUME LookInv, NEW p \in Proc, Enter(p)
    PROVE  LookInv'
<1>1. PICK c \in Calls :
          proc' = [proc EXCEPT ![p] = [StopAt(p, "entry") EXCEPT !.call = c, !.calls = @ + 1]]
    BY DEF Enter
<1> DEFINE r == [StopAt(p, "entry") EXCEPT !.call = c, !.calls = @ + 1]
<1>2. proc[p] \in ProcRec /\ file \in FileRec
    BY DEF LookInv, TracerType
<1>3. /\ r \in ProcRec /\ r.st = "stop" /\ r.seen = FALSE /\ r.looked = proc[p].looked
      /\ r.leader = proc[p].leader
      /\ r.at = "entry"
  <2> DEFINE s == StopAt(p, "entry")
  <2>1. /\ s \in ProcRec /\ s.st = "stop" /\ s.seen = FALSE /\ s.looked = proc[p].looked
        /\ s.leader = proc[p].leader
        /\ s.at = "entry"
      BY <1>2 DEF StopAt, ProcRec, Places
  <2> HIDE DEF s
  <2> DEFINE u == [s EXCEPT !.call = c]
  <2>2. /\ u \in ProcRec /\ u.st = "stop" /\ u.seen = FALSE /\ u.looked = proc[p].looked
        /\ u.leader = proc[p].leader
        /\ u.at = "entry" /\ u.calls = s.calls
      BY <2>1 DEF ProcRec
  <2>3. r = [u EXCEPT !.calls = u.calls + 1]
      BY <2>1 DEF s, ProcRec
  <2> HIDE DEF r, u
  <2> QED
      BY <2>2, <2>3 DEF ProcRec
<1>4. file' \in FileRec /\ Later /\ UNCHANGED <<force, tracers, waiting>>
    BY <1>2, SameFileIsLater DEF Enter, Untouched, flock
<1>5. proc[p].st = "run" /\ proc[p].at # "dying" /\ ~ Inside(p)
    BY <1>2 DEF LookInv, LookAt, Orderly, Enter, InUserMode, Inside
<1> HIDE DEF r
<1>6. proc' = [proc EXCEPT ![p] = r]
    BY <1>1 DEF r
<1> QED
    BY <1>3, <1>4, <1>5, <1>6, OneStops

LEMMA SignalLooks ==
    ASSUME LookInv, NEW p \in Proc, Signal(p)
    PROVE  LookInv'
<1>1. PICK r \in {StopAt(p, "SIGSTOP"), StopAt(p, "SIGTRAP"),
                 [StopAt(p, "signal") EXCEPT !.calls = @ + 1]} :
          proc' = [proc EXCEPT ![p] = r]
    BY DEF Signal
<1>2. proc[p] \in ProcRec /\ file \in FileRec
    BY DEF LookInv, TracerType
<1>3. /\ r \in ProcRec /\ r.st = "stop" /\ r.seen = FALSE /\ r.looked = proc[p].looked
      /\ r.leader = proc[p].leader
      /\ r.at \in {"signal", "SIGSTOP", "SIGTRAP"}
  <2>1. CASE r = StopAt(p, "SIGSTOP") \/ r = StopAt(p, "SIGTRAP")
      BY <1>2, <2>1 DEF StopAt, ProcRec, Places
  <2>2. CASE r = [StopAt(p, "signal") EXCEPT !.calls = @ + 1]
    <3> DEFINE s == StopAt(p, "signal")
    <3>1. /\ s \in ProcRec /\ s.st = "stop" /\ s.seen = FALSE /\ s.looked = proc[p].looked
        /\ s.leader = proc[p].leader
          /\ s.at = "signal"
        BY <1>2 DEF StopAt, ProcRec, Places
    <3> HIDE DEF s
    <3>2. r = [s EXCEPT !.calls = @ + 1]
        BY <2>2 DEF s
    <3> QED
        BY <3>1, <3>2 DEF ProcRec
  <2> QED
      BY <1>1, <2>1, <2>2
<1>4. file' \in FileRec /\ Later /\ UNCHANGED <<force, tracers, waiting>>
    BY <1>2, SameFileIsLater DEF Signal, Untouched, flock
<1>5. proc[p].st = "run" /\ proc[p].at # "dying" /\ ~ Inside(p)
    BY <1>2 DEF LookInv, LookAt, Orderly, Signal, InUserMode, Inside
<1> QED
    BY <1>1, <1>3, <1>4, <1>5, OneStops

\* Stops at the exit of a call.
LEMMA ExitStopLooks ==
    ASSUME LookInv, NEW p \in Proc, proc' = [proc EXCEPT ![p] = StopAt(p, "exit")],
           proc[p].st = "run", proc[p].at \in {"entry", "event"},
           UNCHANGED <<force, tracers, waiting>>, file' \in FileRec, Later
    PROVE  LookInv'
<1>1. proc[p] \in ProcRec /\ file \in FileRec
    BY DEF LookInv, TracerType
<1> DEFINE r == StopAt(p, "exit")
<1>2. /\ r \in ProcRec /\ r.st = "stop" /\ r.seen = FALSE /\ r.looked = proc[p].looked
      /\ r.leader = proc[p].leader
      /\ r.at = "exit"
    BY <1>1 DEF StopAt, ProcRec, Places
<1>3. Inside(p)
    BY DEF LookInv, LookAt, Orderly, Inside
<1> HIDE DEF r
<1>4. proc' = [proc EXCEPT ![p] = r]
    BY DEF r
<1> QED
    BY <1>2, <1>3, <1>4, OneStops

LEMMA DeliveredLooks ==
    ASSUME LookInv, NEW p \in Proc, Delivered(p)
    PROVE  LookInv'
<1>1. UNCHANGED <<file, force, tracers, waiting>>
    BY DEF Delivered, flock
<1>2. CASE proc' = [proc EXCEPT ![p].at = "user"]
  <2>1. TracerType /\ LookAt(p) /\ proc[p] \in ProcRec
      BY DEF LookInv, TracerType
  <2> DEFINE r == [proc[p] EXCEPT !.at = "user"]
  <2>2. /\ r \in ProcRec /\ r.st = proc[p].st /\ r.at = "user" /\ r.seen = proc[p].seen
        /\ r.looked = proc[p].looked /\ r.leader = proc[p].leader
      BY <2>1 DEF ProcRec, Places
  <2>3. proc' = [proc EXCEPT ![p] = r] /\ proc'[p] = r
      BY <1>2, <2>1 DEF TracerType
  <2> HIDE DEF r
  <2>4. file' \in FileRec /\ Later
      BY <1>1, <2>1, SameFileIsLater DEF TracerType
  <2>5. proc[p].st = "run" /\ proc[p].at = "signal" /\ Alive(p)
      BY DEF Delivered, Alive
  <2>6. InStep(p)' /\ Held(p)' /\ Orderly(p)' /\ LetIn(p)'
      BY <1>1, <2>1, <2>2, <2>3, <2>5 DEF LookAt, InStep, Held, Orderly, LetIn, Stranger,
         Inside, Alive, Fresh
  <2>7. LookAt(p)'
      BY <2>6 DEF LookAt
  <2> QED
      BY <1>1, <2>2, <2>3, <2>4, <2>5, <2>7, OneMoves
<1>3. CASE proc' = [q \in Proc |-> IF q \in Group(p) THEN Dying(q) ELSE proc[q]]
    BY <1>1, <1>3, GroupDies
<1> QED
    BY <1>2, <1>3 DEF Delivered

\* Two processes move: the one that has called fork or exec, and another one.
LEMMA TwoMove ==
    ASSUME LookInv, NEW p \in Proc, NEW q \in Proc, p # q,
           NEW r \in ProcRec, NEW s \in ProcRec,
           proc' = [x \in Proc |-> IF x = p THEN r ELSE IF x = q THEN s ELSE proc[x]],
           UNCHANGED <<file, force, tracers, waiting>>, LookAt(p)', LookAt(q)',
           \A x \in Proc : Kinship(x)'
    PROVE  LookInv'
<1>1. TracerType /\ file' \in FileRec /\ Later
    BY SameFileIsLater DEF LookInv, TracerType
<1>2. TracerType'
    BY <1>1 DEF TracerType
<1>3. ASSUME NEW x \in Proc PROVE LookAt(x)'
  <2>1. CASE x \in {p, q}
      BY <2>1
  <2>2. CASE x \notin {p, q}
      BY <1>1, <2>2, UnmovedLooks DEF LookInv, Unmoved
  <2> QED
      BY <2>1, <2>2
<1> QED
    BY <1>2, <1>3 DEF LookInv

LEMMA ForksLooks ==
    ASSUME LookInv, NEW p \in Proc, Forks(p)
    PROVE  LookInv'
<1>1. UNCHANGED <<file, force, tracers, waiting>>
    BY DEF Forks, Untouched, flock
<1>2. TracerType /\ LookAt(p) /\ proc[p] \in ProcRec
    BY DEF LookInv, TracerType
<1>3. /\ proc[p].st = "run" /\ proc[p].at = "entry" /\ proc[p].call \in {"fork", "clone"}
      /\ proc[p].seen
    BY <1>2 DEF Forks, InCall, LookAt, Orderly
<1>4. CASE proc' = [proc EXCEPT ![p] = StopAt(p, "exit")]
    BY <1>1, <1>2, <1>3, <1>4, SameFileIsLater, ExitStopLooks DEF TracerType
<1>5. ASSUME NEW q \in Proc, proc[q].st = "unborn",
             proc' = [proc EXCEPT
                ![p] = StopAt(p, "event"),
                ![q] = NewProcess(IF proc[p].call = "fork" THEN q ELSE proc[p].leader, proc[p].calls)]
      PROVE  LookInv'
  <2> DEFINE r == StopAt(p, "event")
             l == IF proc[p].call = "fork" THEN q ELSE proc[p].leader
             s == NewProcess(l, proc[p].calls)
  <2>1. /\ r \in ProcRec /\ r.st = "stop" /\ r.at = "event" /\ r.seen = FALSE
        /\ r.call = proc[p].call /\ r.looked = proc[p].looked /\ r.leader = proc[p].leader
      BY <1>2 DEF StopAt, ProcRec, Places
  <2>2. l \in Proc /\ proc[p].calls \in Nat
      BY <1>2 DEF ProcRec
  <2> HIDE DEF l
  <2>3. /\ s \in ProcRec /\ s.st = "stop" /\ s.at = "start" /\ s.seen = FALSE
        /\ s.looked = 0 /\ s.leader = l
      BY <2>2 DEF NewProcess, ProcRec, Places, Calls
  <2>4. p # q
      BY <1>3, <1>5
  <2>5. proc' = [x \in Proc |-> IF x = p THEN r ELSE IF x = q THEN s ELSE proc[x]]
      BY <1>2, <1>5, <2>4 DEF TracerType, l
  <2> HIDE DEF r, s
  <2>6. proc'[p] = r /\ proc'[q] = s
      BY <2>4, <2>5
  <2>7. proc[p].looked \in Nat /\ file.v \in Nat
      BY <1>2 DEF TracerType, ProcRec, FileRec
  <2>8. LookAt(p)'
      BY <1>1, <1>2, <1>3, <2>1, <2>6, <2>7 DEF LookAt, InStep, Held, Orderly, LetIn, Stranger,
         Inside, Alive, Fresh
  <2>9. LookAt(q)
      BY DEF LookInv
  <2>10. LookAt(q)'
      BY <1>1, <1>5, <2>3, <2>6, <2>7, <2>9 DEF LookAt, InStep, Held, Orderly, LetIn, Stranger,
         Inside, Alive, Fresh
  <2>11. ASSUME NEW x \in Proc PROVE Kinship(x)'
    <3>1. Kinship(x) /\ Kinship(p) /\ proc[x].leader \in Proc
        BY DEF LookInv, TracerType, ProcRec
    <3>2. /\ proc'[x].leader = (IF x = q THEN l ELSE proc[x].leader)
          /\ \A y \in Proc : proc'[y].st # "unborn" <=> proc[y].st # "unborn" \/ y = q
          /\ \A y \in Proc : Alive(y)' <=> Alive(y) \/ y = q
          /\ \A y \in Proc : y # q => proc'[y].leader = proc[y].leader
        BY <1>3, <2>1, <2>3, <2>4, <2>5 DEF Alive
    <3>3. l = q \/ l = proc[p].leader
        BY DEF l
    <3>4. Alive(p)
        BY <1>3 DEF Alive
    <3>5. proc'[q].leader = l
        BY <2>3, <2>6
    <3> QED
        BY <1>5, <2>2, <3>1, <3>2, <3>3, <3>4, <3>5 DEF Kinship
  <2> QED
      BY <1>1, <2>1, <2>3, <2>4, <2>5, <2>8, <2>10, <2>11, TwoMove
<1> QED
    BY <1>4, <1>5 DEF Forks

LEMMA ExecsLooks ==
    ASSUME LookInv, NEW p \in Proc, Execs(p)
    PROVE  LookInv'
<1>1. UNCHANGED <<file, force, tracers, waiting>>
    BY DEF Execs, Untouched, flock
<1>2. TracerType /\ LookAt(p) /\ proc[p] \in ProcRec /\ file \in FileRec
    BY DEF LookInv, TracerType
<1>3. /\ proc[p].st = "run" /\ proc[p].at = "entry" /\ proc[p].call = "exec"
      /\ proc[p].seen
    BY <1>2 DEF Execs, InCall, LookAt, Orderly
<1>4. force[p].st = "none"
    BY <1>2, <1>3 DEF LookAt, Held, Stranger
<1>5. CASE proc' = [q \in Proc |-> IF q \in Group(p) \ {p} THEN Dying(q) ELSE proc[q]]
  <2> DEFINE G == Group(p) \ {p}
  <2>1. G \in SUBSET Proc /\ \A q \in G : Alive(q)
      BY DEF Group
  <2>2. proc' = [q \in Proc |-> IF q \in G THEN Dying(q) ELSE proc[q]]
      BY <1>5
  <2> HIDE DEF G
  <2> QED
      BY <1>1, <2>1, <2>2, SomeDie
<1>6. ASSUME NEW l \in Proc, l = proc[p].leader, Group(p) \ {p} = {},
             proc' = [q \in Proc |-> IF q = l THEN [StopAt(p, "event") EXCEPT !.former = p]
                                     ELSE IF q = p THEN Ended(FALSE)
                                     ELSE proc[q]]
      PROVE  LookInv'
  <2> DEFINE u == StopAt(p, "event")
             r == [u EXCEPT !.former = p]
             s == Ended(FALSE)
  <2>1. /\ u \in ProcRec /\ u.st = "stop" /\ u.at = "event" /\ u.seen = FALSE
        /\ u.call = "exec" /\ u.looked = proc[p].looked /\ u.leader = l
      BY <1>2, <1>3, <1>6 DEF StopAt, ProcRec, Places
  <2> HIDE DEF u
  <2>2. /\ r \in ProcRec /\ r.st = "stop" /\ r.at = "event" /\ r.seen = FALSE
        /\ r.call = "exec" /\ r.looked = proc[p].looked /\ r.former = p
        /\ r.leader = l
      BY <2>1 DEF ProcRec
  <2>3. s \in ProcRec /\ s.st = "gone" /\ s.at = "start" /\ s.looked = 0
      BY EndedFields
  <2>4. proc' = [x \in Proc |-> IF x = l THEN r ELSE IF x = p THEN s ELSE proc[x]]
      BY <1>6 DEF u
  <2> HIDE DEF r, s
  <2>5. proc[p].looked \in Nat /\ file.v \in Nat
      BY <1>2 DEF ProcRec, FileRec
  <2>6. CASE l = p
    <3>1. proc' = [proc EXCEPT ![p] = r]
        BY <1>2, <2>4, <2>6 DEF TracerType
    <3>2. Inside(p) /\ file' \in FileRec /\ Later
        BY <1>1, <1>2, <1>3, SameFileIsLater DEF Inside
    <3>3. /\ r.leader = proc[p].leader /\ proc[p].call # "detach" /\ proc[p].at # "dying"
          /\ r.at \in {"entry", "signal", "SIGSTOP", "SIGTRAP", "event", "exit"}
          /\ r.at \in {"event", "exit"} <=> Inside(p)
        BY <1>3, <1>6, <2>2, <3>2
    <3> QED
        BY <1>1, <1>3, <2>2, <3>1, <3>2, <3>3, OneStops
  <2>7. CASE l # p
    <3>1. proc'[l] = r /\ proc'[p] = s
        BY <2>4, <2>7
    <3>2. proc[l].st = "gone"
      <4>1. Kinship(p) /\ Alive(p) /\ proc[l].st \in {"unborn", "run", "stop", "gone"}
          BY <1>2, <1>3 DEF LookInv, TracerType, ProcRec, Alive
      <4>2. ~ Alive(l)
          BY <1>6, <2>7, <4>1 DEF Kinship, Group
      <4> QED
          BY <1>6, <4>1, <4>2 DEF Kinship, Alive
    <3>3. LookAt(l)
        BY DEF LookInv
    <3>4. LookAt(l)'
        BY <1>1, <2>2, <2>5, <2>7, <3>1, <3>2, <3>3, <1>2 DEF LookAt, InStep, Held, Orderly, LetIn,
           Stranger, Inside, Alive, Fresh
    <3>5. LookAt(p)'
        BY <1>1, <1>4, <2>3, <2>5, <3>1 DEF LookAt, InStep, Held, Orderly, LetIn,
           Stranger, Inside, Alive, Fresh
    <3>6. ASSUME NEW x \in Proc PROVE Kinship(x)'
      <4>1. Kinship(x) /\ proc[x].leader \in Proc
          BY DEF LookInv, TracerType, ProcRec
      <4>2. proc'[l].st = "stop" /\ proc'[l].leader = l /\ proc'[p].st = "gone"
          BY <2>2, <2>3, <3>1
      <4>3. \A y \in Proc : y \notin {p, l} => proc'[y] = proc[y]
          BY <2>4
      <4> QED
          BY <1>3, <3>2, <4>1, <4>2, <4>3 DEF Kinship, Alive
    <3> QED
        BY <1>1, <2>2, <2>3, <2>4, <2>7, <3>4, <3>5, <3>6, TwoMove
  <2> QED
      BY <2>6, <2>7
<1>7. proc[p].leader \in Proc
    BY <1>2 DEF ProcRec
<1> QED
    BY <1>5, <1>6, <1>7 DEF Execs

\* A process that has no more to do with the tracer ends.
LEMMA EndsLooks ==
    ASSUME LookInv, NEW p \in Proc, NEW traced \in BOOLEAN,
           proc' = [proc EXCEPT ![p] = Ended(traced)], proc[p].st = "run",
           UNCHANGED <<file, force, tracers, waiting>>
    PROVE  LookInv'
<1> DEFINE r == Ended(traced)
<1>1. r \in ProcRec /\ r.st = "gone" /\ r.at = "start" /\ r.looked = 0
    BY EndedFields
<1> HIDE DEF r
<1>2. proc' = [proc EXCEPT ![p] = r]
    BY DEF r
<1>3. TracerType /\ LookAt(p)
    BY DEF LookInv
<1>4. proc'[p] = r /\ file' \in FileRec /\ Later /\ file.v \in Nat
    BY <1>2, <1>3, SameFileIsLater DEF TracerType, FileRec
<1>5. LookAt(p)'
    BY <1>1, <1>3, <1>4 DEF LookAt, InStep, Held, Orderly, LetIn, Stranger, Inside, Alive, Fresh
<1> QED
    BY <1>1, <1>2, <1>4, <1>5, OneMoves

LEMMA EarlySignalLooks ==
    ASSUME LookInv, NEW p \in Proc, EarlySignal(p)
    PROVE  LookInv'
<1>1. TracerType /\ LookAt(p) /\ proc[p] \in ProcRec /\ Alive(p) /\ file \in FileRec
    BY DEF LookInv, TracerType, EarlySignal, Alive
<1>2. PICK r : r = [proc[p] EXCEPT !.at = "signal"]
    OBVIOUS
<1>3. /\ r \in ProcRec /\ r.st = "stop" /\ r.at = "signal"
      /\ r.leader = proc[p].leader /\ r.looked = proc[p].looked
    BY <1>1, <1>2 DEF ProcRec, Places, EarlySignal
<1>4. proc' = [proc EXCEPT ![p] = r] /\ UNCHANGED <<file, force, tracers, waiting>>
    BY <1>1, <1>2 DEF EarlySignal, Untouched, flock, TracerType
<1>5. file' \in FileRec /\ Later
    BY <1>1, <1>4, SameFileIsLater
<1>6. proc'[p] = r /\ p \notin DOMAIN tracers /\ proc[p].at = "start" /\ proc[p].st = "stop"
    BY <1>1, <1>4 DEF TracerType, EarlySignal
<1>7. LookAt(p)'
    BY <1>1, <1>3, <1>4, <1>6
    DEF LookAt, InStep, Held, LetIn, Orderly, Stranger, Inside, Fresh, Alive
<1> QED
    BY <1>1, <1>3, <1>4, <1>5, <1>7, OneMoves

LEMMA ProcessLooks ==
    ASSUME LookInv, NEW p \in Proc, Process(p) \/ Signal(p) \/ EarlySignal(p) \/ Kill(p)
    PROVE  LookInv'
<1>1. TracerType /\ proc[p] \in ProcRec /\ file \in FileRec
    BY DEF LookInv, TracerType
<1>2. CASE Opens(p)
    BY <1>1, <1>2, ExitStopLooks, SameFileIsLater DEF Opens, InCall, Untouched, flock
<1>3. CASE Truncates(p)
  <2>1. file' \in FileRec /\ Later
      BY <1>1, <1>3 DEF Truncates, FileRec, Later
  <2> QED
      BY <1>3, <2>1, ExitStopLooks DEF Truncates, InCall, flock
<1>4. CASE LeavesEvent(p)
    BY <1>1, <1>4, ExitStopLooks, SameFileIsLater DEF LeavesEvent, Untouched, flock
<1>5. CASE Exits(p)
    BY <1>5, GroupDies DEF Exits, flock
<1>6. CASE Kill(p)
    BY <1>6, GroupDies DEF Kill, flock
<1>7. CASE Dies(p)
  <2>1. proc[p].traced \in BOOLEAN
      BY <1>1 DEF ProcRec
  <2>2. proc' = [proc EXCEPT ![p] = Ended(proc[p].traced)]
      BY <1>1, <1>7 DEF Dies, TracerType
  <2> QED
      BY <1>7, <2>1, <2>2, EndsLooks DEF Dies, Untouched, flock
<1>8. CASE Untraced(p)
  <2>1. CASE proc' = [proc EXCEPT ![p] = Ended(FALSE)] /\ UNCHANGED file
      BY <1>8, <2>1, EndsLooks DEF Untraced, flock
  <2>2. CASE file' = [kind |-> "placeholder", v |-> file.v + 1] /\ UNCHANGED proc
    <3>1. UNCHANGED <<force, tracers, waiting>>
        BY <1>8 DEF Untraced, flock
    <3>2. file' \in FileRec /\ Later
        BY <1>1, <2>2 DEF FileRec, Later
    <3>3. TracerType'
        BY <1>1, <2>2, <3>1, <3>2 DEF TracerType
    <3>4. ASSUME NEW q \in Proc PROVE LookAt(q)'
        BY <1>1, <2>2, <3>1, <3>2, UnmovedLooks DEF LookInv, Unmoved
    <3> QED
        BY <2>2, <3>3, <3>4, NobodyBorn DEF LookInv, Alive
  <2> QED
      BY <1>8, <2>1, <2>2 DEF Untraced
<1> QED
    BY <1>2, <1>3, <1>4, <1>5, <1>6, <1>7, <1>8, EnterLooks, SignalLooks, EarlySignalLooks,
       DeliveredLooks, ForksLooks, ExecsLooks DEF Process

\* gg-force has ended only when the file has become a value, or a newer one.
LEMMA GGForceLooks ==
    ASSUME LookInv, NEW p \in Proc, GGForce(p)
    PROVE  LookInv'
<1>1. TracerType /\ LookAt(p) /\ file \in FileRec /\ force[p] \in ForceRec
    BY DEF LookInv, TracerType
<1>2. UNCHANGED <<proc, tracers, waiting>> /\ force[p].st \in {"started", "read"}
    BY DEF GGForce, ForceReads, ForceEnds, flock
<1>3. PICK r \in ForceRec :
          /\ force' = [force EXCEPT ![p] = r] /\ r.st # "none"
          /\ r.st = "done" => file'.kind = "value"
  <2>1. CASE ForceReads(p)
    <3> DEFINE r == IF file.kind = "placeholder" THEN [st |-> "read", v |-> file.v]
                                                ELSE [st |-> "done", v |-> file.v]
    <3>1. r \in ForceRec /\ r.st # "none" /\ (r.st = "done" => file'.kind = "value")
        BY <1>1, <2>1 DEF ForceReads, ForceRec, FileRec
    <3> QED
        BY <2>1, <3>1 DEF ForceReads
  <2>2. CASE ForceEnds(p)
    <3>1. CASE /\ file' = [file EXCEPT !.kind = "value"]
               /\ force' = [force EXCEPT ![p].st = "done"]
      <4> DEFINE r == [force[p] EXCEPT !.st = "done"]
      <4>1. r \in ForceRec /\ r.st # "none" /\ file'.kind = "value"
          BY <1>1, <3>1 DEF ForceRec, FileRec
      <4> QED
          BY <3>1, <4>1
    <3>2. CASE force' = [force EXCEPT ![p].st = "failed"]
      <4> DEFINE r == [force[p] EXCEPT !.st = "failed"]
      <4>1. r \in ForceRec /\ r.st = "failed"
          BY <1>1 DEF ForceRec
      <4> QED
          BY <3>2, <4>1
    <3> QED
        BY <2>2, <3>1, <3>2 DEF ForceEnds
  <2> QED
      BY <2>1, <2>2 DEF GGForce
<1>4. file' \in FileRec /\ Later
  <2>1. file' = file \/ file' = [file EXCEPT !.kind = "value"]
      BY DEF GGForce, ForceReads, ForceEnds
  <2> QED
      BY <1>1, <2>1 DEF FileRec, Later
<1>5. TracerType'
    BY <1>1, <1>2, <1>3, <1>4 DEF TracerType
<1>6. ASSUME NEW q \in Proc PROVE LookAt(q)'
  <2>1. CASE q # p
      BY <1>1, <1>2, <1>3, <1>4, <2>1, UnmovedLooks DEF LookInv, Unmoved, TracerType
  <2>2. CASE q = p
    <3>1. force'[p] = r
        BY <1>1, <1>3 DEF TracerType
    <3>2. InStep(p)' /\ Held(p)' /\ Orderly(p)'
        BY <1>1, <1>2, <1>3, <3>1 DEF LookAt, InStep, Held, Orderly, Stranger, Inside, Alive
    <3>3. proc[p].looked \in Nat /\ file.v \in Nat /\ file'.v \in Nat
        BY <1>1, <1>4 DEF TracerType, ProcRec, FileRec
    <3>4. LetIn(p)'
        BY <1>1, <1>2, <1>3, <1>4, <3>1, <3>3 DEF LookAt, LetIn, Fresh, Later
    <3> QED
        BY <2>2, <3>2, <3>4 DEF LookAt
  <2> QED
      BY <2>1, <2>2
<1> QED
    BY <1>2, <1>5, <1>6, NobodyBorn DEF LookInv, Alive

\* A step of the tracer that concerns p.
LEMMA TracerMoves ==
    ASSUME LookInv, TracerType', file' = file, NEW p \in Proc, LookAt(p)',
           \A q \in Proc : q # p => Unmoved(q),
           Alive(p), proc'[p].st \in {"run", "stop"}, proc'[p].leader = proc[p].leader
    PROVE  LookInv'
<1>1. TracerType /\ file' \in FileRec /\ Later
    BY SameFileIsLater DEF LookInv, TracerType
<1>2. ASSUME NEW q \in Proc PROVE LookAt(q)'
    BY <1>1, UnmovedLooks DEF LookInv
<1>3. ASSUME NEW x \in Proc
      PROVE  /\ Alive(x)' => Alive(x) /\ proc'[x].leader = proc[x].leader
             /\ proc[x].st # "unborn" => proc'[x].st # "unborn"
    BY DEF Unmoved, Alive
<1> QED
    BY <1>2, <1>3, NobodyBorn DEF LookInv

LEMMA ResumeLooks ==
    ASSUME LookInv, file' = file, NEW p \in Proc, NEW t \in TracerRec, resume(p, t),
           proc[p].st = "stop", ~ proc[p].seen, ~ Stranger(p),
           proc[p].at \notin {"dying", "entry"}, t.invocation <=> proc[p].at = "event"
    PROVE  LookInv'
<1>1. TracerType /\ LookAt(p) /\ proc[p] \in ProcRec /\ Alive(p)
    BY DEF LookInv, TracerType, Alive
<1> DEFINE u == [t EXCEPT !.pause = FALSE]
<1>2. u \in TracerRec /\ (u.invocation <=> proc[p].at = "event")
    BY DEF TracerRec
<1>3. tracers' = With(tracers, p, u) /\ UNCHANGED <<force, waiting>>
    BY DEF resume
<1> HIDE DEF u
<1>4. /\ DOMAIN tracers' = DOMAIN tracers \cup {p} /\ DOMAIN tracers' \subseteq Proc
      /\ tracers' \in [DOMAIN tracers' -> TracerRec] /\ tracers'[p] = u
      /\ \A q \in DOMAIN tracers : q # p => tracers'[q] = tracers[q]
    BY <1>1, <1>2, <1>3, WithIs DEF TracerType
<1> DEFINE r == [proc[p] EXCEPT !.st = "run", !.seen = TRUE]
<1>5. /\ r \in ProcRec /\ r.st = "run" /\ r.seen /\ r.at = proc[p].at /\ r.call = proc[p].call
      /\ r.former = proc[p].former /\ r.leader = proc[p].leader /\ r.looked = proc[p].looked
    BY <1>1 DEF ProcRec
<1>6. proc' = [proc EXCEPT ![p] = r]
    BY <1>1 DEF resume, Resumed, TracerType
<1> HIDE DEF r
<1>7. proc'[p] = r /\ \A q \in Proc : q # p => proc'[q] = proc[q]
    BY <1>1, <1>6 DEF TracerType
<1>8. TracerType'
    BY <1>1, <1>3, <1>4, <1>5, <1>6 DEF TracerType
<1>9. \A q \in Proc : q # p => Unmoved(q)
    BY <1>3, <1>4, <1>7 DEF Unmoved
<1>10. InStep(p)' /\ Held(p)' /\ Orderly(p)'
    BY <1>1, <1>2, <1>3, <1>4, <1>5, <1>7 DEF LookAt, InStep, Held, Orderly, Stranger, Inside, Alive
<1>11. LetIn(p)'
    BY <1>1, <1>3, <1>5, <1>7 DEF LookAt, LetIn, Fresh
<1>12. LookAt(p)'
    BY <1>10, <1>11 DEF LookAt
<1>13. proc'[p].st \in {"run", "stop"} /\ proc'[p].leader = proc[p].leader
    BY <1>5, <1>7
<1> QED
    BY <1>1, <1>8, <1>9, <1>12, <1>13, TracerMoves

LEMMA RemoveLooks ==
    ASSUME LookInv, file' = file, NEW p \in Proc, remove(p), proc[p].st = "stop",
           \/ proc[p].at = "dying"
           \/ proc[p].at = "entry" /\ proc[p].call = "detach" /\ ~ proc[p].seen
    PROVE  LookInv'
<1>1. TracerType /\ LookAt(p) /\ proc[p] \in ProcRec /\ Alive(p)
    BY DEF LookInv, TracerType, Alive
<1>2. tracers' = Without(tracers, p) /\ UNCHANGED <<force, waiting>>
    BY DEF remove
<1>3. /\ DOMAIN tracers' = DOMAIN tracers \ {p} /\ DOMAIN tracers' \subseteq Proc
      /\ tracers' \in [DOMAIN tracers' -> TracerRec]
      /\ \A q \in DOMAIN tracers' : tracers'[q] = tracers[q]
    BY <1>1, <1>2, WithoutIs DEF TracerType
<1> DEFINE u == [proc[p] EXCEPT !.st = "run", !.seen = TRUE]
           r == [u EXCEPT !.traced = FALSE]
<1>4. /\ u \in ProcRec /\ u.st = "run" /\ u.seen /\ u.at = proc[p].at /\ u.call = proc[p].call
      /\ u.former = proc[p].former /\ u.leader = proc[p].leader /\ u.looked = proc[p].looked
    BY <1>1 DEF ProcRec
<1>5. r = [proc[p] EXCEPT !.st = "run", !.seen = TRUE, !.traced = FALSE]
    OBVIOUS
<1>6. proc' = [proc EXCEPT ![p] = r]
    BY <1>1, <1>5 DEF remove, Detached, TracerType
<1> HIDE DEF u
<1>7. /\ r \in ProcRec /\ r.st = "run" /\ r.seen /\ r.at = proc[p].at /\ r.call = proc[p].call
      /\ r.former = proc[p].former /\ r.leader = proc[p].leader /\ r.looked = proc[p].looked
    BY <1>4 DEF ProcRec
<1> HIDE DEF r
<1>8. proc'[p] = r /\ \A q \in Proc : q # p => proc'[q] = proc[q]
    BY <1>1, <1>6 DEF TracerType
<1>9. TracerType'
    BY <1>1, <1>2, <1>3, <1>6, <1>7 DEF TracerType
<1>10. \A q \in Proc : q # p => Unmoved(q)
    BY <1>2, <1>3, <1>8 DEF Unmoved
<1>11. InStep(p)' /\ Held(p)' /\ Orderly(p)'
    BY <1>1, <1>2, <1>3, <1>7, <1>8 DEF LookAt, InStep, Held, Orderly, Stranger, Inside, Alive
<1>12. LetIn(p)'
    BY <1>1, <1>2, <1>7, <1>8 DEF LookAt, LetIn, Fresh, Held, Stranger
<1>13. LookAt(p)'
    BY <1>11, <1>12 DEF LookAt
<1>14. proc'[p].st \in {"run", "stop"} /\ proc'[p].leader = proc[p].leader
    BY <1>7, <1>8
<1> QED
    BY <1>1, <1>9, <1>10, <1>13, <1>14, TracerMoves

LEMMA ThrowLooks ==
    ASSUME LookInv, Throw, file' = file
    PROVE  LookInv'
BY DEF LookInv, Throw, TracerType, LookAt, InStep, Held, Orderly, LetIn, Stranger, Inside,
   Alive, Fresh, Kinship

\* The callback looks at the file: it holds the tracee, or lets it in.
LEMMA EntryLooks ==
    ASSUME LookInv, file' = file, NEW p \in Proc, NEW t \in TracerRec, before_entry(p, t),
           proc[p].st = "stop", proc[p].traced, ~ proc[p].seen, proc[p].at = "entry"
    PROVE  LookInv'
<1>1. TracerType /\ LookAt(p) /\ proc[p] \in ProcRec /\ Alive(p) /\ file \in FileRec
    BY DEF LookInv, TracerType, Alive
<1>2. CASE proc[p].call = "detach" /\ remove(p)
    BY <1>2, RemoveLooks
<1>4. CASE Throw
    BY <1>4, ThrowLooks
<1>3. CASE proc[p].call \notin {"detach", "unreadable"}
  <2> DEFINE looked == [proc EXCEPT ![p].looked = file.v]
             entered == [t EXCEPT !.invocation = TRUE]
  <2>1. PICK u \in TracerRec :
            tracers' = With(tracers, p, u) /\ u.invocation /\ (Holds(p) => u.pause)
    <3>1. entered \in TracerRec /\ entered.invocation
        BY DEF TracerRec
    <3> DEFINE paused == [entered EXCEPT !.pause = TRUE]
    <3>2. paused \in TracerRec /\ paused.invocation /\ paused.pause
        BY <3>1 DEF TracerRec
    <3> QED
        BY <1>3, <3>1, <3>2 DEF before_entry
  <2>2. /\ DOMAIN tracers' = DOMAIN tracers \cup {p} /\ DOMAIN tracers' \subseteq Proc
        /\ tracers' \in [DOMAIN tracers' -> TracerRec] /\ tracers'[p] = u
        /\ \A q \in DOMAIN tracers : q # p => tracers'[q] = tracers[q]
      BY <1>1, <2>1, WithIs DEF TracerType
  <2> DEFINE s == [proc[p] EXCEPT !.looked = file.v]
  <2>3. /\ s \in ProcRec /\ s.st = "stop" /\ s.at = "entry" /\ s.call = proc[p].call
        /\ s.former = proc[p].former /\ s.leader = proc[p].leader /\ s.looked = file.v
        /\ s.traced
      BY <1>1 DEF ProcRec, FileRec
  <2>4. looked = [proc EXCEPT ![p] = s] /\ looked[p] = s
      BY <1>1 DEF TracerType
  <2>5. PICK r \in ProcRec :
            /\ proc' = [proc EXCEPT ![p] = r]
            /\ r.st = (IF Holds(p) THEN "stop" ELSE "run") /\ r.seen /\ r.at = "entry"
            /\ r.call = proc[p].call /\ r.traced
            /\ r.former = proc[p].former /\ r.leader = proc[p].leader /\ r.looked = file.v
    <3>1. CASE Holds(p)
      <4> DEFINE r == [s EXCEPT !.seen = TRUE]
      <4>1. proc' = [looked EXCEPT ![p].seen = TRUE]
          BY <1>3, <3>1 DEF before_entry
      <4>2. proc' = [proc EXCEPT ![p] = r]
          BY <1>1, <2>4, <4>1 DEF TracerType
      <4> HIDE DEF s
      <4>3. /\ r \in ProcRec /\ r.st = "stop" /\ r.seen /\ r.at = "entry"
            /\ r.call = proc[p].call /\ r.traced
            /\ r.former = proc[p].former /\ r.leader = proc[p].leader /\ r.looked = file.v
          BY <2>3 DEF ProcRec
      <4> HIDE DEF r
      <4> QED
          BY <3>1, <4>2, <4>3
    <3>2. CASE ~ Holds(p)
      <4> DEFINE r == [s EXCEPT !.st = "run", !.seen = TRUE]
      <4>1. proc' = [looked EXCEPT ![p].st = "run", ![p].seen = TRUE]
          BY <1>3, <3>2 DEF before_entry
      <4>2. proc' = [proc EXCEPT ![p] = r]
          BY <1>1, <2>4, <4>1 DEF TracerType
      <4> HIDE DEF s
      <4>3. /\ r \in ProcRec /\ r.st = "run" /\ r.seen /\ r.at = "entry"
            /\ r.call = proc[p].call /\ r.traced
            /\ r.former = proc[p].former /\ r.leader = proc[p].leader /\ r.looked = file.v
          BY <2>3 DEF ProcRec
      <4> HIDE DEF r
      <4> QED
          BY <3>2, <4>2, <4>3
    <3> QED
        BY <3>1, <3>2
  <2>6. PICK f \in ForceRec :
            /\ force' = [force EXCEPT ![p] = f]
            /\ f.st = (IF Holds(p) THEN "started" ELSE "none")
    <3>1. force[p].st = "none" /\ force[p] \in ForceRec
        BY <1>1 DEF LookAt, Held, Stranger, Orderly, TracerType
    <3>2. CASE Holds(p)
      <4> DEFINE f == [st |-> "started", v |-> file.v]
      <4>1. f \in ForceRec /\ f.st = "started"
          BY <1>1 DEF ForceRec, FileRec
      <4> QED
          BY <1>3, <3>2, <4>1 DEF before_entry
    <3>3. CASE ~ Holds(p)
      <4>1. force' = [force EXCEPT ![p] = force[p]]
          BY <1>1, <1>3, <3>3 DEF before_entry, TracerType
      <4> QED
          BY <3>1, <3>3, <4>1
    <3> QED
        BY <3>2, <3>3
  <2>7. /\ proc'[p] = r /\ \A q \in Proc : q # p => proc'[q] = proc[q]
        /\ force'[p] = f /\ \A q \in Proc : q # p => force'[q] = force[q]
      BY <1>1, <2>5, <2>6 DEF TracerType
  <2>8. waiting' \subseteq Proc
      BY <1>1, <1>3 DEF before_entry, TracerType
  <2>9. TracerType'
      BY <1>1, <2>2, <2>5, <2>6, <2>8 DEF TracerType
  <2>10. \A q \in Proc : q # p => Unmoved(q)
      BY <2>2, <2>7 DEF Unmoved
  <2>11. InStep(p)' /\ Held(p)' /\ Orderly(p)'
      BY <2>1, <2>2, <2>5, <2>6, <2>7 DEF InStep, Held, Orderly, Stranger, Inside, Alive
  <2>12. LetIn(p)'
    <3>1. file.v \in Nat /\ file.kind \in {"placeholder", "value"}
        BY <1>1 DEF FileRec
    <3> QED
        BY <2>5, <2>6, <2>7, <3>1 DEF LetIn, Fresh, Holds, IsPlaceholder
  <2>13. LookAt(p)'
      BY <2>11, <2>12 DEF LookAt
  <2>14. proc'[p].st \in {"run", "stop"} /\ proc'[p].leader = proc[p].leader
      BY <2>5, <2>7
  <2> QED
      BY <1>1, <2>9, <2>10, <2>13, <2>14, TracerMoves
<1> QED
    BY <1>2, <1>3, <1>4 DEF before_entry

LEMMA TraceeLooks ==
    ASSUME LookInv, NEW p \in Proc, TraceeEvent(p)
    PROVE  LookInv'
<1>1. file' = file /\ proc[p].st = "stop" /\ proc[p].traced /\ ~ proc[p].seen
    BY DEF TraceeEvent
<1>2. TracerType /\ LookAt(p) /\ Alive(p)
    BY <1>1 DEF LookInv, Alive
<1>3. CASE Throw
    BY <1>1, <1>3, ThrowLooks
<1>4. CASE Known(p) /\ handle_one_event(p, TracerOf(p))
  <2> DEFINE t == TracerOf(p)
  <2>1. t \in TracerRec
      BY <1>2 DEF TracerOf, TracerType, NewTracer, TracerRec
  <2>2. proc[p].at # "dying" /\ ~ Stranger(p) => (t.invocation <=> Inside(p))
      BY <1>1, <1>2, <1>4 DEF LookAt, InStep, Orderly, TracerOf, NewTracer, Known, MayBeNew, Inside,
         Stranger
  <2> HIDE DEF t
  <2>3. handle_one_event(p, t)
      BY <1>4 DEF t
  <2>4. CASE proc[p].at = "dying" /\ remove(p)
      BY <1>1, <2>4, RemoveLooks
  <2>5. CASE proc[p].at \in {"start", "SIGSTOP"} /\ resume(p, [t EXCEPT !.options_set = TRUE])
    <3> DEFINE u == [t EXCEPT !.options_set = TRUE]
    <3>1. u \in TracerRec /\ u.invocation = t.invocation
        BY <2>1 DEF TracerRec
    <3>2. ~ Stranger(p) /\ proc[p].at \notin {"dying", "entry", "event"} /\ ~ Inside(p)
        BY <2>5 DEF Stranger, Inside
    <3>3. resume(p, u)
        BY <2>5
    <3> HIDE DEF u
    <3> QED
        BY <1>1, <2>2, <3>1, <3>2, <3>3, ResumeLooks
  <2>6. CASE proc[p].at = "signal" /\ resume(p, t)
    <3>1. ~ Stranger(p) /\ proc[p].at \notin {"dying", "entry", "event"} /\ ~ Inside(p)
        BY <2>6 DEF Stranger, Inside
    <3> QED
        BY <1>1, <2>1, <2>2, <2>6, <3>1, ResumeLooks
  <2>7. CASE proc[p].at = "event" /\ ~ Stranger(p) /\ resume(p, t)
    <3>1. Inside(p) /\ proc[p].at \notin {"dying", "entry"}
        BY <2>7 DEF Inside
    <3> QED
        BY <1>1, <2>1, <2>2, <2>7, <3>1, ResumeLooks
  <2>8. CASE proc[p].at \in {"entry", "exit"} /\ ~ t.invocation /\ before_entry(p, t)
    <3>1. proc[p].at = "entry"
        BY <1>1, <2>2, <2>8 DEF Inside, Stranger
    <3> QED
        BY <1>1, <2>1, <2>8, <3>1, EntryLooks
  <2>9. CASE /\ proc[p].at \in {"entry", "exit"} /\ t.invocation
             /\ resume(p, [t EXCEPT !.invocation = FALSE])
    <3> DEFINE u == [t EXCEPT !.invocation = FALSE]
    <3>1. u \in TracerRec /\ u.invocation = FALSE
        BY <2>1 DEF TracerRec
    <3>2. proc[p].at = "exit" /\ ~ Stranger(p)
        BY <1>1, <2>2, <2>9 DEF Inside, Stranger
    <3>3. resume(p, u)
        BY <2>9
    <3> HIDE DEF u
    <3> QED
        BY <1>1, <3>1, <3>2, <3>3, ResumeLooks
  <2>10. CASE Throw
      BY <1>1, <2>10, ThrowLooks
  <2> QED
      BY <2>3, <2>4, <2>5, <2>6, <2>7, <2>8, <2>9, <2>10
      DEF handle_one_event, AfterExec, Stranger
<1> QED
    BY <1>3, <1>4 DEF TraceeEvent

\* The tracee that a gg-force was for goes on, into the call that it was held at.
LEMMA ForceEventLooks ==
    ASSUME LookInv, NEW p \in Proc, ForceEvent(p)
    PROVE  LookInv'
<1>1. file' = file
    BY DEF ForceEvent
<1>2. CASE Throw
    BY <1>1, <1>2, ThrowLooks
<1>3. CASE force[p].st = "done" /\ IsWaiting(p) /\ WakeUp(p)
  <2>1. TracerType /\ LookAt(p) /\ proc[p] \in ProcRec /\ p \in DOMAIN tracers
      BY <1>3 DEF LookInv, TracerType, IsWaiting
  <2>2. /\ proc[p].st = "stop" /\ Alive(p)
        /\ (proc[p].at = "entry" /\ proc[p].seen) \/ proc[p].at = "dying"
      BY <1>3, <2>1 DEF LookAt, Held, Alive
  <2> DEFINE r == [proc[p] EXCEPT !.st = "run", !.seen = TRUE]
  <2>3. /\ r \in ProcRec /\ r.st = "run" /\ r.seen /\ r.at = proc[p].at /\ r.call = proc[p].call
        /\ r.former = proc[p].former /\ r.leader = proc[p].leader /\ r.looked = proc[p].looked
      BY <2>1 DEF ProcRec
  <2>4. proc' = [proc EXCEPT ![p] = r]
      BY <1>3, <2>1 DEF WakeUp, Resumed, TracerType
  <2> HIDE DEF r
  <2> DEFINE u == [tracers[p] EXCEPT !.pause = FALSE]
  <2>5. u \in TracerRec /\ u.invocation = tracers[p].invocation
      BY <2>1 DEF TracerType, TracerRec
  <2>6. tracers' = [tracers EXCEPT ![p] = u]
      BY <1>3 DEF WakeUp
  <2> HIDE DEF u
  <2>7. /\ DOMAIN tracers' = DOMAIN tracers /\ tracers' \in [DOMAIN tracers -> TracerRec]
        /\ tracers'[p] = u /\ \A q \in DOMAIN tracers : q # p => tracers'[q] = tracers[q]
      BY <2>1, <2>5, <2>6 DEF TracerType
  <2>8. /\ force' = [force EXCEPT ![p] = NoForce] /\ NoForce \in ForceRec /\ NoForce.st = "none"
        /\ waiting' \subseteq Proc
      BY <1>3, <2>1 DEF WakeUp, NoForce, ForceRec, TracerType
  <2>9. /\ proc'[p] = r /\ \A q \in Proc : q # p => proc'[q] = proc[q]
        /\ force'[p] = NoForce /\ \A q \in Proc : q # p => force'[q] = force[q]
      BY <2>1, <2>4, <2>8 DEF TracerType
  <2>10. TracerType'
      BY <1>1, <2>1, <2>3, <2>4, <2>7, <2>8 DEF TracerType
  <2>11. \A q \in Proc : q # p => Unmoved(q)
      BY <2>7, <2>9 DEF Unmoved
  <2>12. InStep(p)' /\ Held(p)' /\ Orderly(p)'
      BY <2>1, <2>2, <2>3, <2>5, <2>7, <2>8, <2>9
      DEF LookAt, InStep, Held, Orderly, Stranger, Inside, Alive
  <2>13. LetIn(p)'
      BY <1>1, <1>3, <2>1, <2>3, <2>8, <2>9 DEF LookAt, LetIn, Fresh
  <2>14. LookAt(p)'
      BY <2>12, <2>13 DEF LookAt
  <2>15. proc'[p].st \in {"run", "stop"} /\ proc'[p].leader = proc[p].leader
      BY <2>3, <2>9
  <2> QED
      BY <1>1, <2>2, <2>10, <2>11, <2>14, <2>15, TracerMoves
<1> QED
    BY <1>2, <1>3 DEF ForceEvent

LEMMA RootEventLooks ==
    ASSUME LookInv, RootEvent
    PROVE  LookInv'
<1>1. file' = file
    BY DEF RootEvent
<1>2. CASE Throw
    BY <1>1, <1>2, ThrowLooks
<1>3. CASE proc' = [proc EXCEPT ![Root].traced = FALSE] /\ UNCHANGED <<force, tracers, waiting>>
  <2>1. TracerType /\ Root \in Proc /\ LookAt(Root) /\ proc[Root] \in ProcRec
      BY TracerAssumption DEF LookInv, TracerType
  <2> DEFINE r == [proc[Root] EXCEPT !.traced = FALSE]
  <2>2. /\ r \in ProcRec /\ r.st = "gone" /\ r.at = proc[Root].at /\ r.call = proc[Root].call
        /\ r.former = proc[Root].former /\ r.looked = proc[Root].looked
        /\ r.seen = proc[Root].seen
      BY <2>1 DEF RootEvent, ProcRec
  <2>3. proc' = [proc EXCEPT ![Root] = r] /\ proc'[Root] = r
      BY <1>3, <2>1 DEF TracerType
  <2> HIDE DEF r
  <2>4. file' \in FileRec /\ Later
      BY <1>1, <2>1, SameFileIsLater DEF TracerType
  <2>5. LookAt(Root)'
      BY <1>1, <1>3, <2>1, <2>2, <2>3 DEF RootEvent, LookAt, InStep, Held, Orderly, LetIn,
         Stranger, Inside, Alive, Fresh
  <2> QED
      BY <1>3, <2>1, <2>2, <2>3, <2>4, <2>5, OneMoves
<1> QED
    BY <1>2, <1>3 DEF RootEvent

LEMMA LookNext ==
    ASSUME LookInv, [Next]_vars
    PROVE  LookInv'
<1>1. CASE UNCHANGED vars
    BY <1>1 DEF vars, LookInv, TracerType, LookAt, InStep, Held, Orderly, LetIn, Stranger,
       Inside, Alive, Fresh, Kinship
<1>2. CASE LoopEnds
    BY <1>2 DEF LoopEnds, LookInv, TracerType, LookAt, InStep, Held, Orderly, LetIn, Stranger,
       Inside, Alive, Fresh, Kinship
<1>3. CASE WaitFails
    BY <1>3, ThrowLooks DEF WaitFails
<1>4. CASE RootEvent
    BY <1>4, RootEventLooks
<1>5. ASSUME NEW p \in Proc, Build(p) \/ TraceeEvent(p) \/ LostDeath(p) \/ ForceEvent(p)
      PROVE  LookInv'
    BY <1>5, ProcessLooks, GGForceLooks, TraceeLooks, ForceEventLooks, ThrowLooks
    DEF Build, LostDeath
<1> QED
    BY <1>1, <1>2, <1>3, <1>4, <1>5 DEF Next

LEMMA LookAlways == Spec => []LookInv
BY LookInit, LookNext, PTL DEF Spec

\* A traced process that opens the file never gets a placeholder that was there when
\* the tracer looked at the call (gg-mock.cc:73-91, tracer.cc:75-87): for any number
\* of processes and threads, whatever is killed, stopped or fails. What it takes is
\* that the tracer never mistakes the exit of a call for an entry (InStep), and that
\* a thread for which gg-force runs is held until that gg-force has ended (Held).
THEOREM TracerForcesBeforeOpen == Spec => ForcedBeforeOpen
<1>1. LookInv /\ [Next]_vars =>
          [\A p \in Proc : Opens(p) /\ file.kind = "placeholder" => file.v > proc[p].looked]_vars
  <2> SUFFICES ASSUME LookInv, NEW p \in Proc, Opens(p), file.kind = "placeholder"
               PROVE  file.v > proc[p].looked
      OBVIOUS
  <2> QED
      BY DEF LookInv, LookAt, LetIn, Fresh, Opens, InCall
<1> QED
    BY <1>1, LookAlways, PTL DEF Spec, ForcedBeforeOpen

-----------------------------------------------------------------------------
(***************************************************************************)
(* QuietInv is inductive, given LookInv.                                   *)
(***************************************************************************)

\* Outside the tracer's data only p has moved.
LEMMA QuietOne ==
    ASSUME LookInv, Quiet, NEW p \in Proc, NEW r \in ProcRec, proc' = [proc EXCEPT ![p] = r],
           UNCHANGED <<force, flock, status>>, Alone(p)', Awaited(p)'
    PROVE  Quiet'
<1>1. UNCHANGED <<force, tracers, waiting, outcome, status>>
    BY DEF flock
<1>2. ASSUME NEW q \in Proc PROVE Alone(q)' /\ Awaited(q)'
  <2>1. CASE q # p
      BY <1>1, <2>1, UnmovedQuiet DEF LookInv, TracerType, Unmoved, Quiet
  <2> QED
      BY <2>1
<1> QED
    BY <1>1, <1>2 DEF Quiet

LEMMA QuietStop ==
    ASSUME LookInv, Quiet, NEW p \in Proc, NEW r \in ProcRec, proc' = [proc EXCEPT ![p] = r],
           UNCHANGED <<force, flock, status>>, proc[p].st = "run", proc[p].at # "dying",
           \/ r.st = "gone" /\ ~ r.traced /\ ~ proc[p].traced
           \/ /\ r.st = "stop" /\ r.seen = FALSE /\ r.traced = proc[p].traced
              /\ r.leader = p /\ r.former = p
              /\ r.call \notin {"clone", "unreadable"} /\ r.at \notin {"SIGSTOP", "SIGTRAP", "start"}
           \/ /\ r.st = "run" /\ r.at \notin {"SIGSTOP", "SIGTRAP", "start", "dying"} /\ r.call \notin {"clone", "unreadable"}
              /\ r.traced = proc[p].traced /\ r.leader = p /\ r.former = p /\ r.seen
    PROVE  Quiet'
<1>1. Alone(p) /\ Awaited(p)
    BY DEF Quiet
<1>2. proc'[p] = r /\ UNCHANGED <<force, tracers, waiting>>
    BY DEF LookInv, TracerType, flock
<1>3. force[p].st = "none"
    BY <1>1 DEF Awaited
<1>4. Awaited(p)'
    BY <1>2, <1>3 DEF Awaited
<1>5. Alone(p)'
    BY <1>1, <1>2 DEF Alone, Alive
<1> QED
    BY <1>4, <1>5, QuietOne

\* A process is the whole of its group.
LEMMA QuietGroup ==
    ASSUME Quiet, NEW p \in Proc, Alive(p)
    PROVE  Group(p) = {p} /\ proc[p].leader = p /\ proc[p].former = p /\ proc[p].call \notin {"clone", "unreadable"}
BY DEF Quiet, Alone, Group

LEMMA QuietDeath ==
    ASSUME LookInv, Quiet, NEW p \in Proc, proc[p].st = "run", proc[p].at # "dying",
           proc' = [q \in Proc |-> IF q \in Group(p) THEN Dying(q) ELSE proc[q]],
           UNCHANGED <<force, flock, status>>
    PROVE  Quiet'
<1>1. Alive(p) /\ proc \in [Proc -> ProcRec] /\ proc[p] \in ProcRec
    BY DEF Alive, LookInv, TracerType
<1>2. Group(p) = {p} /\ proc[p].leader = p /\ proc[p].former = p /\ proc[p].call \notin {"clone", "unreadable"}
    BY <1>1, QuietGroup
<1> DEFINE r == Dying(p)
<1>3. proc' = [proc EXCEPT ![p] = r]
    BY <1>1, <1>2
<1>4. /\ r \in ProcRec
      /\ \/ r.st = "gone" /\ r.traced = FALSE /\ ~ proc[p].traced
         \/ /\ r.at = "dying" /\ r.st = "stop" /\ r.seen = FALSE /\ r.traced /\ proc[p].traced
            /\ r.leader = proc[p].leader /\ r.former = proc[p].former /\ r.call = proc[p].call
    BY <1>1, DyingFields
<1> HIDE DEF r
<1>5. proc[p].traced \in BOOLEAN /\ r.traced \in BOOLEAN
    BY <1>1, <1>4 DEF ProcRec
<1>6. CASE r.st = "gone" /\ r.traced = FALSE /\ ~ proc[p].traced
    BY <1>3, <1>4, <1>6, QuietStop
<1>7. CASE /\ r.at = "dying" /\ r.st = "stop" /\ r.seen = FALSE /\ r.traced /\ proc[p].traced
           /\ r.leader = proc[p].leader /\ r.former = proc[p].former /\ r.call = proc[p].call
  <2>1. /\ r.st = "stop" /\ r.seen = FALSE /\ r.traced = proc[p].traced
        /\ r.leader = p /\ r.former = p
        /\ r.call \notin {"clone", "unreadable"} /\ r.at \notin {"SIGSTOP", "SIGTRAP", "start"}
      BY <1>2, <1>5, <1>7
  <2> QED
      BY <1>3, <1>4, <2>1, QuietStop
<1> QED
    BY <1>4, <1>6, <1>7

\* The stops that StopAt brings about.
LEMMA QuietStopAt ==
    ASSUME LookInv, Quiet, NEW p \in Proc, NEW place \in Places \ {"SIGSTOP", "SIGTRAP", "start"},
           proc' = [proc EXCEPT ![p] = StopAt(p, place)],
           UNCHANGED <<force, flock, status>>, proc[p].st = "run", proc[p].at # "dying"
    PROVE  Quiet'
<1>1. Alive(p) /\ proc[p] \in ProcRec
    BY DEF Alive, LookInv, TracerType
<1>2. proc[p].leader = p /\ proc[p].former = p /\ proc[p].call \notin {"clone", "unreadable"}
    BY <1>1, QuietGroup
<1> DEFINE r == StopAt(p, place)
<1>3. /\ r \in ProcRec /\ r.st = "stop" /\ r.seen = FALSE /\ r.traced = proc[p].traced
      /\ r.leader = proc[p].leader /\ r.former = proc[p].former /\ r.call = proc[p].call
      /\ r.at = place
    BY <1>1 DEF StopAt, ProcRec
<1>4. proc' = [proc EXCEPT ![p] = r]
    OBVIOUS
<1> HIDE DEF r
<1>5. r.call \notin {"clone", "unreadable"} /\ r.at \notin {"SIGSTOP", "SIGTRAP", "start"} /\ r.leader = p /\ r.former = p
    BY <1>2, <1>3
<1> QED
    BY <1>3, <1>4, <1>5, QuietStop

LEMMA EnterQuiet ==
    ASSUME LookInv, Quiet, NEW p \in Proc, Enter(p), faults' = {}
    PROVE  Quiet'
<1>1. PICK c \in Calls :
          /\ proc' = [proc EXCEPT ![p] = [StopAt(p, "entry") EXCEPT !.call = c, !.calls = @ + 1]]
          /\ FaultOf(c)
    BY DEF Enter
<1>2. c \notin {"clone", "unreadable"}
    BY <1>1 DEF FaultOf, Fault
<1>3. UNCHANGED <<force, flock, status>> /\ proc[p].st = "run" /\ proc[p].at # "dying"
    BY DEF Enter, Untouched, InUserMode
<1>4. Alive(p) /\ proc[p] \in ProcRec
    BY <1>3 DEF Alive, LookInv, TracerType
<1>5. proc[p].leader = p /\ proc[p].former = p
    BY <1>4, QuietGroup
<1> DEFINE s == StopAt(p, "entry")
           u == [s EXCEPT !.call = c]
           r == [u EXCEPT !.calls = u.calls + 1]
<1>6. /\ s \in ProcRec /\ s.st = "stop" /\ s.seen = FALSE /\ s.traced = proc[p].traced
      /\ s.leader = p /\ s.former = p /\ s.at = "entry"
    BY <1>4, <1>5 DEF StopAt, ProcRec, Places
<1>7. r = [s EXCEPT !.call = c, !.calls = @ + 1]
    BY <1>6 DEF ProcRec
<1>8. proc' = [proc EXCEPT ![p] = r]
    BY <1>1, <1>7
<1> HIDE DEF s
<1>9. /\ u \in ProcRec /\ u.st = "stop" /\ u.seen = FALSE /\ u.traced = proc[p].traced
      /\ u.leader = p /\ u.former = p /\ u.at = "entry" /\ u.call = c
    BY <1>6 DEF ProcRec
<1> HIDE DEF u
<1>10. /\ r \in ProcRec /\ r.st = "stop" /\ r.seen = FALSE /\ r.traced = proc[p].traced
       /\ r.leader = p /\ r.former = p /\ r.at = "entry" /\ r.call = c
    BY <1>9 DEF ProcRec
<1> HIDE DEF r
<1>11. r.call \notin {"clone", "unreadable"} /\ r.at \notin {"SIGSTOP", "SIGTRAP", "start"}
    BY <1>2, <1>10
<1> QED
    BY <1>3, <1>8, <1>10, <1>11, QuietStop

LEMMA SignalQuiet ==
    ASSUME LookInv, Quiet, NEW p \in Proc, Signal(p), faults' = {}
    PROVE  Quiet'
<1>1. proc' = [proc EXCEPT ![p] = [StopAt(p, "signal") EXCEPT !.calls = @ + 1]]
    BY DEF Signal, Fault
<1>2. UNCHANGED <<force, flock, status>> /\ proc[p].st = "run" /\ proc[p].at # "dying"
    BY DEF Signal, Untouched, InUserMode
<1>3. Alive(p) /\ proc[p] \in ProcRec
    BY <1>2 DEF Alive, LookInv, TracerType
<1>4. proc[p].leader = p /\ proc[p].former = p /\ proc[p].call \notin {"clone", "unreadable"}
    BY <1>3, QuietGroup
<1> DEFINE s == StopAt(p, "signal")
           r == [s EXCEPT !.calls = @ + 1]
<1>5. /\ s \in ProcRec /\ s.st = "stop" /\ s.seen = FALSE /\ s.traced = proc[p].traced
      /\ s.leader = p /\ s.former = p /\ s.at = "signal" /\ s.call = proc[p].call
    BY <1>3, <1>4 DEF StopAt, ProcRec, Places
<1>6. proc' = [proc EXCEPT ![p] = r]
    BY <1>1
<1> HIDE DEF s
<1>7. /\ r \in ProcRec /\ r.st = "stop" /\ r.seen = FALSE /\ r.traced = proc[p].traced
      /\ r.leader = p /\ r.former = p /\ r.at = "signal" /\ r.call = proc[p].call
    BY <1>5 DEF ProcRec
<1> HIDE DEF r
<1>8. r.call \notin {"clone", "unreadable"} /\ r.at \notin {"SIGSTOP", "SIGTRAP", "start"}
    BY <1>4, <1>7
<1> QED
    BY <1>2, <1>6, <1>7, <1>8, QuietStop

LEMMA DeliveredQuiet ==
    ASSUME LookInv, Quiet, NEW p \in Proc, Delivered(p), faults' = {}
    PROVE  Quiet'
<1>1. proc[p].st = "run" /\ proc[p].at = "signal" /\ UNCHANGED <<force, flock, status>>
    BY DEF Delivered, Fault
<1>2. CASE proc' = [q \in Proc |-> IF q \in Group(p) THEN Dying(q) ELSE proc[q]]
    BY <1>1, <1>2, QuietDeath
<1>3. CASE proc' = [proc EXCEPT ![p].at = "user"]
  <2>1. Alive(p) /\ proc[p] \in ProcRec /\ proc[p].seen
      BY <1>1 DEF Alive, LookInv, TracerType, LookAt, Orderly
  <2>2. proc[p].leader = p /\ proc[p].former = p /\ proc[p].call \notin {"clone", "unreadable"}
      BY <2>1, QuietGroup
  <2> DEFINE r == [proc[p] EXCEPT !.at = "user"]
  <2>3. /\ r \in ProcRec /\ r.st = "run" /\ r.seen /\ r.traced = proc[p].traced
        /\ r.leader = p /\ r.former = p /\ r.at = "user" /\ r.call = proc[p].call
      BY <1>1, <2>1, <2>2 DEF ProcRec, Places
  <2>4. proc' = [proc EXCEPT ![p] = r]
      BY <1>3, <2>1 DEF LookInv, TracerType
  <2> HIDE DEF r
  <2>5. r.call \notin {"clone", "unreadable"} /\ r.at \notin {"SIGSTOP", "SIGTRAP", "start", "dying"}
      BY <2>2, <2>3
  <2> QED
      BY <1>1, <2>3, <2>4, <2>5, QuietStop
<1> QED
    BY <1>2, <1>3 DEF Delivered

LEMMA ForksQuiet ==
    ASSUME LookInv, Quiet, NEW p \in Proc, Forks(p)
    PROVE  Quiet'
<1>1. /\ proc[p].st = "run" /\ proc[p].at = "entry" /\ UNCHANGED <<force, flock, status>>
      /\ {"event", "exit"} \subseteq Places \ {"SIGSTOP", "SIGTRAP", "start"}
    BY DEF Forks, InCall, Untouched, Places
<1>2. Alive(p) /\ proc[p] \in ProcRec /\ TracerType
    BY <1>1 DEF Alive, LookInv, TracerType
<1>3. proc[p].leader = p /\ proc[p].former = p /\ proc[p].call = "fork"
    BY <1>2, QuietGroup DEF Forks
<1>4. CASE proc' = [proc EXCEPT ![p] = StopAt(p, "exit")]
    BY <1>1, <1>4, QuietStopAt
<1>5. ASSUME NEW q \in Proc, proc[q].st = "unborn",
             proc' = [proc EXCEPT ![p] = StopAt(p, "event"), ![q] = NewProcess(q, proc[p].calls)]
      PROVE  Quiet'
  <2>1. UNCHANGED <<force, tracers, waiting, outcome, status>>
      BY <1>1 DEF flock
  <2>2. p # q
      BY <1>1, <1>5
  <2>3. /\ proc'[p] = StopAt(p, "event") /\ proc'[q] = NewProcess(q, proc[p].calls)
        /\ \A x \in Proc : x \notin {p, q} => proc'[x] = proc[x]
      BY <1>2, <1>5, <2>2 DEF TracerType
  <2>4. /\ proc'[p].st = "stop" /\ proc'[p].at = "event" /\ proc'[p].leader = p
        /\ proc'[p].former = p /\ proc'[p].call = "fork" /\ proc'[p].traced = proc[p].traced
        /\ proc'[p].seen = FALSE
      BY <1>2, <1>3, <2>3 DEF StopAt, ProcRec
  <2>5. /\ proc'[q].st = "stop" /\ proc'[q].at = "start" /\ proc'[q].leader = q
        /\ proc'[q].former = q /\ proc'[q].call = "none" /\ proc'[q].traced
        /\ proc'[q].seen = FALSE
      BY <2>3 DEF NewProcess
  <2>6. Alone(p) /\ Awaited(p) /\ Awaited(q) /\ LookAt(q)
      BY DEF Quiet, LookInv
  <2>7. Alone(p)' /\ Awaited(p)'
      BY <1>1, <2>1, <2>4, <2>6 DEF Alone, Awaited, Alive
  <2>8. Alone(q)' /\ Awaited(q)'
      BY <1>5, <2>1, <2>5, <2>6 DEF Alone, Awaited, Alive, LookAt, Orderly
  <2>9. ASSUME NEW x \in Proc, x \notin {p, q} PROVE Alone(x)' /\ Awaited(x)'
      BY <2>1, <2>3, <2>9, UnmovedQuiet DEF Unmoved, Quiet
  <2> QED
      BY <2>1, <2>7, <2>8, <2>9 DEF Quiet
<1> QED
    BY <1>3, <1>4, <1>5 DEF Forks

LEMMA ExecsQuiet ==
    ASSUME LookInv, Quiet, NEW p \in Proc, Execs(p)
    PROVE  Quiet'
<1>1. /\ proc[p].st = "run" /\ proc[p].at = "entry" /\ proc[p].call = "exec"
      /\ UNCHANGED <<force, flock, status>>
    BY DEF Execs, InCall, Untouched
<1>2. Alive(p) /\ proc[p] \in ProcRec /\ TracerType
    BY <1>1 DEF Alive, LookInv, TracerType
<1>3. proc[p].leader = p /\ proc[p].former = p /\ Group(p) = {p}
    BY <1>2, QuietGroup
<1> DEFINE s == StopAt(p, "event")
           r == [s EXCEPT !.former = p]
<1>4. proc' = [q \in Proc |-> IF q = p THEN r ELSE IF q = p THEN Ended(FALSE) ELSE proc[q]]
    BY <1>3 DEF Execs
<1>5. /\ s \in ProcRec /\ s.st = "stop" /\ s.seen = FALSE /\ s.traced = proc[p].traced
      /\ s.leader = p /\ s.at = "event" /\ s.call = "exec"
    BY <1>1, <1>2, <1>3 DEF StopAt, ProcRec, Places
<1> HIDE DEF s
<1>6. /\ r \in ProcRec /\ r.st = "stop" /\ r.seen = FALSE /\ r.traced = proc[p].traced
      /\ r.leader = p /\ r.at = "event" /\ r.call = "exec" /\ r.former = p
    BY <1>5 DEF ProcRec
<1> HIDE DEF r
<1>7. proc' = [proc EXCEPT ![p] = r]
    BY <1>2, <1>4 DEF TracerType
<1>8. r.call \notin {"clone", "unreadable"} /\ r.at \notin {"SIGSTOP", "SIGTRAP", "start"} /\ proc[p].at # "dying"
    BY <1>1, <1>6
<1> QED
    BY <1>1, <1>6, <1>7, <1>8, QuietStop

LEMMA ProcessQuiet ==
    ASSUME LookInv, Quiet, NEW p \in Proc, Process(p) \/ Signal(p) \/ EarlySignal(p) \/ Kill(p),
           faults' = {}
    PROVE  Quiet'
<1>1. {"event", "exit"} \subseteq Places \ {"SIGSTOP", "SIGTRAP", "start"}
    BY DEF Places
<1>2. CASE Opens(p)
    BY <1>1, <1>2, QuietStopAt DEF Opens, InCall, Untouched
<1>3. CASE Truncates(p)
    BY <1>1, <1>3, QuietStopAt DEF Truncates, InCall
<1>4. CASE LeavesEvent(p)
    BY <1>1, <1>4, QuietStopAt DEF LeavesEvent, Untouched
<1>5. CASE Exits(p)
  <2>1. UNCHANGED <<force, flock, status>> /\ proc[p].st = "run" /\ proc[p].at # "dying"
      BY <1>5 DEF Exits, Fault, InCall
  <2> QED
      BY <1>5, <2>1, QuietDeath DEF Exits
<1>6. CASE Kill(p)
    BY <1>6 DEF Kill, Fault
<1>12. ~ EarlySignal(p)
    BY DEF EarlySignal, Fault
<1>7. Alone(p) /\ Awaited(p) /\ proc \in [Proc -> ProcRec] /\ proc[p] \in ProcRec
    BY DEF Quiet, LookInv, TracerType
<1> DEFINE r == Ended(FALSE)
<1>8. r \in ProcRec /\ r.st = "gone" /\ r.traced = FALSE
    BY EndedFields
<1>9. ASSUME proc' = [proc EXCEPT ![p] = r], UNCHANGED <<force, flock, status>>,
             proc[p].st = "run", ~ proc[p].traced
      PROVE  Quiet'
  <2> HIDE DEF r
  <2>1. proc'[p] = r /\ UNCHANGED <<force, tracers, waiting>>
      BY <1>7, <1>9 DEF flock
  <2>2. Alone(p)' /\ Awaited(p)'
      BY <1>7, <1>8, <1>9, <2>1 DEF Alone, Awaited, Alive
  <2> QED
      BY <1>8, <1>9, <2>2, QuietOne
<1>10. CASE Dies(p)
  <2>1. proc[p].traced = FALSE
      BY <1>7, <1>10 DEF Dies, Alone, ProcRec
  <2> QED
      BY <1>7, <1>9, <1>10, <2>1 DEF Dies, Untouched
<1>11. CASE Untraced(p)
  <2>1. CASE UNCHANGED proc
    <3>1. UNCHANGED <<proc, force, tracers, waiting, outcome, status>>
        BY <1>11, <2>1 DEF Untraced, flock
    <3> QED
        BY <3>1 DEF Quiet, Alone, Awaited, Alive, IsWaiting
  <2> QED
      BY <1>9, <1>11, <2>1 DEF Untraced
<1> QED
    BY <1>2, <1>3, <1>4, <1>5, <1>6, <1>10, <1>11, <1>12, EnterQuiet, SignalQuiet,
       DeliveredQuiet, ForksQuiet, ExecsQuiet DEF Process

LEMMA GGForceQuiet ==
    ASSUME LookInv, Quiet, NEW p \in Proc, GGForce(p), faults' = {}
    PROVE  Quiet'
<1>1. UNCHANGED <<proc, tracers, waiting, outcome, status>>
    BY DEF GGForce, ForceReads, ForceEnds, flock
<1>2. /\ force[p].st # "none" /\ force'[p].st # "failed"
      /\ \A q \in Proc : q # p => force'[q] = force[q]
    BY DEF GGForce, ForceReads, ForceEnds, Fault, LookInv, TracerType, ForceRec
<1>3. ASSUME NEW q \in Proc PROVE Alone(q)' /\ Awaited(q)'
  <2>1. CASE q # p
      BY <1>1, <1>2, <2>1, UnmovedQuiet DEF Unmoved, Quiet
  <2>2. Alone(p) /\ Awaited(p)
      BY DEF Quiet
  <2>3. Alone(p)' /\ Awaited(p)'
      BY <1>1, <1>2, <2>2 DEF Alone, Awaited, Alive, IsWaiting
  <2> QED
      BY <2>1, <2>3
<1> QED
    BY <1>1, <1>3 DEF Quiet

LEMMA TracerMovesQuiet ==
    ASSUME Quiet, NEW p \in Proc, Alone(p)', Awaited(p)', UNCHANGED <<outcome, status>>,
           \A q \in Proc : q # p => Unmoved(q) /\ (q \in waiting <=> q \in waiting')
    PROVE  Quiet'
<1>1. ASSUME NEW q \in Proc PROVE Alone(q)' /\ Awaited(q)'
    BY UnmovedQuiet DEF Quiet
<1> QED
    BY <1>1 DEF Quiet

LEMMA ResumeQuiet ==
    ASSUME LookInv, Quiet, UNCHANGED status, NEW p \in Proc, NEW t \in TracerRec, resume(p, t),
           proc[p].st = "stop", proc[p].traced, ~ proc[p].seen, proc[p].at # "dying"
    PROVE  Quiet'
<1>1. TracerType /\ Alone(p) /\ Awaited(p) /\ proc[p] \in ProcRec
    BY DEF LookInv, TracerType, Quiet
<1> DEFINE u == [t EXCEPT !.pause = FALSE]
<1>2. u \in TracerRec
    BY DEF TracerRec
<1>3. tracers' = With(tracers, p, u) /\ UNCHANGED <<force, waiting, outcome>>
    BY DEF resume
<1> HIDE DEF u
<1>4. /\ DOMAIN tracers' = DOMAIN tracers \cup {p}
      /\ \A q \in DOMAIN tracers : q # p => tracers'[q] = tracers[q]
    BY <1>1, <1>2, <1>3, WithIs DEF TracerType
<1>5. /\ proc'[p].st = "run" /\ proc'[p].seen /\ proc'[p].at = proc[p].at
      /\ proc'[p].call = proc[p].call /\ proc'[p].traced
      /\ proc'[p].former = proc[p].former /\ proc'[p].leader = proc[p].leader
      /\ \A q \in Proc : q # p => proc'[q] = proc[q]
    BY <1>1 DEF resume, Resumed, TracerType, ProcRec
<1>6. \A q \in Proc : q # p => Unmoved(q) /\ (q \in waiting <=> q \in waiting')
    BY <1>3, <1>4, <1>5 DEF Unmoved
<1>7. Awaited(p)'
    BY <1>1, <1>3 DEF Awaited
<1>8. Alone(p)'
    BY <1>1, <1>4, <1>5 DEF Alone, Alive
<1> QED
    BY <1>3, <1>6, <1>7, <1>8, TracerMovesQuiet

LEMMA RemoveQuiet ==
    ASSUME LookInv, Quiet, UNCHANGED status, NEW p \in Proc, remove(p),
           proc[p].st = "stop", ~ proc[p].seen
    PROVE  Quiet'
<1>1. TracerType /\ Alone(p) /\ Awaited(p) /\ proc[p] \in ProcRec
    BY DEF LookInv, TracerType, Quiet
<1>2. tracers' = Without(tracers, p) /\ UNCHANGED <<force, waiting, outcome>>
    BY DEF remove
<1>3. /\ DOMAIN tracers' = DOMAIN tracers \ {p}
      /\ \A q \in DOMAIN tracers' : tracers'[q] = tracers[q]
    BY <1>1, <1>2, WithoutIs DEF TracerType
<1>4. /\ proc'[p].st = "run" /\ proc'[p].seen /\ proc'[p].at = proc[p].at
      /\ proc'[p].call = proc[p].call /\ proc'[p].traced = FALSE
      /\ proc'[p].former = proc[p].former /\ proc'[p].leader = proc[p].leader
      /\ \A q \in Proc : q # p => proc'[q] = proc[q]
    BY <1>1 DEF remove, Detached, TracerType, ProcRec
<1>5. \A q \in Proc : q # p => Unmoved(q) /\ (q \in waiting <=> q \in waiting')
    BY <1>2, <1>3, <1>4 DEF Unmoved
<1>6. Awaited(p)'
    BY <1>1, <1>2 DEF Awaited
<1>7. Alone(p)'
    BY <1>1, <1>3, <1>4 DEF Alone, Alive
<1> QED
    BY <1>2, <1>5, <1>6, <1>7, TracerMovesQuiet

LEMMA EntryQuiet ==
    ASSUME LookInv, Quiet, UNCHANGED status, NEW p \in Proc, NEW t \in TracerRec,
           before_entry(p, t),
           proc[p].st = "stop", proc[p].traced, ~ proc[p].seen, proc[p].at = "entry"
    PROVE  Quiet'
<1>1. TracerType /\ Alone(p) /\ Awaited(p) /\ proc[p] \in ProcRec
    BY DEF LookInv, TracerType, Quiet
<1>2. CASE proc[p].call = "detach" /\ remove(p)
    BY <1>2, RemoveQuiet
<1>4. proc[p].call # "unreadable"
    BY <1>1 DEF Alone, Alive
<1>3. CASE proc[p].call \notin {"detach", "unreadable"}
  <2> DEFINE entered == [t EXCEPT !.invocation = TRUE]
             paused == [entered EXCEPT !.pause = TRUE]
  <2>1. entered \in TracerRec
      BY DEF TracerRec
  <2>2. paused \in TracerRec /\ paused.pause
      BY <2>1 DEF TracerRec
  <2>3. PICK u \in TracerRec : tracers' = With(tracers, p, u) /\ (Holds(p) => u.pause)
      BY <1>3, <2>1, <2>2 DEF before_entry
  <2>4. /\ DOMAIN tracers' = DOMAIN tracers \cup {p} /\ tracers'[p] = u
        /\ \A q \in DOMAIN tracers : q # p => tracers'[q] = tracers[q]
      BY <1>1, <2>3, WithIs DEF TracerType
  <2>5. /\ proc'[p].st = (IF Holds(p) THEN "stop" ELSE "run") /\ proc'[p].seen
        /\ proc'[p].at = "entry" /\ proc'[p].call = proc[p].call /\ proc'[p].traced
        /\ proc'[p].former = proc[p].former /\ proc'[p].leader = proc[p].leader
        /\ \A q \in Proc : q # p => proc'[q] = proc[q]
    <3> DEFINE s == [proc[p] EXCEPT !.looked = file.v]
               looked == [proc EXCEPT ![p].looked = file.v]
    <3>1. /\ s \in ProcRec /\ s.st = "stop" /\ s.at = "entry" /\ s.call = proc[p].call
          /\ s.former = proc[p].former /\ s.leader = proc[p].leader /\ s.traced
        BY <1>1 DEF ProcRec, FileRec, TracerType
    <3>2. looked = [proc EXCEPT ![p] = s] /\ looked \in [Proc -> ProcRec] /\ looked[p] = s
        BY <1>1, <3>1 DEF TracerType
    <3>3. \A q \in Proc : q # p => looked[q] = proc[q]
        BY <1>1 DEF TracerType
    <3>4. \/ Holds(p) /\ proc' = [looked EXCEPT ![p].seen = TRUE]
          \/ ~ Holds(p) /\ proc' = [looked EXCEPT ![p].st = "run", ![p].seen = TRUE]
        BY <1>3 DEF before_entry
    <3> HIDE DEF s, looked
    <3> QED
        BY <3>1, <3>2, <3>3, <3>4 DEF ProcRec
  <2>6. /\ UNCHANGED outcome
        /\ \A q \in Proc : q # p => force'[q] = force[q] /\ (q \in waiting <=> q \in waiting')
        /\ Holds(p) => force'[p].st = "started" /\ p \in waiting'
        /\ ~ Holds(p) => force'[p] = force[p]
      BY <1>1, <1>3 DEF before_entry, TracerType
  <2>7. \A q \in Proc : q # p => Unmoved(q) /\ (q \in waiting <=> q \in waiting')
      BY <2>4, <2>5, <2>6 DEF Unmoved
  <2>8. Awaited(p)'
      BY <1>1, <2>3, <2>4, <2>5, <2>6 DEF Awaited, IsWaiting
  <2>9. Alone(p)'
      BY <1>1, <2>4, <2>5 DEF Alone, Alive
  <2> QED
      BY <2>6, <2>7, <2>8, <2>9, TracerMovesQuiet
<1> QED
    BY <1>2, <1>3, <1>4 DEF before_entry

LEMMA TraceeQuiet ==
    ASSUME LookInv, Quiet, NEW p \in Proc, TraceeEvent(p)
    PROVE  Quiet'
<1>1. UNCHANGED status /\ proc[p].st = "stop" /\ proc[p].traced /\ ~ proc[p].seen
    BY DEF TraceeEvent
<1>2. TracerType /\ LookAt(p) /\ Alive(p) /\ Alone(p)
    BY <1>1 DEF LookInv, Quiet, Alive
<1> DEFINE t == TracerOf(p)
<1>3. Known(p) /\ handle_one_event(p, t)
    BY <1>1, <1>2 DEF TraceeEvent, Alone, Known, MayBeNew
<1>4. t \in TracerRec
    BY <1>2 DEF TracerOf, TracerType, NewTracer, TracerRec
<1>5. proc[p].at # "dying" /\ ~ Stranger(p) => (t.invocation <=> Inside(p))
    BY <1>1, <1>2, <1>3 DEF LookAt, InStep, Orderly, TracerOf, NewTracer, Known, MayBeNew, Inside,
       Stranger
<1>6. /\ proc[p].at \notin {"SIGSTOP", "SIGTRAP"} /\ proc[p].former = p
      /\ proc[p].at = "start" => ~ t.options_set
    BY <1>1, <1>2 DEF Alone, TracerOf, NewTracer
<1> HIDE DEF t
<1>7. CASE proc[p].at = "dying" /\ remove(p)
    BY <1>1, <1>7, RemoveQuiet
<1>8. CASE proc[p].at = "start" /\ resume(p, [t EXCEPT !.options_set = TRUE])
  <2>1. [t EXCEPT !.options_set = TRUE] \in TracerRec
      BY <1>4 DEF TracerRec
  <2> QED
      BY <1>1, <1>8, <2>1, ResumeQuiet
<1>9. CASE proc[p].at \in {"signal", "event"} /\ resume(p, t)
    BY <1>1, <1>4, <1>9, ResumeQuiet
<1>10. CASE proc[p].at \in {"entry", "exit"} /\ ~ t.invocation /\ before_entry(p, t)
  <2>1. proc[p].at = "entry"
      BY <1>1, <1>5, <1>10 DEF Inside, Stranger
  <2> QED
      BY <1>1, <1>4, <1>10, <2>1, EntryQuiet
<1>11. CASE proc[p].at \in {"entry", "exit"} /\ resume(p, [t EXCEPT !.invocation = FALSE])
  <2>1. [t EXCEPT !.invocation = FALSE] \in TracerRec
      BY <1>4 DEF TracerRec
  <2> QED
      BY <1>1, <1>11, <2>1, ResumeQuiet
<1> QED
    BY <1>3, <1>6, <1>7, <1>8, <1>9, <1>10, <1>11 DEF handle_one_event, AfterExec

LEMMA ForceEventQuiet ==
    ASSUME LookInv, Quiet, NEW p \in Proc, ForceEvent(p)
    PROVE  Quiet'
<1>1. UNCHANGED status /\ Awaited(p) /\ Alone(p) /\ TracerType /\ proc[p] \in ProcRec
    BY DEF ForceEvent, Quiet, LookInv, TracerType
<1>2. IsWaiting(p) /\ WakeUp(p) /\ force[p].st = "done"
    BY <1>1 DEF ForceEvent, Awaited
<1>3. p \in DOMAIN tracers /\ proc[p].st = "stop" /\ proc[p].at = "entry"
    BY <1>1, <1>2 DEF IsWaiting, Awaited
<1>4. /\ proc'[p].st = "run" /\ proc'[p].seen /\ proc'[p].at = "entry"
      /\ proc'[p].call = proc[p].call /\ proc'[p].traced = proc[p].traced
      /\ proc'[p].former = proc[p].former /\ proc'[p].leader = proc[p].leader
      /\ \A q \in Proc : q # p => proc'[q] = proc[q]
    BY <1>1, <1>2, <1>3 DEF WakeUp, Resumed, TracerType, ProcRec
<1>5. /\ DOMAIN tracers' = DOMAIN tracers
      /\ \A q \in DOMAIN tracers : q # p => tracers'[q] = tracers[q]
    BY <1>1, <1>2 DEF WakeUp, TracerType
<1>6. /\ force'[p].st = "none" /\ \A q \in Proc : q # p => force'[q] = force[q]
      /\ \A q \in Proc : q # p => (q \in waiting <=> q \in waiting')
      /\ UNCHANGED outcome
    BY <1>1, <1>2 DEF WakeUp, NoForce, TracerType
<1>7. \A q \in Proc : q # p => Unmoved(q) /\ (q \in waiting <=> q \in waiting')
    BY <1>4, <1>5, <1>6 DEF Unmoved
<1>8. Awaited(p)'
    BY <1>6 DEF Awaited
<1>9. Alone(p)'
    BY <1>1, <1>3, <1>4, <1>5 DEF Alone, Alive
<1> QED
    BY <1>1, <1>6, <1>7, <1>8, <1>9, TracerMovesQuiet

LEMMA RootEventQuiet ==
    ASSUME LookInv, Quiet, RootEvent
    PROVE  Quiet'
<1>1. /\ proc' = [proc EXCEPT ![Root].traced = FALSE] /\ proc[Root].st = "gone"
      /\ UNCHANGED <<force, tracers, waiting, outcome, status>>
    BY DEF RootEvent, Quiet
<1>2. Root \in Proc /\ Alone(Root) /\ Awaited(Root) /\ TracerType /\ proc[Root] \in ProcRec
    BY TracerAssumption DEF Quiet, LookInv, TracerType
<1>3. /\ proc'[Root].st = "gone" /\ proc'[Root].traced = FALSE
      /\ \A q \in Proc : q # Root => proc'[q] = proc[q]
    BY <1>1, <1>2 DEF TracerType, ProcRec
<1>4. \A q \in Proc : q # Root => Unmoved(q) /\ (q \in waiting <=> q \in waiting')
    BY <1>1, <1>3 DEF Unmoved
<1>5. Alone(Root)' /\ Awaited(Root)'
    BY <1>1, <1>2, <1>3 DEF Alone, Awaited, Alive
<1> QED
    BY <1>1, <1>2, <1>4, <1>5, TracerMovesQuiet

\* There is somebody to wait for as long as there is a tracer.
LEMMA WaitSucceeds ==
    ASSUME LookInv, Quiet
    PROVE  ~ WaitFails
<1> SUFFICES ASSUME WaitFails PROVE FALSE
    OBVIOUS
<1>1. DOMAIN tracers = {}
    BY DEF WaitFails, Quiet, Alone, LookInv, TracerType
<1>2. tracers = << >>
    BY <1>1 DEF LookInv, TracerType
<1> QED
    BY <1>2 DEF WaitFails

LEMMA QuietInit == Init => QuietInv
<1> SUFFICES ASSUME Init PROVE Quiet
    BY DEF QuietInv
<1>1. ASSUME NEW p \in Proc PROVE Alone(p) /\ Awaited(p)
    BY <1>1 DEF Init, Alone, Awaited, Alive, NewProcess, Unborn, NoForce, NewTracer
<1> QED
    BY <1>1 DEF Init, Quiet

\* Once there has been a fault there has always been one.
LEMMA FaultsStay ==
    ASSUME [Next]_vars, faults' = {}
    PROVE  faults = {}
BY DEF Next, vars, Build, Process, Enter, Signal, Delivered, Opens, Truncates, Forks, Execs, Exits,
   FaultOf, LeavesEvent, Dies, Untraced, EarlySignal, Kill, GGForce, ForceReads, ForceEnds, TraceeEvent, LostDeath,
   ForceEvent, RootEvent, WaitFails, LoopEnds, Fault

LEMMA QuietNext ==
    ASSUME LookInv, QuietInv, [Next]_vars
    PROVE  QuietInv'
<1> SUFFICES ASSUME faults' = {} PROVE Quiet'
    BY DEF QuietInv
<1>1. Quiet
    BY FaultsStay DEF QuietInv
<1>2. CASE UNCHANGED vars
    BY <1>1, <1>2 DEF vars, Quiet, Alone, Awaited, Alive, IsWaiting
<1>3. CASE LoopEnds
    BY <1>1, <1>3 DEF LoopEnds, Quiet, Alone, Awaited, Alive, IsWaiting
<1>4. CASE WaitFails
    BY <1>1, <1>4, WaitSucceeds
<1>5. CASE RootEvent
    BY <1>1, <1>5, RootEventQuiet
<1>6. ASSUME NEW p \in Proc, LostDeath(p) PROVE FALSE
    BY <1>1, <1>6 DEF LostDeath, Quiet, Alone
<1>7. ASSUME NEW p \in Proc, Build(p) \/ TraceeEvent(p) \/ ForceEvent(p)
      PROVE  Quiet'
    BY <1>1, <1>7, ProcessQuiet, GGForceQuiet, TraceeQuiet, ForceEventQuiet DEF Build
<1> QED
    BY <1>2, <1>3, <1>4, <1>5, <1>6, <1>7 DEF Next

\* The loop throws only after a fault (tracer.cc:47-116, 141-250): for any number of
\* processes that fork, exec, detach and end, in whatever order their events and the
\* ends of the gg-forces are reported. Until a fault every process is its own
\* leader, every tracee has its tracer unless its first stop is still to be
\* reported, and whoever a gg-force is for is paused.
THEOREM TracerThrowsOnlyOnFaults == Spec => []OnlyFaultsThrow
<1>1. QuietInv => OnlyFaultsThrow
    BY DEF QuietInv, Quiet, OnlyFaultsThrow
<1> QED
    BY <1>1, LookAlways, QuietInit, QuietNext, PTL DEF Spec
=============================================================================
