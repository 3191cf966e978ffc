----------------------------- MODULE GGExecute ------------------------------
(***************************************************************************)
(* gg-execute processes on one host, src/src/frontend/gg-execute.cc: each  *)
(* takes a lock on its thunk, fetches what the thunk reads, runs it, moves *)
(* the outputs to the blobs directory, enters them in the reductions       *)
(* directory and uploads them. The processes share the two directories     *)
(* with each other and with whoever started them, and may be killed        *)
(* between any two steps.                                                  *)
(*                                                                         *)
(* A file appears in a directory at once (atomic_create and move_file end  *)
(* in rename), so the directories are sets. Thunks are deterministic, so   *)
(* the entry of an output determines what it holds. The program a killed   *)
(* gg-execute leaves behind is left out: it writes to its own directory    *)
(* only, and delays whoever waits for the lock it has inherited.           *)
(***************************************************************************)
EXTENDS Naturals, Sequences, FiniteSets

CONSTANTS
    Proc,            \* the processes
    Thunk,           \* the thunks
    Jobs,            \* the thunks on each process' command line
    Needs,           \* values and executables of each thunk
    Result,          \* the hashes of each thunk's outputs, in their order
    Setups           \* the ways gg-execute may be set up: see setup

\* A process has a thunk to execute, and every thunk has an output: the main one.
ASSUME ExecuteAssumption ==
    /\ Jobs \in [Proc -> Seq(Thunk)]
    /\ \A p \in Proc : Len(Jobs[p]) > 0
    /\ DOMAIN Result = Thunk /\ DOMAIN Needs = Thunk
    /\ \A t \in Thunk : Len(Result[t]) \in Nat \ {0}
    /\ \A s \in Setups : s.rewrites \in BOOLEAN /\ s.threaded \in BOOLEAN

VARIABLES
    setup,        \* how gg-execute is set up; it does not change
    blobs,        \* files in .gg/blobs
    inode,        \* how often each thunk's file has been replaced
    reductions,   \* entries in .gg/reductions
    stored,       \* objects in the storage backend
    proc          \* each process: the step it is at, the index of its thunk, the file it has
                  \* open, its loop index, the objects to fetch, its exit status

vars == <<setup, blobs, inode, reductions, stored, proc>>

Flags == setup.flags          \* command line: "get", "put", "cleanup", "timelog"
Rewrites == setup.rewrites    \* does the parent write the thunks' files again?
Threaded == setup.threaded    \* does the backend transfer in threads (all but Jiffy)?
Faults == setup.faults        \* "fetch", "execute", "upload", "unseen", "kill", "reset"

\* The entry of output i is named "hash#tag"; entry 0 is the bare hash.
Entry(t, i) == [thunk |-> t, output |-> i]
Tags(t) == 1 .. Len(Result[t])
Outputs(t) == { Result[t][i] : i \in Tags(t) }

Step == {"idle", "open", "lock", "cleanup", "check", "fetch", "run", "grab", "enter",
         "upload", "log", "exited"}
Status == {"none", "Success", "OperationalFailure", "FetchDependenciesFailure",
           "ExecutionFailure", "UploadOutputFailure", "Aborted", "Killed"}

Init ==
    /\ setup \in Setups
    /\ blobs = setup.blobs
    /\ inode = [t \in Thunk |-> 0]
    /\ reductions = {}
    /\ stored = setup.stored
    /\ proc = [p \in Proc |-> [pc |-> "idle", job |-> 1, file |-> 0, at |-> 0,
                               want |-> {}, status |-> "none"]]

(***************************************************************************)
(* Steps of one process                                                    *)
(***************************************************************************)

At(p, pc) == proc[p].pc = pc
thunk(p) == Jobs[p][proc[p].job]

Goto(p, pc, at) == proc' = [proc EXCEPT ![p] = [@ EXCEPT !.pc = pc, !.at = at]]

Exit(p, status) == proc' = [proc EXCEPT ![p] = [@ EXCEPT !.pc = "exited", !.status = status]]

\* Mutant of Holding: the lock outlives its process.
HoldingForever(p) == proc[p].pc \notin {"idle", "open", "lock"}

\* The lock is held from flock until the file is closed.
Holding(p) == proc[p].pc \notin {"idle", "open", "lock", "exited"}

\* The parent's side of the fork: it writes the thunks and starts gg-execute.
Start(p) ==
    /\ At(p, "idle")
    /\ Goto(p, "open", 0)
    /\ LET written == IF Rewrites THEN { Jobs[p][i] : i \in DOMAIN Jobs[p] } ELSE {}
       IN /\ blobs' = blobs \cup written
          /\ inode' = [t \in Thunk |-> IF t \in written THEN inode[t] + 1 ELSE inode[t]]
    /\ UNCHANGED <<setup, reductions, stored>>

Open(p) ==
    /\ At(p, "open")
    /\ IF thunk(p) \in blobs
       THEN proc' = [proc EXCEPT ![p] = [@ EXCEPT !.pc = "lock", !.file = inode[thunk(p)]]]
       ELSE Exit(p, "OperationalFailure")
    /\ UNCHANGED <<setup, blobs, inode, reductions, stored>>

\* Mutant of Lock: nobody waits.
LockAtOnce(p) ==
    /\ At(p, "lock")
    /\ Goto(p, "cleanup", 0)
    /\ UNCHANGED <<setup, blobs, inode, reductions, stored>>

\* flock excludes whoever has opened the same file, not the same name.
Lock(p) ==
    /\ At(p, "lock")
    /\ \A q \in Proc : Holding(q) => \/ thunk(q) # thunk(p)
                                     \/ proc[q].file # proc[p].file
    /\ Goto(p, "cleanup", 0)
    /\ UNCHANGED <<setup, blobs, inode, reductions, stored>>

\* What do_cleanup leaves: the thunk and what it reads.
Kept(p) == {thunk(p)} \cup Needs[thunk(p)]

\* The thunk is read, by its name again, and the rest is removed if asked for.
Cleanup(p) ==
    /\ At(p, "cleanup")
    /\ IF thunk(p) \in blobs
       THEN /\ Goto(p, IF "get" \in Flags THEN "check" ELSE "run", 0)
            /\ blobs' = IF "cleanup" \in Flags THEN blobs \cap Kept(p) ELSE blobs
       ELSE Exit(p, "OperationalFailure") /\ UNCHANGED blobs
    /\ UNCHANGED <<setup, inode, reductions, stored>>

\* do_cleanup lists the directory and comes to a file that another process, which
\* cleans up at the same time, has removed.
CleanupFails(p) ==
    /\ At(p, "cleanup")
    /\ "cleanup" \in Flags
    /\ \E q \in Proc \ {p}, gone \in SUBSET (blobs \ Kept(p)) :
          /\ At(q, "cleanup") /\ ~ (gone \subseteq Kept(q))
          /\ blobs' = blobs \ gone
    /\ Exit(p, "OperationalFailure")
    /\ UNCHANGED <<setup, inode, reductions, stored>>

\* fetch_dependencies: what is missing is listed once, then fetched.
CheckDeps(p) ==
    /\ At(p, "check")
    /\ proc' = [proc EXCEPT ![p] = [@ EXCEPT !.pc = "fetch", !.want = Needs[thunk(p)] \ blobs]]
    /\ UNCHANGED <<setup, blobs, inode, reductions, stored>>

FetchOne(p) ==
    /\ At(p, "fetch")
    /\ \E o \in proc[p].want \cap stored :
          /\ blobs' = blobs \cup {o}
          /\ proc' = [proc EXCEPT ![p].want = @ \ {o}]
    /\ UNCHANGED <<setup, inode, reductions, stored>>

FetchDone(p) ==
    /\ At(p, "fetch")
    /\ proc[p].want = {}
    /\ Goto(p, "run", 0)
    /\ UNCHANGED <<setup, blobs, inode, reductions, stored>>

\* An exception in a transfer thread ends the process; one in the main thread
\* becomes an exit status.
TransferFailed(p, status) ==
    /\ Exit(p, IF Threaded THEN "Aborted" ELSE status)
    /\ UNCHANGED <<setup, blobs, inode, reductions, stored>>

FetchFails(p) ==
    /\ At(p, "fetch")
    /\ proc[p].want # {}
    /\ "fetch" \in Faults \/ ~ (proc[p].want \subseteq stored)
    /\ TransferFailed(p, "FetchDependenciesFailure")

\* Mutant of Run: the outputs are entered before they are moved.
RunWithoutGrabbing(p) ==
    /\ At(p, "run")
    /\ "timelog" \in Flags
    /\ Needs[thunk(p)] \subseteq blobs
    /\ Goto(p, "enter", Len(Result[thunk(p)]))
    /\ UNCHANGED <<setup, blobs, inode, reductions, stored>>

\* The thunk is executed in a directory of its own, over links to the blobs.
Run(p) ==
    /\ At(p, "run")
    /\ "timelog" \in Flags
    /\ Needs[thunk(p)] \subseteq blobs
    /\ Goto(p, "grab", 1)
    /\ UNCHANGED <<setup, blobs, inode, reductions, stored>>

\* timelog is dereferenced before the thunk is executed, with or without
\* --timelog: Optional's assertion fails.
RunAborts(p) ==
    /\ At(p, "run")
    /\ "timelog" \notin Flags
    /\ Exit(p, "Aborted")
    /\ UNCHANGED <<setup, blobs, inode, reductions, stored>>

RunFails(p) ==
    /\ At(p, "run")
    /\ "timelog" \in Flags
    /\ "execute" \in Faults \/ ~ (Needs[thunk(p)] \subseteq blobs)
    /\ Exit(p, "ExecutionFailure")
    /\ UNCHANGED <<setup, blobs, inode, reductions, stored>>

\* Mutant of Grab: the entries start from the first output.
GrabEntersFirst(p) ==
    /\ At(p, "grab")
    /\ blobs' = blobs \cup {Result[thunk(p)][proc[p].at]}
    /\ IF proc[p].at = Len(Result[thunk(p)])
       THEN Goto(p, "enter", 1)
       ELSE Goto(p, "grab", proc[p].at + 1)
    /\ UNCHANGED <<setup, inode, reductions, stored>>

\* An output is moved to the blobs directory, unless its content is there.
Grab(p) ==
    /\ At(p, "grab")
    /\ blobs' = blobs \cup {Result[thunk(p)][proc[p].at]}
    /\ IF proc[p].at = Len(Result[thunk(p)])
       THEN Goto(p, "enter", proc[p].at)
       ELSE Goto(p, "grab", proc[p].at + 1)
    /\ UNCHANGED <<setup, inode, reductions, stored>>

AfterEntries == IF "put" \in Flags THEN "upload" ELSE "log"

\* Mutant of Enter: the bare hash is entered before the main output's tag.
EnterBareFirst(p) ==
    /\ At(p, "enter")
    /\ reductions' = reductions \cup
          {Entry(thunk(p), CASE proc[p].at = 1 -> 0 [] proc[p].at = 0 -> 1 [] OTHER -> proc[p].at)}
    /\ IF proc[p].at = 0
       THEN Goto(p, AfterEntries, 0)
       ELSE Goto(p, "enter", proc[p].at - 1)
    /\ UNCHANGED <<setup, blobs, inode, stored>>

\* The cache entries, from the last output to the first, then the bare hash.
Enter(p) ==
    /\ At(p, "enter")
    /\ reductions' = reductions \cup {Entry(thunk(p), proc[p].at)}
    /\ IF proc[p].at = 0
       THEN Goto(p, AfterEntries, 0)
       ELSE Goto(p, "enter", proc[p].at - 1)
    /\ UNCHANGED <<setup, blobs, inode, stored>>

\* upload_output: the sizes of the outputs are logged before any is sent.
Measure(p) ==
    /\ At(p, "upload") /\ proc[p].at = 0
    /\ IF Outputs(thunk(p)) \subseteq blobs
       THEN Goto(p, "upload", 1)
       ELSE Exit(p, "UploadOutputFailure")
    /\ UNCHANGED <<setup, blobs, inode, reductions, stored>>

\* Then one output after the other is sent.
Uploading(p) ==
    At(p, "upload") /\ proc[p].at > 0 /\ Result[thunk(p)][proc[p].at] \in blobs
NextUpload(p) ==
    IF proc[p].at = Len(Result[thunk(p)])
    THEN Goto(p, "log", 0)
    ELSE Goto(p, "upload", proc[p].at + 1)

\* Mutant of UploadOne: the first output is taken for the last.
UploadAllButOne(p) ==
    /\ Uploading(p)
    /\ stored' = stored \cup {Result[thunk(p)][proc[p].at]}
    /\ Goto(p, "log", 0)
    /\ UNCHANGED <<setup, blobs, inode, reductions>>

UploadOne(p) ==
    /\ Uploading(p)
    /\ stored' = stored \cup {Result[thunk(p)][proc[p].at]}
    /\ NextUpload(p)
    /\ UNCHANGED <<setup, blobs, inode, reductions>>

\* The backend refuses an object and nobody looks at its answer: S3's, if it is
\* the batch's last one and arrives in pieces; Redis' error replies, always.
UploadUnseen(p) ==
    /\ Uploading(p)
    /\ "unseen" \in Faults /\ Threaded
    /\ NextUpload(p)
    /\ UNCHANGED <<setup, blobs, inode, reductions, stored>>

UploadFails(p) ==
    /\ At(p, "upload") /\ proc[p].at > 0
    /\ "upload" \in Faults \/ Result[thunk(p)][proc[p].at] \notin blobs
    /\ TransferFailed(p, "UploadOutputFailure")

\* The log is uploaded or printed, the thunk's file closed; then the next thunk.
Log(p) ==
    /\ At(p, "log")
    /\ IF proc[p].job = Len(Jobs[p])
       THEN Exit(p, "Success")
       ELSE proc' = [proc EXCEPT ![p] = [@ EXCEPT !.pc = "open", !.job = proc[p].job + 1]]
    /\ UNCHANGED <<setup, blobs, inode, reductions, stored>>

LogFails(p) ==
    /\ At(p, "log")
    /\ "timelog" \in Flags /\ Flags \cap {"get", "put"} # {}
    /\ "upload" \in Faults
    /\ TransferFailed(p, "OperationalFailure")

\* The process is killed, by its parent's end or for want of memory.
Kill(p) ==
    /\ "kill" \in Faults
    /\ proc[p].pc \notin {"idle", "exited"}
    /\ Exit(p, "Killed")
    /\ UNCHANGED <<setup, blobs, inode, reductions, stored>>

\* The execute server is asked to empty its directories; it does not wait for
\* the processes it has started.
Reset ==
    /\ "reset" \in Faults
    /\ blobs' = {} /\ reductions' = {}
    /\ UNCHANGED <<setup, inode, stored, proc>>

Progress(p) ==
    \/ Open(p) \/ Lock(p) \/ Cleanup(p) \/ CleanupFails(p)
    \/ CheckDeps(p) \/ FetchOne(p) \/ FetchDone(p) \/ FetchFails(p)
    \/ Run(p) \/ RunAborts(p) \/ RunFails(p) \/ Grab(p) \/ Enter(p)
    \/ Measure(p) \/ UploadOne(p) \/ UploadUnseen(p) \/ UploadFails(p)
    \/ Log(p) \/ LogFails(p)

Next ==
    \/ \E p \in Proc : Start(p) \/ Progress(p) \/ Kill(p)
    \/ Reset
    \/ (\A p \in Proc : At(p, "exited")) /\ UNCHANGED vars

Spec == Init /\ [][Next]_vars

\* The operating system runs every process that is not blocked, and flock gives a
\* free lock to one of those that wait for it. Each process locks as often as it
\* has thunks, so nobody is passed over for ever.
FairSpec == Spec /\ \A p \in Proc : WF_vars(Start(p)) /\ WF_vars(Progress(p))

-----------------------------------------------------------------------------
\* The type invariant.
TypeOK ==
    /\ setup \in Setups
    /\ inode \in [Thunk -> Nat]
    /\ \A e \in reductions : e.thunk \in Thunk /\ e.output \in {0} \cup Tags(e.thunk)
    /\ DOMAIN proc = Proc
    /\ \A p \in Proc : /\ proc[p].pc \in Step
                       /\ proc[p].job \in DOMAIN Jobs[p]
                       /\ proc[p].status \in Status
                       /\ proc[p].status = "none" <=> proc[p].pc # "exited"

Complete(t) == \A i \in Tags(t) : Entry(t, i) \in reductions

\* Whoever finds the bare hash of a thunk in the cache finds all of its outputs,
\* even if the process that entered them was killed on the way: the Reductor
\* stops with "inconsistent cache entries" otherwise (gg-execute.cc:158-173,
\* reductor.cc:226-235). A reset of the execute server breaks this.
BareEntryIsLast ==
    "reset" \notin Faults => \A t \in Thunk : Entry(t, 0) \in reductions => Complete(t)

\* What the cache names is on disk: its size and mode are read without asking
\* (gg-execute.cc:133-173, gg-execute-server.cc:142-150). It is not where
\* --cleanup or a reset removes blobs that others have entered.
EntriesHaveBlobs ==
    "cleanup" \notin Flags /\ "reset" \notin Faults =>
        \A e \in reductions : e.output # 0 => Result[e.thunk][e.output] \in blobs

\* The thunks a process has been through: all of them if it exits with status 0.
Finished(p) ==
    { Jobs[p][i] : i \in { j \in DOMAIN Jobs[p] :
                              j < proc[p].job \/ proc[p].status = "Success" } }

\* A process goes on to its next thunk, and exits with status 0, only when the
\* entries the engine will look up are there (gg-execute.cc:401-455,
\* engine_local.cc:25-31).
FinishedIsEntered ==
    "reset" \notin Faults => \A p \in Proc : \A t \in Finished(p) : Complete(t)

\* ... and, with --put-output, only when the outputs are in the storage backend:
\* other workers will fetch them from there (gg-execute.cc:291-330, 434-437). This
\* takes a backend whose refusals are seen, and holds across resets and cleanups.
FinishedIsStored ==
    "put" \in Flags /\ "unseen" \notin Faults =>
        \A p \in Proc : \A t \in Finished(p) : Outputs(t) \subseteq stored

\* Two processes never work on the same thunk at the same time (the lock of
\* gg-execute.cc:402-407), unless the parent replaces the file they lock.
LockExcludes ==
    ~ Rewrites =>
        \A p, q \in Proc : Holding(p) /\ Holding(q) /\ thunk(p) = thunk(q) => p = q

\* Every process ends, whoever holds the lock it waits for and however that one
\* ends (gg-execute.cc:407).
EveryoneExits == \A p \in Proc : <>(proc[p].pc = "exited")
=============================================================================
