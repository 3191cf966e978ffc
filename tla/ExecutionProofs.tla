--------------------------- MODULE ExecutionProofs ---------------------------
(***************************************************************************)
(* Proofs about GGExecute and RemoteHandler, for any number of processes,  *)
(* requests and thunks.                                                    *)
(*                                                                         *)
(* gg-execute: the lock excludes as long as nobody replaces a thunk's      *)
(* file, and the cache entries of a thunk are complete when its bare hash  *)
(* is entered and when its process goes on; what the cache names is on     *)
(* disk, and what a process has finished is in the backend. Every action   *)
(* is first reduced to the kind of step it makes; the invariants are then  *)
(* proved from the kinds.                                                  *)
(*                                                                         *)
(* The handlers, which run gg-execute: on Lambda an entry never names a    *)
(* blob that is gone, a fatal verdict has one of the causes the property   *)
(* names, and a success means that the outputs are in the backend.         *)
(* HandlerInv ties the one request that is served to the directories, and  *)
(* the entries to the requests that made them; UploadInv ties the entries  *)
(* to the backend.                                                         *)
(***************************************************************************)
EXTENDS RemoteHandler, WellFoundedInduction, TLAPS

\* A process' state, and what ties its parts together: its loop index stays
\* within the outputs of the thunk it is at.
State == [pc : Step, job : Nat, file : Nat, at : Nat,
          want : SUBSET UNION { Needs[t] : t \in Thunk }, status : Status]

Local(p) ==
    /\ proc[p].job \in 1 .. Len(Jobs[p])
    /\ proc[p].status = "none" <=> proc[p].pc # "exited"
    /\ proc[p].pc = "enter" => proc[p].at <= Len(Result[thunk(p)])
    /\ proc[p].pc = "grab" => proc[p].at \in Tags(thunk(p))
    /\ proc[p].pc = "upload" => proc[p].at <= Len(Result[thunk(p)])

ProcType ==
    /\ setup \in Setups
    /\ inode \in [Thunk -> Nat]
    /\ \A e \in reductions : e.thunk \in Thunk /\ e.output \in {0} \cup Tags(e.thunk)
    /\ proc \in [Proc -> State]
    /\ \A p \in Proc : Local(p)

(***************************************************************************)
(* The kinds of steps                                                      *)
(***************************************************************************)

\* Only p moves, and it keeps a state.
Moves(p) ==
    /\ proc' \in [Proc -> State]
    /\ \A q \in Proc : q # p => proc'[q] = proc[q]

\* The same thunk, the same file, no status, no new entry.
Same(p) ==
    /\ proc'[p].job = proc[p].job /\ proc'[p].status = proc[p].status
    /\ proc[p].pc # "exited"
    /\ inode' = inode /\ reductions' = reductions

Fails(p) ==
    /\ proc'[p].pc = "exited" /\ proc'[p].status \in Status \ {"none", "Success"}
    /\ proc'[p].job = proc[p].job /\ proc'[p].file = proc[p].file
    /\ inode' = inode /\ reductions' = reductions

Starts(p) ==
    /\ proc[p].pc = "idle" /\ proc'[p].pc = "open"
    /\ proc'[p].job = proc[p].job /\ proc'[p].status = proc[p].status
    /\ proc'[p].file = proc[p].file
    /\ inode' \in [Thunk -> Nat] /\ (~ Rewrites => inode' = inode)
    /\ reductions' = reductions

Opens(p) ==
    /\ Same(p)
    /\ proc'[p].pc = "lock" /\ proc'[p].file = inode[thunk(p)]

Locks(p) ==
    /\ Same(p) /\ proc'[p].file = proc[p].file
    /\ \A q \in Proc : Holding(q) => \/ thunk(q) # thunk(p)
                                     \/ proc[q].file # proc[p].file
    /\ proc'[p].pc = "cleanup"

\* An output is among the blobs; the next one, or the entries.
Grabs(p) ==
    /\ proc[p].pc = "grab"
    /\ Result[thunk(p)][proc[p].at] \in blobs'
    /\ \/ /\ proc[p].at # Len(Result[thunk(p)])
          /\ proc'[p].pc = "grab" /\ proc'[p].at = proc[p].at + 1
       \/ /\ proc[p].at = Len(Result[thunk(p)])
          /\ proc'[p].pc = "enter" /\ proc'[p].at = proc[p].at

\* With the lock in its hands, before the entries.
Works(p) ==
    /\ Same(p) /\ proc'[p].file = proc[p].file
    /\ Holding(p)
    /\ \/ proc'[p].pc \in {"check", "fetch", "run"}
       \/ proc'[p].pc = "grab" /\ proc'[p].at = 1
       \/ Grabs(p)

Enters(p) ==
    /\ Holding(p) /\ proc[p].pc = "enter"
    /\ proc'[p].job = proc[p].job /\ proc'[p].status = proc[p].status
    /\ proc'[p].file = proc[p].file
    /\ inode' = inode
    /\ reductions' = reductions \cup {Entry(thunk(p), proc[p].at)}
    /\ \/ proc[p].at = 0 /\ proc'[p].pc = "upload" /\ proc'[p].at = 0
       \/ proc[p].at = 0 /\ proc'[p].pc = "log" /\ "put" \notin Flags
       \/ proc[p].at > 0 /\ proc'[p].pc = "enter" /\ proc'[p].at = proc[p].at - 1

\* An output is in the backend, unless its refusal was not seen.
Sends(p) ==
    /\ proc[p].at > 0
    /\ "unseen" \notin Faults => Result[thunk(p)][proc[p].at] \in stored'
    /\ \/ /\ proc[p].at # Len(Result[thunk(p)])
          /\ proc'[p].pc = "upload" /\ proc'[p].at = proc[p].at + 1
       \/ /\ proc[p].at = Len(Result[thunk(p)])
          /\ proc'[p].pc = "log"

Uploads(p) ==
    /\ Same(p) /\ proc'[p].file = proc[p].file
    /\ Holding(p) /\ proc[p].pc = "upload"
    /\ \/ proc[p].at = 0 /\ proc'[p].pc = "upload" /\ proc'[p].at = 1
       \/ Sends(p)

GoesOn(p) ==
    /\ proc[p].pc = "log"
    /\ proc'[p].file = proc[p].file
    /\ inode' = inode /\ reductions' = reductions
    /\ \/ /\ proc'[p].pc = "exited" /\ proc'[p].status = "Success"
          /\ proc'[p].job = proc[p].job /\ proc[p].job = Len(Jobs[p])
       \/ /\ proc'[p].pc = "open" /\ proc'[p].status = proc[p].status
          /\ proc'[p].job = proc[p].job + 1 /\ proc[p].job # Len(Jobs[p])

Kind(p) ==
    /\ Moves(p)
    /\ \/ Fails(p) \/ Starts(p) \/ Opens(p) \/ Locks(p) \/ Works(p)
       \/ Enters(p) \/ Uploads(p) \/ GoesOn(p)

LEMMA ThunkType ==
    ASSUME NEW p \in Proc, NEW j \in 1 .. Len(Jobs[p])
    PROVE  /\ Jobs[p][j] \in Thunk
           /\ Len(Result[Jobs[p][j]]) \in Nat \ {0}
           /\ Len(Jobs[p]) \in Nat
BY ExecuteAssumption

LEMMA GotoMoves ==
    ASSUME ProcType, NEW p \in Proc, NEW pc \in Step, NEW at \in Nat, Goto(p, pc, at)
    PROVE  /\ Moves(p)
           /\ proc'[p].pc = pc /\ proc'[p].at = at
           /\ proc'[p].job = proc[p].job /\ proc'[p].status = proc[p].status
           /\ proc'[p].file = proc[p].file
BY DEF ProcType, State, Goto, Moves

LEMMA ExitMoves ==
    ASSUME ProcType, NEW p \in Proc, NEW status \in Status, Exit(p, status)
    PROVE  /\ Moves(p)
           /\ proc'[p].pc = "exited" /\ proc'[p].status = status
           /\ proc'[p].job = proc[p].job /\ proc'[p].file = proc[p].file
<1>1. "exited" \in Step
  BY DEF Step
<1> QED
  BY <1>1 DEF ProcType, State, Exit, Moves

LEMMA ExitFails ==
    ASSUME ProcType, NEW p \in Proc, NEW status, Exit(p, status),
           status \in {"OperationalFailure", "FetchDependenciesFailure", "ExecutionFailure",
                       "UploadOutputFailure", "Aborted", "Killed"},
           inode' = inode, reductions' = reductions
    PROVE  Kind(p)
<1>1. status \in Status /\ status \notin {"none", "Success"}
  BY DEF Status
<1> QED
  BY <1>1, ExitMoves DEF Kind, Fails

LEMMA StartKind == ASSUME ProcType, NEW p \in Proc, Start(p) PROVE Kind(p)
<1>1. Goto(p, "open", 0) /\ "open" \in Step
  BY DEF Start, Step
<1>2. inode' \in [Thunk -> Nat] /\ (~ Rewrites => inode' = inode)
  BY DEF Start, ProcType
<1> QED
  BY <1>1, <1>2, GotoMoves DEF Kind, Starts, Start, At

LEMMA OpenKind == ASSUME ProcType, NEW p \in Proc, Open(p) PROVE Kind(p)
<1>1. CASE thunk(p) \in blobs
  <2>1. inode[thunk(p)] \in Nat
    BY ThunkType DEF ProcType, Local, thunk
  <2>2. proc' = [proc EXCEPT ![p] = [@ EXCEPT !.pc = "lock", !.file = inode[thunk(p)]]]
    BY <1>1 DEF Open
  <2>3. "lock" \in Step
    BY DEF Step
  <2>4. /\ Moves(p)
        /\ proc'[p].pc = "lock" /\ proc'[p].file = inode[thunk(p)]
        /\ proc'[p].job = proc[p].job /\ proc'[p].status = proc[p].status
    BY <2>1, <2>2, <2>3 DEF ProcType, State, Moves
  <2> QED
    BY <2>4 DEF Kind, Opens, Same, Open, At
<1>2. CASE thunk(p) \notin blobs
  BY <1>2, ExitFails DEF Open
<1> QED
  BY <1>1, <1>2

LEMMA LockKind == ASSUME ProcType, NEW p \in Proc, Lock(p) PROVE Kind(p)
<1>1. "cleanup" \in Step
  BY DEF Step
<1> QED
  BY <1>1, GotoMoves DEF Lock, Kind, Locks, Same, At

\* Fetching and running: the process moves on within its critical section.
LEMMA WorkKind ==
    ASSUME ProcType, NEW p \in Proc, Holding(p), NEW pc \in {"check", "fetch", "run"},
           Goto(p, pc, 0), inode' = inode, reductions' = reductions
    PROVE  Kind(p)
<1>1. pc \in Step
  BY DEF Step
<1> QED
  BY <1>1, GotoMoves DEF Kind, Works, Same, Holding

LEMMA CleanupKind ==
    ASSUME ProcType, NEW p \in Proc, Cleanup(p) \/ CleanupFails(p) PROVE Kind(p)
<1>1. CASE Cleanup(p) /\ thunk(p) \in blobs
  BY <1>1, WorkKind DEF Cleanup, At, Holding
<1>2. CASE Cleanup(p) /\ thunk(p) \notin blobs
  BY <1>2, ExitFails DEF Cleanup
<1>3. CASE CleanupFails(p)
  BY <1>3, ExitFails DEF CleanupFails
<1> QED
  BY <1>1, <1>2, <1>3

LEMMA FetchKind ==
    ASSUME ProcType, NEW p \in Proc,
           CheckDeps(p) \/ FetchOne(p) \/ FetchDone(p) \/ FetchFails(p)
    PROVE  Kind(p)
<1>t. thunk(p) \in Thunk
  BY ThunkType DEF ProcType, Local, thunk
<1>1. CASE CheckDeps(p)
  <2>1. Needs[thunk(p)] \ blobs \in SUBSET UNION { Needs[t] : t \in Thunk }
    BY <1>t
  <2>2. "fetch" \in Step
    BY DEF Step
  <2>3. proc' = [proc EXCEPT ![p] = [@ EXCEPT !.pc = "fetch", !.want = Needs[thunk(p)] \ blobs]]
    BY <1>1 DEF CheckDeps
  <2>4. /\ Moves(p)
        /\ proc'[p].pc = "fetch" /\ proc'[p].file = proc[p].file
        /\ proc'[p].job = proc[p].job /\ proc'[p].status = proc[p].status
    BY <2>1, <2>2, <2>3 DEF ProcType, State, Moves
  <2> QED
    BY <1>1, <2>4 DEF CheckDeps, Kind, Works, Same, At, Holding
<1>2. CASE FetchOne(p)
  <2>1. PICK o \in proc[p].want \cap stored : proc' = [proc EXCEPT ![p].want = @ \ {o}]
    BY <1>2 DEF FetchOne
  <2>2. /\ Moves(p)
        /\ proc'[p].pc = proc[p].pc /\ proc'[p].file = proc[p].file
        /\ proc'[p].job = proc[p].job /\ proc'[p].status = proc[p].status
    BY <2>1 DEF ProcType, State, Moves
  <2> QED
    BY <1>2, <2>2 DEF FetchOne, Kind, Works, Same, At, Holding
<1>3. CASE FetchDone(p)
  BY <1>3, WorkKind DEF FetchDone, At, Holding
<1>4. CASE FetchFails(p)
  BY <1>4, ExitFails DEF FetchFails, TransferFailed
<1> QED
  BY <1>1, <1>2, <1>3, <1>4

LEMMA RunKind ==
    ASSUME ProcType, NEW p \in Proc, Run(p) \/ RunAborts(p) \/ RunFails(p) \/ Grab(p)
    PROVE  Kind(p)
<1>t. Len(Result[thunk(p)]) \in Nat \ {0} /\ proc[p].at \in Nat
  BY ThunkType DEF ProcType, Local, State, thunk
<1>s. "grab" \in Step /\ "enter" \in Step
  BY DEF Step
<1>1. CASE Run(p)
  BY <1>1, <1>s, GotoMoves DEF Run, Kind, Works, Same, At, Holding
<1>2. CASE RunAborts(p)
  BY <1>2, ExitFails DEF RunAborts
<1>3. CASE RunFails(p)
  BY <1>3, ExitFails DEF RunFails
<1>4. CASE Grab(p)
  <2>2. CASE proc[p].at = Len(Result[thunk(p)])
    BY <1>4, <1>s, <1>t, <2>2, GotoMoves DEF Grab, Kind, Works, Grabs, Same, At, Holding
  <2>3. CASE proc[p].at # Len(Result[thunk(p)])
    <3>1. proc[p].at + 1 \in Nat
      BY <1>t
    <3> QED
      BY <1>4, <1>s, <2>3, <3>1, GotoMoves DEF Grab, Kind, Works, Grabs, Same, At, Holding
  <2> QED
    BY <2>2, <2>3
<1> QED
  BY <1>1, <1>2, <1>3, <1>4

LEMMA EnterKind == ASSUME ProcType, NEW p \in Proc, Enter(p) PROVE Kind(p)
<1>t. Len(Result[thunk(p)]) \in Nat \ {0} /\ proc[p].at \in Nat
  BY ThunkType DEF ProcType, Local, State, thunk
<1>s. "upload" \in Step /\ "enter" \in Step /\ "log" \in Step
  BY DEF Step
<1>h. Holding(p) /\ proc[p].pc = "enter"
  BY DEF Enter, At, Holding
<1>1. CASE proc[p].at = 0
  <2>1. /\ Goto(p, AfterEntries, 0)
        /\ AfterEntries = "upload" \/ (AfterEntries = "log" /\ "put" \notin Flags)
    BY <1>1 DEF Enter, AfterEntries
  <2> QED
    BY <1>1, <1>h, <1>s, <2>1, GotoMoves DEF Enter, Kind, Enters
<1>2. CASE proc[p].at # 0
  <2>1. Goto(p, "enter", proc[p].at - 1) /\ proc[p].at - 1 \in Nat /\ proc[p].at > 0
    BY <1>2, <1>t DEF Enter
  <2> QED
    BY <1>h, <1>s, <2>1, GotoMoves DEF Enter, Kind, Enters
<1> QED
  BY <1>1, <1>2

LEMMA UploadKind ==
    ASSUME ProcType, NEW p \in Proc,
           Measure(p) \/ UploadOne(p) \/ UploadUnseen(p) \/ UploadFails(p)
    PROVE  Kind(p)
<1>t. Len(Result[thunk(p)]) \in Nat \ {0} /\ proc[p].at \in Nat
  BY ThunkType DEF ProcType, Local, State, thunk
<1>s. "upload" \in Step /\ "log" \in Step
  BY DEF Step
<1>1. CASE UploadFails(p)
  BY <1>1, ExitFails DEF UploadFails, TransferFailed
<1>2. CASE UploadOne(p) \/ UploadUnseen(p)
  <2>1. /\ proc[p].pc = "upload" /\ Holding(p) /\ proc[p].at > 0 /\ NextUpload(p)
        /\ "unseen" \notin Faults => Result[thunk(p)][proc[p].at] \in stored'
        /\ inode' = inode /\ reductions' = reductions
    BY <1>2 DEF UploadOne, UploadUnseen, Uploading, At, Holding
  <2>3. CASE proc[p].at = Len(Result[thunk(p)])
    BY <1>s, <2>1, <2>3, GotoMoves DEF NextUpload, Kind, Uploads, Sends, Same
  <2>4. CASE proc[p].at # Len(Result[thunk(p)])
    <3>1. proc[p].at + 1 \in Nat
      BY <1>t
    <3> QED
      BY <1>s, <2>1, <2>4, <3>1, GotoMoves DEF NextUpload, Kind, Uploads, Sends, Same
  <2> QED
    BY <2>3, <2>4
<1>3. CASE Measure(p)
  <2>1. CASE Outputs(thunk(p)) \subseteq blobs
    BY <1>3, <1>s, <1>t, <2>1, GotoMoves DEF Measure, Kind, Uploads, Same, At, Holding
  <2>2. CASE ~ (Outputs(thunk(p)) \subseteq blobs)
    BY <1>3, <2>2, ExitFails DEF Measure
  <2> QED
    BY <2>1, <2>2
<1> QED
  BY <1>1, <1>2, <1>3

LEMMA LogKind ==
    ASSUME ProcType, NEW p \in Proc, Log(p) \/ LogFails(p) PROVE Kind(p)
<1>1. CASE LogFails(p)
  BY <1>1, ExitFails DEF LogFails, TransferFailed
<1>2. CASE Log(p) /\ proc[p].job = Len(Jobs[p])
  <2>1. "Success" \in Status
    BY DEF Status
  <2> QED
    BY <1>2, <2>1, ExitMoves DEF Log, Kind, GoesOn, At
<1>3. CASE Log(p) /\ proc[p].job # Len(Jobs[p])
  <2>j. PICK j \in Nat : j = proc[p].job + 1
    BY DEF ProcType, State
  <2>1. proc' = [proc EXCEPT ![p] = [@ EXCEPT !.pc = "open", !.job = j]]
    <3>1. proc' = [proc EXCEPT ![p] = [@ EXCEPT !.pc = "open", !.job = proc[p].job + 1]]
      BY <1>3, Zenon DEF Log
    <3> QED
      BY <2>j, <3>1, Zenon
  <2>2. "open" \in Step
    BY DEF Step
  <2>3. /\ Moves(p)
        /\ proc'[p].pc = "open" /\ proc'[p].job = j
        /\ proc'[p].status = proc[p].status /\ proc'[p].file = proc[p].file
    BY <2>1, <2>2 DEF ProcType, State, Moves
  <2> QED
    BY <1>3, <2>3, <2>j DEF Log, Kind, GoesOn, At
<1> QED
  BY <1>1, <1>2, <1>3

LEMMA ProgressKind ==
    ASSUME ProcType, NEW p \in Proc, Progress(p) \/ Kill(p) PROVE Kind(p)
<1>1. CASE Progress(p)
  BY <1>1, OpenKind, LockKind, CleanupKind, FetchKind, RunKind, EnterKind, UploadKind, LogKind
     DEF Progress
<1>2. CASE Kill(p)
  BY <1>2, ExitFails DEF Kill
<1> QED
  BY <1>1, <1>2

\* Every step but a reset is of one of the kinds, or changes nothing of these.
LEMMA NextKind ==
    ASSUME ProcType, [Next]_vars
    PROVE  \/ \E p \in Proc : Kind(p)
           \/ Reset
           \/ UNCHANGED <<inode, reductions, proc>>
BY ProgressKind, StartKind DEF Next, vars

\* The setup is chosen once.
LEMMA SetupStays == ASSUME [Next]_vars PROVE UNCHANGED setup
<1>1. ASSUME NEW p \in Proc, Start(p) \/ Kill(p) PROVE UNCHANGED setup
  BY <1>1 DEF Start, Kill
<1>2. ASSUME NEW p \in Proc, Progress(p) PROVE UNCHANGED setup
  BY <1>2 DEF Progress, Open, Lock, Cleanup, CleanupFails, CheckDeps, FetchOne, FetchDone,
              FetchFails, TransferFailed, Run, RunAborts, RunFails, Grab, Enter, Measure,
              UploadOne, UploadUnseen, UploadFails, Log, LogFails
<1> QED
  BY <1>1, <1>2 DEF Next, Reset, vars

(***************************************************************************)
(* Types                                                                   *)
(***************************************************************************)

LEMMA ProcTypeInit == Init => ProcType
<1> SUFFICES ASSUME Init PROVE ProcType
  OBVIOUS
<1>1. \A p \in Proc : Len(Jobs[p]) \in Nat \ {0}
  BY ExecuteAssumption
<1> QED
  BY <1>1 DEF Init, ProcType, Local, State, Step, Status

LEMMA ProcTypeNext == ProcType /\ [Next]_vars => ProcType'
<1> SUFFICES ASSUME ProcType, [Next]_vars PROVE ProcType'
  OBVIOUS
<1>0. setup' \in Setups
  BY SetupStays DEF ProcType
<1>1. ASSUME NEW p \in Proc, Kind(p) PROVE ProcType'
  <2>t. /\ thunk(p) \in Thunk /\ Len(Result[thunk(p)]) \in Nat \ {0}
        /\ proc[p].at \in Nat /\ proc[p].job \in 1 .. Len(Jobs[p]) /\ Len(Jobs[p]) \in Nat
    BY ThunkType DEF ProcType, Local, State, thunk
  <2>1. \A q \in Proc : q # p => Local(q)'
    BY <1>1 DEF Kind, Moves, ProcType, Local, thunk
  <2>2. Local(p)'
    <3>1. CASE Fails(p)
      BY <3>1 DEF ProcType, Local, Fails
    <3>2. CASE Starts(p) \/ Opens(p) \/ Locks(p)
      BY <3>2 DEF ProcType, Local, Starts, Opens, Locks, Same
    <3>3. CASE Works(p)
      BY <3>3, <2>t DEF ProcType, Local, Works, Grabs, Same, thunk, Tags
    <3>4. CASE Enters(p)
      <4>1. thunk(p)' = thunk(p)
        BY <3>4 DEF Enters, thunk
      <4>2. proc[p].at <= Len(Result[thunk(p)]) /\ proc[p].status = "none"
        BY <3>4 DEF ProcType, Local, Enters
      <4>3. proc'[p].pc = "enter" => proc'[p].at <= Len(Result[thunk(p)])
        BY <3>4, <2>t, <4>2 DEF Enters
      <4>4. proc'[p].pc = "upload" => proc'[p].at <= Len(Result[thunk(p)])
        BY <3>4, <2>t DEF Enters
      <4> QED
        BY <3>4, <2>t, <4>1, <4>2, <4>3, <4>4 DEF Local, Enters
    <3>5. CASE Uploads(p)
      BY <3>5, <2>t DEF ProcType, Local, Uploads, Sends, Same, thunk
    <3>6. CASE GoesOn(p)
      BY <3>6, <2>t DEF ProcType, Local, GoesOn
    <3> QED
      BY <1>1, <3>1, <3>2, <3>3, <3>4, <3>5, <3>6 DEF Kind
  <2>3. inode' \in [Thunk -> Nat]
    BY <1>1 DEF Kind, ProcType, Fails, Starts, Opens, Locks, Works, Enters, Uploads, GoesOn, Same
  <2>4. (\A e \in reductions : e.thunk \in Thunk /\ e.output \in {0} \cup Tags(e.thunk))'
    <3>1. CASE Enters(p)
      <4>1. proc[p].at \in {0} \cup Tags(thunk(p))
        BY <3>1, <2>t DEF ProcType, Local, Enters, Tags
      <4> QED
        BY <3>1, <4>1, <2>t DEF ProcType, Enters, Entry, Tags
    <3>2. CASE reductions' = reductions
      BY <3>2 DEF ProcType, Tags
    <3> QED
      BY <1>1, <3>1, <3>2 DEF Kind, Fails, Starts, Opens, Locks, Works, Uploads, GoesOn, Same
  <2> QED
    BY <1>0, <1>1, <2>1, <2>2, <2>3, <2>4 DEF Kind, Moves, ProcType
<1>2. CASE Reset
  BY <1>0, <1>2 DEF Reset, ProcType, Local, thunk
<1>3. CASE UNCHANGED <<inode, reductions, proc>>
  BY <1>0, <1>3 DEF ProcType, Local, thunk, Tags
<1> QED
  BY <1>1, <1>2, <1>3, NextKind

LEMMA ProcTypeAlways == Spec => []ProcType
BY ProcTypeInit, ProcTypeNext, PTL DEF Spec

\* Every state of the processes has its type, and a status is there from the exit
\* on and not before (gg-execute.cc:344-473).
THEOREM ExecuteTypeCorrect == Spec => []TypeOK
<1>1. ProcType => TypeOK
  <2> SUFFICES ASSUME ProcType PROVE TypeOK
    OBVIOUS
  <2>1. \A p \in Proc : DOMAIN Jobs[p] = 1 .. Len(Jobs[p])
    BY ExecuteAssumption
  <2>2. \A p \in Proc : /\ proc[p].pc \in Step /\ proc[p].status \in Status
                        /\ proc[p].job \in DOMAIN Jobs[p]
    BY <2>1 DEF ProcType, State, Local
  <2> QED
    BY <2>2 DEF ProcType, Local, TypeOK
<1> QED
  BY <1>1, ProcTypeAlways, PTL

(***************************************************************************)
(* The lock                                                                *)
(***************************************************************************)

\* Nobody replaces a file, so everyone has opened the same one.
LockInv ==
    ~ Rewrites => /\ inode = [t \in Thunk |-> 0]
                  /\ \A p \in Proc : proc[p].file = 0
                  /\ LockExcludes

LEMMA LockInvNext == ProcType /\ LockInv /\ [Next]_vars => LockInv'
<1> SUFFICES ASSUME ProcType, LockInv, [Next]_vars, ~ Rewrites PROVE LockInv'
  BY SetupStays DEF LockInv, Rewrites
<1>1. ASSUME NEW p \in Proc, Kind(p) PROVE LockInv'
  <2>t. thunk(p) \in Thunk
    BY ThunkType DEF ProcType, Local, thunk
  <2>1. inode' = inode
    BY <1>1 DEF Kind, Fails, Starts, Opens, Locks, Works, Enters, Uploads, GoesOn, Same
  <2>2. proc'[p].file = 0
    BY <1>1, <2>t DEF LockInv, Kind, Fails, Starts, Opens, Locks, Works, Enters, Uploads, GoesOn
  <2>3. \A q \in Proc : q # p => proc'[q] = proc[q]
    BY <1>1 DEF Kind, Moves
  <2>4. Holding(p)' => /\ thunk(p)' = thunk(p)
                       /\ \/ Holding(p)
                          \/ \A q \in Proc : Holding(q) => thunk(q) # thunk(p)
    BY <1>1 DEF LockInv, Kind, Fails, Starts, Opens, Locks, Works, Grabs, Enters, Uploads,
                Sends, GoesOn, Same, Holding, thunk
  <2>5. \A q \in Proc : q # p => (Holding(q)' <=> Holding(q)) /\ thunk(q)' = thunk(q)
    BY <2>3 DEF Holding, thunk
  <2>6. LockExcludes'
    BY <2>4, <2>5 DEF LockInv, LockExcludes
  <2> QED
    BY <2>1, <2>2, <2>3, <2>6 DEF LockInv
<1>2. CASE UNCHANGED <<inode, proc>>
  BY <1>2 DEF LockInv, LockExcludes, Holding, thunk
<1> QED
  BY <1>1, <1>2, NextKind DEF Reset

\* As long as nobody writes a thunk's file again, no two processes work on the
\* same thunk (the lock of gg-execute.cc:402-407).
THEOREM LockIsExclusive == Spec => []LockExcludes
<1>1. Init => LockInv
  BY DEF Init, LockInv, LockExcludes, Holding
<1>2. ProcType /\ LockInv /\ [Next]_vars => LockInv'
  BY LockInvNext
<1>3. LockInv => LockExcludes
  BY DEF LockInv, LockExcludes
<1> QED
  BY <1>1, <1>2, <1>3, ProcTypeAlways, PTL DEF Spec

(***************************************************************************)
(* The cache entries                                                       *)
(***************************************************************************)

\* While its entries are made, those of the outputs after the loop index are there;
\* once they are made, all of them, and all of those of its earlier thunks.
Entered(p) ==
    /\ proc[p].pc = "enter" => \A i \in Tags(thunk(p)) :
                                  i > proc[p].at => Entry(thunk(p), i) \in reductions
    /\ proc[p].pc \in {"upload", "log"} \/ proc[p].status = "Success" => Complete(thunk(p))
    /\ proc[p].status = "Success" => proc[p].job = Len(Jobs[p])
    /\ \A j \in 1 .. Len(Jobs[p]) : j < proc[p].job => Complete(Jobs[p][j])

EnterInv == "reset" \notin Faults => BareEntryIsLast /\ \A p \in Proc : Entered(p)

\* An entry that is there stays there.
LEMMA CompleteStays ==
    ASSUME NEW t, Complete(t), reductions \subseteq reductions'
    PROVE  Complete(t)'
BY DEF Complete

LEMMA EnteredStays ==
    ASSUME NEW q \in Proc, Entered(q), proc'[q] = proc[q], reductions \subseteq reductions'
    PROVE  Entered(q)'
<1>1. thunk(q)' = thunk(q)
  BY DEF thunk
<1> QED
  BY <1>1, CompleteStays DEF Entered

LEMMA EnterInvNext == ProcType /\ EnterInv /\ [Next]_vars => EnterInv'
<1> SUFFICES ASSUME ProcType, EnterInv, [Next]_vars, "reset" \notin Faults PROVE EnterInv'
  BY SetupStays DEF EnterInv, Faults
<1>1. ASSUME NEW p \in Proc, Kind(p) PROVE EnterInv'
  <2>t. /\ thunk(p) \in Thunk /\ Len(Result[thunk(p)]) \in Nat \ {0}
        /\ proc[p].at \in Nat /\ proc[p].job \in 1 .. Len(Jobs[p]) /\ Len(Jobs[p]) \in Nat
        /\ thunk(p) = Jobs[p][proc[p].job]
    BY ThunkType DEF ProcType, Local, State, thunk
  <2>e. Entered(p)
    BY DEF EnterInv
  <2>1. reductions \subseteq reductions'
    BY <1>1 DEF Kind, Fails, Starts, Opens, Locks, Works, Enters, Uploads, GoesOn, Same
  <2>2. \A q \in Proc : q # p => Entered(q)'
    BY <1>1, <2>1, EnteredStays DEF EnterInv, Kind, Moves
  <2>3. ASSUME ~ Enters(p), ~ GoesOn(p) PROVE Entered(p)'
    <3>1. proc'[p].job = proc[p].job /\ reductions' = reductions
      BY <1>1, <2>3 DEF Kind, Fails, Starts, Opens, Locks, Works, Uploads, Same
    <3>2. thunk(p)' = thunk(p)
      BY <3>1 DEF thunk
    <3>3. proc'[p].status # "Success"
      BY <1>1, <2>3 DEF Kind, Fails, Starts, Opens, Locks, Works, Uploads, Same, ProcType, Local
    <3>4. proc'[p].pc \in {"upload", "log"} => proc[p].pc = "upload"
      BY <1>1, <2>3 DEF Kind, Fails, Starts, Opens, Locks, Works, Grabs, Uploads, Same
    <3>5. proc'[p].pc = "enter" => proc'[p].at = Len(Result[thunk(p)])
      BY <1>1, <2>3 DEF Kind, Fails, Starts, Opens, Locks, Works, Grabs, Uploads, Sends, Same
    <3>6. proc'[p].pc = "enter" => \A i \in Tags(thunk(p)) : ~ (i > proc'[p].at)
      BY <2>t, <3>5 DEF Tags
    <3>7. \A j \in 1 .. Len(Jobs[p]) : Complete(Jobs[p][j]) => Complete(Jobs[p][j])'
      BY <3>1 DEF Complete
    <3>8. Complete(thunk(p)) => Complete(thunk(p))'
      BY <3>1, <3>2 DEF Complete
    <3>9. Tags(thunk(p))' = Tags(thunk(p))
      BY <3>2 DEF Tags
    <3> QED
      BY <2>e, <3>1, <3>2, <3>3, <3>4, <3>6, <3>7, <3>8, <3>9 DEF Entered
  <2>4. CASE Enters(p)
    <3>1. proc'[p].job = proc[p].job /\ thunk(p)' = thunk(p)
      BY <2>4 DEF Enters, thunk
    <3>2. proc'[p].status # "Success"
      BY <2>4 DEF Enters, ProcType, Local
    <3>3. proc'[p].pc = "enter" => \A i \in Tags(thunk(p)) :
                                     i > proc'[p].at => Entry(thunk(p), i) \in reductions'
      BY <2>4, <2>t, <2>e DEF Enters, Entered, Tags
    <3>4. proc'[p].pc \in {"upload", "log"} => Complete(thunk(p))'
      BY <2>4, <2>t, <2>e, <3>1 DEF Enters, Entered, Complete, Tags
    <3>5. \A j \in 1 .. Len(Jobs[p]) : j < proc[p].job => Complete(Jobs[p][j])'
      BY <2>e, <2>1, CompleteStays DEF Entered
    <3>6. Entered(p)'
      BY <3>1, <3>2, <3>3, <3>4, <3>5 DEF Entered, Complete
    <3>7. BareEntryIsLast'
      <4> SUFFICES ASSUME NEW t \in Thunk, Entry(t, 0) \in reductions',
                          NEW i \in Tags(t)
                   PROVE  Entry(t, i) \in reductions'
        BY DEF BareEntryIsLast, Complete
      <4>1. CASE Entry(t, 0) \in reductions
        BY <4>1, <2>1 DEF EnterInv, BareEntryIsLast, Complete
      <4>2. CASE Entry(t, 0) = Entry(thunk(p), proc[p].at)
        <5>1. t = thunk(p) /\ proc[p].at = 0
          BY <4>2 DEF Entry
        <5>2. i > proc[p].at
          BY <5>1, <2>t DEF Tags
        <5> QED
          BY <2>4, <2>1, <2>e, <5>1, <5>2 DEF Entered, Enters
      <4> QED
        BY <2>4, <4>1, <4>2 DEF Enters
    <3> QED
      BY <2>2, <3>6, <3>7 DEF EnterInv
  <2>5. CASE GoesOn(p)
    <3>1. Complete(thunk(p)) /\ reductions' = reductions
      BY <2>5, <2>e DEF GoesOn, Entered
    <3>2. proc'[p].pc \notin {"enter", "upload", "log"}
      BY <2>5 DEF GoesOn
    <3>3. proc'[p].status = "Success" => proc'[p].job = proc[p].job /\ proc[p].job = Len(Jobs[p])
      BY <2>5 DEF GoesOn, ProcType, Local
    <3>4. proc'[p].status = "Success" => Complete(thunk(p))'
      BY <3>1, <3>3 DEF Complete, thunk
    <3>5. \A j \in 1 .. Len(Jobs[p]) : j < proc'[p].job => j < proc[p].job \/ j = proc[p].job
      BY <2>5, <2>t DEF GoesOn
    <3>6. \A j \in 1 .. Len(Jobs[p]) : j < proc'[p].job => Complete(Jobs[p][j])'
      BY <3>1, <3>5, <2>t, <2>e, CompleteStays DEF Entered
    <3>7. Entered(p)'
      BY <3>2, <3>3, <3>4, <3>6 DEF Entered
    <3>8. BareEntryIsLast'
      BY <3>1 DEF EnterInv, BareEntryIsLast, Complete
    <3> QED
      BY <2>2, <3>7, <3>8 DEF EnterInv
  <2>6. ASSUME ~ Enters(p), ~ GoesOn(p) PROVE BareEntryIsLast'
    <3>1. reductions' = reductions
      BY <1>1, <2>6 DEF Kind, Fails, Starts, Opens, Locks, Works, Uploads, Same
    <3> QED
      BY <3>1 DEF EnterInv, BareEntryIsLast, Complete
  <2> QED
    BY <2>2, <2>3, <2>4, <2>5, <2>6 DEF EnterInv
<1>2. CASE UNCHANGED <<inode, reductions, proc>>
  <2>1. \A q \in Proc : Entered(q)'
    BY <1>2, EnteredStays DEF EnterInv
  <2> QED
    BY <1>2, <2>1 DEF EnterInv, BareEntryIsLast, Complete
<1> QED
  BY <1>1, <1>2, NextKind DEF Reset

LEMMA EnterInvAlways == Spec => []EnterInv
<1>1. Init => EnterInv
  <2> SUFFICES ASSUME Init PROVE EnterInv
    OBVIOUS
  <2>1. BareEntryIsLast
    BY DEF Init, BareEntryIsLast
  <2>2. \A p \in Proc : Entered(p)
    BY DEF Init, Entered
  <2> QED
    BY <2>1, <2>2 DEF EnterInv
<1>2. ProcType /\ EnterInv /\ [Next]_vars => EnterInv'
  BY EnterInvNext
<1> QED
  BY <1>1, <1>2, ProcTypeAlways, PTL DEF Spec

\* Unless the execute server is reset, whoever finds a thunk's bare hash in the
\* cache finds all of its outputs, wherever the processes were killed
\* (gg-execute.cc:158-173).
THEOREM BareHashIsTheLastEntry == Spec => []BareEntryIsLast
<1>1. EnterInv => BareEntryIsLast
  BY DEF EnterInv, BareEntryIsLast
<1> QED
  BY <1>1, EnterInvAlways, PTL

\* Unless the execute server is reset, a process that goes on to its next thunk or
\* exits with status 0 leaves the entries the engine looks up
\* (gg-execute.cc:401-455).
THEOREM WhatIsFinishedIsEntered == Spec => []FinishedIsEntered
<1>1. ProcType /\ EnterInv => FinishedIsEntered
  <2> SUFFICES ASSUME ProcType, EnterInv, "reset" \notin Faults,
                      NEW p \in Proc, NEW t \in Finished(p)
               PROVE  Complete(t)
    BY DEF FinishedIsEntered
  <2>1. PICK j \in DOMAIN Jobs[p] : t = Jobs[p][j] /\ (j < proc[p].job \/ proc[p].status = "Success")
    BY DEF Finished
  <2>2. j \in 1 .. Len(Jobs[p]) /\ Entered(p)
    BY ExecuteAssumption DEF EnterInv
  <2>3. CASE j < proc[p].job
    BY <2>1, <2>2, <2>3 DEF Entered
  <2>4. CASE proc[p].status = "Success" /\ ~ (j < proc[p].job)
    <3>1. j = proc[p].job
      BY <2>2, <2>4, ThunkType DEF Entered, ProcType, Local
    <3> QED
      BY <2>1, <2>2, <2>4, <3>1 DEF Entered, thunk
  <2> QED
    BY <2>1, <2>3, <2>4
<1> QED
  BY <1>1, EnterInvAlways, ProcTypeAlways, PTL

(***************************************************************************)
(* The blobs behind the entries                                            *)
(***************************************************************************)

\* While the outputs are moved, those before the loop index are among the blobs;
\* while they are entered, all of them.
Grabbed(p) ==
    /\ proc[p].pc = "grab" => \A i \in Tags(thunk(p)) :
                                 i < proc[p].at => Result[thunk(p)][i] \in blobs
    /\ proc[p].pc = "enter" => Outputs(thunk(p)) \subseteq blobs

Keeping == "cleanup" \notin Flags /\ "reset" \notin Faults

BlobInv == Keeping => EntriesHaveBlobs /\ \A p \in Proc : Grabbed(p)

\* Without --cleanup and without resets, blobs stay.
LEMMA BlobsStay ==
    ASSUME Keeping, [Next]_vars PROVE blobs \subseteq blobs'
<1>1. ASSUME NEW p \in Proc, Start(p) \/ Kill(p) PROVE blobs \subseteq blobs'
  BY <1>1 DEF Start, Kill
<1>2. ASSUME NEW p \in Proc, Progress(p) PROVE blobs \subseteq blobs'
  BY <1>2 DEF Keeping, Progress, Open, Lock, Cleanup, CleanupFails, CheckDeps, FetchOne, FetchDone,
              FetchFails, TransferFailed, Run, RunAborts, RunFails, Grab, Enter, Measure,
              UploadOne, UploadUnseen, UploadFails, Log, LogFails
<1> QED
  BY <1>1, <1>2 DEF Keeping, Next, Reset, vars

LEMMA GrabbedStays ==
    ASSUME NEW q \in Proc, Grabbed(q), proc'[q] = proc[q], blobs \subseteq blobs'
    PROVE  Grabbed(q)'
<1>1. thunk(q)' = thunk(q)
  BY DEF thunk
<1> QED
  BY <1>1 DEF Grabbed, Outputs, Tags

\* A process that moves or enters its outputs, while nobody takes them away.
LEMMA GrabbedMoves ==
    ASSUME ProcType, NEW p \in Proc, Kind(p), Grabbed(p),
           proc[p].pc \in {"grab", "enter"} => blobs \subseteq blobs'
    PROVE  Grabbed(p)'
<1>t. /\ thunk(p) \in Thunk /\ Len(Result[thunk(p)]) \in Nat \ {0} /\ proc[p].at \in Nat
  BY ThunkType DEF ProcType, Local, State, thunk
<1>1. ASSUME Works(p), Grabs(p) PROVE Grabbed(p)'
  <2>1. thunk(p)' = thunk(p) /\ reductions' = reductions
    BY <1>1 DEF Works, Same, thunk
  <2>2. proc[p].at \in Tags(thunk(p))
    BY <1>1 DEF Grabs, ProcType, Local
  <2>3. \A i \in Tags(thunk(p)) : i < proc[p].at + 1 => Result[thunk(p)][i] \in blobs'
    <3>1. \A i \in Tags(thunk(p)) : i < proc[p].at + 1 => i < proc[p].at \/ i = proc[p].at
      BY <1>t DEF Tags
    <3> QED
      BY <1>1, <3>1 DEF Grabs, Grabbed
  <2>4. CASE proc[p].at # Len(Result[thunk(p)])
    <3>1. proc'[p].pc = "grab" /\ proc'[p].at = proc[p].at + 1
      BY <1>1, <2>4 DEF Grabs
    <3>2. Tags(thunk(p))' = Tags(thunk(p))
      BY <2>1 DEF Tags
    <3> QED
      BY <2>1, <2>3, <3>1, <3>2 DEF Grabbed
  <2>5. CASE proc[p].at = Len(Result[thunk(p)])
    <3>1. proc'[p].pc = "enter"
      BY <1>1, <2>5 DEF Grabs
    <3>2. \A i \in Tags(thunk(p)) : i < proc[p].at + 1
      BY <1>t, <2>5 DEF Tags
    <3>3. Outputs(thunk(p)) \subseteq blobs'
      BY <2>3, <3>2 DEF Outputs
    <3>4. Outputs(thunk(p))' = Outputs(thunk(p))
      BY <2>1 DEF Outputs, Tags
    <3> QED
      BY <3>1, <3>3, <3>4 DEF Grabbed
  <2> QED
    BY <2>4, <2>5
<1>2. ASSUME Enters(p) PROVE Grabbed(p)'
  <2>1. thunk(p)' = thunk(p) /\ proc'[p].pc \in {"enter", "upload", "log"}
    BY <1>2 DEF Enters, thunk
  <2> QED
    BY <1>2, <2>1 DEF Grabbed, Enters, Outputs, Tags
<1>3. ASSUME ~ Enters(p), ~ (Works(p) /\ Grabs(p)) PROVE Grabbed(p)'
  <2>1. proc'[p].pc # "enter"
    BY <1>3 DEF Kind, Fails, Starts, Opens, Locks, Works, Uploads, Sends, GoesOn
  <2>2. proc'[p].pc = "grab" => proc'[p].at = 1
    BY <1>3 DEF Kind, Fails, Starts, Opens, Locks, Works, Uploads, Sends, GoesOn
  <2>3. \A i \in Tags(thunk(p))' : ~ (i < 1)
    BY DEF Tags
  <2> QED
    BY <2>1, <2>2, <2>3 DEF Grabbed
<1> QED
  BY <1>1, <1>2, <1>3

LEMMA BlobInvNext == ProcType /\ BlobInv /\ [Next]_vars => BlobInv'
<1> SUFFICES ASSUME ProcType, BlobInv, [Next]_vars, Keeping PROVE BlobInv'
  BY SetupStays DEF BlobInv, Keeping, Faults, Flags
<1>0. blobs \subseteq blobs'
  BY BlobsStay
<1>1. ASSUME NEW p \in Proc, Kind(p) PROVE BlobInv'
  <2>t. /\ thunk(p) \in Thunk /\ Len(Result[thunk(p)]) \in Nat \ {0} /\ proc[p].at \in Nat
    BY ThunkType DEF ProcType, Local, State, thunk
  <2>g. Grabbed(p) /\ EntriesHaveBlobs
    BY DEF BlobInv
  <2>1. \A q \in Proc : q # p => Grabbed(q)'
    BY <1>0, <1>1, GrabbedStays DEF BlobInv, Kind, Moves
  <2>2. Grabbed(p)'
    BY <1>0, <1>1, <2>g, GrabbedMoves
  <2>3. EntriesHaveBlobs'
    <3> SUFFICES ASSUME NEW e \in reductions', e.output # 0
                 PROVE  Result[e.thunk][e.output] \in blobs'
      BY DEF EntriesHaveBlobs
    <3>1. CASE e \in reductions
      BY <1>0, <2>g, <3>1 DEF EntriesHaveBlobs, Keeping
    <3>2. CASE e \notin reductions
      <4>1. Enters(p) /\ e = Entry(thunk(p), proc[p].at)
        BY <1>1, <3>2 DEF Kind, Fails, Starts, Opens, Locks, Works, Enters, Uploads, GoesOn, Same
      <4>2. e.thunk = thunk(p) /\ e.output = proc[p].at
        BY <4>1 DEF Entry
      <4>3. proc[p].at \in Tags(thunk(p))
        BY <2>t, <4>1, <4>2 DEF Enters, ProcType, Local, Tags
      <4>4. Outputs(thunk(p)) \subseteq blobs
        BY <2>g, <4>1 DEF Grabbed, Enters
      <4> QED
        BY <1>0, <4>2, <4>3, <4>4 DEF Outputs
    <3> QED
      BY <3>1, <3>2
  <2> QED
    BY <2>1, <2>2, <2>3 DEF BlobInv
<1>2. CASE UNCHANGED <<inode, reductions, proc>>
  <2>1. \A q \in Proc : Grabbed(q)'
    BY <1>0, <1>2, GrabbedStays DEF BlobInv
  <2>2. EntriesHaveBlobs'
    BY <1>0, <1>2 DEF BlobInv, EntriesHaveBlobs, Keeping
  <2> QED
    BY <2>1, <2>2 DEF BlobInv
<1> QED
  BY <1>1, <1>2, NextKind DEF Reset, Keeping

\* Unless blobs are cleaned up or the execute server is reset, every output the
\* cache names is on disk, however many processes enter the same thunk and
\* wherever they are killed (gg-execute.cc:133-173).
THEOREM WhatIsEnteredIsOnDisk == Spec => []EntriesHaveBlobs
<1>1. Init => BlobInv
  <2> SUFFICES ASSUME Init PROVE BlobInv
    OBVIOUS
  <2>1. EntriesHaveBlobs /\ \A p \in Proc : Grabbed(p)
    BY DEF Init, EntriesHaveBlobs, Grabbed
  <2> QED
    BY <2>1 DEF BlobInv
<1>2. BlobInv => EntriesHaveBlobs
  BY DEF BlobInv, Keeping, EntriesHaveBlobs
<1> QED
  BY <1>1, <1>2, BlobInvNext, ProcTypeAlways, PTL DEF Spec

(***************************************************************************)
(* The uploads                                                             *)
(***************************************************************************)

\* While the outputs are sent, those before the loop index are in the backend;
\* then all of them, and all of those of its earlier thunks.
Sent(p) ==
    /\ proc[p].pc = "upload" => \A i \in Tags(thunk(p)) :
                                   i < proc[p].at => Result[thunk(p)][i] \in stored
    /\ proc[p].pc = "log" \/ proc[p].status = "Success" => Outputs(thunk(p)) \subseteq stored
    /\ proc[p].status = "Success" => proc[p].job = Len(Jobs[p])
    /\ \A j \in 1 .. Len(Jobs[p]) : j < proc[p].job => Outputs(Jobs[p][j]) \subseteq stored

Sending == "put" \in Flags /\ "unseen" \notin Faults

SentInv == Sending => \A p \in Proc : Sent(p)

\* Nobody deletes an object.
LEMMA StoredStays == ASSUME [Next]_vars PROVE stored \subseteq stored'
<1>1. ASSUME NEW p \in Proc, Start(p) \/ Kill(p) PROVE stored \subseteq stored'
  BY <1>1 DEF Start, Kill
<1>2. ASSUME NEW p \in Proc, Progress(p) PROVE stored \subseteq stored'
  BY <1>2 DEF Progress, Open, Lock, Cleanup, CleanupFails, CheckDeps, FetchOne, FetchDone,
              FetchFails, TransferFailed, Run, RunAborts, RunFails, Grab, Enter, Measure,
              UploadOne, UploadUnseen, UploadFails, Log, LogFails
<1> QED
  BY <1>1, <1>2 DEF Next, Reset, vars

LEMMA SentStays ==
    ASSUME NEW q \in Proc, Sent(q), proc'[q] = proc[q], stored \subseteq stored'
    PROVE  Sent(q)'
<1>1. thunk(q)' = thunk(q)
  BY DEF thunk
<1> QED
  BY <1>1 DEF Sent, Outputs, Tags

LEMMA SentInvNext == ProcType /\ SentInv /\ [Next]_vars => SentInv'
<1> SUFFICES ASSUME ProcType, SentInv, [Next]_vars, Sending PROVE SentInv'
  BY SetupStays DEF SentInv, Sending, Faults, Flags
<1>0. stored \subseteq stored'
  BY StoredStays
<1>1. ASSUME NEW p \in Proc, Kind(p) PROVE SentInv'
  <2>t. /\ thunk(p) \in Thunk /\ Len(Result[thunk(p)]) \in Nat \ {0}
        /\ proc[p].at \in Nat /\ proc[p].job \in 1 .. Len(Jobs[p]) /\ Len(Jobs[p]) \in Nat
        /\ thunk(p) = Jobs[p][proc[p].job]
    BY ThunkType DEF ProcType, Local, State, thunk
  <2>s. Sent(p)
    BY DEF SentInv
  <2>1. \A q \in Proc : q # p => Sent(q)'
    BY <1>0, <1>1, SentStays DEF SentInv, Kind, Moves
  <2>2. \A j \in 1 .. Len(Jobs[p]) : j < proc[p].job => Outputs(Jobs[p][j]) \subseteq stored'
    BY <1>0, <2>s DEF Sent
  <2>3. ASSUME GoesOn(p) PROVE Sent(p)'
    <3>1. Outputs(thunk(p)) \subseteq stored'
      BY <1>0, <2>3, <2>s DEF GoesOn, Sent
    <3>2. proc'[p].pc \notin {"upload", "log"}
      BY <2>3 DEF GoesOn
    <3>3. proc'[p].status = "Success" => proc'[p].job = proc[p].job /\ proc[p].job = Len(Jobs[p])
      BY <2>3 DEF GoesOn, ProcType, Local
    <3>4. proc'[p].status = "Success" => Outputs(thunk(p))' \subseteq stored'
      BY <3>1, <3>3 DEF Outputs, Tags, thunk
    <3>5. \A j \in 1 .. Len(Jobs[p]) : j < proc'[p].job => j < proc[p].job \/ j = proc[p].job
      BY <2>3, <2>t DEF GoesOn
    <3>6. \A j \in 1 .. Len(Jobs[p]) : j < proc'[p].job => Outputs(Jobs[p][j]) \subseteq stored'
      BY <2>2, <2>t, <3>1, <3>5
    <3> QED
      BY <3>2, <3>3, <3>4, <3>6 DEF Sent, Outputs, Tags
  <2>4. ASSUME ~ GoesOn(p) PROVE Sent(p)'
    <3>1. proc'[p].job = proc[p].job /\ proc'[p].status # "Success"
      BY <1>1, <2>4 DEF Kind, Fails, Starts, Opens, Locks, Works, Enters, Uploads, Same,
                        ProcType, Local
    <3>2. thunk(p)' = thunk(p)
      BY <3>1 DEF thunk
    <3>3. CASE Uploads(p) /\ Sends(p)
      <4>1. \A i \in Tags(thunk(p)) : i < proc[p].at + 1 => Result[thunk(p)][i] \in stored'
        <5>1. \A i \in Tags(thunk(p)) : i < proc[p].at + 1 => i < proc[p].at \/ i = proc[p].at
          BY <2>t DEF Tags
        <5> QED
          BY <1>0, <2>s, <3>3, <5>1 DEF Sending, Sends, Uploads, Sent
      <4>2. CASE proc[p].at # Len(Result[thunk(p)])
        <5>1. proc'[p].pc = "upload" /\ proc'[p].at = proc[p].at + 1
          BY <3>3, <4>2 DEF Sends
        <5> QED
          BY <2>2, <3>1, <3>2, <4>1, <5>1 DEF Sent, Outputs, Tags
      <4>3. CASE proc[p].at = Len(Result[thunk(p)])
        <5>1. proc'[p].pc = "log"
          BY <3>3, <4>3 DEF Sends
        <5>2. \A i \in Tags(thunk(p)) : i < proc[p].at + 1
          BY <2>t, <4>3 DEF Tags
        <5>3. Outputs(thunk(p))' \subseteq stored'
          BY <3>2, <4>1, <5>2 DEF Outputs, Tags
        <5> QED
          BY <2>2, <3>1, <5>1, <5>3 DEF Sent, Outputs, Tags
      <4> QED
        BY <4>2, <4>3
    <3>4. CASE ~ (Uploads(p) /\ Sends(p))
      <4>1. proc'[p].pc = "upload" => proc'[p].at \in {0, 1}
        BY <1>1, <2>4, <3>4 DEF Kind, Fails, Starts, Opens, Locks, Works, Grabs, Enters, Uploads
      <4>2. proc'[p].pc # "log"
        BY <1>1, <2>4, <3>4 DEF Kind, Fails, Starts, Opens, Locks, Works, Grabs, Enters, Uploads,
                                Sending
      <4>3. \A i \in Tags(thunk(p))' : ~ (i < 0) /\ ~ (i < 1)
        BY DEF Tags
      <4>4. proc'[p].pc = "upload" => \A i \in Tags(thunk(p))' : ~ (i < proc'[p].at)
        BY <4>1, <4>3
      <4> QED
        BY <2>2, <3>1, <4>2, <4>4 DEF Sent, Outputs, Tags
    <3> QED
      BY <3>3, <3>4
  <2> QED
    BY <2>1, <2>3, <2>4 DEF SentInv
<1>2. CASE UNCHANGED proc
  <2>1. \A q \in Proc : Sent(q)'
    BY <1>0, <1>2, SentStays DEF SentInv
  <2> QED
    BY <2>1 DEF SentInv
<1> QED
  BY <1>1, <1>2, NextKind DEF Reset

LEMMA SentInvAlways == Spec => []SentInv
<1>1. Init => SentInv
  <2> SUFFICES ASSUME Init PROVE SentInv
    OBVIOUS
  <2>1. \A p \in Proc : proc[p].pc = "idle" /\ proc[p].status = "none" /\ proc[p].job = 1
    BY DEF Init
  <2> QED
    BY <2>1 DEF SentInv, Sent
<1> QED
  BY <1>1, SentInvNext, ProcTypeAlways, PTL DEF Spec

\* With --put-output and a backend whose refusals are seen, the outputs of every
\* thunk a process has left behind it are in the backend, across kills, resets and
\* cleanups (gg-execute.cc:291-330, 434-437).
THEOREM WhatIsFinishedIsStored == Spec => []FinishedIsStored
<1>1. ProcType /\ SentInv => FinishedIsStored
  <2> SUFFICES ASSUME ProcType, SentInv, Sending, NEW p \in Proc, NEW t \in Finished(p)
               PROVE  Outputs(t) \subseteq stored
    BY DEF FinishedIsStored, Sending
  <2>1. PICK j \in DOMAIN Jobs[p] : t = Jobs[p][j] /\ (j < proc[p].job \/ proc[p].status = "Success")
    BY DEF Finished
  <2>2. j \in 1 .. Len(Jobs[p]) /\ Sent(p)
    BY ExecuteAssumption DEF SentInv
  <2>3. CASE j < proc[p].job
    BY <2>1, <2>2, <2>3 DEF Sent
  <2>4. CASE proc[p].status = "Success" /\ ~ (j < proc[p].job)
    <3>1. j = proc[p].job
      BY <2>2, <2>4, ThunkType DEF Sent, ProcType, Local
    <3> QED
      BY <2>1, <2>2, <2>4, <3>1 DEF Sent, thunk
  <2> QED
    BY <2>1, <2>3, <2>4
<1> QED
  BY <1>1, SentInvAlways, ProcTypeAlways, PTL

(***************************************************************************)
(* The handlers                                                            *)
(***************************************************************************)

\* The thunk of a request is there when it is read, and the outputs are from the time
\* they have been moved.
Having(p) ==
    /\ proc[p].pc \in {"open", "lock", "cleanup"} => thunk(p) \in blobs
    /\ Grabbed(p)
    /\ proc[p].pc \in {"upload", "log"} \/ proc[p].status = "Success" =>
          Outputs(thunk(p)) \subseteq blobs

\* Nobody can have entered the thunk of a request before.
Fresh(p) == Platform = "lambda" \/ ~ RequestedBefore(p)

\* Then the thunk's entries are those that the request has made, of outputs that are
\* there; and on Lambda these are all the entries.
OwnEntries(p) ==
    \A e \in reductions : /\ Platform = "lambda" => e.thunk = thunk(p)
                          /\ e.thunk = thunk(p) =>
                                /\ Outputs(thunk(p)) \subseteq blobs
                                /\ proc[p].pc \in {"enter", "upload", "log", "exited"}

\* An entry has been made for a request that has come.
Origin == \A e \in reductions : \E q \in Proc : thunk(q) = e.thunk /\ proc[q].pc # "idle"

MayAbort == Threaded \/ "timelog" \notin Flags

\* What an answer says of the status behind it.
Truthful(p) ==
    /\ answer[p] \notin {"none", "Success", "FunctionError"} => answer[p] = proc[p].status
    /\ answer[p] = "FunctionError" =>
          \/ proc[p].status = "Killed" \/ At(p, "idle")
          \/ Platform = "gcloud" /\ RequestedBefore(p) /\ proc[p].status # "Success"

HandlerInv ==
    /\ ProcType
    /\ answer \in [Proc -> Status \cup {"FunctionError"}]
    /\ \A p \in Proc : answer[p] # "none" =>
          At(p, "exited") \/ (At(p, "idle") /\ answer[p] = "FunctionError")
    /\ \A p, q \in Proc : Serving(p) /\ Serving(q) => p = q
    /\ \A p \in Proc : Serving(p) => Having(p) /\ (Fresh(p) => OwnEntries(p))
    /\ Origin
    /\ \A p \in Proc : proc[p].status = "Aborted" => MayAbort
    /\ \A p \in Proc : Truthful(p)

\* The outputs of an entry are in the backend, or on their way there.
Honest(e) ==
    \/ Outputs(e.thunk) \subseteq stored
    \/ \E p \in Proc : /\ Serving(p) /\ thunk(p) = e.thunk
                       /\ proc[p].pc \in {"enter", "upload", "log"}

\* No upload is lost: none fails, seen or unseen, and gg-execute is not killed before
\* its uploads, by itself or, where the cache is kept, with the function.
Safe ==
    /\ Sending /\ Faults \cap {"upload", "kill"} = {}
    /\ Platform = "gcloud" => "timeout" \notin Faults

UploadInv ==
    Safe => /\ Platform = "gcloud" \/ (\E p \in Proc : Serving(p)) =>
                  \A e \in reductions : Honest(e)
            /\ HonestAnswer

-----------------------------------------------------------------------------
(***************************************************************************)
(* Lemmas on the steps.                                                    *)
(***************************************************************************)

\* A request carries one thunk.
LEMMA OneThunk ==
    ASSUME ProcType, NEW p \in Proc
    PROVE  proc[p].job = 1 /\ thunk(p) = Jobs[p][1] /\ thunk(p) \in Thunk
<1>1. proc[p].job = 1
  <2>1. Len(Jobs[p]) = 1
      BY HandlerAssumption
  <2>2. proc[p].job \in 1 .. Len(Jobs[p])
      BY DEF ProcType, Local
  <2> QED
      BY <2>1, <2>2
<1> QED
    BY <1>1, ThunkType DEF ProcType, Local, thunk

LEMMA SameThunk ==
    ASSUME ProcType, ProcType', NEW p \in Proc
    PROVE  thunk(p)' = thunk(p) /\ Outputs(thunk(p))' = Outputs(thunk(p))
<1>1. proc'[p].job = 1 /\ proc[p].job = 1
  <2>1. Len(Jobs[p]) = 1
      BY HandlerAssumption
  <2>2. proc[p].job \in 1 .. Len(Jobs[p]) /\ proc'[p].job \in 1 .. Len(Jobs[p])
      BY DEF ProcType, Local
  <2> QED
      BY <2>1, <2>2
<1>2. thunk(p)' = thunk(p)
    BY <1>1 DEF thunk
<1> QED
    BY <1>2 DEF Outputs, Tags

\* The smallest of some tags is one of them.
LEMMA MinIsOne ==
    ASSUME NEW S \in SUBSET Nat, S # {}
    PROVE  Min(S) \in S
<1> DEFINE R == {ss \in Nat \X Nat : ss[1] < ss[2]}
<1>1. IsWellFoundedOn(R, Nat)
    BY NatLessThanWellFounded DEF OpToRel
<1> HIDE DEF R
<1>2. PICK x \in S : \A y \in S : ~ (<<y, x>> \in R)
    BY <1>1, WFMin
<1>3. \A y \in S : x =< y
  <2> SUFFICES ASSUME NEW y \in S, y < x PROVE FALSE
      OBVIOUS
  <2>1. <<y, x>> \in Nat \X Nat /\ <<y, x>>[1] = y /\ <<y, x>>[2] = x
      OBVIOUS
  <2>2. <<y, x>> \in R
      BY <2>1 DEF R
  <2> QED
      BY <1>2, <2>2
<1> QED
    BY <1>3 DEF Min

\* Blobs are only taken away by the cleanup.
LEMMA LateBlobs ==
    ASSUME NEW p \in Proc, Progress(p) \/ Kill(p), proc[p].pc # "cleanup"
    PROVE  blobs \subseteq blobs'
BY DEF Progress, Kill, At, Open, Lock, Cleanup, CleanupFails, CheckDeps, FetchOne, FetchDone,
       FetchFails, TransferFailed, Run, RunAborts, RunFails, Grab, Enter, Measure,
       UploadOne, UploadUnseen, UploadFails, Uploading, Log, LogFails

\* The setup does not change and nobody deletes an object.
LEMMA SetupKept ==
    ASSUME NEW p \in Proc, Progress(p) \/ Kill(p)
    PROVE  UNCHANGED setup /\ stored \subseteq stored'
BY DEF Progress, Kill, Open, Lock, Cleanup, CleanupFails, CheckDeps, FetchOne, FetchDone,
       FetchFails, TransferFailed, Run, RunAborts, RunFails, Grab, Enter, Measure,
       UploadOne, UploadUnseen, UploadFails, Log, LogFails

\* Why a process may exit.
Exits(p) ==
    LET failed(s) == IF Threaded THEN "Aborted" ELSE s
        status == proc'[p].status
    IN  \/ "kill" \in Faults /\ status = "Killed"
        \/ proc[p].pc \in {"open", "cleanup"} /\ thunk(p) \notin blobs
        \/ proc[p].pc = "cleanup" /\ \E q \in Proc \ {p} : At(q, "cleanup")
        \/ proc[p].pc = "fetch" /\ status = failed("FetchDependenciesFailure")
        \/ proc[p].pc = "run" /\ (status = "Aborted" => "timelog" \notin Flags)
        \/ proc[p].pc = "upload" /\ proc[p].at = 0 /\ ~ (Outputs(thunk(p)) \subseteq blobs)
        \/ /\ proc[p].pc = "upload" /\ proc[p].at > 0
           /\ Result[thunk(p)][proc[p].at] \notin blobs
        \/ /\ proc[p].pc \in {"upload", "log"} /\ "upload" \in Faults
           /\ status \in {failed("UploadOutputFailure"), failed("OperationalFailure")}
        \/ proc[p].pc = "log" /\ status = "Success"

LEMMA WhyExits ==
    ASSUME ProcType, NEW p \in Proc, Progress(p) \/ Kill(p), At(p, "exited")'
    PROVE  Exits(p)
<1>1. /\ proc \in [Proc -> State] /\ proc[p] \in State
    BY DEF ProcType
<1>2. ASSUME NEW status, Exit(p, status) PROVE proc'[p].status = status
    BY <1>1, <1>2 DEF Exit, State
<1>3. ASSUME NEW pc, NEW at, Goto(p, pc, at) PROVE proc'[p].pc = pc
    BY <1>1, <1>3 DEF Goto, State
<1>4. CASE Kill(p)
    BY <1>2, <1>4 DEF Kill, Exits
<1>5. CASE Open(p)
  <2>1. CASE thunk(p) \in blobs
      BY <1>1, <1>5, <2>1 DEF Open, At, State
  <2> QED
      BY <1>5, <2>1 DEF Open, At, Exits
<1>6. CASE Lock(p) \/ FetchDone(p) \/ Run(p)
    BY <1>3, <1>6 DEF Lock, FetchDone, Run, At
<1>7. CASE Cleanup(p)
    BY <1>3, <1>7 DEF Cleanup, At, Exits
<1>8. CASE CleanupFails(p)
    BY <1>8 DEF CleanupFails, At, Exits
<1>9. CASE CheckDeps(p) \/ FetchOne(p)
  <2>1. CASE CheckDeps(p)
      BY <1>1, <2>1 DEF CheckDeps, At, State
  <2>2. CASE FetchOne(p)
      BY <1>1, <2>2 DEF FetchOne, At, State
  <2> QED
      BY <1>9, <2>1, <2>2
<1>10. CASE FetchFails(p)
    BY <1>2, <1>10 DEF FetchFails, TransferFailed, At, Exits
<1>11. CASE RunAborts(p) \/ RunFails(p)
    BY <1>2, <1>11 DEF RunAborts, RunFails, At, Exits
<1>12. CASE Grab(p) \/ UploadOne(p) \/ UploadUnseen(p)
    BY <1>3, <1>12 DEF Grab, UploadOne, UploadUnseen, NextUpload, At
<1>13. CASE Enter(p)
    BY <1>3, <1>13 DEF Enter, AfterEntries, At
<1>14. CASE Measure(p)
    BY <1>3, <1>14 DEF Measure, At, Exits
<1>15. CASE UploadFails(p)
    BY <1>2, <1>15 DEF UploadFails, TransferFailed, At, Exits
<1>16. CASE Log(p)
  <2>1. CASE proc[p].job = Len(Jobs[p])
      BY <1>2, <1>16, <2>1 DEF Log, At, Exits
  <2>2. CASE proc[p].job # Len(Jobs[p])
    <3>1. proc[p].job = 1 /\ Len(Jobs[p]) = 1
        BY OneThunk, HandlerAssumption
    <3> QED
        BY <2>2, <3>1
  <2> QED
      BY <2>1, <2>2
<1>17. CASE LogFails(p)
    BY <1>2, <1>17 DEF LogFails, TransferFailed, At, Exits
<1> QED
    BY <1>4, <1>5, <1>6, <1>7, <1>8, <1>9, <1>10, <1>11, <1>12, <1>13, <1>14, <1>15, <1>16, <1>17
    DEF Progress

\* A process that has exited makes no more steps.
LEMMA Active ==
    ASSUME NEW p \in Proc, Progress(p) \/ Kill(p)
    PROVE  proc[p].pc \notin {"idle", "exited"}
BY DEF Progress, Kill, At, Open, Lock, Cleanup, CleanupFails, CheckDeps, FetchOne, FetchDone,
       FetchFails, TransferFailed, Run, RunAborts, RunFails, Grab, Enter, Measure,
       UploadOne, UploadUnseen, UploadFails, Uploading, Log, LogFails

LEMMA ProgressOfLock ==
    ASSUME ProcType, NEW p \in Proc, Progress(p) \/ Kill(p),
           proc'[p].pc \in {"open", "lock", "cleanup"}
    PROVE  Open(p) \/ Lock(p)
<1>1. proc \in [Proc -> State] /\ proc[p] \in State
    BY DEF ProcType
<1>2. ASSUME NEW status, Exit(p, status) PROVE proc'[p].pc = "exited"
    BY <1>1, <1>2 DEF Exit, State
<1>3. ASSUME NEW pc, NEW at, Goto(p, pc, at) PROVE proc'[p].pc = pc
    BY <1>1, <1>3 DEF Goto, State
<1>4. ~ (Kill(p) \/ Cleanup(p) \/ CleanupFails(p) \/ FetchDone(p) \/ FetchFails(p))
    BY <1>2, <1>3 DEF Kill, Cleanup, CleanupFails, FetchDone, FetchFails, TransferFailed
<1>5. ~ (Run(p) \/ RunAborts(p) \/ RunFails(p) \/ Grab(p) \/ Enter(p))
    BY <1>2, <1>3 DEF Run, RunAborts, RunFails, Grab, Enter, AfterEntries
<1>6. ~ (Measure(p) \/ UploadOne(p) \/ UploadUnseen(p) \/ UploadFails(p) \/ LogFails(p))
    BY <1>2, <1>3 DEF Measure, UploadOne, UploadUnseen, NextUpload, UploadFails, LogFails,
       TransferFailed
<1>7. ~ CheckDeps(p)
    BY <1>1 DEF CheckDeps, State
<1>8. ~ FetchOne(p)
    BY <1>1 DEF FetchOne, At, State
<1>9. ~ Log(p)
  <2>1. proc[p].job = 1 /\ Len(Jobs[p]) = 1
      BY OneThunk, HandlerAssumption
  <2> QED
      BY <1>2, <2>1 DEF Log
<1> QED
    BY <1>4, <1>5, <1>6, <1>7, <1>8, <1>9 DEF Progress

\* From its entries on a process does not go back.
LEMMA LatePlaces ==
    ASSUME ProcType, NEW p \in Proc, Progress(p) \/ Kill(p),
           proc[p].pc \in {"enter", "upload", "log"}
    PROVE  proc'[p].pc \in {"enter", "upload", "log", "exited"}
<1>1. proc \in [Proc -> State] /\ proc[p] \in State
    BY DEF ProcType
<1>2. ASSUME NEW status, Exit(p, status) PROVE proc'[p].pc = "exited"
    BY <1>1, <1>2 DEF Exit, State
<1>3. ASSUME NEW pc, NEW at, Goto(p, pc, at) PROVE proc'[p].pc = pc
    BY <1>1, <1>3 DEF Goto, State
<1>4. \/ Enter(p) \/ Measure(p) \/ UploadOne(p) \/ UploadUnseen(p) \/ UploadFails(p)
      \/ Log(p) \/ LogFails(p) \/ Kill(p)
    BY DEF Progress, At, Open, Lock, Cleanup, CleanupFails, CheckDeps, FetchOne, FetchDone,
       FetchFails, Run, RunAborts, RunFails, Grab
<1>5. CASE Enter(p) \/ Measure(p)
    BY <1>2, <1>3, <1>5 DEF Enter, Measure, AfterEntries
<1>6. CASE UploadOne(p) \/ UploadUnseen(p)
    BY <1>3, <1>6 DEF UploadOne, UploadUnseen, NextUpload
<1>7. CASE UploadFails(p) \/ LogFails(p) \/ Kill(p)
    BY <1>2, <1>7 DEF UploadFails, LogFails, TransferFailed, Kill
<1>8. CASE Log(p)
  <2>1. proc[p].job = 1 /\ Len(Jobs[p]) = 1
      BY OneThunk, HandlerAssumption
  <2> QED
      BY <1>2, <1>8, <2>1 DEF Log
<1> QED
    BY <1>4, <1>5, <1>6, <1>7, <1>8

\* No answer is taken back.
LEMMA RequestedStays ==
    ASSUME ProcType, ProcType', NEW p \in Proc, RequestedBefore(p),
           \A q \in Proc : q # p /\ answer[q] # "none" => answer'[q] # "none"
    PROVE  RequestedBefore(p)'
<1>1. PICK q \in Proc \ {p} : thunk(q) = thunk(p) /\ answer[q] # "none"
    BY DEF RequestedBefore
<1>2. thunk(q)' = thunk(q) /\ thunk(p)' = thunk(p)
    BY <1>1, SameThunk
<1>3. answer'[q] # "none"
    BY <1>1
<1> QED
    BY <1>1, <1>2, <1>3 DEF RequestedBefore

\* A new entry is made for a request that has come.
LEMMA OriginStays ==
    ASSUME ProcType, ProcType', Origin,
           \A q \in Proc : proc[q].pc # "idle" => proc'[q].pc # "idle",
           \A e \in reductions' \ reductions :
              \E q \in Proc : thunk(q) = e.thunk /\ proc'[q].pc # "idle"
    PROVE  Origin'
<1> SUFFICES ASSUME NEW e \in reductions'
             PROVE  \E q \in Proc : thunk(q)' = e.thunk /\ proc'[q].pc # "idle"
    BY DEF Origin
<1>1. PICK q \in Proc : thunk(q) = e.thunk /\ proc'[q].pc # "idle"
    BY DEF Origin
<1>2. thunk(q)' = thunk(q)
    BY SameThunk
<1> QED
    BY <1>1, <1>2

\* What is truthful stays so when others are answered.
LEMMA TruthfulStays ==
    ASSUME ProcType, ProcType', NEW p \in Proc, Truthful(p), UNCHANGED setup,
           proc'[p] = proc[p], answer'[p] = answer[p],
           \A q \in Proc : q # p /\ answer[q] # "none" => answer'[q] # "none"
    PROVE  Truthful(p)'
<1>1. RequestedBefore(p) => RequestedBefore(p)'
    BY RequestedStays
<1>2. Platform' = Platform
    BY DEF Platform
<1> QED
    BY <1>1, <1>2 DEF Truthful, At

\* The steps of the request that is served.
LEMMA ExecuteHaving ==
    ASSUME HandlerInv, NEW p \in Proc, Execute(p)
    PROVE  Having(p)'
<1>1. Serving(p) /\ Having(p) /\ ProcType /\ (Progress(p) \/ Kill(p))
    BY DEF Execute, HandlerInv
<1>2. Kind(p) /\ proc[p].pc \notin {"idle", "exited"}
    BY <1>1, ProgressKind, Active
<1>3. ProcType'
    BY <1>1, ProcTypeNext DEF Next
<1>4. thunk(p)' = thunk(p)
    BY <1>1, <1>3, SameThunk
<1>5. Outputs(thunk(p))' = Outputs(thunk(p))
    BY <1>1, <1>3, SameThunk
<1>6. Grabbed(p)'
    BY <1>1, <1>2, LateBlobs, GrabbedMoves DEF Having
<1>7. ASSUME proc'[p].pc \in {"open", "lock", "cleanup"} PROVE thunk(p)' \in blobs'
  <2>1. Open(p) \/ Lock(p)
      BY <1>1, <1>7, ProgressOfLock
  <2> QED
      BY <1>1, <1>4, <2>1 DEF Open, Lock, At, Having
<1>8. ASSUME proc'[p].pc \in {"upload", "log"} \/ proc'[p].status = "Success"
      PROVE  Outputs(thunk(p))' \subseteq blobs'
  <2>1. Enters(p) \/ Uploads(p) \/ GoesOn(p)
      BY <1>1, <1>2, <1>8 DEF Kind, Fails, Starts, Opens, Locks, Works, Grabs, Same, ProcType, Local
  <2>2. Outputs(thunk(p)) \subseteq blobs /\ proc[p].pc # "cleanup"
      BY <1>1, <2>1 DEF Enters, Uploads, GoesOn, Having, Grabbed
  <2> QED
      BY <1>1, <1>5, <2>2, LateBlobs
<1> QED
    BY <1>6, <1>7, <1>8 DEF Having

LEMMA ExecuteOwn ==
    ASSUME HandlerInv, NEW p \in Proc, Execute(p), Fresh(p)
    PROVE  OwnEntries(p)'
<1>1. /\ Serving(p) /\ Having(p) /\ ProcType /\ (Progress(p) \/ Kill(p))
      /\ OwnEntries(p)
    BY DEF Execute, HandlerInv
<1>2. Kind(p) /\ proc[p].pc \notin {"idle", "exited"}
    BY <1>1, ProgressKind, Active
<1>3. ProcType' /\ thunk(p)' = thunk(p) /\ Outputs(thunk(p))' = Outputs(thunk(p))
    BY <1>1, ProcTypeNext, SameThunk DEF Next
<1>p. Platform' = Platform
    BY <1>1, SetupKept DEF Platform
<1>e. ASSUME NEW e \in reductions', e \notin reductions
      PROVE  Enters(p) /\ e = Entry(thunk(p), proc[p].at) /\ e.thunk = thunk(p)
  <2>1. Enters(p) /\ e = Entry(thunk(p), proc[p].at)
      BY <1>2, <1>e DEF Kind, Fails, Starts, Opens, Locks, Works, Enters, Uploads, GoesOn, Same
  <2> QED
      BY <2>1 DEF Entry
<1>l. ASSUME NEW e \in reductions', Platform = "lambda" PROVE e.thunk = thunk(p)
    BY <1>1, <1>e, <1>l DEF OwnEntries
<1> SUFFICES ASSUME NEW e \in reductions', e.thunk = thunk(p)
             PROVE  /\ Outputs(thunk(p)) \subseteq blobs'
                    /\ proc'[p].pc \in {"enter", "upload", "log", "exited"}
    BY <1>3, <1>l, <1>p DEF OwnEntries
<1>4. CASE e \in reductions
  <2>1. /\ Outputs(thunk(p)) \subseteq blobs
        /\ proc[p].pc \in {"enter", "upload", "log"}
      BY <1>1, <1>2, <1>4 DEF OwnEntries
  <2>2. blobs \subseteq blobs'
      BY <1>1, <2>1, LateBlobs
  <2>3. proc'[p].pc \in {"enter", "upload", "log", "exited"}
      BY <1>1, <2>1, LatePlaces
  <2> QED
      BY <2>1, <2>2, <2>3
<1>5. CASE e \notin reductions
  <2>1. Enters(p)
      BY <1>e, <1>5
  <2>2. Outputs(thunk(p)) \subseteq blobs /\ blobs \subseteq blobs'
      BY <1>1, <2>1, LateBlobs DEF Enters, Having, Grabbed
  <2> QED
      BY <2>1, <2>2 DEF Enters
<1> QED
    BY <1>4, <1>5

\* gg-execute aborts in a transfer thread or for want of a timelog.
LEMMA ExecuteStatus ==
    ASSUME HandlerInv, NEW p \in Proc, Execute(p), At(p, "exited")', proc'[p].status = "Aborted"
    PROVE  MayAbort
<1>1. Serving(p) /\ Having(p) /\ ProcType /\ (Progress(p) \/ Kill(p))
    BY DEF Execute, HandlerInv
<1>2. Exits(p)
    BY <1>1, WhyExits
<1>3. ~ (proc[p].pc \in {"open", "cleanup"} /\ thunk(p) \notin blobs)
    BY <1>1 DEF Having
<1>4. ASSUME proc[p].pc = "cleanup", NEW q \in Proc \ {p}, At(q, "cleanup") PROVE FALSE
  <2>1. Serving(q)
      BY <1>4 DEF HandlerInv, Serving, At
  <2> QED
      BY <1>1, <1>4, <2>1 DEF HandlerInv
<1>5. proc[p].pc = "upload" => Outputs(thunk(p)) \subseteq blobs
    BY <1>1 DEF Having
<1>6. proc[p].pc = "upload" /\ proc[p].at > 0 => Result[thunk(p)][proc[p].at] \in blobs
  <2>1. proc[p].pc = "upload" /\ proc[p].at > 0 => proc[p].at \in Tags(thunk(p))
      BY <1>1, OneThunk, ExecuteAssumption DEF ProcType, Local, State, Tags
  <2> QED
      BY <1>5, <2>1 DEF Outputs
<1> QED
    BY <1>2, <1>3, <1>4, <1>5, <1>6 DEF Exits, MayAbort

-----------------------------------------------------------------------------
(***************************************************************************)
(* HandlerInv is inductive.                                                *)
(***************************************************************************)

\* What the invariant says of a request while it is served.
Served(p) ==
    Serving(p) => Having(p) /\ (Fresh(p) => OwnEntries(p))

LEMMA HandlerInvInit == HandlerInit => HandlerInv
<1> SUFFICES ASSUME HandlerInit PROVE HandlerInv
    OBVIOUS
<1>1. ProcType
    BY ProcTypeInit DEF HandlerInit
<1>2. /\ \A p \in Proc : proc[p].pc = "idle" /\ answer[p] = "none" /\ proc[p].status = "none"
      /\ reductions = {}
    BY DEF HandlerInit, Init
<1>3. answer \in [Proc -> Status \cup {"FunctionError"}]
    BY DEF HandlerInit, Status
<1> QED
    BY <1>1, <1>2, <1>3 DEF HandlerInv, Serving, Truthful, Origin

LEMMA ExecuteInv ==
    ASSUME HandlerInv, NEW p \in Proc, Execute(p)
    PROVE  HandlerInv'
<1>1. Serving(p) /\ ProcType /\ (Progress(p) \/ Kill(p)) /\ UNCHANGED answer
    BY DEF Execute, HandlerInv
<1>2. ProcType' /\ UNCHANGED setup
    BY <1>1, ProcTypeNext, SetupKept DEF Next
<1>3. \A q \in Proc : q # p => proc'[q] = proc[q]
    BY <1>1, ProgressKind DEF Kind, Moves
<1>4. \A q \in Proc : Serving(q)' => q = p
    BY <1>1, <1>3 DEF HandlerInv, Serving
<1>5. MayAbort' <=> MayAbort
    BY <1>2 DEF MayAbort, Flags, Threaded
<1>6. \A q \in Proc : (answer[q] # "none" =>
                          At(q, "exited") \/ (At(q, "idle") /\ answer[q] = "FunctionError"))'
    BY <1>1, <1>3 DEF HandlerInv, At, Serving
<1>k. Kind(p) /\ proc[p].pc \notin {"idle", "exited"} /\ proc'[p].pc # "idle"
  <2>1. Kind(p) /\ proc[p].pc \notin {"idle", "exited"}
      BY <1>1, ProgressKind, Active
  <2> QED
      BY <2>1 DEF Kind, Fails, Starts, Opens, Locks, Works, Grabs, Enters, Uploads, Sends, GoesOn
<1>f. Fresh(p)' => Fresh(p)
  <2>1. Platform' = Platform
      BY <1>2 DEF Platform
  <2>2. RequestedBefore(p) => RequestedBefore(p)'
      BY <1>1, <1>2, RequestedStays
  <2> QED
      BY <2>1, <2>2 DEF Fresh
<1>7. \A q \in Proc : Served(q)'
    BY <1>4, <1>f, ExecuteHaving, ExecuteOwn DEF Served
<1>8. \A q \in Proc : Truthful(q)'
  <2>1. Truthful(p)'
      BY <1>1 DEF Truthful, Serving
  <2>2. \A q \in Proc : q # p => Truthful(q)'
      BY <1>1, <1>2, <1>3, TruthfulStays DEF HandlerInv
  <2> QED
      BY <2>1, <2>2
<1>9. Origin'
  <2>1. ASSUME NEW e \in reductions' \ reductions PROVE e.thunk = thunk(p)
    <3>1. e = Entry(thunk(p), proc[p].at)
        BY <1>k, <2>1
        DEF Kind, Fails, Starts, Opens, Locks, Works, Enters, Uploads, GoesOn, Same
    <3> QED
        BY <3>1 DEF Entry
  <2>2. \A q \in Proc : proc[q].pc # "idle" => proc'[q].pc # "idle"
      BY <1>3, <1>k
  <2> QED
      BY <1>1, <1>2, <1>k, <2>1, <2>2, OriginStays DEF HandlerInv
<1>10. \A q \in Proc : proc'[q].status = "Aborted" => MayAbort'
  <2>1. proc'[p].status = "Aborted" => At(p, "exited")'
      BY <1>2 DEF ProcType, Local, At
  <2>2. proc'[p].status = "Aborted" => MayAbort
      BY <2>1, ExecuteStatus
  <2> QED
      BY <1>3, <1>5, <2>2 DEF HandlerInv
<1> QED
    BY <1>1, <1>2, <1>4, <1>6, <1>7, <1>8, <1>9, <1>10 DEF HandlerInv, Served

LEMMA InvokeInv ==
    ASSUME HandlerInv, NEW p \in Proc, Invoke(p)
    PROVE  HandlerInv'
<1>1. ProcType /\ Goto(p, "open", 0) /\ UNCHANGED <<setup, inode, answer>> /\ "open" \in Step
    BY DEF HandlerInv, Invoke, Step
<1>2. /\ Moves(p) /\ proc'[p].pc = "open" /\ proc'[p].at = 0
      /\ proc'[p].job = proc[p].job /\ proc'[p].status = proc[p].status
    BY <1>1, GotoMoves
<1>3. proc[p].pc = "idle" /\ proc[p].status = "none" /\ answer[p] = "none"
    BY <1>1 DEF Invoke, Arriving, At, HandlerInv, ProcType, Local
<1>4. ProcType'
  <2>1. Local(p)'
      BY <1>1, <1>2, <1>3 DEF ProcType, Local
  <2>2. \A q \in Proc : q # p => Local(q)'
      BY <1>1, <1>2 DEF ProcType, Local, Moves, thunk
  <2>3. reductions' \subseteq reductions
      BY DEF Invoke, KeptBetween
  <2>4. (\A e \in reductions : e.thunk \in Thunk /\ e.output \in {0} \cup Tags(e.thunk))'
      BY <1>1, <2>3 DEF ProcType, Tags
  <2> QED
      BY <1>1, <1>2, <2>1, <2>2, <2>4 DEF ProcType, Moves
<1>5. \A q \in Proc : q # p => proc'[q] = proc[q]
    BY <1>2 DEF Moves
<1>6. \A q \in Proc : Serving(q)' => q = p
    BY <1>1, <1>5 DEF Invoke, Arriving, Serving
<1>7. Platform' = Platform /\ (MayAbort' <=> MayAbort)
    BY <1>1 DEF Platform, MayAbort, Threaded, Flags
<1>8. \A q \in Proc : (answer[q] # "none" =>
                          At(q, "exited") \/ (At(q, "idle") /\ answer[q] = "FunctionError"))'
    BY <1>1, <1>3, <1>5 DEF HandlerInv, At
<1>9. Having(p)'
  <2>1. thunk(p)' = thunk(p) /\ thunk(p) \in blobs'
      BY <1>1, <1>4, SameThunk DEF Invoke
  <2> QED
      BY <1>2, <1>3, <2>1 DEF Having, Grabbed
<1>r. reductions' = KeptBetween(reductions) /\ reductions' \subseteq reductions
    BY DEF Invoke, KeptBetween
<1>10. Fresh(p)' => OwnEntries(p)'
  <2>1. Platform = "lambda" => reductions' = {}
      BY <1>r DEF KeptBetween
  <2>2. ASSUME NEW e \in reductions, e.thunk = thunk(p) PROVE RequestedBefore(p)'
    <3>1. PICK q \in Proc : thunk(q) = e.thunk /\ proc[q].pc # "idle"
        BY <2>2 DEF HandlerInv, Origin
    <3>2. q # p /\ answer[q] # "none"
        BY <1>3, <3>1 DEF Invoke, Arriving, Serving
    <3>3. RequestedBefore(p)
        BY <2>2, <3>1, <3>2 DEF RequestedBefore
    <3> QED
        BY <1>1, <1>4, <3>3, RequestedStays
  <2>3. thunk(p)' = thunk(p)
      BY <1>1, <1>4, SameThunk
  <2>4. ASSUME NEW e \in reductions', Fresh(p)' PROVE Platform' # "lambda" /\ e.thunk # thunk(p)'
    <3>1. Platform # "lambda" /\ e \in reductions
        BY <1>r, <2>1, <2>4
    <3>2. ~ RequestedBefore(p)'
        BY <1>7, <2>4, <3>1 DEF Fresh
    <3> QED
        BY <1>7, <2>2, <2>3, <3>1, <3>2
  <2> QED
      BY <2>4 DEF OwnEntries
<1>11. \A q \in Proc : Served(q)'
    BY <1>6, <1>9, <1>10 DEF Served
<1>12. \A q \in Proc : Truthful(q)'
  <2>1. Truthful(p)'
      BY <1>1, <1>3 DEF Truthful
  <2>2. \A q \in Proc : q # p => Truthful(q)'
      BY <1>1, <1>4, <1>5, TruthfulStays DEF HandlerInv
  <2> QED
      BY <2>1, <2>2
<1>13. Origin'
  <2>1. \A q \in Proc : proc[q].pc # "idle" => proc'[q].pc # "idle"
      BY <1>3, <1>5
  <2> QED
      BY <1>1, <1>4, <1>r, <2>1, OriginStays DEF HandlerInv
<1>14. \A q \in Proc : proc'[q].status = "Aborted" => MayAbort'
    BY <1>2, <1>3, <1>5, <1>7 DEF HandlerInv
<1> QED
    BY <1>1, <1>4, <1>6, <1>8, <1>11, <1>12, <1>13, <1>14 DEF HandlerInv, Served

\* A function that fails: gg-execute is stopped, or not started.
LEMMA StopInv ==
    ASSUME HandlerInv, NEW p \in Proc, answer[p] = "none",
           ProcType', UNCHANGED setup, reductions' \subseteq reductions,
           \A q \in Proc : q # p => proc'[q] = proc[q],
           \/ proc'[p] = proc[p] /\ proc[p].pc = "idle"
           \/ proc'[p].status = "Killed" /\ proc'[p].pc = "exited",
           answer' = [answer EXCEPT ![p] = "FunctionError"],
           \A q \in Proc : Serving(q) => q = p
    PROVE  HandlerInv'
<1>1. ProcType
    BY DEF HandlerInv
<1>2. /\ \A q \in Proc : q # p => answer'[q] = answer[q]
      /\ answer'[p] = "FunctionError" /\ answer' \in [Proc -> Status \cup {"FunctionError"}]
    BY DEF HandlerInv
<1>3. \A q \in Proc : ~ Serving(q)'
    BY <1>2 DEF Serving
<1>4. MayAbort' <=> MayAbort
    BY DEF MayAbort, Threaded, Flags
<1>5. \A q \in Proc : (answer[q] # "none" =>
                          At(q, "exited") \/ (At(q, "idle") /\ answer[q] = "FunctionError"))'
    BY <1>2 DEF HandlerInv, At
<1>6. \A q \in Proc : Truthful(q)'
  <2>1. Truthful(p)'
      BY <1>2 DEF Truthful, At
  <2>2. ASSUME NEW q \in Proc, q # p PROVE Truthful(q)'
      BY <1>1, <1>2, <2>2, TruthfulStays DEF HandlerInv
  <2> QED
      BY <2>1, <2>2
<1>7. Origin'
    BY <1>1, OriginStays DEF HandlerInv
<1>8. \A q \in Proc : proc'[q].status = "Aborted" => MayAbort'
    BY <1>4 DEF HandlerInv
<1> QED
    BY <1>2, <1>3, <1>5, <1>6, <1>7, <1>8 DEF HandlerInv

LEMMA TimeOutInv ==
    ASSUME HandlerInv, NEW p \in Proc, TimeOut(p)
    PROVE  HandlerInv'
<1>1. /\ ProcType /\ Exit(p, "Killed") /\ "Killed" \in Status /\ Serving(p)
      /\ answer' = [answer EXCEPT ![p] = "FunctionError"]
      /\ UNCHANGED <<setup, blobs, inode, reductions, stored>>
    BY DEF HandlerInv, Status, TimeOut
<1>2. /\ Moves(p) /\ proc'[p].pc = "exited" /\ proc'[p].status = "Killed"
      /\ proc'[p].job = proc[p].job
    BY <1>1, ExitMoves
<1>3. ProcType'
  <2>1. Local(p)'
      BY <1>1, <1>2 DEF ProcType, Local
  <2>2. \A q \in Proc : q # p => Local(q)'
      BY <1>1, <1>2 DEF ProcType, Local, Moves, thunk
  <2>3. (\A e \in reductions : e.thunk \in Thunk /\ e.output \in {0} \cup Tags(e.thunk))'
      BY <1>1 DEF ProcType, Tags
  <2> QED
      BY <1>1, <1>2, <2>1, <2>2, <2>3 DEF ProcType, Moves
<1>4. answer[p] = "none" /\ \A q \in Proc : Serving(q) => q = p
    BY <1>1 DEF HandlerInv, Serving
<1>5. \A q \in Proc : q # p => proc'[q] = proc[q]
    BY <1>2 DEF Moves
<1> QED
    BY <1>1, <1>2, <1>3, <1>4, <1>5, StopInv

LEMMA AnswerInv ==
    ASSUME HandlerInv, NEW p \in Proc, Answer(p)
    PROVE  HandlerInv'
<1>1. /\ ProcType /\ Serving(p) /\ At(p, "exited") /\ Served(p)
      /\ UNCHANGED <<setup, blobs, inode, reductions, stored, proc>>
    BY DEF HandlerInv, Answer, vars, Served
<1> DEFINE a == CASE Missing(p) = {} -> "Success"
                  [] Missing(p) # {} /\ Entry(thunk(p), Min(Missing(p))) \in reductions -> "FunctionError"
                  [] OTHER -> proc[p].status
<1>2. answer' = [answer EXCEPT ![p] = a]
    BY DEF Answer
<1>3. proc[p].status \in Status \ {"none"}
    BY <1>1 DEF At, ProcType, Local, State
<1>4. a = "FunctionError" => Missing(p) # {} /\ Entry(thunk(p), Min(Missing(p))) \in reductions
    BY <1>3 DEF Status
<1>5. a \in Status \cup {"FunctionError"} /\ a # "none"
    BY <1>3 DEF Status
<1>6. a \notin {"Success", "FunctionError"} => a = proc[p].status
    OBVIOUS
<1> HIDE DEF a
<1>7. ASSUME a = "FunctionError"
      PROVE  /\ ~ (Outputs(thunk(p)) \subseteq blobs)
             /\ \E e \in reductions : e.thunk = thunk(p)
  <2>1. Missing(p) \in SUBSET Nat
      BY DEF Missing, Tags
  <2> DEFINE i == Min(Missing(p))
  <2>2. i \in Missing(p)
      BY <1>4, <1>7, <2>1, MinIsOne
  <2>3. Entry(thunk(p), i) \in reductions
      BY <1>4, <1>7
  <2> HIDE DEF i
  <2>4. i \in Tags(thunk(p)) /\ Result[thunk(p)][i] \notin blobs
      BY <2>2, <2>3 DEF Missing
  <2>5. Entry(thunk(p), i).thunk = thunk(p)
      BY DEF Entry
  <2> QED
      BY <2>3, <2>4, <2>5 DEF Outputs
<1>8. a = "FunctionError" =>
         Platform = "gcloud" /\ RequestedBefore(p) /\ proc[p].status # "Success"
  <2>1. setup \in Setups
      BY <1>1 DEF ProcType
  <2>2. Platform \in {"lambda", "gcloud"}
      BY <2>1, HandlerAssumption DEF Platform
  <2>3. a = "FunctionError" => ~ Fresh(p)
      BY <1>1, <1>7 DEF Served, OwnEntries
  <2>4. a = "FunctionError" => proc[p].status # "Success"
      BY <1>1, <1>7 DEF Served, Having
  <2> QED
      BY <2>2, <2>3, <2>4 DEF Fresh
<1>9. /\ \A q \in Proc : q # p => answer'[q] = answer[q]
      /\ answer'[p] = a /\ answer' \in [Proc -> Status \cup {"FunctionError"}]
    BY <1>2, <1>5 DEF HandlerInv
<1>10. \A q \in Proc : ~ Serving(q)'
    BY <1>1, <1>5, <1>9 DEF Serving, HandlerInv
<1>11. ProcType'
    BY <1>1 DEF ProcType, Local, thunk, Tags
<1>12. \A q \in Proc : (answer[q] # "none" =>
                           At(q, "exited") \/ (At(q, "idle") /\ answer[q] = "FunctionError"))'
    BY <1>1, <1>9 DEF HandlerInv, At
<1>13. \A q \in Proc : Truthful(q)'
  <2>1. Truthful(p)'
    <3>1. RequestedBefore(p) => RequestedBefore(p)'
        BY <1>1, <1>9, <1>11, RequestedStays
    <3>2. Platform' = Platform
        BY <1>1 DEF Platform
    <3> QED
        BY <1>1, <1>6, <1>8, <1>9, <3>1, <3>2 DEF Truthful
  <2>2. ASSUME NEW q \in Proc, q # p PROVE Truthful(q)'
    <3>1. \A q1 \in Proc : q1 # q /\ answer[q1] # "none" => answer'[q1] # "none"
        BY <1>5, <1>9
    <3> QED
        BY <1>1, <1>9, <1>11, <2>2, <3>1, TruthfulStays DEF HandlerInv
  <2> QED
      BY <2>1, <2>2
<1>14. Origin'
    BY <1>1, <1>11, OriginStays DEF HandlerInv
<1>15. \A q \in Proc : proc'[q].status = "Aborted" => MayAbort'
    BY <1>1 DEF HandlerInv, MayAbort, Threaded, Flags
<1> QED
    BY <1>9, <1>10, <1>11, <1>12, <1>13, <1>14, <1>15 DEF HandlerInv

LEMMA HandlerInvNext ==
    ASSUME HandlerInv, [HandlerNext]_hvars
    PROVE  HandlerInv'
<1>1. CASE UNCHANGED hvars
    BY <1>1 DEF hvars, HandlerInv, ProcType, Local, thunk, Tags, At, Serving, Having, Grabbed, Outputs,
       Fresh, OwnEntries, Origin, RequestedBefore, MayAbort, Truthful, Platform, Threaded, Flags
<1>2. ASSUME NEW p \in Proc, InvokeFails(p) PROVE HandlerInv'
  <2>1. /\ reductions' \subseteq reductions /\ UNCHANGED <<setup, inode, proc>>
        /\ proc[p].pc = "idle" /\ answer[p] = "none" /\ ~ \E q \in Proc : Serving(q)
        /\ answer' = [answer EXCEPT ![p] = "FunctionError"]
      BY <1>2 DEF InvokeFails, Arriving, At, KeptBetween
  <2>2. ProcType'
      BY <2>1 DEF HandlerInv, ProcType, Local, thunk, Tags
  <2> QED
      BY <2>1, <2>2, StopInv
<1> QED
    BY <1>1, <1>2, ExecuteInv, InvokeInv, TimeOutInv, AnswerInv DEF HandlerNext

LEMMA HandlerInvAlways == HandlerSpec => []HandlerInv
BY HandlerInvInit, HandlerInvNext, PTL DEF HandlerSpec

\* On Lambda the function fails only if it is stopped or finds no room for the thunk:
\* an entry never names a blob that is gone, because the entries of earlier requests
\* are removed and the request's own are made when the cleanup is over
\* (lambda_function/main.py:38-42, 93-118).
THEOREM LambdaFindsItsBlobs == HandlerSpec => []AnswerFindsBlobs
<1>1. HandlerInv => AnswerFindsBlobs
  <2> SUFFICES ASSUME HandlerInv, Platform = "lambda",
                      NEW p \in Proc, answer[p] = "FunctionError"
               PROVE  proc[p].status = "Killed" \/ At(p, "idle")
      BY DEF AnswerFindsBlobs
  <2> QED
      BY DEF HandlerInv, Truthful
<1> QED
    BY <1>1, HandlerInvAlways, PTL

\* The coordinator gives up a thunk for no other reason than those FatalHasACause names:
\* gg-execute aborts only in a transfer thread or for want of a timelog, and where the
\* cache is kept a function fails over a thunk only if it finds entries of an earlier
\* request for the same thunk (engine_gcloud.cc:51-56, gcloud_function/main.py:76-96).
THEOREM FatalVerdictsHaveCauses == HandlerSpec => []FatalHasACause
<1>1. HandlerInv => FatalHasACause
  <2> SUFFICES ASSUME HandlerInv, NEW p \in Proc,
                      Verdict(p) \in {"ExecutionFailure", "Aborted", "Killed"}
               PROVE  \/ proc[p].status \in {"ExecutionFailure", "Killed"}
                      \/ proc[p].status = "Aborted" /\ (Threaded \/ "timelog" \notin Flags)
                      \/ /\ Platform = "gcloud" /\ answer[p] = "FunctionError"
                         /\ At(p, "idle") \/ (RequestedBefore(p) /\ proc[p].status # "Success")
      BY DEF FatalHasACause
  <2>1. Truthful(p) /\ (proc[p].status = "Aborted" => MayAbort) /\ setup \in Setups
      BY DEF HandlerInv, ProcType
  <2>2. Platform \in {"lambda", "gcloud"}
      BY <2>1, HandlerAssumption DEF Platform
  <2>3. CASE answer[p] # "FunctionError"
      BY <2>1, <2>3 DEF Verdict, Truthful, MayAbort
  <2>4. CASE answer[p] = "FunctionError"
      BY <2>1, <2>2, <2>4 DEF Verdict, Truthful
  <2> QED
      BY <2>3, <2>4
<1> QED
    BY <1>1, HandlerInvAlways, PTL

-----------------------------------------------------------------------------
(***************************************************************************)
(* The uploads behind the answers.                                         *)
(***************************************************************************)

\* A process that neither sends nor has sent.
LEMMA SentElsewhere ==
    ASSUME ProcType, SentInv, NEW p \in Proc, Moves(p), UNCHANGED <<setup, stored>>,
           proc'[p].pc \notin {"upload", "log"}, proc'[p].status # "Success",
           proc'[p].job = proc[p].job
    PROVE  SentInv'
<1> SUFFICES ASSUME Sending, NEW q \in Proc PROVE Sent(q)'
    BY DEF SentInv, Sending, Flags, Faults
<1>1. Sent(q)
    BY DEF SentInv
<1>2. CASE q # p
    BY <1>1, <1>2, SentStays DEF Moves
<1>3. CASE q = p
    BY <1>1, <1>3 DEF Sent, Outputs, Tags
<1> QED
    BY <1>2, <1>3

LEMMA HandlerSentNext ==
    ASSUME HandlerInv, SentInv, [HandlerNext]_hvars
    PROVE  SentInv'
<1>1. ProcType
    BY DEF HandlerInv
<1>2. ASSUME NEW p \in Proc, Execute(p) PROVE SentInv'
    BY <1>1, <1>2, SentInvNext DEF Execute, Next
<1>3. ASSUME NEW p \in Proc, Invoke(p) PROVE SentInv'
  <2>1. Goto(p, "open", 0) /\ "open" \in Step /\ proc[p].status # "Success"
      BY <1>1, <1>3 DEF Invoke, Arriving, Step, ProcType, Local, At
  <2>2. /\ Moves(p) /\ proc'[p].pc = "open" /\ proc'[p].job = proc[p].job
        /\ proc'[p].status = proc[p].status
      BY <1>1, <2>1, GotoMoves
  <2> QED
      BY <1>1, <1>3, <2>1, <2>2, SentElsewhere DEF Invoke
<1>4. ASSUME NEW p \in Proc, TimeOut(p) PROVE SentInv'
  <2>1. Exit(p, "Killed") /\ "Killed" \in Status
      BY <1>4 DEF TimeOut, Status
  <2>2. /\ Moves(p) /\ proc'[p].pc = "exited" /\ proc'[p].status = "Killed"
        /\ proc'[p].job = proc[p].job
      BY <1>1, <2>1, ExitMoves
  <2> QED
      BY <1>1, <1>4, <2>2, SentElsewhere DEF TimeOut
<1>5. ASSUME UNCHANGED vars PROVE SentInv'
    BY <1>1, <1>5, SentInvNext
<1>6. ASSUME NEW p \in Proc, InvokeFails(p) PROVE SentInv'
  <2>1. UNCHANGED <<setup, stored, proc>>
      BY <1>6 DEF InvokeFails
  <2>2. \A q \in Proc : Sent(q) => Sent(q)'
      BY <2>1, SentStays
  <2> QED
      BY <2>1, <2>2 DEF SentInv, Sending, Flags, Faults
<1> QED
    BY <1>2, <1>3, <1>4, <1>5, <1>6 DEF HandlerNext, Answer, hvars, vars

\* What does not change the answers, and takes nothing from the backend, keeps them
\* honest.
LEMMA AnswersStay ==
    ASSUME ProcType, ProcType', HonestAnswer, stored \subseteq stored',
           \A p \in Proc : answer'[p] = "Success" => answer[p] = "Success"
    PROVE  HonestAnswer'
BY SameThunk DEF HonestAnswer

LEMMA ExecuteUploads ==
    ASSUME HandlerInv, SentInv', UploadInv, NEW p \in Proc, Execute(p)
    PROVE  UploadInv'
<1>1. /\ Serving(p) /\ Having(p) /\ ProcType /\ (Progress(p) \/ Kill(p)) /\ UNCHANGED answer
    BY DEF Execute, HandlerInv
<1>2. Kind(p) /\ UNCHANGED setup /\ stored \subseteq stored' /\ ProcType'
    BY <1>1, ProgressKind, SetupKept, ProcTypeNext DEF Next
<1>3. thunk(p)' = thunk(p) /\ Outputs(thunk(p))' = Outputs(thunk(p))
    BY <1>1, <1>2, SameThunk
<1> SUFFICES ASSUME Safe PROVE HonestAnswer' /\ \A e \in reductions' : Honest(e)'
    BY <1>2 DEF UploadInv, Safe, Sending, Flags, Faults, Platform
<1>4. HonestAnswer'
    BY <1>1, <1>2, AnswersStay DEF UploadInv
<1>5. ASSUME proc'[p].pc \in {"enter", "upload", "log"} PROVE Serving(p)'
    BY <1>1, <1>5 DEF Serving
<1>6. ASSUME proc[p].pc \in {"enter", "upload", "log"}, proc'[p].pc = "exited"
      PROVE  Outputs(thunk(p)) \subseteq stored'
  <2>1. Exits(p)
      BY <1>1, <1>6, WhyExits DEF At
  <2>2. proc[p].pc = "upload" => Outputs(thunk(p)) \subseteq blobs
      BY <1>1 DEF Having
  <2>3. proc[p].pc = "upload" /\ proc[p].at > 0 => Result[thunk(p)][proc[p].at] \in blobs
    <3>1. proc[p].pc = "upload" /\ proc[p].at > 0 => proc[p].at \in Tags(thunk(p))
        BY <1>1, OneThunk, ExecuteAssumption DEF ProcType, Local, State, Tags
    <3> QED
        BY <2>2, <3>1 DEF Outputs
  <2>4. proc'[p].status = "Success"
      BY <1>6, <2>1, <2>2, <2>3 DEF Exits, Safe
  <2>5. Sending' /\ Sent(p)'
      BY <1>2 DEF Safe, Sending, Flags, Faults, SentInv
  <2> QED
      BY <1>3, <2>4, <2>5 DEF Sent
<1>7. ASSUME NEW e \in reductions' PROVE Honest(e)'
  <2>1. CASE e \in reductions
    <3>1. Honest(e)
        BY <1>1, <2>1 DEF UploadInv
    <3>2. CASE Outputs(e.thunk) \subseteq stored
        BY <1>2, <3>2 DEF Honest, Outputs, Tags
    <3>3. ASSUME NEW q \in Proc, Serving(q), thunk(q) = e.thunk,
                 proc[q].pc \in {"enter", "upload", "log"}
          PROVE  Honest(e)'
      <4>1. q = p
          BY <1>1, <3>3 DEF HandlerInv
      <4>2. proc'[p].pc \in {"enter", "upload", "log", "exited"}
          BY <1>1, <3>3, <4>1, LatePlaces
      <4>3. CASE proc'[p].pc = "exited"
          BY <1>6, <3>3, <4>1, <4>3 DEF Honest, Outputs, Tags
      <4>4. CASE proc'[p].pc # "exited"
          BY <1>3, <1>5, <3>3, <4>1, <4>2, <4>4 DEF Honest
      <4> QED
          BY <4>3, <4>4
    <3> QED
        BY <3>1, <3>2, <3>3 DEF Honest
  <2>2. CASE e \notin reductions
    <3>1. Enters(p) /\ e = Entry(thunk(p), proc[p].at)
        BY <1>2, <1>7, <2>2
        DEF Kind, Fails, Starts, Opens, Locks, Works, Enters, Uploads, GoesOn, Same
    <3>2. proc'[p].pc \in {"enter", "upload", "log"} /\ e.thunk = thunk(p)
        BY <3>1 DEF Enters, Entry
    <3> QED
        BY <1>3, <1>5, <3>2 DEF Honest
  <2> QED
      BY <2>1, <2>2
<1> QED
    BY <1>4, <1>7

LEMMA InvokeUploads ==
    ASSUME HandlerInv, HandlerInv', UploadInv, NEW p \in Proc, Invoke(p) \/ InvokeFails(p)
    PROVE  UploadInv'
<1>1. /\ reductions' = KeptBetween(reductions) /\ UNCHANGED <<setup, stored>>
      /\ ~ \E q \in Proc : Serving(q)
      /\ \A q \in Proc : answer'[q] = "Success" => answer[q] = "Success"
    BY DEF Invoke, InvokeFails, Arriving, HandlerInv
<1>2. ProcType /\ ProcType' /\ setup \in Setups
    BY DEF HandlerInv, ProcType
<1> SUFFICES ASSUME Safe PROVE HonestAnswer' /\ \A e \in reductions' : Honest(e)'
    BY <1>1 DEF UploadInv, Safe, Sending, Flags, Faults, Platform
<1>3. HonestAnswer'
    BY <1>1, <1>2, AnswersStay DEF UploadInv
<1>4. ASSUME NEW e \in reductions' PROVE Outputs(e.thunk) \subseteq stored'
  <2>1. Platform = "gcloud" /\ e \in reductions
      BY <1>1, <1>2, <1>4, HandlerAssumption DEF KeptBetween, Platform
  <2> QED
      BY <1>1, <2>1 DEF UploadInv, Honest
<1> QED
    BY <1>3, <1>4 DEF Honest, Outputs, Tags

LEMMA TimeOutUploads ==
    ASSUME HandlerInv, HandlerInv', UploadInv, NEW p \in Proc, TimeOut(p)
    PROVE  UploadInv'
<1>1. ProcType /\ ProcType' /\ setup \in Setups /\ UNCHANGED <<setup, stored>>
    BY DEF HandlerInv, ProcType, TimeOut
<1>2. /\ answer'[p] = "FunctionError"
      /\ \A q \in Proc : answer'[q] = "Success" => answer[q] = "Success"
    BY DEF HandlerInv, TimeOut
<1> SUFFICES ASSUME Safe
             PROVE  HonestAnswer' /\ Platform' # "gcloud" /\ ~ \E q \in Proc : Serving(q)'
    BY <1>1 DEF UploadInv, Safe, Sending, Flags, Faults, Platform
<1>3. HonestAnswer'
    BY <1>1, <1>2, AnswersStay DEF UploadInv
<1>4. Platform' # "gcloud"
    BY <1>1 DEF Safe, TimeOut, Platform
<1>5. ~ \E q \in Proc : Serving(q)'
  <2> SUFFICES ASSUME NEW q \in Proc, q # p, Serving(q)' PROVE FALSE
      BY <1>2 DEF Serving
  <2>1. proc'[q] = proc[q] /\ answer'[q] = answer[q]
      BY DEF TimeOut, Exit, HandlerInv, ProcType
  <2> QED
      BY <2>1 DEF Serving, TimeOut, HandlerInv
<1> QED
    BY <1>3, <1>4, <1>5

LEMMA AnswerUploads ==
    ASSUME HandlerInv, SentInv, UploadInv, NEW p \in Proc, Answer(p)
    PROVE  UploadInv'
<1>1. /\ ProcType /\ Serving(p) /\ At(p, "exited")
      /\ UNCHANGED <<setup, blobs, inode, reductions, stored, proc>>
    BY DEF HandlerInv, Answer, vars
<1> SUFFICES ASSUME Safe PROVE HonestAnswer' /\ \A e \in reductions' : Honest(e)'
    BY <1>1 DEF UploadInv, Safe, Sending, Flags, Faults, Platform
<1>2. \A e \in reductions : Outputs(e.thunk) \subseteq stored
  <2> SUFFICES ASSUME NEW e \in reductions PROVE Outputs(e.thunk) \subseteq stored
      OBVIOUS
  <2>1. Honest(e)
      BY <1>1 DEF UploadInv
  <2>2. ASSUME NEW q \in Proc, Serving(q), proc[q].pc \in {"enter", "upload", "log"} PROVE FALSE
    <3>1. q = p
        BY <1>1, <2>2 DEF HandlerInv
    <3> QED
        BY <1>1, <2>2, <3>1 DEF At
  <2> QED
      BY <2>1, <2>2 DEF Honest
<1>3. \A q \in Proc : q # p => answer'[q] = answer[q]
    BY DEF Answer, HandlerInv
<1>4. ASSUME answer'[p] = "Success" PROVE Outputs(thunk(p)) \subseteq stored
  <2>1. Missing(p) = {} \/ proc[p].status = "Success"
      BY <1>4 DEF Answer, HandlerInv
  <2>2. CASE proc[p].status = "Success"
      BY <2>2 DEF Safe, SentInv, Sent
  <2>3. CASE Missing(p) = {}
    <3>1. 1 \in Tags(thunk(p))
        BY <1>1, OneThunk, ExecuteAssumption DEF Tags
    <3>2. Entry(thunk(p), 1) \in reductions
        BY <2>3, <3>1 DEF Missing
    <3>3. Entry(thunk(p), 1).thunk = thunk(p)
        BY DEF Entry
    <3> QED
        BY <1>2, <3>2, <3>3
  <2> QED
      BY <2>1, <2>2, <2>3
<1>5. \A q \in Proc : thunk(q)' = thunk(q)
    BY <1>1 DEF thunk
<1>6. HonestAnswer'
    BY <1>1, <1>3, <1>4, <1>5 DEF UploadInv, HonestAnswer, Outputs, Tags
<1> QED
    BY <1>1, <1>2, <1>6 DEF Honest, Outputs, Tags

LEMMA UploadInvAlways == HandlerSpec => [](HandlerInv /\ SentInv /\ UploadInv)
<1>1. HandlerInit => SentInv
  <2> SUFFICES ASSUME HandlerInit PROVE SentInv
      OBVIOUS
  <2>1. \A p \in Proc : proc[p].pc = "idle" /\ proc[p].status = "none" /\ proc[p].job = 1
      BY DEF HandlerInit, Init
  <2> QED
      BY <2>1 DEF SentInv, Sent
<1>2. HandlerInit => UploadInv
  <2> SUFFICES ASSUME HandlerInit PROVE UploadInv
      OBVIOUS
  <2>1. reductions = {} /\ \A p \in Proc : answer[p] = "none"
      BY DEF HandlerInit, Init
  <2> QED
      BY <2>1 DEF UploadInv, HonestAnswer
<1>3. ASSUME HandlerInv, SentInv, UploadInv, [HandlerNext]_hvars
      PROVE  HandlerInv' /\ SentInv' /\ UploadInv'
  <2>1. HandlerInv' /\ SentInv'
      BY <1>3, HandlerInvNext, HandlerSentNext
  <2>2. ASSUME UNCHANGED hvars PROVE UploadInv'
      BY <1>3, <2>2
      DEF hvars, UploadInv, Safe, Sending, Flags, Faults, Platform, HonestAnswer, Honest,
          Serving, thunk, Outputs, Tags
  <2>3. UploadInv'
      BY <1>3, <2>1, <2>2, ExecuteUploads, InvokeUploads, TimeOutUploads, AnswerUploads
      DEF HandlerNext
  <2> QED
      BY <2>1, <2>3
<1> QED
    BY <1>1, <1>2, <1>3, HandlerInvInit, PTL DEF HandlerSpec

\* A request answered with success has its outputs in the backend unless an upload has
\* failed, seen or unseen, or gg-execute was killed, by itself or, on Google Cloud, with
\* the function: on Lambda because the entries of earlier requests are removed, on
\* Google Cloud because those requests have uploaded what they entered
\* (lambda_function/main.py:38-42, 81-129).
THEOREM SuccessIsUploaded == HandlerSpec => []HonestIfUploaded
<1>1. HandlerInv /\ UploadInv => HonestIfUploaded
  <2> SUFFICES ASSUME HandlerInv, UploadInv, Faults \cap {"upload", "unseen", "kill"} = {},
                      Platform = "gcloud" => "timeout" \notin Faults
               PROVE  HonestAnswer
      BY DEF HonestIfUploaded
  <2>1. setup \in Setups
      BY DEF HandlerInv, ProcType
  <2>2. "put" \in Flags
      BY <2>1, HandlerAssumption DEF Flags
  <2> QED
      BY <2>2 DEF UploadInv, Safe, Sending
<1> QED
    BY <1>1, UploadInvAlways, PTL
=============================================================================
