----------------------------- MODULE LoopProofs -----------------------------
(***************************************************************************)
(* Proofs about the coordinator's main loop: ExecutionLoop, its signals    *)
(* and children, and JobTimeouts, its clock and the jobs that are late.    *)
(*                                                                         *)
(* Whatever the number of children and however their signals coalesce, no  *)
(* change of state is lost; a loop that ends leaves no child behind; and   *)
(* without connections the loop never meets a SIGCHLD it has no child for. *)
(* For every number of jobs, every capacity and timeout and every width of *)
(* the counter, late jobs are duplicated at a bounded rate, and a timeout  *)
(* cannot outgrow the run.                                                 *)
(***************************************************************************)
EXTENDS ExecutionLoop, JobTimeouts, FiniteSetTheorems, TLAPS

(***************************************************************************)
(* The signals and the children                                            *)
(***************************************************************************)

\* TypeOK with the types the steps need: what is still to be looked at is managed,
\* the round is over when the loop polls, and a child has nothing to report before
\* it is started.
LoopInv ==
    /\ TypeOK
    /\ managed \subseteq Child /\ called \subseteq Child /\ suspended \subseteq Child
    /\ stops \in Nat
    /\ loop = "polling" => todo = {}
    /\ loop \notin Ended => ending = {}
    /\ \A c \in Child : alive[c] = "new" => news[c] = "none"

LEMMA LoopInvInit == Init => LoopInv
BY DEF Init, LoopInv, TypeOK, Ended

LEMMA LoopInvNext == LoopInv /\ [Next]_vars => LoopInv'
<1> SUFFICES ASSUME LoopInv, [Next]_vars PROVE LoopInv'
  OBVIOUS
<1> USE DEF LoopInv, TypeOK, Ended
<1>1. ASSUME NEW c \in Child, ChildExits(c) PROVE LoopInv'
  BY <1>1 DEF ChildExits, Change, lists
<1>2. ASSUME NEW c \in Child, ChildStops(c) PROVE LoopInv'
  BY <1>2, LoopAssumption DEF ChildStops, Change, lists
<1>3. ASSUME NEW c \in Child, AddChild(c) PROVE LoopInv'
  BY <1>3 DEF AddChild
<1>4. ASSUME NEW k \in Connection, Connect(k) \/ Disconnect(k) PROVE LoopInv'
  BY <1>4 DEF Connect, Disconnect, kernel
<1>5. CASE Interrupt
  BY <1>5 DEF Interrupt, kernel, lists
<1>6. CASE HandleCHLD
  BY <1>6 DEF HandleCHLD, Reads, kernel, lists
<1>7. CASE HandleCONT
  BY <1>7 DEF HandleCONT, Resume, Reads, lists
<1>8. CASE HandleTERM
  BY <1>8 DEF HandleTERM, Reads, kernel, lists
<1>9. CASE RoundEnds
  BY <1>9 DEF RoundEnds, kernel, lists
<1>10. CASE Continue
  BY <1>10 DEF Continue, kernel, lists
<1>11. CASE Unwound
  BY <1>11 DEF Unwound, kernel, lists
<1>16. ASSUME NEW c \in Child, Terminate(c) PROVE LoopInv'
  BY <1>16 DEF Terminate, NextToEnd, Resume, lists
<1>17. ASSUME NEW c \in Child, Waited(c) PROVE LoopInv'
  BY <1>17 DEF Waited
<1>12. ASSUME NEW c \in Child, Skip(c) PROVE LoopInv'
  BY <1>12 DEF Skip, kernel, lists
<1>13. ASSUME NEW c \in Child, NoteChange(c) PROVE LoopInv'
  BY <1>13 DEF NoteChange
<1>14. ASSUME NEW c \in Child, Reap(c) PROVE LoopInv'
  BY <1>14 DEF Reap
<1>15. CASE UNCHANGED vars
  BY <1>15 DEF vars
<1> QED
  BY <1>1, <1>2, <1>3, <1>4, <1>5, <1>6, <1>7, <1>8, <1>9, <1>10, <1>11, <1>12, <1>13, <1>14,
     <1>15, <1>16, <1>17 DEF Next, Handle

\* Every state of the loop has its type; a child is managed from its fork to its
\* callback (loop.cc:291-341).
THEOREM LoopTypeCorrect == Spec => []TypeOK
<1>1. LoopInv => TypeOK
  BY DEF LoopInv
<1> QED
  BY LoopInvInit, LoopInvNext, <1>1, PTL DEF Spec

LEMMA LoopInvAlways == Spec => []LoopInv
BY LoopInvInit, LoopInvNext, PTL DEF Spec

LEMMA NothingIsLostNext == LoopInv /\ NothingIsLost /\ [Next]_vars => NothingIsLost'
<1> SUFFICES ASSUME LoopInv, NothingIsLost, [Next]_vars PROVE NothingIsLost'
  OBVIOUS
<1> USE DEF NothingIsLost, LoopInv, TypeOK, Ended
<1>1. ASSUME NEW c \in Child, ChildExits(c) PROVE NothingIsLost'
  BY <1>1 DEF ChildExits, Change, lists
<1>2. ASSUME NEW c \in Child, ChildStops(c) PROVE NothingIsLost'
  BY <1>2 DEF ChildStops, Change, lists
<1>3. ASSUME NEW c \in Child, AddChild(c) PROVE NothingIsLost'
  BY <1>3 DEF AddChild
<1>4. ASSUME NEW k \in Connection, Connect(k) \/ Disconnect(k) PROVE NothingIsLost'
  BY <1>4 DEF Connect, Disconnect, kernel
<1>5. CASE Interrupt
  BY <1>5 DEF Interrupt, kernel, lists
<1>6. CASE HandleCHLD
  BY <1>6 DEF HandleCHLD, Reads, kernel, lists
<1>7. CASE HandleCONT
  BY <1>7 DEF HandleCONT, Resume, Reads, lists
<1>8. CASE HandleTERM
  BY <1>8 DEF HandleTERM
<1>9. CASE RoundEnds
  BY <1>9 DEF RoundEnds, kernel, lists
<1>10. CASE Continue
  BY <1>10 DEF Continue, kernel, lists
<1>11. CASE Unwound
  BY <1>11 DEF Unwound, kernel, lists
<1>16. ASSUME NEW c \in Child, Terminate(c) PROVE NothingIsLost'
  BY <1>16 DEF Terminate, NextToEnd, Resume, lists
<1>17. ASSUME NEW c \in Child, Waited(c) PROVE NothingIsLost'
  BY <1>17 DEF Waited
<1>12. ASSUME NEW c \in Child, Skip(c) PROVE NothingIsLost'
  BY <1>12 DEF Skip, kernel, lists
<1>13. ASSUME NEW c \in Child, NoteChange(c) PROVE NothingIsLost'
  BY <1>13 DEF NoteChange
<1>14. ASSUME NEW c \in Child, Reap(c) PROVE NothingIsLost'
  BY <1>14 DEF Reap
<1>15. CASE UNCHANGED vars
  BY <1>15 DEF vars
<1> QED
  BY <1>1, <1>2, <1>3, <1>4, <1>5, <1>6, <1>7, <1>8, <1>9, <1>10, <1>11, <1>12, <1>13, <1>14,
     <1>15, <1>16, <1>17 DEF Next, Handle

\* However many children change state while their SIGCHLDs coalesce into one, each
\* of them has a signal pending or is still ahead in the round that reads it
\* (loop.cc:310-341).
THEOREM LoopLosesNothing == Spec => []NothingIsLost
<1>1. Init => NothingIsLost
  BY DEF Init, NothingIsLost, Ended
<1> QED
  BY <1>1, LoopInvAlways, NothingIsLostNext, PTL DEF Spec

\* What makes NoOrphans inductive. A child is called back, and so taken off the
\* list whose elements are destroyed, only after its end was reported; and what
\* ~ChildProcess believes of a child that is stopped is true, or there is a report
\* that will correct it.
OrphanInv ==
    /\ \A c \in called : alive[c] = "dead"
    /\ \A c \in Child : news[c] = "exited" => alive[c] = "dead"
    /\ \A c \in Child : alive[c] = "stopped" =>
           news[c] = "stopped" \/ (news[c] = "none" /\ c \in suspended)
    /\ loop = "waiting" => \A c \in ending : alive[c] # "dead" \/ news[c] # "none"
    /\ NoOrphans

LEMMA OrphanInvNext == LoopInv /\ OrphanInv /\ [Next]_vars => OrphanInv'
<1> SUFFICES ASSUME LoopInv, OrphanInv, [Next]_vars PROVE OrphanInv'
  OBVIOUS
<1> USE DEF OrphanInv, NoOrphans, LoopInv, TypeOK, Ended
<1>1. ASSUME NEW c \in Child, ChildExits(c) PROVE OrphanInv'
  BY <1>1 DEF ChildExits, Change, lists
<1>2. ASSUME NEW c \in Child, ChildStops(c) PROVE OrphanInv'
  BY <1>2 DEF ChildStops, Change, lists
<1>3. ASSUME NEW c \in Child, AddChild(c) PROVE OrphanInv'
  BY <1>3 DEF AddChild
<1>4. ASSUME NEW k \in Connection, Connect(k) \/ Disconnect(k) PROVE OrphanInv'
  BY <1>4 DEF Connect, Disconnect, kernel
<1>5. CASE Interrupt
  BY <1>5 DEF Interrupt, kernel, lists
<1>6. CASE HandleCHLD
  BY <1>6 DEF HandleCHLD, kernel, lists
<1>7. CASE HandleCONT
  BY <1>7 DEF HandleCONT, Resume, Reads, lists
<1>8. CASE HandleTERM
  BY <1>8 DEF HandleTERM, kernel, lists
<1>9. CASE RoundEnds
  BY <1>9 DEF RoundEnds, kernel, lists
<1>10. CASE Continue
  BY <1>10 DEF Continue, kernel, lists
<1>11. CASE Unwound
  BY <1>11 DEF Unwound, IsTerminated, kernel, lists
<1>16. ASSUME NEW c \in Child, Terminate(c) PROVE OrphanInv'
  BY <1>16 DEF Terminate, NextToEnd, IsTerminated, Resume, lists
<1>17. ASSUME NEW c \in Child, Waited(c) PROVE OrphanInv'
  BY <1>17 DEF Waited
<1>12. ASSUME NEW c \in Child, Skip(c) PROVE OrphanInv'
  BY <1>12 DEF Skip, kernel, lists
<1>13. ASSUME NEW c \in Child, NoteChange(c) PROVE OrphanInv'
  BY <1>13 DEF NoteChange
<1>14. ASSUME NEW c \in Child, Reap(c) PROVE OrphanInv'
  BY <1>14 DEF Reap
<1>15. CASE UNCHANGED vars
  BY <1>15 DEF vars
<1> QED
  BY <1>1, <1>2, <1>3, <1>4, <1>5, <1>6, <1>7, <1>8, <1>9, <1>10, <1>11, <1>12, <1>13, <1>14,
     <1>15, <1>16, <1>17 DEF Next, Handle

\* Whatever state its children are in when the loop throws, running, suspended or
\* dead and not yet reported, and whatever they still do while others are waited
\* for, none is left in the end, and no wait is for a child that cannot end
\* (child_process.cc:149-162).
THEOREM LoopLeavesNoOrphans == Spec => []NoOrphans
<1>1. Init => OrphanInv
  BY DEF Init, OrphanInv, NoOrphans
<1>2. OrphanInv => NoOrphans
  BY DEF OrphanInv
<1> QED
  BY <1>1, <1>2, LoopInvAlways, OrphanInvNext, PTL DEF Spec

\* What keeps the loop from throwing when no connection is ever open, no child
\* fails in a way that matters and nobody interrupts it.
CalmInv ==
    /\ open = {}
    /\ "TERM" \notin pending
    /\ ~ MayFail => failed = {}
    /\ loop \notin Ended

LEMMA CalmNext ==
    ASSUME Connection = {}, Strict = {} \/ ~ MayFail, ~ Interrupts
    PROVE  CalmInv /\ [Next]_vars => CalmInv'
<1> SUFFICES ASSUME CalmInv, [Next]_vars PROVE CalmInv'
  OBVIOUS
<1> USE DEF CalmInv, Ended
<1>1. ASSUME NEW c \in Child, ChildExits(c) PROVE CalmInv'
  BY <1>1 DEF ChildExits, Change, lists
<1>2. ASSUME NEW c \in Child, ChildStops(c) PROVE CalmInv'
  BY <1>2 DEF ChildStops, Change, lists
<1>3. ASSUME NEW c \in Child, AddChild(c) PROVE CalmInv'
  BY <1>3 DEF AddChild
<1>6. CASE HandleCHLD
  BY <1>6 DEF HandleCHLD, Reads, Interested, kernel, lists
<1>7. CASE HandleCONT
  BY <1>7 DEF HandleCONT, Resume, Reads, lists
<1>8. CASE HandleTERM
  BY <1>8 DEF HandleTERM, Reads
<1>9. CASE RoundEnds
  BY <1>9 DEF RoundEnds, kernel, lists
<1>10. CASE Continue
  BY <1>10 DEF Continue, kernel, lists
<1>11. CASE Unwound
  BY <1>11 DEF Unwound, kernel, lists
<1>16. ASSUME NEW c \in Child, Terminate(c) PROVE CalmInv'
  BY <1>16 DEF Terminate, NextToEnd, Resume, lists
<1>17. ASSUME NEW c \in Child, Waited(c) PROVE CalmInv'
  BY <1>17 DEF Waited
<1>12. ASSUME NEW c \in Child, Skip(c) PROVE CalmInv'
  BY <1>12 DEF Skip, kernel, lists
<1>13. ASSUME NEW c \in Child, NoteChange(c) PROVE CalmInv'
  BY <1>13 DEF NoteChange
<1>14. ASSUME NEW c \in Child, Reap(c) PROVE CalmInv'
  BY <1>14, LoopAssumption DEF Reap
<1>15. CASE UNCHANGED vars
  BY <1>15 DEF vars
<1> QED
  BY <1>1, <1>2, <1>3, <1>6, <1>7, <1>8, <1>9, <1>10, <1>11, <1>12, <1>13, <1>14, <1>15,
     <1>16, <1>17 DEF Next, Handle, Interrupt

\* A loop without connections, that of gg-force with local engines only, throws
\* only if a child fails or a signal asks it to: a SIGCHLD that is left over from
\* a coalesced round is not read before there is a child again (loop.cc:23-31,
\* 310-313).
THEOREM LocalLoopThrowsOnlyOnFailure ==
    ASSUME Connection = {}
    PROVE  Spec => []OnlyFailuresThrow
<1>1. CASE (Strict = {} \/ ~ MayFail) /\ ~ Interrupts
  <2>1. Init => CalmInv
    BY DEF Init, CalmInv, Ended
  <2>2. CalmInv /\ [Next]_vars => CalmInv'
    BY <1>1, CalmNext
  <2>3. CalmInv => OnlyFailuresThrow
    BY DEF CalmInv, OnlyFailuresThrow
  <2> QED
    BY <2>1, <2>2, <2>3, PTL DEF Spec
<1>2. CASE ~ ((Strict = {} \/ ~ MayFail) /\ ~ Interrupts)
  <2>1. OnlyFailuresThrow
    BY <1>2 DEF OnlyFailuresThrow
  <2> QED
    BY <2>1, PTL
<1> QED
  BY <1>1, <1>2

(***************************************************************************)
(* The clock and the late jobs                                             *)
(***************************************************************************)

JobInfos == [start : Nat, timeout : Nat, restarts : 0 .. Width - 1]

TimesTyped ==
    /\ now \in Nat
    /\ job_queue \in Seq(Job)
    /\ first \in [Job -> Nat]
    /\ duplicated \in [Job -> Nat]
    /\ DOMAIN running_jobs \subseteq Job
    /\ \A j \in DOMAIN running_jobs : running_jobs[j] \in JobInfos

\* Of a job that is running: its duplicates are paid for by the time up to its
\* last start, and its timeout is within bounds.
RunningJobOK(j) ==
    /\ first[j] <= running_jobs[j].start
    /\ running_jobs[j].start <= now
    /\ duplicated[j] * (InitialTimeout(j) + 1) <= running_jobs[j].start - first[j]
    /\ running_jobs[j].timeout >= InitialTimeout(j)
    /\ \/ running_jobs[j].timeout = InitialTimeout(j)
       \/ running_jobs[j].timeout <= Width * (now - first[j])

\* Of a job that is not running: it has never been started, or it is finished.
IdleJobOK(j) ==
    /\ first[j] <= now
    /\ duplicated[j] * (InitialTimeout(j) + 1) <= now - first[j]
    /\ j \notin finished => duplicated[j] = 0

\* The inductive invariant. DuplicatesAreRationed alone is not inductive: a
\* duplicate is paid for by the time since the last start, which the property
\* does not mention.
TimeoutsInv ==
    /\ TimesTyped
    /\ \A j \in DOMAIN running_jobs : RunningJobOK(j)
    /\ \A j \in Job \ DOMAIN running_jobs : IdleJobOK(j)

LEMMA InitialTimeoutType == \A j \in Job : InitialTimeout(j) \in Nat
BY TimeoutsAssumption DEF InitialTimeout

LEMMA OrdersAreSequences ==
    ASSUME NEW S \in SUBSET Job PROVE SetToSeqs(S) \subseteq Seq(Job)
<1>1. IsFiniteSet(S)
  BY TimeoutsAssumption, FS_Subset
<1>2. Cardinality(S) \in Nat
  BY <1>1, FS_CardinalityType
<1> QED
  BY <1>2 DEF SetToSeqs

\* One more duplicate is paid for by one more timeout.
LEMMA OneMoreDuplicate ==
    ASSUME NEW d \in Nat, NEW b \in Nat, NEW e \in Nat, NEW x \in Nat,
           d * (b + 1) <= e, x > b
    PROVE  (d + 1) * (b + 1) <= e + x
<1>1. (d + 1) * (b + 1) = d * (b + 1) + (b + 1)
  OBVIOUS
<1> QED
  BY <1>1

\* One growth of a timeout that has just run out.
LEMMA GrowthIsBounded ==
    ASSUME NEW t \in Nat, NEW r \in 0 .. Width - 1, NEW e \in Nat, e > t
    PROVE  /\ t + r * t >= t
           /\ t + r * t \in Nat
           /\ t + r * t <= Width * e
<1> Width \in Nat
  BY TimeoutsAssumption
<1>1. r * t \in Nat
  OBVIOUS
<1>2. t + r * t = (r + 1) * t
  OBVIOUS
<1>3. (r + 1) * t <= Width * t
  OBVIOUS
<1>4. Width * t <= Width * e
  OBVIOUS
<1> QED
  BY <1>1, <1>2, <1>3, <1>4

LEMMA IncrementedType == \A n \in 0 .. Width - 1 : Incremented(n) \in 0 .. Width - 1
BY TimeoutsAssumption DEF Incremented

LEMMA TimeoutsInvInit == TimesInit => TimeoutsInv
<1> SUFFICES ASSUME TimesInit PROVE TimeoutsInv
  OBVIOUS
<1>1. job_queue \in Seq(Job)
  BY OrdersAreSequences DEF TimesInit
<1>2. DOMAIN running_jobs = {}
  BY DEF TimesInit
<1>3. ASSUME NEW j \in Job PROVE IdleJobOK(j)
  BY InitialTimeoutType DEF TimesInit, IdleJobOK
<1> QED
  BY <1>1, <1>2, <1>3 DEF TimesInit, TimeoutsInv, TimesTyped

\* The clock: what a job is allowed to grow by only grows.
LEMMA TickOK == TimeoutsInv /\ Tick => TimeoutsInv'
<1> SUFFICES ASSUME TimeoutsInv, Tick PROVE TimeoutsInv'
  OBVIOUS
<1> USE DEF TimeoutsInv, TimesTyped, Tick
<1>1. TimesTyped'
  OBVIOUS
<1>2. ASSUME NEW j \in DOMAIN running_jobs PROVE RunningJobOK(j)'
  <2> DEFINE e == now - first[j]
  <2>1. /\ RunningJobOK(j)
        /\ e \in Nat /\ now' - first'[j] = e + 1
        /\ running_jobs[j] \in JobInfos
        /\ InitialTimeout(j) \in Nat
    BY InitialTimeoutType DEF RunningJobOK, JobInfos
  <2>2. Width * e <= Width * (e + 1)
    BY <2>1, TimeoutsAssumption
  <2>3. Width * e \in Int /\ Width * (e + 1) \in Int
    BY <2>1, TimeoutsAssumption
  <2> HIDE DEF e
  <2>4. Width * (now' - first'[j]) = Width * (e + 1) /\ Width * (now - first[j]) = Width * e
    BY <2>1 DEF e
  <2>5. PICK r, f, d, pay : /\ r = running_jobs[j] /\ f = first[j] /\ d = duplicated[j]
                            /\ pay = d * (InitialTimeout(j) + 1)
    OBVIOUS
  <2>6. /\ r \in JobInfos /\ r.start \in Nat /\ r.timeout \in Nat /\ f \in Nat
        /\ now \in Nat /\ now' = now + 1
    BY <2>1, <2>5 DEF JobInfos
  <2>7. running_jobs'[j] = r /\ first'[j] = f /\ duplicated'[j] = d
    BY <2>5
  <2>8. /\ f <= r.start /\ r.start <= now /\ pay <= r.start - f
        /\ r.timeout >= InitialTimeout(j)
        /\ r.timeout = InitialTimeout(j) \/ r.timeout <= Width * (now - f)
    BY <2>1, <2>5 DEF RunningJobOK
  <2>9. r.start <= now'
    BY ONLY <2>6, <2>8
  <2>10. r.timeout <= Width * (now - f) => r.timeout <= Width * (now' - f)
    <3>1. PICK a, b : a = Width * (now - f) /\ b = Width * (now' - f)
      OBVIOUS
    <3>2. a \in Int /\ b \in Int /\ a <= b
      BY <2>2, <2>3, <2>4, <2>5, <2>7, <3>1
    <3>3. r.timeout <= a => r.timeout <= b
      BY ONLY <2>6, <3>2
    <3> QED
      BY <3>1, <3>3
  <2>11. pay = duplicated'[j] * (InitialTimeout(j) + 1)
    BY <2>5, <2>7
  <2> QED
    BY ONLY <2>7, <2>8, <2>9, <2>10, <2>11 DEF RunningJobOK, InitialTimeout
<1>3. ASSUME NEW j \in Job \ DOMAIN running_jobs PROVE IdleJobOK(j)'
  BY <1>3, InitialTimeoutType DEF IdleJobOK, InitialTimeout
<1> QED
  BY <1>1, <1>2, <1>3

\* A start pays nothing and owes nothing: the timeout is back at its first value.
LEMMA ExecuteOK == TimeoutsInv /\ Execute => TimeoutsInv'
<1> SUFFICES ASSUME TimeoutsInv, Execute PROVE TimeoutsInv'
  OBVIOUS
<1>0. PICK h : h = Head(job_queue)
  OBVIOUS
<1>1. /\ h \in Job /\ h \notin finished
      /\ job_queue' \in Seq(Job)
      /\ UNCHANGED <<now, finished, duplicated>>
      /\ running_jobs' = [k \in DOMAIN running_jobs \cup {h} |->
                             IF k = h THEN Started(h) ELSE running_jobs[k]]
      /\ first' = [first EXCEPT ![h] = IF h \in DOMAIN running_jobs THEN @ ELSE now]
  BY <1>0 DEF Execute, Dispatching, TimeoutsInv, TimesTyped
<1>2. Started(h) \in JobInfos
  <2>1. Restarts(h) \in 0 .. Width - 1
    BY TimeoutsAssumption DEF Restarts, TimeoutsInv, TimesTyped, JobInfos, FreshRestarts
  <2>2. Incremented(Restarts(h)) \in 0 .. Width - 1
    BY <2>1, IncrementedType
  <2> QED
    BY <1>1, <2>2, InitialTimeoutType DEF Started, JobInfos, TimeoutsInv, TimesTyped
<1>3. TimesTyped'
  BY <1>1, <1>2 DEF TimeoutsInv, TimesTyped
<1>4. RunningJobOK(h)'
  <2>1. running_jobs'[h] = Started(h)
    BY <1>1
  <2>2. CASE h \in DOMAIN running_jobs
    <3>1. first'[h] = first[h] /\ RunningJobOK(h) /\ running_jobs[h] \in JobInfos
      BY <1>1, <2>2 DEF TimeoutsInv, TimesTyped
    <3>2. PICK r, f, d, pay : /\ r = running_jobs[h] /\ f = first[h] /\ d = duplicated[h]
                              /\ pay = d * (InitialTimeout(h) + 1)
      OBVIOUS
    <3>3. r.start \in Nat /\ f \in Nat /\ d \in Nat /\ now \in Nat /\ InitialTimeout(h) \in Nat
      BY <1>1, <3>1, <3>2, InitialTimeoutType DEF TimeoutsInv, TimesTyped, JobInfos
    <3>4. f <= r.start /\ r.start <= now /\ pay <= r.start - f
      BY <3>1, <3>2 DEF RunningJobOK
    <3>5. pay \in Nat
      BY ONLY <3>2, <3>3
    <3>6. f <= now /\ pay <= now - f
      BY ONLY <3>3, <3>4, <3>5
    <3>7. PICK q : q = running_jobs'[h]
      OBVIOUS
    <3>8. /\ q.start = now /\ q.timeout = InitialTimeout(h) /\ now' = now
          /\ first'[h] = f /\ duplicated'[h] = d
      BY <1>1, <2>1, <3>1, <3>2, <3>7 DEF Started
    <3>9. InitialTimeout(h) >= InitialTimeout(h) /\ now <= now
      BY ONLY <3>3
    <3> QED
      BY ONLY <3>2, <3>6, <3>7, <3>8, <3>9 DEF RunningJobOK, InitialTimeout
  <2>3. CASE h \notin DOMAIN running_jobs
    <3>1. first'[h] = now /\ duplicated[h] = 0
      BY <1>1, <2>3 DEF TimeoutsInv, TimesTyped, IdleJobOK
    <3> QED
      BY <1>1, <2>1, <3>1, InitialTimeoutType
         DEF RunningJobOK, Started, TimeoutsInv, TimesTyped, InitialTimeout
  <2> QED
    BY <2>2, <2>3
<1>5. ASSUME NEW j \in DOMAIN running_jobs, j # h PROVE RunningJobOK(j)'
  BY <1>1, <1>5 DEF RunningJobOK, TimeoutsInv, TimesTyped, InitialTimeout
<1>6. ASSUME NEW j \in Job \ DOMAIN running_jobs, j # h PROVE IdleJobOK(j)'
  BY <1>1, <1>6 DEF IdleJobOK, TimeoutsInv, TimesTyped, InitialTimeout
<1> QED
  BY <1>1, <1>3, <1>4, <1>5, <1>6 DEF TimeoutsInv

LEMMA SuccessOK == ASSUME TimeoutsInv, NEW j \in Job, Success(j) PROVE TimeoutsInv'
<1> USE DEF TimeoutsInv, TimesTyped, Success
<1>1. TimesTyped'
  OBVIOUS
<1>2. ASSUME NEW k \in DOMAIN running_jobs' PROVE RunningJobOK(k)'
  BY <1>2 DEF RunningJobOK, InitialTimeout
<1>3. ASSUME NEW k \in Job \ DOMAIN running_jobs' PROVE IdleJobOK(k)'
  <2>1. CASE k = j /\ j \in DOMAIN running_jobs
    BY <2>1, InitialTimeoutType DEF RunningJobOK, IdleJobOK, InitialTimeout, JobInfos
  <2>2. CASE k \notin DOMAIN running_jobs
    BY <2>2 DEF IdleJobOK, InitialTimeout
  <2> QED
    BY <1>3, <2>1, <2>2
<1> QED
  BY <1>1, <1>2, <1>3

\* The check: a late job has run out a whole timeout, which pays for its duplicate
\* and for the growth of the timeout.
LEMMA CheckOK == ASSUME TimeoutsInv, CheckTimeouts, UNCHANGED <<now, first, finished>>
                 PROVE  TimeoutsInv'
<1> USE DEF TimeoutsInv, TimesTyped
<1>1. Late \subseteq Job
  BY DEF Late
<1>2. job_queue' \in Seq(Job)
  BY <1>1, OrdersAreSequences DEF CheckTimeouts
<1>3. ASSUME NEW j \in Late
      PROVE  Duplicated(running_jobs[j]) \in JobInfos /\ RunningJobOK(j)'
  <2> DEFINE info == running_jobs[j]
             x == now - info.start
             e == info.start - first[j]
             grown == info.timeout + info.restarts * info.timeout
             b == InitialTimeout(j)
  <2>1. /\ j \in DOMAIN running_jobs /\ j \in Job
        /\ info \in JobInfos /\ RunningJobOK(j)
        /\ x > info.timeout
    BY <1>3 DEF Late
  <2>2. /\ b \in Nat /\ x \in Nat /\ e \in Nat /\ now - first[j] \in Nat
        /\ now - first[j] = e + x
        /\ info.timeout \in Nat /\ info.restarts \in 0 .. Width - 1
        /\ duplicated[j] \in Nat /\ duplicated[j] * (b + 1) <= e
        /\ info.timeout >= b /\ x > b
        /\ now - first[j] > info.timeout
    BY <2>1, InitialTimeoutType DEF RunningJobOK, JobInfos
  <2>3. /\ running_jobs'[j] = Duplicated(info)
        /\ duplicated'[j] = duplicated[j] + 1
    BY <1>3, <2>1 DEF CheckTimeouts
  <2>4. /\ Duplicated(info).start = now
        /\ Duplicated(info).timeout = grown
    BY DEF Duplicated
  <2> HIDE DEF info, x, e, grown, b
  <2>5. (duplicated[j] + 1) * (b + 1) <= e + x
    BY <2>2, OneMoreDuplicate
  <2>6. grown >= info.timeout /\ grown \in Nat /\ grown <= Width * (now - first[j])
    <3> QED
      BY <2>2, GrowthIsBounded DEF grown
  <2>7. Incremented(info.restarts) \in 0 .. Width - 1
    BY <2>2, IncrementedType
  <2>8. Duplicated(info) \in JobInfos
    BY <2>6, <2>7 DEF Duplicated, JobInfos, grown
  <2>9. RunningJobOK(j)'
    <3>1. InitialTimeout(j)' = b
      BY DEF InitialTimeout, b
    <3>2. duplicated'[j] * (b + 1) <= now - first[j]
      BY <2>2, <2>3, <2>5
    <3>3. /\ running_jobs'[j].start = now' /\ now' = now /\ first'[j] = first[j]
          /\ running_jobs'[j].timeout = grown
      BY <2>3, <2>4
    <3>4. duplicated'[j] * (b + 1) <= running_jobs'[j].start - first'[j]
      BY <3>2, <3>3
    <3>5. first'[j] <= running_jobs'[j].start /\ running_jobs'[j].start <= now'
      BY <3>3, <2>1, <2>2
    <3>6. running_jobs'[j].timeout >= b
      BY <3>3, <2>2, <2>6
    <3>7. running_jobs'[j].timeout <= Width * (now' - first'[j])
      BY <3>3, <2>6
    <3> QED
      BY <3>1, <3>4, <3>5, <3>6, <3>7 DEF RunningJobOK
  <2> QED
    BY <2>8, <2>9 DEF info
<1>4. ASSUME NEW j \in DOMAIN running_jobs, j \notin Late PROVE RunningJobOK(j)'
  BY <1>4 DEF RunningJobOK, CheckTimeouts, InitialTimeout
<1>5. ASSUME NEW j \in Job \ DOMAIN running_jobs PROVE IdleJobOK(j)'
  BY <1>5 DEF IdleJobOK, CheckTimeouts, InitialTimeout, Late
<1>6. duplicated' \in [Job -> Nat]
  BY DEF CheckTimeouts
<1>7. DOMAIN running_jobs' = DOMAIN running_jobs
      /\ \A j \in DOMAIN running_jobs' : running_jobs'[j] \in JobInfos
  BY <1>3 DEF CheckTimeouts
<1> QED
  BY <1>2, <1>3, <1>4, <1>5, <1>6, <1>7

LEMMA TimeoutsInvNext == TimeoutsInv /\ [TimesNext]_times_vars => TimeoutsInv'
<1> SUFFICES ASSUME TimeoutsInv, [TimesNext]_times_vars PROVE TimeoutsInv'
  OBVIOUS
<1>0. ASSUME UNCHANGED <<now, running_jobs, finished, first, duplicated>>,
             job_queue' \in Seq(Job)
      PROVE  TimeoutsInv'
  BY <1>0 DEF TimeoutsInv, TimesTyped, RunningJobOK, IdleJobOK, InitialTimeout
<1>1. CASE Tick
  BY <1>1, TickOK
<1>2. CASE TakeCached
  BY <1>0, <1>2 DEF TakeCached, Dispatching, TimeoutsInv, TimesTyped
<1>3. CASE Execute
  BY <1>3, ExecuteOK
<1>4. CASE StopDispatching
  BY <1>0, <1>4 DEF StopDispatching, TimeoutsInv, TimesTyped
<1>5. ASSUME NEW j \in Job, Success(j) PROVE TimeoutsInv'
  BY <1>5, SuccessOK
<1>6. ASSUME NEW j \in Job, Failure(j) PROVE TimeoutsInv'
  BY <1>0, <1>6 DEF Failure, TimeoutsInv, TimesTyped
<1>7. CASE PollReturns
  <2>1. CASE CheckTimeouts
    BY <1>7, <2>1, CheckOK DEF PollReturns
  <2>2. CASE NoCheckDue
    BY <1>0, <1>7, <2>2 DEF PollReturns, NoCheckDue, TimeoutsInv, TimesTyped
  <2> QED
    BY <1>7, <2>1, <2>2 DEF PollReturns
<1>8. CASE UNCHANGED times_vars
  BY <1>0, <1>8 DEF times_vars, TimeoutsInv, TimesTyped
<1> QED
  BY <1>1, <1>2, <1>3, <1>4, <1>5, <1>6, <1>7, <1>8 DEF TimesNext, Terminated

\* A late job is duplicated at most once per timeout (reductor.cc:306-317), for
\* every number of jobs and slots and whatever fails.
THEOREM DuplicatesRationed == TimesSpec => []DuplicatesAreRationed
<1>1. TimeoutsInv => DuplicatesAreRationed
  <2> SUFFICES ASSUME TimeoutsInv, NEW j \in Job
               PROVE  duplicated[j] * (InitialTimeout(j) + 1) <= now - first[j]
    BY DEF DuplicatesAreRationed
  <2>1. CASE j \in DOMAIN running_jobs
    BY <2>1, InitialTimeoutType DEF TimeoutsInv, TimesTyped, RunningJobOK, JobInfos
  <2>2. CASE j \notin DOMAIN running_jobs
    BY <2>2 DEF TimeoutsInv, IdleJobOK
  <2> QED
    BY <2>1, <2>2
<1> QED
  BY <1>1, TimeoutsInvInit, TimeoutsInvNext, PTL DEF TimesSpec

\* A timeout never falls below its first value and never outgrows Width times the
\* age of its job (reductor.cc:313).
THEOREM TimeoutBounded == TimesSpec => []TimeoutStaysBounded
<1>1. TimeoutsInv => TimeoutStaysBounded
  BY DEF TimeoutsInv, RunningJobOK, TimeoutStaysBounded
<1> QED
  BY <1>1, TimeoutsInvInit, TimeoutsInvNext, PTL DEF TimesSpec
=============================================================================
