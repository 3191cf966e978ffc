-------------------------- MODULE MeowEngineProofs --------------------------
(***************************************************************************)
(* Proofs about MeowEngine, for any number of thunks and workers: every    *)
(* job is in one place, the coordinator is right about what its workers    *)
(* hold, and it meets no message it does not expect unless an execution    *)
(* has failed. The invariant says at which point of the conversation each  *)
(* worker and the coordinator are.                                         *)
(***************************************************************************)
EXTENDS MeowEngine, FiniteSetTheorems, FunctionTheorems, SequenceTheorems, TLAPS

Object == Thunk \cup {NoThunk} \cup (UNION { Deps[t] : t \in Thunk })
Msg == [op : {"Put", "Execute", "Executed", "ExecutionFailed", "Hey"}, of : Object]

MeowType ==
    /\ forced \subseteq Thunk /\ done \subseteq forced /\ IsFiniteSet(forced)
    /\ thunks_queue \in Seq(Thunk)
    /\ launches \in Nat /\ current_id \in 0 .. MaxWorkers
    /\ lambda \in [Worker -> [objects : SUBSET Object, executing : Thunk \cup {NoThunk}]]
    /\ down \in [Worker -> Seq(Msg)] /\ up \in [Worker -> Seq(Msg)]
    /\ worker \in [Worker -> [blobs : SUBSET Object, child : Thunk \cup {NoThunk}]]

(***************************************************************************)
(* The conversation with one worker                                        *)
(***************************************************************************)

\* What prepare_lambda puts on the connection: objects, then the thunk.
Packet(s, t) ==
    /\ s # <<>>
    /\ s[Len(s)] = Execute(t)
    /\ \A i \in 1 .. Len(s) : i # Len(s) => s[i].op = "Put"

Greets(l) == up[l] = <<>> \/ up[l] = <<Hey>>

Idle(l) ==
    /\ lambda[l].executing = NoThunk /\ worker[l].child = NoThunk
    /\ down[l] = <<>> /\ Greets(l)

Asked(l) ==
    /\ lambda[l].executing \in Thunk /\ worker[l].child = NoThunk
    /\ Packet(down[l], lambda[l].executing) /\ Greets(l)

Works(l) ==
    /\ lambda[l].executing \in Thunk /\ worker[l].child = lambda[l].executing
    /\ down[l] = <<>> /\ Greets(l)

Answered(l) ==
    /\ lambda[l].executing \in Thunk /\ worker[l].child = NoThunk
    /\ down[l] = <<>>
    /\ \E m \in {Executed(lambda[l].executing), ExecutionFailed(lambda[l].executing)} :
          up[l] = <<m>> \/ up[l] = <<Hey, m>>

\* The coordinator remembers what the last thunk reads, and that is in place.
Remembers(l) ==
    /\ lambda[l].executing \in Thunk => lambda[l].objects = Deps[lambda[l].executing]
    /\ lambda[l].objects \subseteq
          worker[l].blobs \cup { down[l][i].of : i \in DOMAIN down[l] }

Talks(l) == (Idle(l) \/ Asked(l) \/ Works(l) \/ Answered(l)) /\ Remembers(l)

\* A worker that has not connected yet.
Absent(l) == Idle(l) /\ up[l] = <<>> /\ lambda[l].objects = {}

Conversation == \A l \in Worker : IF l <= current_id THEN Talks(l) ELSE Absent(l)

(***************************************************************************)
(* The jobs                                                                *)
(***************************************************************************)

\* A job is in one place only.
OnePlace ==
    /\ \A k, l \in Busy : lambda[k].executing = lambda[l].executing => k = l
    /\ \A l \in Busy : lambda[l].executing \notin Waiting
    /\ \A i, j \in DOMAIN thunks_queue : thunks_queue[i] = thunks_queue[j] => i = j

MeowInv ==
    thrown = "none" => MeowType /\ Conversation /\ OnePlace /\ JobsConserved

(***************************************************************************)
(* Messages                                                                *)
(***************************************************************************)

\* A finite set as a sequence: each of its elements is somewhere in it.
LEMMA SetToSeqLists ==
    ASSUME NEW S, IsFiniteSet(S)
    PROVE  /\ SetToSeq(S) \in Seq(S)
           /\ \A x \in S : \E i \in 1 .. Len(SetToSeq(S)) : SetToSeq(S)[i] = x
<1> DEFINE n == Cardinality(S)
<1>1. n \in Nat /\ ExistsBijection(1 .. n, S)
  BY FS_CardinalityType
<1>2. PICK g : g \in Bijection(1 .. n, S)
  BY <1>1 DEF ExistsBijection
<1>3. g \in [1 .. n -> S] /\ \A a, b \in 1 .. n : g[a] = g[b] => a = b
  BY <1>2, Fun_BijectionProperties
<1>4. \E f \in [1 .. n -> S] : IsInjective(f)
  BY <1>3 DEF IsInjective
<1> DEFINE f == SetToSeq(S)
<1>5. f \in [1 .. n -> S] /\ IsInjective(f)
  BY <1>4 DEF SetToSeq
<1>6. f \in Injection(1 .. n, S)
  BY <1>5 DEF Injection, IsInjective
<1>7. Cardinality(1 .. n) = n
  BY <1>1, FS_Interval
<1>8. f \in Surjection(1 .. n, S)
  BY <1>6, <1>7, FS_Injection
<1>10. f \in Seq(S) /\ Len(f) = n
  BY <1>1, <1>5
<1> HIDE DEF f, n
<1>9. \A x \in S : \E i \in 1 .. n : f[i] = x
  BY <1>8 DEF Surjection
<1> QED
  BY <1>9, <1>10 DEF f

LEMMA MessageTypes ==
    /\ Hey \in Msg
    /\ \A t \in Thunk : Execute(t) \in Msg /\ Executed(t) \in Msg /\ ExecutionFailed(t) \in Msg
    /\ \A t \in Thunk : \A o \in Deps[t] : Put(o) \in Msg
<1>1. \A t \in Thunk : t \in Object /\ \A o \in Deps[t] : o \in Object
  BY DEF Object
<1>2. NoThunk \in Object
  BY DEF Object
<1>3. \A o \in Object : /\ [op |-> "Put", of |-> o] \in Msg
                        /\ [op |-> "Execute", of |-> o] \in Msg
                        /\ [op |-> "Executed", of |-> o] \in Msg
                        /\ [op |-> "ExecutionFailed", of |-> o] \in Msg
                        /\ [op |-> "Hey", of |-> o] \in Msg
  BY DEF Msg
<1> QED
  BY <1>1, <1>2, <1>3 DEF Hey, Execute, Executed, ExecutionFailed, Put

\* What prepare_lambda sends is a packet with every missing object in it.
LEMMA SendsPacket ==
    ASSUME NEW t \in Thunk, NEW missing, missing \subseteq Deps[t]
    PROVE  LET s == <<>> \o SetToSeq({ Put(o) : o \in missing }) \o <<Execute(t)>> IN
           /\ s \in Seq(Msg)
           /\ Packet(s, t)
           /\ \A o \in missing : \E i \in DOMAIN s : s[i].of = o
<1> DEFINE S == { Put(o) : o \in missing }
           r == SetToSeq(S)
           e == Execute(t)
<1>1. IsFiniteSet(S)
  <2>1. IsFiniteSet(missing)
    BY MeowAssumption, FS_Subset
  <2> DEFINE f == [o \in missing |-> Put(o)]
  <2>2. f \in Surjection(missing, S)
    BY DEF Surjection
  <2> QED
    BY <2>1, <2>2, FS_Surjection
<1>2. r \in Seq(S) /\ \A x \in S : \E i \in 1 .. Len(r) : r[i] = x
  BY <1>1, SetToSeqLists
<1>3. S \subseteq Msg /\ e \in Msg
  BY MessageTypes
<1>4. \A x \in S : x.op = "Put"
  BY DEF Put
<1>5. \A o \in missing : Put(o) \in S /\ Put(o).of = o
  BY DEF Put
<1> HIDE DEF r, S, e
<1>6. r \in Seq(Msg)
  BY <1>2, <1>3, SeqMonotonic
<1>7. \A i \in 1 .. Len(r) : r[i].op = "Put"
  BY <1>2, <1>4, ElementOfSeq, Zenon
<1>8. \A o \in missing : \E i \in 1 .. Len(r) : r[i].of = o
  BY <1>2, <1>5, Zenon
<1>9. <<>> \o r \o <<e>> = Append(r, e)
  BY <1>3, <1>6, ConcatEmptySeq, AppendIsConcat, Zenon
<1> DEFINE s == Append(r, e)
<1>10. s \in Seq(Msg) /\ s # <<>> /\ Len(s) = Len(r) + 1 /\ s[Len(s)] = e /\ Len(r) \in Nat
  BY <1>3, <1>6
<1>11. \A i \in 1 .. Len(r) : s[i] = r[i] /\ i \in DOMAIN s
  BY <1>3, <1>6
<1>12. \A i \in 1 .. Len(s) : i # Len(s) => i \in 1 .. Len(r)
  BY <1>10
<1>13. e = Execute(t)
  BY DEF e
<1>14. Packet(s, t)
  BY <1>7, <1>10, <1>11, <1>12, <1>13, Zenon DEF Packet
<1>15. \A o \in missing : \E i \in DOMAIN s : s[i].of = o
  BY <1>8, <1>11, Zenon
<1> QED
  BY <1>9, <1>10, <1>14, <1>15, Zenon DEF r, S, e

\* A packet is taken apart one message at a time.
LEMMA PacketTail ==
    ASSUME NEW t \in Thunk, NEW s \in Seq(Msg), Packet(s, t)
    PROVE  /\ Tail(s) \in Seq(Msg) /\ Head(s) \in Msg
           /\ Len(s) = 1 => Head(s) = Execute(t) /\ Tail(s) = <<>>
           /\ Len(s) # 1 => Head(s).op = "Put" /\ Packet(Tail(s), t)
           /\ { s[i].of : i \in DOMAIN s } \subseteq
                 {Head(s).of} \cup { Tail(s)[i].of : i \in DOMAIN Tail(s) }
<1>1. s # <<>> /\ Len(s) \in Nat \ {0}
  BY DEF Packet
<1>2. Head(s) = s[1] /\ Tail(s) \in Seq(Msg) /\ Len(Tail(s)) = Len(s) - 1 /\ Head(s) \in Msg
  BY <1>1
<1>3. \A i \in 1 .. Len(s) - 1 : Tail(s)[i] = s[i + 1]
  BY <1>1, <1>2
<1>e. Tail(s) = <<>> <=> Len(s) = 1
  <2>1. Len(Tail(s)) = 0 <=> Len(s) = 1
    BY <1>1, <1>2
  <2>2. Tail(s) = <<>> <=> Len(Tail(s)) = 0
    BY <1>2, EmptySeq
  <2> QED
    BY <2>1, <2>2
<1>4. Len(s) = 1 => Head(s) = Execute(t) /\ Tail(s) = <<>>
  BY <1>1, <1>2, <1>e DEF Packet
<1>5. Len(s) # 1 => Head(s).op = "Put" /\ Packet(Tail(s), t)
  <2> SUFFICES ASSUME Len(s) # 1 PROVE Head(s).op = "Put" /\ Packet(Tail(s), t)
    OBVIOUS
  <2>1. Head(s).op = "Put"
    <3>1. 1 \in 1 .. Len(s) /\ 1 # Len(s)
      BY <1>1
    <3> QED
      BY <1>2, <3>1, Zenon DEF Packet
  <2>2. Tail(s)[Len(Tail(s))] = s[Len(s)]
    BY <1>1, <1>2, <1>3
  <2>3. ASSUME NEW i \in 1 .. Len(Tail(s)), i # Len(Tail(s)) PROVE Tail(s)[i].op = "Put"
    <3>1. i \in 1 .. Len(s) - 1 /\ i # Len(s) - 1
      BY <1>2, <2>3, Zenon
    <3>2. i + 1 \in 1 .. Len(s) /\ i + 1 # Len(s)
      BY <1>1, <3>1
    <3> QED
      BY <1>3, <3>1, <3>2, Zenon DEF Packet
  <2> QED
    BY <1>e, <2>1, <2>2, <2>3 DEF Packet
<1>6. ASSUME NEW i \in DOMAIN s
      PROVE  s[i].of \in {Head(s).of} \cup { Tail(s)[j].of : j \in DOMAIN Tail(s) }
  <2>1. CASE i = 1
    BY <1>2, <2>1
  <2>2. CASE i # 1
    <3>1. i - 1 \in DOMAIN Tail(s) /\ Tail(s)[i - 1] = s[i]
      BY <1>1, <1>2, <1>3, <2>2
    <3> QED
      BY <3>1
  <2> QED
    BY <2>1, <2>2
<1> QED
  BY <1>2, <1>4, <1>5, <1>6

(***************************************************************************)
(* The steps                                                               *)
(***************************************************************************)

Good == MeowType /\ Conversation /\ OnePlace /\ JobsConserved /\ thrown = "none"

LEMMA TalkStays ==
    ASSUME NEW l \in Worker, lambda'[l] = lambda[l], worker'[l] = worker[l],
           down'[l] = down[l], up'[l] = up[l]
    PROVE  (Talks(l) => Talks(l)') /\ (Absent(l) => Absent(l)')
BY DEF Talks, Absent, Idle, Asked, Works, Answered, Greets, Remembers

LEMMA WorkerNumbers ==
    ASSUME MeowType
    PROVE  /\ current_id \in Nat /\ MaxWorkers \in Nat
           /\ \A l \in 1 .. current_id : l \in Worker /\ l <= current_id
           /\ \A l \in Worker : l <= current_id => l \in 1 .. current_id
BY MeowAssumption DEF MeowType, Worker

LEMMA BusyIsFinite == ASSUME MeowType PROVE IsFiniteSet(Busy)
<1>1. IsFiniteSet(1 .. current_id)
  BY WorkerNumbers, FS_Interval
<1>2. Busy \subseteq 1 .. current_id
  BY DEF Busy
<1> QED
  BY <1>1, <1>2, FS_Subset

\* A lambda that executes nothing is given a thunk.
LEMMA Prepares ==
    ASSUME MeowType, thrown = "none", NEW l \in Worker, Idle(l), Remembers(l), NEW t \in Thunk,
           NEW free, prepare_lambda(l, t, free), thrown' = "none"
    PROVE  /\ lambda' \in [Worker -> [objects : SUBSET Object, executing : Thunk \cup {NoThunk}]]
           /\ down' \in [Worker -> Seq(Msg)]
           /\ lambda'[l].executing = t /\ lambda'[l].objects = Deps[t]
           /\ Packet(down'[l], t)
           /\ Deps[t] \subseteq worker[l].blobs \cup { down'[l][i].of : i \in DOMAIN down'[l] }
           /\ \A k \in Worker : k # l => lambda'[k] = lambda[k] /\ down'[k] = down[k]
           /\ free_lambdas' = free \ {l}
<1> DEFINE missing == Deps[t] \ lambda[l].objects
           s == <<>> \o SetToSeq({ Put(o) : o \in missing }) \o <<Execute(t)>>
<1>1. /\ s \in Seq(Msg) /\ Packet(s, t)
      /\ \A o \in missing : \E i \in DOMAIN s : s[i].of = o
  <2>1. missing \subseteq Deps[t]
    OBVIOUS
  <2> HIDE DEF missing
  <2> QED
    BY <2>1, SendsPacket, Zenon
<1>2. missing \subseteq disk
  BY DEF prepare_lambda
<1>3. /\ down' = [down EXCEPT ![l] = @ \o SetToSeq({ Put(o) : o \in missing }) \o <<Execute(t)>>]
      /\ lambda' = [lambda EXCEPT ![l] = [objects |-> Deps[t], executing |-> t]]
      /\ free_lambdas' = free \ {l}
  BY <1>2, Zenon DEF prepare_lambda
<1>4. down[l] = <<>> /\ down \in [Worker -> Seq(Msg)]
  BY DEF Idle, MeowType
<1> HIDE DEF missing
<1>5. down' = [down EXCEPT ![l] = s]
  BY <1>3, <1>4, Zenon
<1> HIDE DEF s
<1>6. down' \in [Worker -> Seq(Msg)] /\ down'[l] = s
  BY <1>1, <1>4, <1>5
<1>7. \A k \in Worker : k # l => down'[k] = down[k]
  BY <1>4, <1>5
<1>8. Deps[t] \in SUBSET Object
  BY DEF Object
<1>9. /\ lambda' \in [Worker -> [objects : SUBSET Object, executing : Thunk \cup {NoThunk}]]
      /\ lambda'[l].executing = t /\ lambda'[l].objects = Deps[t]
      /\ \A k \in Worker : k # l => lambda'[k] = lambda[k]
  BY <1>3, <1>8 DEF MeowType
<1>10. lambda[l].objects \subseteq worker[l].blobs
  BY <1>4 DEF Remembers
<1>11. Deps[t] \subseteq worker[l].blobs \cup { s[i].of : i \in DOMAIN s }
  BY <1>1, <1>10 DEF missing
<1>12. /\ Packet(down'[l], t)
       /\ Deps[t] \subseteq worker[l].blobs \cup { down'[l][i].of : i \in DOMAIN down'[l] }
  <2>1. down'[l] = s
    BY <1>6
  <2> QED
    BY <1>1, <1>11, <2>1
<1> QED
  BY <1>3, <1>6, <1>7, <1>9, <1>12, Zenon

Executing == { lambda[l].executing : l \in Busy }

\* One more lambda is busy: the last one that has connected, or one before it.
LEMMA OneMoreBusy ==
    ASSUME MeowType, MeowType', NEW t \in Thunk, NEW l \in Worker, l \notin Busy,
           \/ current_id' = current_id /\ l <= current_id
           \/ current_id' = current_id + 1 /\ l = current_id',
           lambda'[l].executing = t,
           \A k \in Worker : k # l => lambda'[k] = lambda[k]
    PROVE  /\ Busy' = Busy \cup {l}
           /\ Executing' = Executing \cup {t}
           /\ Cardinality(Busy') = Cardinality(Busy) + 1
           /\ (1 .. current_id') \ Busy' = ((1 .. current_id) \ Busy) \ {l}
<1>1. /\ current_id \in Nat /\ current_id' \in Nat /\ l \in Nat
      /\ \A k \in 1 .. current_id : k \in Worker
  BY WorkerNumbers DEF Worker
<1>2. l \in 1 .. current_id' /\ \A k \in 1 .. current_id' : k = l \/ k \in 1 .. current_id
  BY <1>1 DEF Worker
<1>3. \A k \in 1 .. current_id : k \in 1 .. current_id'
  BY <1>1
<1>4. t # NoThunk
  BY MeowAssumption
<1>5. Busy' = { k \in 1 .. current_id' : lambda'[k].executing # NoThunk }
  BY DEF Busy
<1>6. Busy' = Busy \cup {l}
  <2>1. ASSUME NEW k \in Busy' PROVE k \in Busy \cup {l}
    BY <1>1, <1>2, <1>5, <2>1 DEF Busy
  <2>2. ASSUME NEW k \in Busy PROVE k \in Busy'
    BY <1>1, <1>3, <1>5, <2>2 DEF Busy
  <2>3. l \in Busy'
    BY <1>2, <1>4, <1>5
  <2> QED
    BY <2>1, <2>2, <2>3
<1>7. \A k \in Busy : lambda'[k] = lambda[k] /\ k # l
  BY <1>1 DEF Busy
<1>8. Executing' = { lambda'[k].executing : k \in Busy' }
  BY DEF Executing
<1>9. Executing' = Executing \cup {t}
  BY <1>6, <1>7, <1>8 DEF Executing
<1>10. Cardinality(Busy') = Cardinality(Busy) + 1
  BY <1>6, BusyIsFinite, FS_AddElement
<1>11. (1 .. current_id') \ Busy' = ((1 .. current_id) \ Busy) \ {l}
  BY <1>2, <1>3, <1>6
<1> QED
  BY <1>6, <1>9, <1>10, <1>11

\* Everyone but one stays where it was in its conversation.
LEMMA OneTalks ==
    ASSUME MeowType, Conversation, NEW l \in Worker, Talks(l)', l <= current_id',
           current_id' = current_id \/ (current_id' = current_id + 1 /\ l = current_id'),
           \A k \in Worker : k # l => /\ lambda'[k] = lambda[k] /\ worker'[k] = worker[k]
                                      /\ down'[k] = down[k] /\ up'[k] = up[k]
    PROVE  Conversation'
<1> SUFFICES ASSUME NEW k \in Worker
             PROVE  IF k <= current_id' THEN Talks(k)' ELSE Absent(k)'
  BY DEF Conversation
<1>1. CASE k = l
  BY <1>1
<1>2. CASE k # l
  <2>1. k <= current_id' <=> k <= current_id
    BY <1>2, WorkerNumbers DEF Worker
  <2>2. IF k <= current_id THEN Talks(k) ELSE Absent(k)
    BY DEF Conversation
  <2> QED
    BY <1>2, <2>1, <2>2, TalkStays
<1> QED
  BY <1>1, <1>2

LEMMA FreeIsIdle ==
    ASSUME Good, NEW l \in free_lambdas
    PROVE  l \in Worker /\ l <= current_id /\ l \notin Busy /\ Idle(l) /\ Remembers(l)
<1>1. l \in 1 .. current_id /\ l \notin Busy
  BY DEF Good, JobsConserved
<1>2. l \in Worker /\ l <= current_id
  BY <1>1, WorkerNumbers DEF Good
<1>3. lambda[l].executing = NoThunk
  BY <1>1 DEF Busy
<1>4. Talks(l)
  BY <1>2 DEF Good, Conversation
<1> QED
  BY <1>1, <1>2, <1>3, <1>4, MeowAssumption DEF Talks, Asked, Works, Answered

\* What is forced, in the queue and counted, as sets and numbers.
LEMMA JobFacts ==
    ASSUME Good
    PROVE  /\ forced \ done = Waiting \cup Executing
           /\ IsFiniteSet(forced \ done)
           /\ Len(thunks_queue) \in Nat /\ Cardinality(Busy) \in Nat
           /\ running_jobs = Len(thunks_queue) + Cardinality(Busy)
           /\ running_jobs = Cardinality(forced \ done)
           /\ free_lambdas = (1 .. current_id) \ Busy
<1>1. IsFiniteSet(forced \ done)
  BY FS_Difference DEF Good, MeowType
<1>2. Cardinality(Busy) \in Nat
  BY BusyIsFinite, FS_CardinalityType DEF Good
<1>3. Len(thunks_queue) \in Nat
  BY DEF Good, MeowType
<1> QED
  BY <1>1, <1>2, <1>3 DEF Good, JobsConserved, Executing

\* A thunk that no lambda executes and that is not in the queue goes to a lambda.
LEMMA OnePlaceMore ==
    ASSUME OnePlace, NEW t, t \notin Waiting', t \notin Executing, NEW l, l \notin Busy,
           Busy' = Busy \cup {l}, lambda'[l].executing = t,
           \A k \in Busy : lambda'[k] = lambda[k],
           Waiting' \subseteq Waiting,
           (\A i, j \in DOMAIN thunks_queue : thunks_queue[i] = thunks_queue[j] => i = j)'
    PROVE  OnePlace'
<1>1. \A k \in Busy' : k = l \/ k \in Busy
  OBVIOUS
<1>2. \A k \in Busy : lambda'[k].executing # t
  BY DEF Executing
<1>3. ASSUME NEW j \in Busy', NEW k \in Busy', lambda'[j].executing = lambda'[k].executing
      PROVE  j = k
  BY <1>1, <1>2, <1>3 DEF OnePlace
<1>4. ASSUME NEW k \in Busy' PROVE lambda'[k].executing \notin Waiting'
  BY <1>1, <1>4 DEF OnePlace
<1> QED
  BY <1>3, <1>4 DEF OnePlace

LEMMA ForceGood ==
    ASSUME Good, NEW t \in Thunk, force_thunk(t), thrown' = "none" PROVE Good'
<1> USE DEF Good
<1>t. t \notin forced /\ t \notin done /\ t \notin Waiting /\ t \notin Executing
  BY JobFacts DEF force_thunk, MeowType
<1>f. /\ forced' = forced \cup {t} /\ running_jobs' = running_jobs + 1
      /\ done' = done /\ current_id' = current_id /\ up' = up /\ worker' = worker
  BY DEF force_thunk
<1>g. forced' \subseteq Thunk /\ done' \subseteq forced' /\ IsFiniteSet(forced')
  BY <1>f, FS_AddElement DEF MeowType
<1>h. /\ forced' \ done' = (forced \ done) \cup {t}
      /\ Cardinality(forced' \ done') = Cardinality(forced \ done) + 1
  <2>1. forced' \ done' = (forced \ done) \cup {t}
    BY <1>t, <1>f
  <2> QED
    BY <1>t, <2>1, JobFacts, FS_AddElement
<1>1. CASE free_lambdas # {}
  <2>1. PICK l \in free_lambdas : prepare_lambda(l, t, free_lambdas)
    BY <1>1 DEF force_thunk, pick_lambda
  <2>2. thunks_queue' = thunks_queue /\ launches' = launches
    BY <1>1 DEF force_thunk
  <2>3. l \in Worker /\ l <= current_id /\ l \notin Busy /\ Idle(l) /\ Remembers(l)
    BY FreeIsIdle
  <2>4. /\ lambda' \in [Worker -> [objects : SUBSET Object, executing : Thunk \cup {NoThunk}]]
        /\ down' \in [Worker -> Seq(Msg)]
        /\ lambda'[l].executing = t /\ lambda'[l].objects = Deps[t]
        /\ Packet(down'[l], t)
        /\ Deps[t] \subseteq worker[l].blobs \cup { down'[l][i].of : i \in DOMAIN down'[l] }
        /\ \A k \in Worker : k # l => lambda'[k] = lambda[k] /\ down'[k] = down[k]
        /\ free_lambdas' = free_lambdas \ {l}
    BY <2>1, <2>3, Prepares
  <2>5. MeowType'
    BY <1>f, <1>g, <2>2, <2>4 DEF MeowType
  <2>6. Talks(l)'
    <3>1. Asked(l)'
      BY <1>f, <2>3, <2>4 DEF Asked, Idle, Greets
    <3>2. Remembers(l)'
      BY <1>f, <2>4 DEF Remembers
    <3> QED
      BY <3>1, <3>2 DEF Talks
  <2>7. Conversation'
    <3>1. \A k \in Worker : k # l => /\ lambda'[k] = lambda[k] /\ worker'[k] = worker[k]
                                     /\ down'[k] = down[k] /\ up'[k] = up[k]
      BY <1>f, <2>4
    <3>2. MeowType /\ Conversation /\ l <= current_id' /\ current_id' = current_id
      BY <1>f, <2>3
    <3> QED
      BY <2>3, <2>6, <3>1, <3>2, OneTalks
  <2>8. /\ Busy' = Busy \cup {l} /\ Executing' = Executing \cup {t}
        /\ Cardinality(Busy') = Cardinality(Busy) + 1
        /\ (1 .. current_id') \ Busy' = ((1 .. current_id) \ Busy) \ {l}
    <3>1. \A k \in Worker : k # l => lambda'[k] = lambda[k]
      BY <2>4
    <3>2. MeowType /\ current_id' = current_id /\ l <= current_id
      BY <1>f, <2>3
    <3> QED
      BY <2>3, <2>4, <2>5, <3>1, <3>2, OneMoreBusy
  <2>9. Waiting' = Waiting
    BY <2>2 DEF Waiting
  <2>10. \A k \in Busy : lambda'[k] = lambda[k]
    BY <2>3, <2>4, WorkerNumbers DEF Busy
  <2>11. OnePlace'
    <3>1. (\A i, j \in DOMAIN thunks_queue : thunks_queue[i] = thunks_queue[j] => i = j)'
      BY <2>2 DEF OnePlace
    <3> QED
      BY <1>t, <2>3, <2>4, <2>8, <2>9, <2>10, <3>1, OnePlaceMore
  <2>12. JobsConserved'
    <3>1. running_jobs' = Len(thunks_queue') + Cardinality(Busy')
      BY <1>f, <2>2, <2>8, JobFacts
    <3>2. running_jobs' = Cardinality(forced' \ done')
      BY <1>f, <1>h, JobFacts
    <3>3. forced' \ done' = Waiting' \cup Executing'
      BY <1>h, <2>8, <2>9, JobFacts
    <3>4. free_lambdas' = (1 .. current_id') \ Busy'
      BY <2>4, <2>8, JobFacts
    <3> QED
      BY <3>1, <3>2, <3>3, <3>4 DEF JobsConserved, Executing
  <2> QED
    BY <2>5, <2>7, <2>11, <2>12
<1>2. CASE free_lambdas = {}
  <2>1. /\ thunks_queue' = Append(thunks_queue, t) /\ launches' = launches + 1
        /\ UNCHANGED <<lambda, free_lambdas, down>>
    BY <1>2 DEF force_thunk
  <2>q. thunks_queue \in Seq(Thunk)
    BY DEF MeowType
  <2>2. MeowType'
    BY <1>f, <1>g, <2>1, <2>q DEF MeowType
  <2>3. Conversation'
    BY <1>f, <2>1, TalkStays DEF Conversation
  <2>4. Busy' = Busy /\ Executing' = Executing
    BY <1>f, <2>1 DEF Busy, Executing
  <2>5. /\ DOMAIN thunks_queue = 1 .. Len(thunks_queue)
        /\ DOMAIN thunks_queue' = 1 .. Len(thunks_queue) + 1
        /\ \A i \in 1 .. Len(thunks_queue) : thunks_queue'[i] = thunks_queue[i]
        /\ thunks_queue'[Len(thunks_queue) + 1] = t
        /\ Len(thunks_queue') = Len(thunks_queue) + 1
        /\ Len(thunks_queue) \in Nat
    BY <2>1, <2>q
  <2>6. Waiting' = Waiting \cup {t}
    BY <2>5 DEF Waiting
  <2>7. OnePlace'
    <3>1. ASSUME NEW i \in DOMAIN thunks_queue', NEW j \in DOMAIN thunks_queue',
                 thunks_queue'[i] = thunks_queue'[j]
          PROVE  i = j
      <4>1. \A k \in 1 .. Len(thunks_queue) : thunks_queue[k] # t
        BY <1>t, <2>5 DEF Waiting
      <4>2. \A k \in DOMAIN thunks_queue' : k \in 1 .. Len(thunks_queue) \/ k = Len(thunks_queue) + 1
        BY <2>5
      <4> QED
        BY <2>5, <3>1, <4>1, <4>2 DEF OnePlace
    <3>2. ASSUME NEW l \in Busy PROVE lambda[l].executing \notin Waiting \cup {t}
      BY <1>t DEF OnePlace, Executing
    <3> QED
      BY <2>1, <2>4, <2>6, <3>1, <3>2 DEF OnePlace
  <2>8. JobsConserved'
    <3>1. running_jobs' = Len(thunks_queue') + Cardinality(Busy')
      BY <1>f, <2>4, <2>5, JobFacts
    <3>2. running_jobs' = Cardinality(forced' \ done')
      BY <1>f, <1>h, JobFacts
    <3>3. forced' \ done' = Waiting' \cup Executing'
      BY <1>h, <2>4, <2>6, JobFacts
    <3>4. free_lambdas' = (1 .. current_id') \ Busy'
      BY <1>f, <2>1, <2>4, JobFacts
    <3> QED
      BY <3>1, <3>2, <3>3, <3>4 DEF JobsConserved, Executing
  <2> QED
    BY <2>2, <2>3, <2>7, <2>8
<1> QED
  BY <1>1, <1>2

LEMMA InvocationGood == ASSUME Good, InvocationFails PROVE Good'
<1> USE DEF Good
<1>1. /\ launches' \in Nat
      /\ UNCHANGED <<forced, done, thunks_queue, running_jobs, current_id, lambda, free_lambdas,
                     down, up, worker, thrown>>
  BY DEF InvocationFails, MeowType
<1>2. MeowType'
  BY <1>1 DEF MeowType
<1>3. Conversation'
  BY <1>1, TalkStays DEF Conversation
<1>4. OnePlace' /\ JobsConserved'
  BY <1>1 DEF OnePlace, JobsConserved, Busy, Waiting
<1> QED
  BY <1>1, <1>2, <1>3, <1>4

\* The thunk that has waited longest, and the rest of the queue.
LEMMA QueueHead ==
    ASSUME Good, thunks_queue # <<>>, thunks_queue' = Tail(thunks_queue)
    PROVE  /\ Head(thunks_queue) \in Thunk /\ thunks_queue' \in Seq(Thunk)
           /\ Len(thunks_queue') = Len(thunks_queue) - 1
           /\ Waiting = Waiting' \cup {Head(thunks_queue)}
           /\ Head(thunks_queue) \notin Waiting' /\ Head(thunks_queue) \notin Executing
           /\ (\A i, j \in DOMAIN thunks_queue : thunks_queue[i] = thunks_queue[j] => i = j)'
<1> DEFINE q == thunks_queue
           n == Len(thunks_queue)
<1>1. q \in Seq(Thunk) /\ q # <<>> /\ n \in Nat \ {0}
  BY DEF Good, MeowType
<1>2. /\ Head(q) \in Thunk /\ Head(q) = q[1] /\ q' \in Seq(Thunk) /\ Len(q') = n - 1
      /\ DOMAIN q = 1 .. n /\ DOMAIN q' = 1 .. n - 1
  BY <1>1
<1>3. \A i \in 1 .. n - 1 : q'[i] = q[i + 1]
  BY <1>1
<1>4. \A i, j \in 1 .. n : q[i] = q[j] => i = j
  BY <1>2 DEF Good, OnePlace
<1>5. Waiting = { q[i] : i \in 1 .. n } /\ Waiting' = { q'[i] : i \in 1 .. n - 1 }
  BY <1>2 DEF Waiting
<1> HIDE DEF q, n
<1>6. \A i \in 1 .. n - 1 : i + 1 \in 1 .. n /\ i + 1 # 1
  BY <1>1
<1>7. \A i \in 1 .. n : i = 1 \/ (i - 1 \in 1 .. n - 1 /\ (i - 1) + 1 = i)
  BY <1>1
<1>8. ASSUME NEW x \in Waiting PROVE x \in Waiting' \cup {Head(q)}
  <2>1. PICK i \in 1 .. n : x = q[i]
    BY <1>5
  <2>2. CASE i = 1
    BY <1>2, <2>1, <2>2
  <2>3. CASE i # 1
    BY <1>3, <1>5, <1>7, <2>1, <2>3
  <2> QED
    BY <2>2, <2>3
<1>9. ASSUME NEW x \in Waiting' \cup {Head(q)} PROVE x \in Waiting
  <2>1. 1 \in 1 .. n
    BY <1>1
  <2> QED
    BY <1>2, <1>3, <1>5, <1>6, <2>1
<1>10. Head(q) \notin Waiting'
  <2> SUFFICES ASSUME NEW i \in 1 .. n - 1, q'[i] = Head(q) PROVE FALSE
    BY <1>5
  <2>1. q[i + 1] = q[1] /\ i + 1 \in 1 .. n /\ 1 \in 1 .. n /\ i + 1 # 1
    BY <1>1, <1>2, <1>3, <1>6
  <2> QED
    BY <1>4, <2>1
<1>11. Head(q) \in Waiting
  BY <1>9
<1>12. Head(q) \notin Executing
  BY <1>11 DEF Good, OnePlace, Executing
<1>13. ASSUME NEW i \in 1 .. n - 1, NEW j \in 1 .. n - 1, q'[i] = q'[j] PROVE i = j
  <2>1. q[i + 1] = q[j + 1] /\ i + 1 \in 1 .. n /\ j + 1 \in 1 .. n
    BY <1>3, <1>6, <1>13
  <2>2. i + 1 = j + 1
    BY <1>4, <2>1
  <2> QED
    BY <1>1, <2>2
<1>14. \A i, j \in DOMAIN q' : q'[i] = q'[j] => i = j
  BY <1>2, <1>13
<1> QED
  BY <1>2, <1>8, <1>9, <1>10, <1>12, <1>14 DEF q, n

LEMMA IncomingGood == ASSUME Good, Incoming, thrown' = "none" PROVE Good'
<1> USE DEF Good
<1>l. PICK l \in Worker : l = current_id + 1 /\ l = current_id'
  BY WorkerNumbers DEF Incoming, Worker
<1>f. /\ current_id' = current_id + 1 /\ l <= current_id'
      /\ current_id' \in 0 .. MaxWorkers /\ launches' \in Nat
      /\ up' = [up EXCEPT ![l] = <<Hey>>]
      /\ forced' = forced /\ done' = done /\ running_jobs' = running_jobs /\ worker' = worker
  BY <1>l, WorkerNumbers DEF Incoming, MeowType, Worker
<1>a. Absent(l) /\ Remembers(l) /\ l \notin Busy
  <2>1. ~ (l <= current_id)
    BY <1>l, WorkerNumbers
  <2>2. Absent(l)
    BY <2>1 DEF Conversation
  <2>3. Remembers(l)
    BY <2>2, MeowAssumption DEF Absent, Idle, Remembers
  <2> QED
    BY <2>1, <2>2, <2>3, WorkerNumbers DEF Busy
<1>u. /\ up' \in [Worker -> Seq(Msg)] /\ up'[l] = <<Hey>>
      /\ \A k \in Worker : k # l => up'[k] = up[k]
  <2>1. <<Hey>> \in Seq(Msg)
    BY MessageTypes
  <2> QED
    BY <1>f, <2>1 DEF MeowType
<1>1. CASE thunks_queue = <<>>
  <2>1. /\ free_lambdas' = free_lambdas \cup {l}
        /\ UNCHANGED <<thunks_queue, lambda, down>>
    BY <1>1, <1>l DEF Incoming
  <2>2. MeowType'
    BY <1>f, <1>u, <2>1 DEF MeowType
  <2>3. Talks(l)'
    <3>1. Idle(l)'
      BY <1>a, <1>f, <1>u, <2>1 DEF Absent, Idle, Greets
    <3>2. Remembers(l)'
      BY <1>a, <1>f, <2>1 DEF Remembers
    <3> QED
      BY <3>1, <3>2 DEF Talks
  <2>4. Conversation'
    <3>1. \A k \in Worker : k # l => /\ lambda'[k] = lambda[k] /\ worker'[k] = worker[k]
                                     /\ down'[k] = down[k] /\ up'[k] = up[k]
      BY <1>f, <1>u, <2>1
    <3> QED
      BY <1>f, <1>l, <2>3, <3>1, OneTalks
  <2>5. lambda[l].executing = NoThunk
    BY <1>a DEF Absent, Idle
  <2>6. \A k \in 1 .. current_id' : k \in 1 .. current_id \/ k = l
    BY <1>l, WorkerNumbers
  <2>7. \A k \in 1 .. current_id : k \in 1 .. current_id' /\ k # l
    BY <1>l, WorkerNumbers
  <2>8. l \in 1 .. current_id'
    BY <1>l, WorkerNumbers
  <2>9. Busy' = Busy
    BY <2>1, <2>5, <2>6, <2>7 DEF Busy
  <2>10. (1 .. current_id') \ Busy' = ((1 .. current_id) \ Busy) \cup {l}
    BY <1>a, <2>6, <2>7, <2>8, <2>9
  <2>11. OnePlace' /\ JobsConserved'
    BY <1>f, <2>1, <2>9, <2>10 DEF OnePlace, JobsConserved, Waiting
  <2> QED
    BY <2>2, <2>4, <2>11
<1>2. CASE thunks_queue # <<>>
  <2>t. PICK t \in Thunk : t = Head(thunks_queue)
    BY <1>2 DEF MeowType
  <2>1. thunks_queue' = Tail(thunks_queue) /\ prepare_lambda(l, t, free_lambdas \cup {l})
    BY <1>2, <1>l, <2>t DEF Incoming
  <2>2. /\ thunks_queue' \in Seq(Thunk)
        /\ Len(thunks_queue') = Len(thunks_queue) - 1
        /\ Waiting = Waiting' \cup {t}
        /\ t \notin Waiting' /\ t \notin Executing
        /\ (\A i, j \in DOMAIN thunks_queue : thunks_queue[i] = thunks_queue[j] => i = j)'
    BY <1>2, <2>1, <2>t, QueueHead
  <2>3. Idle(l)
    BY <1>a DEF Absent
  <2>4. /\ lambda' \in [Worker -> [objects : SUBSET Object, executing : Thunk \cup {NoThunk}]]
        /\ down' \in [Worker -> Seq(Msg)]
        /\ lambda'[l].executing = t /\ lambda'[l].objects = Deps[t]
        /\ Packet(down'[l], t)
        /\ Deps[t] \subseteq worker[l].blobs \cup { down'[l][i].of : i \in DOMAIN down'[l] }
        /\ \A k \in Worker : k # l => lambda'[k] = lambda[k] /\ down'[k] = down[k]
        /\ free_lambdas' = (free_lambdas \cup {l}) \ {l}
    BY <1>a, <2>1, <2>3, Prepares
  <2>5. MeowType'
    BY <1>f, <1>u, <2>2, <2>4 DEF MeowType
  <2>6. Talks(l)'
    <3>1. Asked(l)'
      BY <1>f, <1>u, <2>3, <2>4 DEF Asked, Idle, Greets
    <3>2. Remembers(l)'
      BY <1>f, <2>4 DEF Remembers
    <3> QED
      BY <3>1, <3>2 DEF Talks
  <2>7. Conversation'
    <3>1. \A k \in Worker : k # l => /\ lambda'[k] = lambda[k] /\ worker'[k] = worker[k]
                                     /\ down'[k] = down[k] /\ up'[k] = up[k]
      BY <1>f, <1>u, <2>4
    <3> QED
      BY <1>f, <1>l, <2>6, <3>1, OneTalks
  <2>8. /\ Busy' = Busy \cup {l} /\ Executing' = Executing \cup {t}
        /\ Cardinality(Busy') = Cardinality(Busy) + 1
        /\ (1 .. current_id') \ Busy' = ((1 .. current_id) \ Busy) \ {l}
    <3>1. \A k \in Worker : k # l => lambda'[k] = lambda[k]
      BY <2>4
    <3> QED
      BY <1>a, <1>f, <1>l, <2>4, <2>5, <3>1, OneMoreBusy
  <2>9. OnePlace'
    <3>1. \A k \in Busy : lambda'[k] = lambda[k]
      BY <1>a, <2>4, WorkerNumbers DEF Busy
    <3> QED
      BY <1>a, <2>2, <2>4, <2>8, <3>1, OnePlaceMore
  <2>10. JobsConserved'
    <3>1. running_jobs' = Len(thunks_queue') + Cardinality(Busy')
      BY <1>f, <2>2, <2>8, JobFacts
    <3>2. running_jobs' = Cardinality(forced' \ done')
      BY <1>f, JobFacts
    <3>3. forced' \ done' = Waiting' \cup Executing'
      BY <1>f, <2>2, <2>8, JobFacts
    <3>4. free_lambdas' = (1 .. current_id') \ Busy'
      BY <2>4, <2>8, JobFacts
    <3> QED
      BY <3>1, <3>2, <3>3, <3>4 DEF JobsConserved, Executing
  <2> QED
    BY <2>5, <2>7, <2>9, <2>10
<1> QED
  BY <1>1, <1>2

LEMMA Operations ==
    /\ Hey.op = "Hey"
    /\ \A t : /\ Executed(t).op = "Executed" /\ Executed(t).of = t
              /\ ExecutionFailed(t).op = "ExecutionFailed"
              /\ Execute(t).op = "Execute" /\ Execute(t).of = t
BY DEF Hey, Executed, ExecutionFailed, Execute

LEMMA AppendPair == ASSUME NEW S, NEW a \in S, NEW b \in S PROVE Append(<<a>>, b) = <<a, b>>
<1>1. <<a>> \in Seq(S) /\ <<a, b>> \in Seq(S) /\ Append(<<a>>, b) \in Seq(S)
  OBVIOUS
<1>2. Len(Append(<<a>>, b)) = 2 /\ Append(<<a>>, b)[1] = a /\ Append(<<a>>, b)[2] = b
  OBVIOUS
<1>3. Len(<<a, b>>) = 2 /\ <<a, b>>[1] = a /\ <<a, b>>[2] = b
  OBVIOUS
<1>4. \A i \in 1 .. 2 : i = 1 \/ i = 2
  OBVIOUS
<1> QED
  BY <1>1, <1>2, <1>3, <1>4, SeqEqual

\* Nothing but one worker's conversation changes.
LEMMA JobsStay ==
    ASSUME OnePlace, JobsConserved,
           UNCHANGED <<forced, done, thunks_queue, running_jobs, current_id, lambda, free_lambdas,
                       thrown>>
    PROVE  OnePlace' /\ JobsConserved'
BY DEF OnePlace, JobsConserved, Busy, Waiting

\* Who has something to say is connected.
LEMMA SpeakerTalks ==
    ASSUME Good, NEW l \in Worker, ~ Absent(l) PROVE Talks(l) /\ l <= current_id
BY DEF Good, Conversation

LEMMA ReceiveGood ==
    ASSUME Good, NEW l \in Worker, Receive(l), thrown' = "none" PROVE Good'
<1> USE DEF Good
<1>a. Talks(l) /\ l <= current_id
  <2>1. up[l] # <<>>
    BY DEF Receive
  <2> QED
    BY <2>1, SpeakerTalks DEF Absent
<1>f. /\ up' = [up EXCEPT ![l] = Tail(@)] /\ up[l] # <<>>
      /\ UNCHANGED <<forced, thunks_queue, launches, current_id, down, worker>>
  BY DEF Receive
<1>u. /\ up' \in [Worker -> Seq(Msg)] /\ up'[l] = Tail(up[l])
      /\ \A k \in Worker : k # l => up'[k] = up[k]
  <2>1. up \in [Worker -> Seq(Msg)] /\ Tail(up[l]) \in Seq(Msg)
    BY <1>f DEF MeowType
  <2> QED
    BY <1>f, <2>1
<1>1. ASSUME Head(up[l]) = Hey, UNCHANGED <<done, lambda, free_lambdas, running_jobs>>, Talks(l)'
      PROVE  Good'
  <2>1. MeowType'
    BY <1>1, <1>f, <1>u DEF MeowType
  <2>2. \A k \in Worker : k # l => /\ lambda'[k] = lambda[k] /\ worker'[k] = worker[k]
                                   /\ down'[k] = down[k] /\ up'[k] = up[k]
    BY <1>1, <1>f, <1>u
  <2>3. Conversation'
    BY <1>1, <1>a, <1>f, <2>2, OneTalks
  <2>4. OnePlace' /\ JobsConserved'
    BY <1>1, <1>f, JobsStay
  <2> QED
    BY <2>1, <2>3, <2>4
<1>h. ASSUME Head(up[l]) = Hey PROVE UNCHANGED <<done, lambda, free_lambdas, running_jobs>>
  <2>1. Head(up[l]).op = "Hey"
    BY <1>h, Operations
  <2> QED
    BY <2>1 DEF Receive
<1>2. CASE Greets(l)
  <2>1. up[l] = <<Hey>>
    BY <1>2, <1>f DEF Greets
  <2>2. Head(up[l]) = Hey /\ Tail(up[l]) = <<>>
    BY <2>1
  <2>3. UNCHANGED <<done, lambda, free_lambdas, running_jobs>>
    BY <1>h, <2>2
  <2>4. Greets(l)'
    BY <1>u, <2>2 DEF Greets
  <2>5. ~ Answered(l)
    <3> SUFFICES ASSUME NEW m, up[l] = <<m>> \/ up[l] = <<Hey, m>>,
                        m \in {Executed(lambda[l].executing), ExecutionFailed(lambda[l].executing)}
                 PROVE  FALSE
      BY DEF Answered
    <3>1. m.op # "Hey"
      BY Operations
    <3>2. m = Hey
      BY <2>1
    <3> QED
      BY <3>1, <3>2, Operations
  <2>6. Talks(l)'
    BY <1>a, <1>f, <2>3, <2>4, <2>5 DEF Talks, Idle, Asked, Works, Remembers
  <2> QED
    BY <1>1, <2>2, <2>3, <2>6
<1>3. CASE Answered(l)
  <2> DEFINE t == lambda[l].executing
  <2>t. t \in Thunk /\ worker[l].child = NoThunk /\ down[l] = <<>>
    BY <1>3 DEF Answered
  <2>m. PICK m \in {Executed(t), ExecutionFailed(t)} : up[l] = <<m>> \/ up[l] = <<Hey, m>>
    BY <1>3 DEF Answered
  <2>1. CASE up[l] = <<Hey, m>>
    <3>1. Head(up[l]) = Hey /\ Tail(up[l]) = <<m>>
      BY <2>1
    <3>2. UNCHANGED <<done, lambda, free_lambdas, running_jobs>>
      BY <1>h, <3>1
    <3>3. Answered(l)'
      BY <1>f, <1>u, <2>m, <2>t, <3>1, <3>2 DEF Answered
    <3>4. Remembers(l)'
      BY <1>a, <1>f, <3>2 DEF Talks, Remembers
    <3> QED
      BY <1>1, <3>1, <3>2, <3>3, <3>4 DEF Talks
  <2>2. CASE up[l] = <<m>>
    <3>1. Head(up[l]) = m /\ Tail(up[l]) = <<>>
      BY <2>2
    <3>2. m = Executed(t)
      <4> SUFFICES ASSUME m = ExecutionFailed(t) PROVE FALSE
        BY <2>m
      <4>1. Head(up[l]).op = "ExecutionFailed"
        BY <3>1, Operations
      <4> QED
        BY <4>1 DEF Receive
    <3>3. Head(up[l]).op = "Executed" /\ Head(up[l]).of = t
      BY <3>1, <3>2, Operations
    <3>4. /\ lambda' = [lambda EXCEPT ![l].executing = NoThunk]
          /\ free_lambdas' = free_lambdas \cup {l}
          /\ running_jobs' = running_jobs - 1
          /\ done' = done \cup {t}
      BY <3>3 DEF Receive
    <3>5. /\ lambda' \in [Worker -> [objects : SUBSET Object, executing : Thunk \cup {NoThunk}]]
          /\ lambda'[l].executing = NoThunk /\ lambda'[l].objects = lambda[l].objects
          /\ \A k \in Worker : k # l => lambda'[k] = lambda[k]
      BY <3>4 DEF MeowType
    <3>6. l \in Busy /\ t \in Executing
      BY <1>a, <2>t, WorkerNumbers, MeowAssumption DEF Busy, Executing
    <3> HIDE DEF t
    <3>7. t \in forced \ done /\ t \notin Waiting
      BY <3>6, JobFacts DEF OnePlace, t
    <3>8. MeowType'
      BY <1>f, <1>u, <3>4, <3>5, <3>7 DEF MeowType
    <3>9. Talks(l)'
      <4>1. Idle(l)'
        BY <1>f, <1>u, <2>t, <3>1, <3>5 DEF Idle, Greets
      <4>2. Remembers(l)'
        BY <1>a, <1>f, <3>5, MeowAssumption DEF Talks, Remembers
      <4> QED
        BY <4>1, <4>2 DEF Talks
    <3>10. Conversation'
      <4>1. \A k \in Worker : k # l => /\ lambda'[k] = lambda[k] /\ worker'[k] = worker[k]
                                       /\ down'[k] = down[k] /\ up'[k] = up[k]
        BY <1>f, <1>u, <3>5
      <4> QED
        BY <1>a, <1>f, <3>9, <4>1, OneTalks
    <3>11. Busy' = Busy \ {l} /\ Waiting' = Waiting
      BY <1>f, <3>5, WorkerNumbers DEF Busy, Waiting
    <3>12. \A k \in Busy' : lambda'[k] = lambda[k] /\ k \in Busy /\ k # l
      BY <3>5, <3>11, WorkerNumbers DEF Busy
    <3>13. OnePlace'
      <4>1. ASSUME NEW j \in Busy', NEW k \in Busy', lambda'[j].executing = lambda'[k].executing
            PROVE  j = k
        BY <3>12, <4>1 DEF OnePlace
      <4>2. ASSUME NEW k \in Busy' PROVE lambda'[k].executing \notin Waiting'
        BY <3>11, <3>12, <4>2 DEF OnePlace
      <4> QED
        BY <1>f, <4>1, <4>2 DEF OnePlace
    <3>14. Executing' = Executing \ {t}
      <4>1. Executing' = { lambda'[k].executing : k \in Busy' }
        BY DEF Executing
      <4>2. \A k \in Busy' : lambda[k].executing # t
        BY <3>6, <3>12 DEF OnePlace, t
      <4>3. \A k \in Busy : k = l \/ k \in Busy'
        BY <3>11
      <4> QED
        BY <3>12, <4>1, <4>2, <4>3 DEF Executing, t
    <3>15. /\ Cardinality(Busy') = Cardinality(Busy) - 1
           /\ Cardinality(forced' \ done') = Cardinality(forced \ done) - 1
           /\ forced' \ done' = (forced \ done) \ {t}
      <4>1. forced' \ done' = (forced \ done) \ {t}
        BY <1>f, <3>4
      <4>2. Cardinality(forced' \ done') = Cardinality(forced \ done) - 1
        BY <3>7, <4>1, JobFacts, FS_RemoveElement
      <4>3. Cardinality(Busy') = Cardinality(Busy) - 1
        BY <3>6, <3>11, BusyIsFinite, FS_RemoveElement
      <4> QED
        BY <4>1, <4>2, <4>3
    <3>16. JobsConserved'
      <4>1. running_jobs' = Len(thunks_queue') + Cardinality(Busy')
        BY <1>f, <3>4, <3>15, JobFacts
      <4>2. running_jobs' = Cardinality(forced' \ done')
        BY <3>4, <3>15, JobFacts
      <4>3. forced' \ done' = Waiting' \cup Executing'
        BY <3>7, <3>11, <3>14, <3>15, JobFacts
      <4>4. free_lambdas' = (1 .. current_id') \ Busy'
        <5>1. l \in 1 .. current_id
          BY <3>6 DEF Busy
        <5> QED
          BY <1>f, <3>4, <3>11, <5>1, JobFacts
      <4> QED
        BY <4>1, <4>2, <4>3, <4>4 DEF JobsConserved, Executing
    <3> QED
      BY <3>8, <3>10, <3>13, <3>16
  <2> QED
    BY <2>1, <2>2, <2>m
<1> QED
  BY <1>2, <1>3, <1>a DEF Talks, Idle, Asked, Works

LEMMA WorkerReceivesGood ==
    ASSUME Good, NEW l \in Worker, WorkerReceives(l) PROVE Good'
<1> USE DEF Good
<1>d. down[l] # <<>> /\ down[l] \in Seq(Msg) /\ down \in [Worker -> Seq(Msg)]
  BY DEF WorkerReceives, MeowType
<1>a. Talks(l) /\ l <= current_id /\ Asked(l) /\ Remembers(l)
  <2>1. Talks(l) /\ l <= current_id
    BY <1>d, SpeakerTalks DEF Absent, Idle
  <2> QED
    BY <1>d, <2>1 DEF Talks, Idle, Works, Answered
<1> DEFINE t == lambda[l].executing
           h == Head(down[l])
<1>t. t \in Thunk /\ worker[l].child = NoThunk /\ Packet(down[l], t) /\ Greets(l)
  BY <1>a DEF Asked
<1>p. /\ Tail(down[l]) \in Seq(Msg) /\ h \in Msg
      /\ Len(down[l]) = 1 => h = Execute(t) /\ Tail(down[l]) = <<>>
      /\ Len(down[l]) # 1 => h.op = "Put" /\ Packet(Tail(down[l]), t)
      /\ { down[l][i].of : i \in DOMAIN down[l] } \subseteq
            {h.of} \cup { Tail(down[l])[i].of : i \in DOMAIN Tail(down[l]) }
  BY <1>d, <1>t, PacketTail
<1>f. /\ down' = [down EXCEPT ![l] = Tail(@)]
      /\ UNCHANGED <<forced, done, thunks_queue, running_jobs, launches, current_id, lambda,
                     free_lambdas, up, thrown>>
  BY DEF WorkerReceives
<1>g. /\ down' \in [Worker -> Seq(Msg)] /\ down'[l] = Tail(down[l])
      /\ \A k \in Worker : k # l => down'[k] = down[k]
  BY <1>d, <1>f, <1>p
<1>c. PICK c \in Thunk \cup {NoThunk} :
         /\ c = IF h.op = "Execute" THEN h.of ELSE worker[l].child
         /\ Len(down[l]) = 1 => c = t
         /\ Len(down[l]) # 1 => c = NoThunk
  <2>1. CASE Len(down[l]) = 1
    <3>1. h.op = "Execute" /\ h.of = t
      BY <1>p, <2>1, Operations
    <3> QED
      BY <1>t, <2>1, <3>1
  <2>2. CASE Len(down[l]) # 1
    <3>1. h.op # "Execute"
      BY <1>p, <2>2
    <3> QED
      BY <1>t, <2>2, <3>1
  <2> QED
    BY <2>1, <2>2
<1>o. PICK o \in Object : o = h.of
  BY <1>p DEF Msg
<1>w. /\ worker' \in [Worker -> [blobs : SUBSET Object, child : Thunk \cup {NoThunk}]]
      /\ worker'[l].blobs = worker[l].blobs \cup {h.of} /\ worker'[l].child = c
      /\ \A k \in Worker : k # l => worker'[k] = worker[k]
  <2>1. worker' = [worker EXCEPT ![l].blobs = @ \cup {Head(down[l]).of},
                                 ![l].child = IF Head(down[l]).op = "Execute"
                                              THEN Head(down[l]).of ELSE @]
    BY DEF WorkerReceives
  <2> HIDE DEF h
  <2> DEFINE v == [worker EXCEPT ![l].blobs = @ \cup {o}]
  <2>2. /\ v \in [Worker -> [blobs : SUBSET Object, child : Thunk \cup {NoThunk}]]
        /\ v[l].blobs = worker[l].blobs \cup {o} /\ v[l].child = worker[l].child
        /\ \A k \in Worker : k # l => v[k] = worker[k]
    BY DEF MeowType
  <2>3. worker' = [v EXCEPT ![l].child = IF h.op = "Execute" THEN h.of ELSE @]
    BY <1>o, <2>1 DEF h
  <2> HIDE DEF v
  <2>4. worker' = [v EXCEPT ![l].child = c]
    BY <1>c, <2>2, <2>3
  <2> QED
    BY <1>o, <2>2, <2>4
<1> HIDE DEF h, t
<1>1. MeowType'
  BY <1>f, <1>g, <1>w DEF MeowType
<1>2. Talks(l)'
  <2>1. lambda'[l].executing = t /\ lambda'[l].objects = lambda[l].objects /\ Greets(l)'
    BY <1>f, <1>t DEF Greets, t
  <2>2. Remembers(l)'
    <3>1. /\ lambda[l].objects \subseteq
                worker[l].blobs \cup { down[l][i].of : i \in DOMAIN down[l] }
          /\ lambda[l].objects = Deps[t]
      BY <1>a, <1>t DEF Remembers, t
    <3>2. lambda[l].objects \subseteq
             worker'[l].blobs \cup { Tail(down[l])[i].of : i \in DOMAIN Tail(down[l]) }
      BY <1>p, <1>w, <3>1
    <3>3. lambda'[l].objects \subseteq
             worker'[l].blobs \cup { down'[l][i].of : i \in DOMAIN down'[l] }
      BY <1>g, <2>1, <3>2
    <3> QED
      BY <2>1, <3>1, <3>3 DEF Remembers
  <2>3. CASE Len(down[l]) = 1
    <3>1. Works(l)'
      BY <1>c, <1>g, <1>p, <1>t, <1>w, <2>1, <2>3 DEF Works
    <3> QED
      BY <2>2, <3>1 DEF Talks
  <2>4. CASE Len(down[l]) # 1
    <3>1. Asked(l)'
      BY <1>c, <1>g, <1>p, <1>t, <1>w, <2>1, <2>4 DEF Asked
    <3> QED
      BY <2>2, <3>1 DEF Talks
  <2> QED
    BY <2>3, <2>4
<1>3. Conversation'
  <2>1. \A k \in Worker : k # l => /\ lambda'[k] = lambda[k] /\ worker'[k] = worker[k]
                                   /\ down'[k] = down[k] /\ up'[k] = up[k]
    BY <1>f, <1>g, <1>w
  <2> QED
    BY <1>2, <1>a, <1>f, <2>1, OneTalks
<1>4. OnePlace' /\ JobsConserved'
  BY <1>f, JobsStay
<1> QED
  BY <1>1, <1>3, <1>4, <1>f

LEMMA ChildExitsGood ==
    ASSUME Good, NEW l \in Worker, NEW ok \in BOOLEAN, ChildExits(l, ok) PROVE Good'
<1> USE DEF Good
<1>a. Talks(l) /\ l <= current_id /\ Works(l) /\ Remembers(l)
  <2>1. worker[l].child # NoThunk
    BY DEF ChildExits
  <2>2. Talks(l) /\ l <= current_id
    BY <2>1, SpeakerTalks DEF Absent, Idle
  <2> QED
    BY <2>1, <2>2 DEF Talks, Idle, Asked, Answered
<1> DEFINE t == worker[l].child
<1>t. t \in Thunk /\ t = lambda[l].executing /\ down[l] = <<>> /\ Greets(l)
  BY <1>a DEF Works
<1>m. PICK m \in Msg : /\ m = IF ok THEN Executed(t) ELSE ExecutionFailed(t)
                       /\ m \in {Executed(t), ExecutionFailed(t)}
  BY <1>t, MessageTypes
<1>f. /\ worker' = [worker EXCEPT ![l] = [blobs |-> {t} \cup Deps[t], child |-> NoThunk]]
      /\ up' = [up EXCEPT ![l] = Append(@, m)]
      /\ UNCHANGED <<forced, done, thunks_queue, running_jobs, launches, current_id, lambda,
                     free_lambdas, down, thrown>>
  BY <1>m DEF ChildExits
<1> HIDE DEF t
<1>u. /\ up' \in [Worker -> Seq(Msg)] /\ up'[l] = Append(up[l], m)
      /\ \A k \in Worker : k # l => up'[k] = up[k]
  <2>1. up \in [Worker -> Seq(Msg)] /\ Append(up[l], m) \in Seq(Msg)
    BY DEF MeowType
  <2> QED
    BY <1>f, <2>1
<1>w. /\ worker' \in [Worker -> [blobs : SUBSET Object, child : Thunk \cup {NoThunk}]]
      /\ worker'[l].blobs = {t} \cup Deps[t] /\ worker'[l].child = NoThunk
      /\ \A k \in Worker : k # l => worker'[k] = worker[k]
  <2>1. {t} \cup Deps[t] \in SUBSET Object
    BY <1>t DEF Object
  <2> QED
    BY <1>f, <2>1 DEF MeowType
<1>1. MeowType'
  BY <1>f, <1>u, <1>w DEF MeowType
<1>2. Talks(l)'
  <2>1. up'[l] = <<m>> \/ up'[l] = <<Hey, m>>
    <3>1. CASE up[l] = <<>>
      BY <1>u, <3>1
    <3>2. CASE up[l] = <<Hey>>
      <4>1. Append(<<Hey>>, m) = <<Hey, m>>
        BY MessageTypes, AppendPair
      <4> QED
        BY <1>u, <3>2, <4>1
    <3> QED
      BY <1>t, <3>1, <3>2 DEF Greets
  <2>2. Answered(l)'
    BY <1>f, <1>m, <1>t, <1>w, <2>1 DEF Answered
  <2>3. Remembers(l)'
    BY <1>a, <1>f, <1>t, <1>w DEF Remembers
  <2> QED
    BY <2>2, <2>3 DEF Talks
<1>3. Conversation'
  <2>1. \A k \in Worker : k # l => /\ lambda'[k] = lambda[k] /\ worker'[k] = worker[k]
                                   /\ down'[k] = down[k] /\ up'[k] = up[k]
    BY <1>f, <1>u, <1>w
  <2> QED
    BY <1>2, <1>a, <1>f, <2>1, OneTalks
<1>4. OnePlace' /\ JobsConserved'
  BY <1>f, JobsStay
<1> QED
  BY <1>1, <1>3, <1>4, <1>f

(***************************************************************************)
(* The theorems                                                            *)
(***************************************************************************)

LEMMA MeowInvInit == Init => MeowInv
<1> SUFFICES ASSUME Init PROVE Good
  BY DEF Good, MeowInv
<1>0. MaxWorkers \in Nat
  BY MeowAssumption
<1>1. Busy = {} /\ Waiting = {}
  BY DEF Init, Busy, Waiting
<1>2. MeowType
  BY <1>0, FS_EmptySet DEF Init, MeowType
<1>3. Conversation
  <2> SUFFICES ASSUME NEW l \in Worker PROVE Absent(l) /\ ~ (l <= current_id)
    BY DEF Conversation
  <2>1. l \in Nat \ {0}
    BY <1>0 DEF Worker
  <2> QED
    BY <2>1 DEF Init, Absent, Idle, Greets
<1>4. OnePlace
  BY <1>1 DEF Init, OnePlace
<1>5. JobsConserved
  BY <1>1, FS_EmptySet DEF Init, JobsConserved
<1> QED
  BY <1>2, <1>3, <1>4, <1>5 DEF Good, Init

LEMMA MeowInvNext == MeowInv /\ [Next]_vars => MeowInv'
<1> SUFFICES ASSUME MeowInv, [Next]_vars, thrown' = "none" PROVE Good'
  BY DEF Good, MeowInv
<1>1. CASE UNCHANGED vars
  <2>1. Good /\ UNCHANGED <<forced, done, thunks_queue, running_jobs, launches, current_id, lambda,
                            free_lambdas, down, up, worker, thrown>>
    BY <1>1 DEF vars, Good, MeowInv
  <2>2. MeowType'
    BY <2>1 DEF Good, MeowType
  <2>3. Conversation'
    BY <2>1, TalkStays DEF Good, Conversation
  <2>4. OnePlace' /\ JobsConserved'
    BY <2>1, JobsStay DEF Good
  <2> QED
    BY <2>1, <2>2, <2>3, <2>4 DEF Good
<1>2. CASE ~ UNCHANGED vars
  <2>1. thrown = "none"
    BY <1>2 DEF Next, force_thunk, InvocationFails, Incoming, Receive, LambdaDies,
                WorkerReceives, ChildExits
  <2>2. Good
    BY <2>1 DEF Good, MeowInv
  <2>3. ASSUME NEW l \in Worker, LambdaDies(l) PROVE FALSE
    BY <2>3 DEF LambdaDies
  <2> QED
    BY <1>2, <2>2, <2>3, ForceGood, InvocationGood, IncomingGood, ReceiveGood, WorkerReceivesGood,
       ChildExitsGood DEF Next
<1> QED
  BY <1>1, <1>2

LEMMA MeowInvAlways == Spec => []MeowInv
BY MeowInvInit, MeowInvNext, PTL DEF Spec

\* Whatever number of workers connect and whichever of their messages are on their
\* way, no job is lost, doubled or miscounted (engine_meow.cc:98-101, 134-139,
\* 167-170, 255-267).
THEOREM MeowConservesJobs == Spec => []JobsConserved
<1>1. MeowInv => JobsConserved
  BY DEF MeowInv, JobsConserved
<1> QED
  BY <1>1, MeowInvAlways, PTL

\* The coordinator sends what it has to: whatever it leaves out is still with the
\* worker, or on its way ahead of the thunk (engine_meow.cc:151-162).
THEOREM MeowRemembersRightly == Spec => []DepsInPlace
<1>1. MeowInv => DepsInPlace
  <2> SUFFICES ASSUME MeowInv, thrown = "none", NEW l \in 1 .. current_id
               PROVE  lambda[l].objects \subseteq
                         worker[l].blobs \cup { down[l][i].of : i \in DOMAIN down[l] }
    BY DEF DepsInPlace
  <2>1. l \in Worker /\ l <= current_id
    BY WorkerNumbers DEF MeowInv
  <2> QED
    BY <2>1 DEF MeowInv, Conversation, Talks, Remembers
<1> QED
  BY <1>1, MeowInvAlways, PTL

\* Whichever objects the coordinator has on its disk, it ends with an exception only
\* if a worker is gone, or has answered its thunk with a failure, or if a thunk that
\* no lambda executes yet reads an object that is not on that disk: it never meets
\* another message that it does not expect (engine_meow.cc:63-121, 151-160).
THEOREM MeowEndsOnlyOnFailure == Spec => []EndsOnlyOnFailure
<1>1. Init => EndsOnlyOnFailure
  BY DEF Init, EndsOnlyOnFailure
<1>2. MeowInv /\ EndsOnlyOnFailure /\ [Next]_vars => EndsOnlyOnFailure'
  <2> SUFFICES ASSUME MeowInv, EndsOnlyOnFailure, [Next]_vars PROVE EndsOnlyOnFailure'
    OBVIOUS
  <2>1. CASE UNCHANGED vars
    BY <2>1 DEF vars, EndsOnlyOnFailure, Busy
  <2>2. CASE ~ UNCHANGED vars
    <3>1. Good
      BY <2>2 DEF Next, force_thunk, InvocationFails, Incoming, Receive, LambdaDies,
                  WorkerReceives, ChildExits, Good, MeowInv
    <3>2. ASSUME NEW t \in forced' \ done', NEW l, NEW free, prepare_lambda(l, t, free),
                 disk' = disk, \A k \in Busy' : lambda[k].executing # t, thrown' # "none"
          PROVE  EndsOnlyOnFailure'
      <4>1. thrown' = "read_file" /\ lambda' = lambda /\ ~ (Deps[t] \subseteq disk)
        BY <3>1, <3>2 DEF prepare_lambda, Good
      <4> QED
        BY <3>2, <4>1 DEF EndsOnlyOnFailure
    <3>3. ASSUME NEW t \in Thunk, force_thunk(t), thrown' # "none" PROVE EndsOnlyOnFailure'
      <4>1. /\ t \notin forced /\ forced' = forced \cup {t} /\ done' = done
            /\ current_id' = current_id /\ disk' = disk
        BY <3>3 DEF force_thunk
      <4>2. PICK l : prepare_lambda(l, t, free_lambdas)
        BY <3>1, <3>3 DEF force_thunk, Good
      <4>3. lambda' = lambda
        BY <3>1, <3>3, <4>2 DEF prepare_lambda, Good
      <4>4. Busy' = Busy
        BY <4>1, <4>3 DEF Busy
      <4>5. \A k \in Busy' : lambda[k].executing # t
        BY <3>1, <4>1, <4>4 DEF Good, JobsConserved
      <4>6. t \in forced' \ done'
        BY <3>1, <4>1 DEF Good, MeowType
      <4> QED
        BY <3>2, <3>3, <4>1, <4>2, <4>5, <4>6
    <3>4. ASSUME Incoming, thrown' # "none" PROVE EndsOnlyOnFailure'
      <4> DEFINE t == Head(thunks_queue)
      <4>1. /\ thunks_queue # <<>> /\ forced' = forced /\ done' = done /\ disk' = disk
            /\ current_id < MaxWorkers /\ current_id' = current_id + 1
        BY <3>1, <3>4 DEF Incoming, Good
      <4>2. prepare_lambda(current_id', t, free_lambdas \cup {current_id'})
        BY <3>4, <4>1 DEF Incoming
      <4>3. lambda' = lambda
        BY <3>1, <3>4, <4>2 DEF prepare_lambda, Good
      <4>4. t \in Waiting
        <5>1. 1 \in DOMAIN thunks_queue /\ t = thunks_queue[1]
          BY <3>1, <4>1 DEF Good, MeowType
        <5> QED
          BY <5>1 DEF Waiting
      <4> HIDE DEF t
      <4>5. Busy' \subseteq Busy
        <5>1. Busy' = { k \in 1 .. current_id' : lambda[k].executing # NoThunk }
          BY <4>3 DEF Busy
        <5>2. current_id \in Nat /\ current_id' \in Worker /\ ~ (current_id' <= current_id)
          BY <3>1, <4>1, WorkerNumbers DEF Good, Worker
        <5>3. lambda[current_id'].executing = NoThunk
          BY <3>1, <5>2 DEF Good, Conversation, Absent, Idle
        <5> QED
          BY <4>1, <5>1, <5>2, <5>3 DEF Busy
      <4>6. \A k \in Busy' : lambda[k].executing # t
        BY <3>1, <4>4, <4>5 DEF Good, OnePlace
      <4>7. t \in forced' \ done'
        BY <3>1, <4>1, <4>4 DEF Good, JobsConserved
      <4> QED
        BY <3>2, <3>4, <4>1, <4>2, <4>6, <4>7
    <3>5. ASSUME NEW l \in Worker, Receive(l), thrown' # "none" PROVE EndsOnlyOnFailure'
      <4>1. Talks(l) /\ l <= current_id /\ up[l] # <<>>
        <5>1. up[l] # <<>>
          BY <3>5 DEF Receive
        <5> QED
          BY <3>1, <5>1, SpeakerTalks DEF Absent
      <4>2. /\ Head(up[l]).op \notin {"Hey", "Executed"}
            /\ thrown' = "unexpected opcode" /\ lambda' = lambda
        BY <3>1, <3>5 DEF Receive, Good
      <4>3. Head(up[l]) # Hey
        BY <4>2, Operations
      <4>4. ~ Greets(l)
        BY <4>1, <4>3 DEF Greets
      <4>5. Answered(l)
        BY <4>1, <4>4 DEF Talks, Idle, Asked, Works
      <4>6. PICK m : up[l] = <<m>> \/ up[l] = <<Hey, m>>
        BY <4>5 DEF Answered
      <4>7. up[l] = <<m>>
        BY <4>3, <4>6
      <4>8. Tail(up[l]) = <<>>
        BY <4>7
      <4>9. up'[l] = <<>> /\ worker' = worker /\ down' = down /\ current_id' = current_id
        BY <3>1, <3>5, <4>8 DEF Receive, Good, MeowType
      <4>10. l \in Busy'
        BY <3>1, <4>1, <4>2, <4>5, <4>9, WorkerNumbers, MeowAssumption DEF Busy, Answered, Good
      <4> QED
        BY <4>2, <4>5, <4>9, <4>10 DEF EndsOnlyOnFailure, Answered
    <3>6. ASSUME NEW l \in Worker, LambdaDies(l) PROVE EndsOnlyOnFailure'
      BY <3>6 DEF LambdaDies, EndsOnlyOnFailure
    <3>7. ASSUME NEW l \in Worker, WorkerReceives(l) \/ \E ok \in BOOLEAN : ChildExits(l, ok)
          PROVE  thrown' = "none"
      BY <3>1, <3>7 DEF WorkerReceives, ChildExits, Good
    <3>8. InvocationFails => thrown' = "none"
      BY <3>1 DEF InvocationFails, Good
    <3>9. thrown' = "none" => EndsOnlyOnFailure'
      BY DEF EndsOnlyOnFailure
    <3> QED
      BY <2>2, <3>3, <3>4, <3>5, <3>6, <3>7, <3>8, <3>9 DEF Next
  <2> QED
    BY <2>1, <2>2
<1> QED
  BY <1>1, <1>2, MeowInvAlways, PTL DEF Spec
=============================================================================
