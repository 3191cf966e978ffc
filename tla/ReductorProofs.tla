--------------------------- MODULE ReductorProofs ---------------------------
(***************************************************************************)
(* Proofs about the coordinator: its type, the engines' capacity, and that *)
(* whatever it duplicates, retries or takes from the cache, it forgets no  *)
(* job and its graph keeps what Reduction promises. What the graph's       *)
(* operations preserve is proved in ReductionProofs.                       *)
(***************************************************************************)
EXTENDS ReductorRefinement, FiniteSetTheorems, TLAPS

Forcing == INSTANCE ReductionProofs
             WITH unloaded <- Unloaded, graph <- dep_graph, pending <- PendingThunks,
                  answer <- Answer

(***************************************************************************)
(* Sequences                                                               *)
(***************************************************************************)

\* A sequence over some set is a sequence over its own elements.
LEMMA SeqOfOwn ==
  ASSUME NEW S, NEW s \in Seq(S)
  PROVE  s \in Seq(SeqRange(s))
  BY DEF SeqRange

\* Appending one sequence to another gives a sequence.
LEMMA ConcatOwn ==
  ASSUME NEW s, s \in Seq(SeqRange(s)), NEW S, NEW u \in Seq(S)
  PROVE  s \o u \in Seq(SeqRange(s \o u))
<1> DEFINE W == SeqRange(s) \cup S
<1>1. s \in Seq(W) /\ u \in Seq(W)
  OBVIOUS
<1>2. s \o u \in Seq(W)
  BY <1>1
<1> QED
  BY <1>2, SeqOfOwn

\* An iteration order of a finite set is a sequence of its elements.
LEMMA OrdersAreSeqs ==
  ASSUME NEW S, IsFiniteSet(S), NEW o \in Orders(S)
  PROVE  o \in Seq(S)
<1>1. Cardinality(S) \in Nat
  BY FS_CardinalityType
<1> QED
  BY <1>1 DEF Orders

(***************************************************************************)
(* The operators of the instance are those of the graph: Forcing replaces  *)
(* variables only, so each of its constant definitions unfolds to the same *)
(* expression. The lemmas follow the definitions up to force_thunk.        *)
(***************************************************************************)

\* The thunks that a thunk is built from.
LEMMA SameSubthunks == Forcing!Subthunks = Subthunks
  BY Zenon DEF Forcing!Subthunks, Subthunks, Forcing!Deps, Deps, Forcing!Objects, Objects

\* What a thunk waits for.
LEMMA SameDeps ==
  ASSUME NEW t
  PROVE  Forcing!Deps(t) = Deps(t)
  BY Zenon DEF Forcing!Deps, Deps, Forcing!Objects, Objects

\* Whether a thunk waits for nothing.
LEMMA SameCanBeExecuted ==
  ASSUME NEW t
  PROVE  Forcing!CanBeExecuted(t) = CanBeExecuted(t)
  BY Zenon DEF Forcing!CanBeExecuted, CanBeExecuted, Forcing!Deps, Deps, Forcing!Objects,
         Objects

\* The name a thunk is entered under.
LEMMA SameAddedHash ==
  ASSUME NEW g, NEW h
  PROVE  Forcing!AddedHash(g, h) = AddedHash(g, h)
  BY Zenon DEF Forcing!AddedHash, AddedHash, Forcing!updated_hash, updated_hash

\* The values a thunk needs.
LEMMA SameValueDeps ==
  ASSUME NEW t
  PROVE  Forcing!ValueDeps(t) = ValueDeps(t)
  BY Zenon DEF Forcing!ValueDeps, ValueDeps, Forcing!Objects, Objects

\* The thunks that add_thunk reads (graph.cc:16-68).
LEMMA SameLoadedThunks ==
  ASSUME NEW g, NEW h
  PROVE  Forcing!LoadedThunks(g, h) = LoadedThunks(g, h)
  BY SameSubthunks, Zenon DEF Forcing!LoadedThunks, LoadedThunks, Forcing!AddedHash,
         AddedHash, Forcing!updated_hash, updated_hash, Forcing!LeastClosed, LeastClosed,
         Forcing!Deps, Deps, Forcing!Objects, Objects

\* What they are entered with.
LEMMA SameLoadedContent ==
  ASSUME NEW g, NEW t
  PROVE  Forcing!LoadedContent(g, t) = LoadedContent(g, t)
  BY Zenon DEF Forcing!LoadedContent, LoadedContent, Forcing!AddedHash, AddedHash,
         Forcing!updated_hash, updated_hash, Forcing!Deps, Deps, Forcing!Objects,
         Objects, Forcing!UpdateData, UpdateData, Forcing!UpdateItem, UpdateItem,
         Forcing!Item, Item, Forcing!OutputsAs, OutputsAs, Forcing!ThunkOutput,
         ThunkOutput

\* add_thunk.
LEMMA SameAddThunk ==
  ASSUME NEW g, NEW h
  PROVE  Forcing!add_thunk(g, h) = add_thunk(g, h)
<1> DEFINE LA == Forcing!LoadedThunks(g, h)
           LB == LoadedThunks(g, h)
           RA(t) == { Forcing!AddedHash(g, d) : d \in Forcing!Deps(t) }
           RB(t) == { AddedHash(g, d) : d \in Deps(t) }
           tA == [x \in DOMAIN g.thunks \cup LA |->
                        IF x \in LA THEN Forcing!LoadedContent(g, x) ELSE g.thunks[x]]
           tB == [x \in DOMAIN g.thunks \cup LB |->
                        IF x \in LB THEN LoadedContent(g, x) ELSE g.thunks[x]]
           rA == [x \in DOMAIN g.referencing_thunks \cup (LA \cup UNION { RA(t) : t \in LA }) |->
                    (IF x \in DOMAIN g.referencing_thunks THEN g.referencing_thunks[x] ELSE {})
                       \cup { t \in LA : x \in RA(t) }]
           rB == [x \in DOMAIN g.referencing_thunks \cup (LB \cup UNION { RB(t) : t \in LB }) |->
                    (IF x \in DOMAIN g.referencing_thunks THEN g.referencing_thunks[x] ELSE {})
                       \cup { t \in LB : x \in RB(t) }]
           vA == g.value_dependencies \cup UNION { Forcing!ValueDeps(t) : t \in LA }
           vB == g.value_dependencies \cup UNION { ValueDeps(t) : t \in LB }
<1>1. LA = LB
  BY SameLoadedThunks
<1>2. \A t : RA(t) = RB(t)
  BY SameAddedHash, SameDeps
<1>3. tA = tB
  BY <1>1, SameLoadedContent
<1>4. vA = vB
  BY <1>1, SameValueDeps
<1>5. rA = rB
  <2> HIDE DEF LA, LB, RA, RB
  <2>1. UNION { RA(t) : t \in LA } = UNION { RB(t) : t \in LB }
    BY <1>1, <1>2
  <2>2. \A x : { t \in LA : x \in RA(t) } = { t \in LB : x \in RB(t) }
    BY <1>1, <1>2
  <2> QED
    BY <1>1, <2>1, <2>2
<1>6. Forcing!add_thunk(g, h) =
         [g EXCEPT !.thunks = tA, !.referencing_thunks = rA, !.value_dependencies = vA]
  BY Zenon DEF Forcing!add_thunk
<1>7. add_thunk(g, h) =
         [g EXCEPT !.thunks = tB, !.referencing_thunks = rB, !.value_dependencies = vB]
  BY Zenon DEF add_thunk
<1> HIDE DEF tA, tB, rA, rB, vA, vB
<1> QED
  BY <1>3, <1>4, <1>5, <1>6, <1>7

\* The order in which renamed thunks are entered.
LEMMA SameLastMoves ==
  ASSUME NEW a
  PROVE  Forcing!LastMoves(a) = LastMoves(a)
  BY Zenon DEF Forcing!LastMoves, LastMoves, Forcing!NewHash, NewHash

\* The exceptions of update_hash (graph.cc:89-90).
LEMMA SameUpdateHashThrows ==
  ASSUME NEW g, NEW a
  PROVE  Forcing!UpdateHashThrows(g, a) = UpdateHashThrows(g, a)
  BY Zenon DEF Forcing!UpdateHashThrows, UpdateHashThrows

\* update_hash (graph.cc:70-100).
LEMMA SameUpdateHash ==
  ASSUME NEW g, NEW a, NEW b
  PROVE  Forcing!update_hash(g, a, b) = update_hash(g, a, b)
  BY Zenon DEF Forcing!update_hash, update_hash, Forcing!NewHash, NewHash,
         Forcing!original_hash, original_hash, Forcing!UpdateData, UpdateData,
         Forcing!UpdateItem, UpdateItem, Forcing!Item, Item

\* The exception of order_one_dependencies (graph.cc:161).
LEMMA SameOrderOneThrows ==
  ASSUME NEW g, NEW h
  PROVE  Forcing!OrderOneThrows(g, h) = OrderOneThrows(g, h)
  BY Zenon DEF Forcing!OrderOneThrows, OrderOneThrows, Forcing!Below, Below,
         Forcing!LeastClosed, LeastClosed, Forcing!Deps, Deps, Forcing!Objects, Objects

\* The returned thunks are added (graph.cc:105-113).
LEMMA SameAddReturned ==
  ASSUME NEW g, NEW a
  PROVE  Forcing!AddReturned(g, a) = AddReturned(g, a)
  BY SameAddThunk DEF Forcing!AddReturned, AddReturned

\* Under the names they are entered by.
LEMMA SameActualOutputs ==
  ASSUME NEW g, NEW a
  PROVE  Forcing!ActualOutputs(g, a) = ActualOutputs(g, a)
  BY Zenon DEF Forcing!ActualOutputs, ActualOutputs, Forcing!AddedHash, AddedHash,
         Forcing!updated_hash, updated_hash

\* The forced thunk is replaced by its outputs.
LEMMA SameReplaceOld ==
  ASSUME NEW g, NEW a, NEW b
  PROVE  Forcing!ReplaceOld(g, a, b) = ReplaceOld(g, a, b)
  BY Zenon DEF Forcing!ReplaceOld, ReplaceOld, Forcing!update_hash, update_hash,
         Forcing!NewHash, NewHash, Forcing!original_hash, original_hash,
         Forcing!UpdateData, UpdateData, Forcing!UpdateItem, UpdateItem, Forcing!Item,
         Item

\* The referrers that become ready (graph.cc:121-133).
LEMMA SameNowExecutable ==
  ASSUME NEW g, NEW a
  PROVE  Forcing!NowExecutable(g, a) = NowExecutable(g, a)
  BY Zenon DEF Forcing!NowExecutable, NowExecutable, Forcing!CanBeExecuted, CanBeExecuted,
         Forcing!Deps, Deps, Forcing!Objects, Objects, Forcing!OutputsAs, OutputsAs,
         Forcing!ThunkOutput, ThunkOutput

\* They are entered under their new hashes.
LEMMA SameEnterReady ==
  ASSUME NEW g, NEW a
  PROVE  Forcing!EnterReady(g, a) = EnterReady(g, a)
  BY Zenon DEF Forcing!EnterReady, EnterReady, Forcing!NewHash, NewHash

\* They are renamed, one after the other.
LEMMA SameRenameReady ==
  ASSUME NEW g, NEW a
  PROVE  Forcing!RenameReady(g, a) = RenameReady(g, a)
  BY SameUpdateHash, SameEnterReady, SameLastMoves DEF Forcing!RenameReady, RenameReady

\* The exceptions on the way.
LEMMA SameReferrersThrow ==
  ASSUME NEW g, NEW a, NEW b
  PROVE  Forcing!ReferrersThrow(g, a, b) = ReferrersThrow(g, a, b)
  BY SameUpdateHashThrows, SameRenameReady, SameOrderOneThrows DEF Forcing!ReferrersThrow,
         ReferrersThrow

\* force_thunk throws in the instance just if it throws here (graph.cc:102-154).
LEMMA SameForceThrows ==
  ASSUME NEW g, NEW a, NEW b
  PROVE  Forcing!ForceThrows(g, a, b) = ForceThrows(g, a, b)
  BY SameAddReturned, SameActualOutputs, SameUpdateHashThrows, SameReplaceOld,
         SameNowExecutable, SameReferrersThrow DEF Forcing!ForceThrows, ForceThrows

\* The order-one dependencies.
LEMMA SameOrderOne ==
  ASSUME NEW g, NEW h
  PROVE  Forcing!order_one_dependencies(g, h) = order_one_dependencies(g, h)
  BY Zenon DEF Forcing!order_one_dependencies, order_one_dependencies, Forcing!Below, Below,
         Forcing!LeastClosed, LeastClosed, Forcing!CanBeExecuted, CanBeExecuted,
         Forcing!Deps, Deps, Forcing!Objects, Objects

\* What the referrers make of the graph (graph.cc:134-154).
LEMMA SameForceReferrers ==
  ASSUME NEW g, NEW a, NEW b
  PROVE  Forcing!ForceReferrers(g, a, b) = ForceReferrers(g, a, b)
  BY SameRenameReady, SameOrderOne DEF Forcing!ForceReferrers, ForceReferrers,
         Forcing!NewHash, NewHash

\* force_thunk returns in the instance what it returns here.
LEMMA SameForceThunk ==
  ASSUME NEW g, NEW a, NEW b
  PROVE  Forcing!force_thunk(g, a, b) = force_thunk(g, a, b)
  BY SameAddReturned, SameActualOutputs, SameReplaceOld, SameNowExecutable,
         SameForceReferrers DEF Forcing!force_thunk, force_thunk

(***************************************************************************)
(* So are those of the abstract specification.                             *)
(***************************************************************************)

\* add_thunk.
LEMMA AbstractAddThunk ==
  ASSUME NEW g, NEW h
  PROVE  Abstract!add_thunk(g, h) = add_thunk(g, h)
<1>1. Abstract!add_thunk(g, h) = Forcing!add_thunk(g, h)
  BY Zenon DEF Abstract!add_thunk, Forcing!add_thunk, Abstract!LoadedThunks,
         Forcing!LoadedThunks, Abstract!LeastClosed, Forcing!LeastClosed,
         Abstract!AddedHash, Forcing!AddedHash, Abstract!updated_hash,
         Forcing!updated_hash, Abstract!Deps, Forcing!Deps, Abstract!Objects,
         Forcing!Objects, Abstract!LoadedContent, Forcing!LoadedContent,
         Abstract!UpdateData, Forcing!UpdateData, Abstract!UpdateItem,
         Forcing!UpdateItem, Abstract!Item, Forcing!Item, Abstract!OutputsAs,
         Forcing!OutputsAs, Abstract!ThunkOutput, Forcing!ThunkOutput,
         Abstract!ValueDeps, Forcing!ValueDeps, Abstract!Subthunks, Forcing!Subthunks
<1> QED
  BY <1>1, SameAddThunk

\* The order in which renamed thunks are entered.
LEMMA AbstractLastMoves ==
  ASSUME NEW a
  PROVE  Abstract!LastMoves(a) = LastMoves(a)
  BY Zenon DEF Abstract!LastMoves, LastMoves, Abstract!NewHash, NewHash

\* The exceptions of update_hash (graph.cc:89-90).
LEMMA AbstractUpdateHashThrows ==
  ASSUME NEW g, NEW a
  PROVE  Abstract!UpdateHashThrows(g, a) = UpdateHashThrows(g, a)
  BY Zenon DEF Abstract!UpdateHashThrows, UpdateHashThrows

\* update_hash (graph.cc:70-100).
LEMMA AbstractUpdateHash ==
  ASSUME NEW g, NEW a, NEW b
  PROVE  Abstract!update_hash(g, a, b) = update_hash(g, a, b)
  BY Zenon DEF Abstract!update_hash, update_hash, Abstract!NewHash, NewHash,
         Abstract!original_hash, original_hash, Abstract!UpdateData, UpdateData,
         Abstract!UpdateItem, UpdateItem, Abstract!Item, Item

\* The exception of order_one_dependencies (graph.cc:161).
LEMMA AbstractOrderOneThrows ==
  ASSUME NEW g, NEW h
  PROVE  Abstract!OrderOneThrows(g, h) = OrderOneThrows(g, h)
  BY Zenon DEF Abstract!OrderOneThrows, OrderOneThrows, Abstract!Below, Below,
         Abstract!LeastClosed, LeastClosed, Abstract!Deps, Deps, Abstract!Objects, Objects

\* The returned thunks are added (graph.cc:105-113).
LEMMA AbstractAddReturned ==
  ASSUME NEW g, NEW a
  PROVE  Abstract!AddReturned(g, a) = AddReturned(g, a)
  BY AbstractAddThunk DEF Abstract!AddReturned, AddReturned

\* Under the names they are entered by.
LEMMA AbstractActualOutputs ==
  ASSUME NEW g, NEW a
  PROVE  Abstract!ActualOutputs(g, a) = ActualOutputs(g, a)
  BY Zenon DEF Abstract!ActualOutputs, ActualOutputs, Abstract!AddedHash, AddedHash,
         Abstract!updated_hash, updated_hash

\* The forced thunk is replaced by its outputs.
LEMMA AbstractReplaceOld ==
  ASSUME NEW g, NEW a, NEW b
  PROVE  Abstract!ReplaceOld(g, a, b) = ReplaceOld(g, a, b)
  BY Zenon DEF Abstract!ReplaceOld, ReplaceOld, Abstract!update_hash, update_hash,
         Abstract!NewHash, NewHash, Abstract!original_hash, original_hash,
         Abstract!UpdateData, UpdateData, Abstract!UpdateItem, UpdateItem, Abstract!Item,
         Item

\* The referrers that become ready (graph.cc:121-133).
LEMMA AbstractNowExecutable ==
  ASSUME NEW g, NEW a
  PROVE  Abstract!NowExecutable(g, a) = NowExecutable(g, a)
  BY Zenon DEF Abstract!NowExecutable, NowExecutable, Abstract!CanBeExecuted, CanBeExecuted,
         Abstract!Deps, Deps, Abstract!Objects, Objects, Abstract!OutputsAs, OutputsAs,
         Abstract!ThunkOutput, ThunkOutput

\* They are entered under their new hashes.
LEMMA AbstractEnterReady ==
  ASSUME NEW g, NEW a
  PROVE  Abstract!EnterReady(g, a) = EnterReady(g, a)
  BY Zenon DEF Abstract!EnterReady, EnterReady, Abstract!NewHash, NewHash

\* They are renamed, one after the other.
LEMMA AbstractRenameReady ==
  ASSUME NEW g, NEW a
  PROVE  Abstract!RenameReady(g, a) = RenameReady(g, a)
  BY AbstractUpdateHash, AbstractEnterReady, AbstractLastMoves DEF Abstract!RenameReady, RenameReady

\* The exceptions on the way.
LEMMA AbstractReferrersThrow ==
  ASSUME NEW g, NEW a, NEW b
  PROVE  Abstract!ReferrersThrow(g, a, b) = ReferrersThrow(g, a, b)
  BY AbstractUpdateHashThrows, AbstractRenameReady, AbstractOrderOneThrows
     DEF Abstract!ReferrersThrow,
         ReferrersThrow

\* force_thunk throws in the instance just if it throws here (graph.cc:102-154).
LEMMA AbstractForceThrows ==
  ASSUME NEW g, NEW a, NEW b
  PROVE  Abstract!ForceThrows(g, a, b) = ForceThrows(g, a, b)
  BY AbstractAddReturned, AbstractActualOutputs, AbstractUpdateHashThrows, AbstractReplaceOld,
         AbstractNowExecutable, AbstractReferrersThrow DEF Abstract!ForceThrows, ForceThrows

\* The order-one dependencies.
LEMMA AbstractOrderOne ==
  ASSUME NEW g, NEW h
  PROVE  Abstract!order_one_dependencies(g, h) = order_one_dependencies(g, h)
  BY Zenon DEF Abstract!order_one_dependencies, order_one_dependencies, Abstract!Below, Below,
         Abstract!LeastClosed, LeastClosed, Abstract!CanBeExecuted, CanBeExecuted,
         Abstract!Deps, Deps, Abstract!Objects, Objects

\* What the referrers make of the graph (graph.cc:134-154).
LEMMA AbstractForceReferrers ==
  ASSUME NEW g, NEW a, NEW b
  PROVE  Abstract!ForceReferrers(g, a, b) = ForceReferrers(g, a, b)
  BY AbstractRenameReady, AbstractOrderOne DEF Abstract!ForceReferrers, ForceReferrers,
         Abstract!NewHash, NewHash

\* force_thunk returns in the instance what it returns here.
LEMMA AbstractForceThunk ==
  ASSUME NEW g, NEW a, NEW b
  PROVE  Abstract!force_thunk(g, a, b) = force_thunk(g, a, b)
  BY AbstractAddReturned, AbstractActualOutputs, AbstractReplaceOld, AbstractNowExecutable,
         AbstractForceReferrers DEF Abstract!force_thunk, force_thunk

(***************************************************************************)
(* What the coordinator takes from the proofs about the graph              *)
(***************************************************************************)

LEMMA SameIsFiniteSet ==
  ASSUME NEW S
  PROVE  Forcing!IsFiniteSet(S) <=> IsFiniteSet(S)
  BY Zenon DEF Forcing!IsFiniteSet, IsFiniteSet

\* What the instance assumes of its constants holds of the Reductor's.
LEMMA InstanceAssumptions ==
  /\ Forcing!IsFiniteSet(Thunk) /\ Thunk \cap Value = {} /\ Main \notin Tag
  /\ \A t \in Thunk : /\ Forcing!Deps(t) \subseteq Thunk
                      /\ t \in Forcing!Subthunks[t]
                      /\ \A d \in Forcing!Deps(t) : t \notin Forcing!Subthunks[d]
                      /\ \A s \in Forcing!Subthunks[t] :
                            Forcing!Deps(s) \subseteq Forcing!Subthunks[t]
  /\ Targets \subseteq Thunk /\ Unknown \notin Value
<1>1. Forcing!IsFiniteSet(Thunk) /\ Thunk \cap Value = {} /\ Main \notin Tag
  BY ObjectAssumption, SameIsFiniteSet
<1>2. \A t \in Thunk : /\ Forcing!Deps(t) \subseteq Thunk
                       /\ t \in Forcing!Subthunks[t]
                       /\ \A d \in Forcing!Deps(t) : t \notin Forcing!Subthunks[d]
                       /\ \A s \in Forcing!Subthunks[t] :
                             Forcing!Deps(s) \subseteq Forcing!Subthunks[t]
  BY SubthunksAssumption, SameDeps, SameSubthunks
<1>3. Targets \subseteq Thunk /\ Unknown \notin Value
  BY ReductorAssumption, UnknownAssumption DEF Targets, SeqRange
<1> QED
  BY <1>1, <1>2, <1>3

\* The part of a graph's type that its owner relies on.
IsGraph(g) == /\ DOMAIN g = DOMAIN EmptyGraph
              /\ IsFiniteSet(DOMAIN g.thunks)

Executables(g) == { h \in DOMAIN g.thunks : CanBeExecuted(g.thunks[h]) }

LEMMA SameIsGraph ==
  ASSUME NEW g
  PROVE  Forcing!IsGraph(g) <=> IsGraph(g)
  BY SameIsFiniteSet, Zenon DEF Forcing!IsGraph, IsGraph, Forcing!EmptyGraph, EmptyGraph

LEMMA SameExecutables ==
  ASSUME NEW g
  PROVE  Forcing!Executables(g) = Executables(g)
  BY SameCanBeExecuted DEF Forcing!Executables, Executables

\* Loading a thunk and forcing one keep the graph finite.
LEMMA AddThunkIsGraph ==
  ASSUME NEW g, IsGraph(g), NEW h
  PROVE  IsGraph(add_thunk(g, h))
  BY InstanceAssumptions, Forcing!AddThunkIsGraph, SameIsGraph, SameAddThunk

LEMMA ForceIsGraph ==
  ASSUME NEW g, IsGraph(g), NEW old, NEW outs, ~ ForceThrows(g, old, outs),
         NEW r \in force_thunk(g, old, outs)
  PROVE  IsGraph(r.graph) /\ IsFiniteSet(r.next)
<1>1. Forcing!IsGraph(g) /\ ~ Forcing!ForceThrows(g, old, outs)
      /\ r \in Forcing!force_thunk(g, old, outs)
  BY SameIsGraph, SameForceThrows, SameForceThunk
<1>2. Forcing!IsGraph(r.graph) /\ IsFiniteSet(r.next)
  BY <1>1, InstanceAssumptions, SameIsFiniteSet, Forcing!ForceIsGraph
<1> QED
  BY <1>2, SameIsGraph

\* In a sound graph a thunk waits for nothing just if its name says so.
LEMMA NamesTellReady ==
  ASSUME NEW g, Forcing!Sound(g)
  PROVE  /\ IsGraph(g)
         /\ \A x \in DOMAIN g.thunks : CanBeExecuted(g.thunks[x]) <=> CanBeExecuted(x)
  BY SameIsGraph, SameCanBeExecuted DEF Forcing!Sound, Forcing!Aligned

\* A thunk of the graph that can be executed yields a plain result.
LEMMA PlainThunk ==
  ASSUME Forcing!PlainPrograms, Forcing!KnownThunks, NEW h \in DOMAIN dep_graph.thunks,
         CanBeExecuted(h)
  PROVE  Forcing!ThunkShapes /\ Forcing!CanBeExecuted(h) /\ Forcing!PlainResult(h)
  BY SameCanBeExecuted DEF Forcing!PlainPrograms, Forcing!KnownThunks

\* A result: what is executable afterwards was so before or is handed out.
LEMMA ResultKeeps ==
  ASSUME Forcing!PlainPrograms, Forcing!KnownThunks, Forcing!Sound(dep_graph),
         NEW h \in DOMAIN dep_graph.thunks, CanBeExecuted(h),
         ~ ForceThrows(dep_graph, h, Eval(h)), NEW r \in force_thunk(dep_graph, h, Eval(h))
  PROVE  /\ Forcing!Sound(r.graph) /\ IsFiniteSet(r.next)
         /\ \A x \in r.next : CanBeExecuted(x)
         /\ Executables(r.graph) = r.next \cup (Executables(dep_graph) \ {h})
         /\ Forcing!OwnContent(dep_graph) => Forcing!OwnContent(r.graph)
<1>1. Forcing!ThunkShapes /\ Forcing!CanBeExecuted(h) /\ Forcing!PlainResult(h)
  BY PlainThunk
<1>2. ~ Forcing!ForceThrows(dep_graph, h, Eval(h))
      /\ r \in Forcing!force_thunk(dep_graph, h, Eval(h))
  BY SameForceThrows, SameForceThunk
<1>3. Forcing!Reduced(dep_graph, h, r)
  BY <1>1, <1>2, InstanceAssumptions, Forcing!ForceKeeps
<1> QED
  BY <1>3, SameCanBeExecuted, SameExecutables, SameIsFiniteSet DEF Forcing!Reduced

\* A target: what is executable afterwards was so before or is below it.
LEMMA TargetKeeps ==
  ASSUME Forcing!PlainPrograms, Forcing!Sound(dep_graph), dep_graph.updated_hashes = << >>,
         NEW t \in Thunk, NEW g1, g1 = add_thunk(dep_graph, t)
  PROVE  /\ Forcing!Sound(g1) /\ t \in DOMAIN g1.thunks /\ g1.updated_hashes = << >>
         /\ DOMAIN dep_graph.thunks \subseteq DOMAIN g1.thunks
         /\ Executables(g1) = Executables(dep_graph) \cup order_one_dependencies(g1, t)
         /\ IsFiniteSet(order_one_dependencies(g1, t))
         /\ \A x \in order_one_dependencies(g1, t) : CanBeExecuted(x)
         /\ t \in DOMAIN dep_graph.thunks => Executables(g1) = Executables(dep_graph)
         /\ Forcing!OwnContent(dep_graph) => Forcing!OwnContent(g1)
         /\ Forcing!Complete(dep_graph) => Forcing!Complete(g1)
<1>1. Forcing!ThunkShapes /\ g1 = Forcing!add_thunk(dep_graph, t)
  BY SameAddThunk DEF Forcing!PlainPrograms
<1>2. Forcing!Loaded(dep_graph, t, g1)
  BY <1>1, InstanceAssumptions, Forcing!LoadKeeps
<1> QED
  BY <1>2, SameCanBeExecuted, SameExecutables, SameOrderOne, SameIsFiniteSet
     DEF Forcing!Loaded

\* The graph the constructor starts with.
LEMMA StartIsSound ==
  Forcing!Sound(EmptyGraph) /\ Forcing!OwnContent(EmptyGraph) /\ Forcing!Complete(EmptyGraph)
<1>1. EmptyGraph = Forcing!EmptyGraph
  BY Zenon DEF EmptyGraph, Forcing!EmptyGraph
<1> QED
  BY <1>1, InstanceAssumptions, Forcing!EmptyIsSound

(***************************************************************************)
(* The inductive invariant                                                 *)
(***************************************************************************)

\* The variables a callback that ends in finalize_execution may change.
CoordinatorTyped ==
    /\ pc \in {"load", "dispatch", "poll", "serviced", "returned", "threw"}
    /\ IsGraph(dep_graph)
    /\ job_queue \in Seq(SeqRange(job_queue))
    /\ IsFiniteSet(running_jobs)

\* The variables that starting and answering jobs changes.
JobsTyped ==
    /\ job_count \in [Engines -> Nat]
    /\ DOMAIN jobs \subseteq JobId
    /\ \A i \in DOMAIN jobs : /\ DOMAIN jobs[i] = {"hash", "engine", "state"}
                              /\ jobs[i].engine \in Engines
                              /\ jobs[i].state \in {"open", "exited", "failed", "silent"}

\* The rest.
CountersTyped ==
    /\ sigchld \in BOOLEAN
    /\ todo \subseteq JobId
    /\ loaded \in 0 .. Len(TargetHashes)
    /\ pc = "load" => loaded < Len(TargetHashes)
    /\ faults \in Seq(FaultKinds) /\ Len(faults) <= MaxFaults

Inv == CoordinatorTyped /\ JobsTyped /\ CountersTyped /\ NeverOvercommitted

LEMMA InvParts == CoordinatorTyped /\ JobsTyped /\ CountersTyped <=> TypeOK
  BY DEF CoordinatorTyped, JobsTyped, CountersTyped, TypeOK, IsGraph

\* finalize_execution keeps the graph finite and the queue a sequence, whichever
\* of its three ways it takes (reductor.cc:180-199).
LEMMA FinalizeTyped ==
  ASSUME CoordinatorTyped, NEW h, NEW outs, NEW q, q \in Seq(SeqRange(q)),
         NEW at \in {"dispatch", "serviced"}, finalize_execution(h, outs, q, at)
  PROVE  CoordinatorTyped' /\ pc' # "load"
<1>1. IsFiniteSet(running_jobs')
  BY FS_RemoveElement DEF CoordinatorTyped, finalize_execution
<1>2. CASE h \notin DOMAIN dep_graph.thunks
  BY <1>1, <1>2 DEF CoordinatorTyped, finalize_execution
<1>3. CASE h \in DOMAIN dep_graph.thunks /\ ForceThrows(dep_graph, h, outs)
  BY <1>1, <1>3 DEF CoordinatorTyped, finalize_execution
<1>4. CASE h \in DOMAIN dep_graph.thunks /\ ~ ForceThrows(dep_graph, h, outs)
  <2>0. PICK r \in force_thunk(dep_graph, h, outs) : \E o1 \in Orders(r.next) :
          dep_graph' = r.graph /\ job_queue' = q \o o1
    BY <1>4 DEF finalize_execution
  <2>1. PICK o1 \in Orders(r.next) : dep_graph' = r.graph /\ job_queue' = q \o o1
    BY <2>0
  <2>2. IsGraph(r.graph) /\ IsFiniteSet(r.next)
    BY <1>4, ForceIsGraph DEF CoordinatorTyped
  <2>3. o1 \in Seq(r.next)
    BY <2>2, OrdersAreSeqs
  <2>4. q \o o1 \in Seq(SeqRange(q \o o1))
    BY <2>3, ConcatOwn
  <2>5. pc' = at
    BY <1>4 DEF finalize_execution
  <2>6. IsGraph(dep_graph')
    BY <2>1, <2>2
  <2>7. job_queue' \in Seq(SeqRange(job_queue'))
    BY <2>1, <2>4
  <2> QED
    BY <1>1, <2>5, <2>6, <2>7 DEF CoordinatorTyped, IsGraph, SeqRange
<1> QED
  BY <1>2, <1>3, <1>4

\* The counters of the engines count the open requests exactly.
SlotsMatch == \A e \in Engines : job_count[e] = Cardinality(InFlightOn(e))

\* A connection or process that leaves the loop, with its slot given back or kept.
LEMMA CloseKeepsCount ==
  ASSUME JobsTyped, NeverOvercommitted, NEW id \in DOMAIN jobs, CloseJob(id),
         ReleaseSlot(id) \/ UNCHANGED job_count
  PROVE  /\ JobsTyped' /\ NeverOvercommitted'
         /\ SlotsMatch /\ ReleaseSlot(id) => SlotsMatch'
<1> DEFINE e0 == jobs[id].engine
<1>1. e0 \in Engines /\ DOMAIN jobs' = DOMAIN jobs \ {id}
  BY DEF JobsTyped, CloseJob
<1>2. \A e \in Engines : IsFiniteSet(InFlightOn(e))
  <2>1. \A e \in Engines : InFlightOn(e) \in SUBSET JobId
    BY DEF InFlightOn, JobsTyped
  <2> QED
    BY <2>1, FS_Subset, ReductorAssumption
<1>3. \A e \in Engines : InFlightOn(e)' = InFlightOn(e) \ {id}
  BY DEF InFlightOn, CloseJob
<1>4. id \in InFlightOn(e0) /\ \A e \in Engines : id \in InFlightOn(e) => e = e0
  BY DEF InFlightOn
<1>5. \A e \in Engines : /\ Cardinality(InFlightOn(e)) \in Nat
                         /\ Cardinality(InFlightOn(e)') =
                              IF e = e0 THEN Cardinality(InFlightOn(e)) - 1
                              ELSE Cardinality(InFlightOn(e))
  BY <1>1, <1>2, <1>3, <1>4, FS_RemoveElement, FS_CardinalityType
<1>6. Cardinality(InFlightOn(e0)) # 0
  BY <1>1, <1>2, <1>4, FS_EmptySet
<1>7. job_count' \in [Engines -> Nat]
  BY <1>1, <1>5, <1>6 DEF JobsTyped, NeverOvercommitted, ReleaseSlot
<1>8. JobsTyped'
  BY <1>1, <1>7 DEF JobsTyped, CloseJob
<1>9. NeverOvercommitted'
  <2> SUFFICES ASSUME NEW e \in Engines
               PROVE  /\ Cardinality(InFlightOn(e)') <= job_count'[e]
                      /\ job_count'[e] <= MaxJobs[e]
    BY DEF NeverOvercommitted
  <2>1. Cardinality(InFlightOn(e)) <= job_count[e] /\ job_count[e] <= MaxJobs[e]
    BY DEF NeverOvercommitted
  <2>2. job_count[e] \in Nat /\ MaxJobs[e] \in Nat
    BY ReductorAssumption DEF JobsTyped
  <2>3. job_count'[e] = job_count[e] \/ (e = e0 /\ job_count'[e] = job_count[e] - 1)
    <3>1. CASE UNCHANGED job_count
      BY <3>1
    <3>2. CASE ReleaseSlot(id)
      <4>1. job_count' = [job_count EXCEPT ![e0] = job_count[e0] - 1]
        BY <3>2 DEF ReleaseSlot
      <4> QED
        BY <1>1, <4>1 DEF JobsTyped
    <3> QED
      BY <3>1, <3>2
  <2> QED
    BY <1>5, <2>1, <2>2, <2>3
<1>10. SlotsMatch /\ ReleaseSlot(id) => SlotsMatch'
  <2> SUFFICES ASSUME SlotsMatch, ReleaseSlot(id), NEW e \in Engines
               PROVE  job_count'[e] = Cardinality(InFlightOn(e)')
    BY DEF SlotsMatch
  <2>1. job_count'[e] = IF e = e0 THEN job_count[e] - 1 ELSE job_count[e]
    BY <1>1 DEF ReleaseSlot, JobsTyped
  <2> QED
    BY <1>5, <2>1 DEF SlotsMatch
<1> QED
  BY <1>8, <1>9, <1>10

\* A job is started only on an engine with room for it (reductor.cc:249-276).
LEMMA StartKeepsCount ==
  ASSUME JobsTyped, NeverOvercommitted, DOMAIN jobs # JobId, NEW h,
         NEW i \in FirstWithRoom(h),
         StartJob(CHOOSE id \in JobId : id \notin DOMAIN jobs, h, TriedFor(h)[i])
  PROVE  JobsTyped' /\ NeverOvercommitted' /\ (SlotsMatch => SlotsMatch')
<1> DEFINE e0 == TriedFor(h)[i]
           id == CHOOSE x \in JobId : x \notin DOMAIN jobs
<1>1. id \in JobId /\ id \notin DOMAIN jobs
  BY DEF JobsTyped
<1>2. e0 \in Engines /\ job_count[e0] < MaxJobs[e0]
  BY DEF FirstWithRoom, WithRoom, Able, TriedFor, Engines, SeqRange
<1>3. job_count' = [job_count EXCEPT ![e0] = job_count[e0] + 1]
  BY DEF StartJob
<1>4. jobs' = [x \in DOMAIN jobs \cup {id} |->
                 IF x = id THEN [hash |-> h, engine |-> e0, state |-> "open"] ELSE jobs[x]]
  BY DEF StartJob
<1> HIDE DEF e0, id
<1>5. JobsTyped'
  BY <1>1, <1>2, <1>3, <1>4 DEF JobsTyped
<1>6. \A e \in Engines : IsFiniteSet(InFlightOn(e))
  <2>1. \A e \in Engines : InFlightOn(e) \in SUBSET JobId
    BY DEF InFlightOn, JobsTyped
  <2> QED
    BY <2>1, FS_Subset, ReductorAssumption
<1>7. \A e \in Engines :
         /\ Cardinality(InFlightOn(e)) \in Nat
         /\ Cardinality(InFlightOn(e)') = IF e = e0 THEN Cardinality(InFlightOn(e)) + 1
                                         ELSE Cardinality(InFlightOn(e))
         /\ job_count'[e] = IF e = e0 THEN job_count[e] + 1 ELSE job_count[e]
  <2> SUFFICES ASSUME NEW e \in Engines
               PROVE  /\ Cardinality(InFlightOn(e)) \in Nat
                      /\ Cardinality(InFlightOn(e)') =
                            IF e = e0 THEN Cardinality(InFlightOn(e)) + 1
                            ELSE Cardinality(InFlightOn(e))
                      /\ job_count'[e] = IF e = e0 THEN job_count[e] + 1 ELSE job_count[e]
    OBVIOUS
  <2>1. Cardinality(InFlightOn(e)) \in Nat
    BY <1>6, FS_CardinalityType
  <2>2. CASE e = e0
    <3>1. InFlightOn(e)' = InFlightOn(e) \cup {id}
      BY <1>1, <1>4, <2>2 DEF InFlightOn
    <3>2. id \notin InFlightOn(e)
      BY <1>1 DEF InFlightOn
    <3>3. Cardinality(InFlightOn(e)') = Cardinality(InFlightOn(e)) + 1
      BY <1>6, <3>1, <3>2, FS_AddElement
    <3>4. job_count'[e] = job_count[e] + 1
      BY <1>2, <1>3, <2>2 DEF JobsTyped
    <3> QED
      BY <2>1, <2>2, <3>3, <3>4
  <2>3. CASE e # e0
    <3>1. InFlightOn(e)' = InFlightOn(e)
      BY <1>1, <1>4, <2>3 DEF InFlightOn
    <3>2. job_count'[e] = job_count[e]
      BY <1>2, <1>3, <2>3 DEF JobsTyped
    <3> QED
      BY <2>1, <2>3, <3>1, <3>2
  <2> QED
    BY <2>2, <2>3
<1>8. NeverOvercommitted'
  <2> SUFFICES ASSUME NEW e \in Engines
               PROVE  /\ Cardinality(InFlightOn(e)') <= job_count'[e]
                      /\ job_count'[e] <= MaxJobs[e]
    BY DEF NeverOvercommitted
  <2>1. /\ Cardinality(InFlightOn(e)) <= job_count[e] /\ job_count[e] <= MaxJobs[e]
        /\ job_count[e] \in Nat /\ MaxJobs[e] \in Nat
    BY ReductorAssumption DEF NeverOvercommitted, JobsTyped
  <2> QED
    BY <1>2, <1>7, <2>1
<1>9. SlotsMatch => SlotsMatch'
  BY <1>7 DEF SlotsMatch
<1> QED
  BY <1>5, <1>8, <1>9

\* Jobs and counters that stay as they are.
LEMMA SameEngines ==
  ASSUME JobsTyped, NeverOvercommitted, UNCHANGED job_count, UNCHANGED jobs
  PROVE  JobsTyped' /\ NeverOvercommitted' /\ (SlotsMatch => SlotsMatch')
<1>1. \A e : InFlightOn(e)' = InFlightOn(e)
  BY DEF InFlightOn
<1> QED
  BY <1>1 DEF JobsTyped, NeverOvercommitted, SlotsMatch

\* A job whose state changes.
LEMMA SameJobs ==
  ASSUME JobsTyped, NEW id \in DOMAIN jobs, NEW state,
         jobs' = [jobs EXCEPT ![id].state = state]
  PROVE  /\ DOMAIN jobs' = DOMAIN jobs
         /\ jobs'[id].state = state
         /\ \A i \in DOMAIN jobs : /\ DOMAIN jobs'[i] = {"hash", "engine", "state"}
                                   /\ jobs'[i].hash = jobs[i].hash
                                   /\ jobs'[i].engine = jobs[i].engine
                                   /\ i # id => jobs'[i] = jobs[i]
<1>1. DOMAIN jobs' = DOMAIN jobs /\ \A i \in DOMAIN jobs : i # id => jobs'[i] = jobs[i]
  OBVIOUS
<1>2. jobs'[id] = [jobs[id] EXCEPT !.state = state] /\ DOMAIN jobs[id] = {"hash", "engine", "state"}
  BY DEF JobsTyped
<1>3. /\ DOMAIN jobs'[id] = {"hash", "engine", "state"} /\ jobs'[id].state = state
      /\ jobs'[id].hash = jobs[id].hash /\ jobs'[id].engine = jobs[id].engine
  BY <1>2
<1> QED
  BY <1>1, <1>3 DEF JobsTyped

\* A job leaves the loop.
Settled(id) ==
    \/ RemoteSuccess(id)
    \/ LocalSuccess(id)
    \/ RemoteFailure(id)
    \/ SocketFailure(id)
    \/ ConnectionClosed(id)
    \/ ExecutionFailure(id)

\* Something happens to a job, which stays in the loop, or to the coordinator alone.
QuietJob(id) ==
    \/ StillRunning(id)
    \/ ChildFailure(id)
    \/ GoesSilent(id)
    \/ TlsFailure(id)
    \/ ChildRuns(id)
    \/ ChildFails(id)

QuietStep == ReadSignal \/ SystemFailure \/ \E id \in DOMAIN jobs : QuietJob(id)

\* The steps by what they do.
LEMMA StepKinds ==
  ASSUME [Next]_vars
  PROVE  \/ UNCHANGED vars
         \/ AddTarget
         \/ TakeCached \/ Execute \/ NotStarted \/ QueueEmpty
         \/ PollSuccess \/ PollTimeout \/ PollExit
         \/ QuietStep
         \/ \E id \in DOMAIN jobs : Settled(id)
  BY DEF Next, reduce, Terminated, Answered, Settled, QuietStep, QuietJob

\* What a quiet step changes.
QuietChange ==
    /\ UNCHANGED <<loaded, dep_graph, remaining_targets, job_queue, running_jobs, job_count>>
    /\ pc # "threw"
    /\ \/ pc' = pc
       \/ pc \in {"dispatch", "poll", "serviced"} /\ pc' \in {"serviced", "threw"}
    /\ sigchld' \in {sigchld, TRUE, FALSE}
    /\ todo' \subseteq todo \cup DOMAIN jobs
    /\ UNCHANGED faults \/ \E kind : Fault(kind)

\* ... of the jobs and the cache.
QuietJobs ==
    \/ UNCHANGED <<jobs, cache>>
    \/ \E id \in DOMAIN jobs, state \in {"failed", "silent"} :
          jobs' = [jobs EXCEPT ![id].state = state] /\ UNCHANGED cache
    \/ \E id \in DOMAIN jobs :
          LET h == jobs[id].hash
          IN  /\ jobs' = [jobs EXCEPT ![id].state = "exited"]
              /\ cache' = [x \in DOMAIN cache \cup {h} |-> IF x = h THEN Eval(h) ELSE cache[x]]

LEMMA QuietChanges ==
  ASSUME QuietStep
  PROVE  QuietChange /\ QuietJobs
<1>1. CASE ReadSignal
  BY <1>1 DEF ReadSignal, LocalJobs, QuietChange, QuietJobs
<1>2. CASE SystemFailure
  BY <1>2 DEF SystemFailure, NothingHeard, QuietChange, QuietJobs
<1>3. ASSUME NEW id \in DOMAIN jobs, StillRunning(id) \/ ChildFailure(id)
      PROVE  QuietChange /\ QuietJobs
  BY <1>3 DEF StillRunning, ChildFailure, LooksAt, Polling, QuietChange, QuietJobs
<1>4. ASSUME NEW id \in DOMAIN jobs, GoesSilent(id) \/ TlsFailure(id)
      PROVE  QuietChange /\ QuietJobs
  BY <1>4 DEF GoesSilent, TlsFailure, Listening, Polling, NothingHeard, QuietChange, QuietJobs
<1>5. ASSUME NEW id \in DOMAIN jobs, ChildRuns(id) \/ ChildFails(id)
      PROVE  QuietChange /\ QuietJobs
  <2>1. QuietChange
    BY <1>5 DEF ChildRuns, ChildFails, ChildEnds, QuietChange
  <2>2. QuietJobs
    BY <1>5 DEF ChildRuns, ChildFails, ChildEnds, QuietJobs
  <2> QED
    BY <2>1, <2>2
<1> QED
  BY <1>1, <1>2, <1>3, <1>4, <1>5 DEF QuietStep, QuietJob

\* The jobs of a quiet step stay in the loop and keep their slots.
LEMMA QuietKeepsJobs ==
  ASSUME JobsTyped, NeverOvercommitted, QuietStep
  PROVE  /\ JobsTyped' /\ NeverOvercommitted' /\ (SlotsMatch => SlotsMatch')
         /\ DOMAIN jobs' = DOMAIN jobs
         /\ \A i \in DOMAIN jobs : jobs'[i].hash = jobs[i].hash
<1>1. UNCHANGED job_count /\ QuietJobs
  BY QuietChanges DEF QuietChange
<1>2. CASE UNCHANGED jobs
  BY <1>1, <1>2, SameEngines
<1>3. CASE \E id \in DOMAIN jobs, state \in {"failed", "silent", "exited"} :
             jobs' = [jobs EXCEPT ![id].state = state]
  <2>1. PICK id \in DOMAIN jobs, state \in {"failed", "silent", "exited"} :
               jobs' = [jobs EXCEPT ![id].state = state]
    BY <1>3
  <2>2. /\ DOMAIN jobs' = DOMAIN jobs
        /\ jobs'[id].state = state
        /\ \A i \in DOMAIN jobs : /\ DOMAIN jobs'[i] = {"hash", "engine", "state"}
                                  /\ jobs'[i].hash = jobs[i].hash
                                  /\ jobs'[i].engine = jobs[i].engine
                                  /\ i # id => jobs'[i] = jobs[i]
    BY <2>1, SameJobs
  <2>3. \A e : InFlightOn(e)' = InFlightOn(e)
    BY <2>2 DEF InFlightOn
  <2>4. JobsTyped'
    BY <1>1, <2>2 DEF JobsTyped
  <2> QED
    BY <1>1, <2>2, <2>3, <2>4 DEF NeverOvercommitted, SlotsMatch
<1> QED
  BY <1>1, <1>2, <1>3 DEF QuietJobs

\* So the invariant survives.
LEMMA QuietKeepsInv ==
  ASSUME Inv, QuietStep
  PROVE  Inv'
<1>1. QuietChange
  BY QuietChanges
<1>2. JobsTyped' /\ NeverOvercommitted'
  BY QuietKeepsJobs DEF Inv
<1>3. CoordinatorTyped'
  BY <1>1 DEF QuietChange, Inv, CoordinatorTyped, IsGraph, SeqRange
<1>4. CountersTyped'
  <2>1. faults' \in Seq(FaultKinds) /\ Len(faults') <= MaxFaults
    <3>1. /\ faults \in Seq(FaultKinds) /\ Len(faults) <= MaxFaults
          /\ Len(faults) \in Nat /\ MaxFaults \in Nat
      BY ReductorAssumption DEF Inv, CountersTyped
    <3>2. CASE UNCHANGED faults
      BY <3>1, <3>2
    <3>3. ASSUME NEW kind, Fault(kind)
          PROVE  faults' \in Seq(FaultKinds) /\ Len(faults') <= MaxFaults
      <4>1. kind \in FaultKinds /\ Len(faults) < MaxFaults /\ faults' = Append(faults, kind)
        BY <3>3, ReductorAssumption DEF Fault
      <4>2. Append(faults, kind) \in Seq(FaultKinds) /\ Len(Append(faults, kind)) = Len(faults) + 1
        BY <3>1, <4>1
      <4> QED
        BY <3>1, <4>1, <4>2
    <3>4. UNCHANGED faults \/ \E kind : Fault(kind)
      BY <1>1 DEF QuietChange
    <3> QED
      BY <3>2, <3>3, <3>4
  <2>2. sigchld' \in BOOLEAN /\ todo' \subseteq JobId
    BY <1>1 DEF QuietChange, Inv, CountersTyped, JobsTyped
  <2> QED
    BY <1>1, <2>1, <2>2 DEF QuietChange, Inv, CountersTyped
<1> QED
  BY <1>2, <1>3, <1>4 DEF Inv

\* The invariant holds when the constructor starts.
LEMMA InvInit == Init => Inv
<1> SUFFICES ASSUME Init PROVE Inv
  OBVIOUS
<1>1. CoordinatorTyped
  <2>1. IsGraph(EmptyGraph)
    BY FS_EmptySet DEF IsGraph, EmptyGraph
  <2> QED
    BY <2>1, FS_EmptySet DEF Init, CoordinatorTyped, SeqRange
<1>2. JobsTyped
  BY DEF Init, JobsTyped
<1>3. CountersTyped
  <2>1. sigchld \in BOOLEAN /\ todo \subseteq JobId
    BY DEF Init
  <2>2. /\ loaded \in 0 .. Len(TargetHashes)
        /\ loaded < Len(TargetHashes)
        /\ faults \in Seq(FaultKinds) /\ Len(faults) <= MaxFaults
    BY ReductorAssumption DEF Init
  <2> QED
    BY <2>1, <2>2 DEF CountersTyped
<1>4. NeverOvercommitted
  <2>1. \A e \in Engines : InFlightOn(e) = {}
    BY DEF Init, InFlightOn
  <2>2. \A e \in Engines : job_count[e] = 0 /\ MaxJobs[e] \in Nat
    BY ReductorAssumption DEF Init
  <2>3. \A e \in Engines : Cardinality(InFlightOn(e)) = 0
    BY <2>1, FS_EmptySet
  <2> QED
    BY <2>2, <2>3 DEF NeverOvercommitted
<1> QED
  BY <1>1, <1>2, <1>3, <1>4 DEF Inv

\* The three ways a poll can end (reductor.cc:303-345).
LEMMA AfterPollKeepsInv ==
  ASSUME Inv, NEW exit, AfterPoll(exit)
  PROVE  Inv'
<1>1. PICK late \in SUBSET running_jobs : \E dup \in Orders(late) : job_queue' = job_queue \o dup
  BY DEF AfterPoll
<1>2. PICK dup \in Orders(late) : job_queue' = job_queue \o dup
  BY <1>1
<1>3. dup \in Seq(late)
  BY FS_Subset, OrdersAreSeqs DEF Inv, CoordinatorTyped
<1>4. job_queue' \in Seq(SeqRange(job_queue'))
  BY <1>2, <1>3, ConcatOwn DEF Inv, CoordinatorTyped
<1>5. pc' \in {"returned", "threw", "dispatch"}
  BY DEF AfterPoll
<1>6. CoordinatorTyped'
  BY <1>4, <1>5 DEF AfterPoll, Inv, CoordinatorTyped, IsGraph, SeqRange
<1>7. JobsTyped' /\ NeverOvercommitted'
  BY SameEngines DEF AfterPoll, Inv
<1>8. CountersTyped'
  BY <1>5 DEF AfterPoll, Inv, CountersTyped
<1> QED
  BY <1>6, <1>7, <1>8 DEF Inv

\* Every answer keeps the invariant: the slot is given back with the request, or
\* kept for good, and never given back twice (engine_lambda.cc:50, 112-116).
LEMMA AnsweredKeepsInv ==
  ASSUME Inv, NEW id \in DOMAIN jobs, Settled(id)
  PROVE  Inv'
<1> USE DEF Inv
<1>q. job_queue \in Seq(SeqRange(job_queue))
  BY DEF CoordinatorTyped
<1>1. CASE RemoteSuccess(id)
  <2>1. CoordinatorTyped' /\ pc' # "load"
    BY <1>1, <1>q, FinalizeTyped DEF RemoteSuccess
  <2>2. JobsTyped' /\ NeverOvercommitted'
    BY <1>1, CloseKeepsCount DEF RemoteSuccess
  <2> QED
    BY <1>1, <2>1, <2>2 DEF RemoteSuccess, CountersTyped
<1>2. CASE LocalSuccess(id)
  <2>1. CoordinatorTyped' /\ pc' # "load"
    BY <1>2, <1>q, FinalizeTyped DEF LocalSuccess
  <2>2. JobsTyped' /\ NeverOvercommitted'
    BY <1>2, CloseKeepsCount DEF LocalSuccess
  <2> QED
    BY <1>2, <2>1, <2>2 DEF LocalSuccess, LooksAt, CountersTyped
<1>f. ASSUME NEW kind, Fault(kind), UNCHANGED <<loaded, sigchld, todo>>, pc' # "load"
      PROVE  CountersTyped'
  BY <1>f, ReductorAssumption DEF Fault, CountersTyped
<1>r. ASSUME Retry(id)
      PROVE  CoordinatorTyped' /\ pc' # "load" /\ UNCHANGED <<loaded, sigchld, todo>>
  <2>1. Append(job_queue, jobs[id].hash) = job_queue \o <<jobs[id].hash>>
    BY <1>q
  <2>2. <<jobs[id].hash>> \in Seq({jobs[id].hash})
    OBVIOUS
  <2>3. job_queue' \in Seq(SeqRange(job_queue'))
    BY <1>r, <1>q, <2>1, <2>2, ConcatOwn DEF Retry
  <2> QED
    BY <1>r, <2>3 DEF Retry, CoordinatorTyped, IsGraph, SeqRange
<1>3. CASE RemoteFailure(id)
  <2>1. JobsTyped' /\ NeverOvercommitted'
    BY <1>3, CloseKeepsCount DEF RemoteFailure
  <2> QED
    BY <1>3, <1>f, <1>r, <2>1 DEF RemoteFailure
<1>4. CASE SocketFailure(id)
  <2>1. JobsTyped' /\ NeverOvercommitted'
    BY <1>4, CloseKeepsCount DEF SocketFailure
  <2> QED
    BY <1>4, <1>f, <1>r, <2>1 DEF SocketFailure
<1>5. CASE ConnectionClosed(id)
  <2>1. JobsTyped' /\ NeverOvercommitted'
    BY <1>5, CloseKeepsCount DEF ConnectionClosed, NothingHeard
  <2>2. CoordinatorTyped' /\ pc' # "load" /\ UNCHANGED <<loaded, sigchld, todo>>
    BY <1>5 DEF ConnectionClosed, NothingHeard, CoordinatorTyped, IsGraph, SeqRange
  <2> QED
    BY <1>5, <1>f, <2>1, <2>2 DEF ConnectionClosed
<1>6. CASE ExecutionFailure(id)
  <2>1. JobsTyped' /\ NeverOvercommitted'
    BY <1>6, CloseKeepsCount DEF ExecutionFailure
  <2>2. CoordinatorTyped' /\ pc' # "load" /\ UNCHANGED <<loaded, sigchld, todo>>
    BY <1>6 DEF ExecutionFailure, CoordinatorTyped, IsGraph, SeqRange
  <2> QED
    BY <1>6, <1>f, <2>1, <2>2 DEF ExecutionFailure
<1> QED
  BY <1>1, <1>2, <1>3, <1>4, <1>5, <1>6 DEF Settled

\* One step of the constructor or of the dispatching loop (reductor.cc:99-107,
\* 204-296).
LEMMA DispatchKeepsInv ==
  ASSUME Inv, AddTarget \/ TakeCached \/ Execute \/ NotStarted \/ QueueEmpty
  PROVE  Inv'
<1> USE DEF Inv
<1>q. job_queue \in Seq(SeqRange(job_queue))
  BY DEF CoordinatorTyped
<1>t. job_queue # << >> => Tail(job_queue) \in Seq(SeqRange(Tail(job_queue)))
  <2>1. job_queue # << >> => Tail(job_queue) \in Seq(SeqRange(job_queue))
    BY <1>q
  <2> QED
    BY <2>1, SeqOfOwn
<1>1. CASE AddTarget
  <2> DEFINE t == TargetHashes[loaded + 1]
  <2>1. IsGraph(dep_graph')
    BY <1>1, AddThunkIsGraph DEF AddTarget, CoordinatorTyped
  <2>2. job_queue' \in Seq(SeqRange(job_queue'))
    <3>1. CASE UNCHANGED job_queue
      BY <1>q, <3>1
    <3>2. CASE \E o1 \in Orders(order_one_dependencies(dep_graph', t)) :
                  job_queue' = job_queue \o o1
      <4>1. PICK o1 \in Orders(order_one_dependencies(dep_graph', t)) :
                  job_queue' = job_queue \o o1
        BY <3>2
      <4>2. order_one_dependencies(dep_graph', t) \in SUBSET DOMAIN dep_graph'.thunks
        BY DEF order_one_dependencies, Below, LeastClosed
      <4>3. IsFiniteSet(order_one_dependencies(dep_graph', t))
        BY <2>1, <4>2, FS_Subset DEF IsGraph
      <4> QED
        BY <1>q, <4>1, <4>3, OrdersAreSeqs, ConcatOwn
    <3> QED
      BY <1>1, <3>1, <3>2 DEF AddTarget
  <2>3. CoordinatorTyped'
    BY <1>1, <2>1, <2>2 DEF AddTarget, CoordinatorTyped, IsGraph, SeqRange
  <2>4. JobsTyped' /\ NeverOvercommitted'
    BY <1>1, SameEngines DEF AddTarget
  <2>5. CountersTyped'
    BY <1>1, ReductorAssumption DEF AddTarget, CountersTyped
  <2> QED
    BY <2>3, <2>4, <2>5
<1>2. CASE TakeCached
  <2>1. CoordinatorTyped' /\ pc' # "load"
    BY <1>2, <1>t, FinalizeTyped DEF TakeCached, Dispatching
  <2>2. JobsTyped' /\ NeverOvercommitted'
    BY <1>2, SameEngines DEF TakeCached
  <2> QED
    BY <1>2, <2>1, <2>2 DEF TakeCached, CountersTyped
<1>3. CASE Execute
  <2>1. JobsTyped' /\ NeverOvercommitted'
    BY <1>3, StartKeepsCount DEF Execute
  <2>2. IsFiniteSet(running_jobs')
    BY <1>3, FS_AddElement DEF Execute, CoordinatorTyped
  <2>3. CoordinatorTyped'
    BY <1>3, <1>t, <2>2 DEF Execute, Dispatching, CoordinatorTyped, IsGraph, SeqRange
  <2> QED
    BY <1>3, <2>1, <2>3 DEF Execute, CountersTyped
<1>4. CASE NotStarted \/ QueueEmpty
  <2>1. JobsTyped' /\ NeverOvercommitted'
    BY <1>4, SameEngines DEF NotStarted, QueueEmpty
  <2>2. CoordinatorTyped'
    BY <1>4 DEF NotStarted, QueueEmpty, CoordinatorTyped, IsGraph, SeqRange
  <2> QED
    BY <1>4, <2>1, <2>2 DEF NotStarted, QueueEmpty, CountersTyped
<1> QED
  BY <1>1, <1>2, <1>3, <1>4

\* The invariant is inductive.
LEMMA InvNext == Inv /\ [Next]_vars => Inv'
<1> SUFFICES ASSUME Inv, [Next]_vars PROVE Inv'
  OBVIOUS
<1>1. CASE UNCHANGED vars
  <2>1. JobsTyped' /\ NeverOvercommitted'
    BY <1>1, SameEngines DEF vars, Inv
  <2> QED
    BY <1>1, <2>1 DEF vars, Inv, CoordinatorTyped, CountersTyped, IsGraph, SeqRange
<1>2. CASE AddTarget \/ TakeCached \/ Execute \/ NotStarted \/ QueueEmpty
  BY <1>2, DispatchKeepsInv
<1>3. CASE PollSuccess \/ PollTimeout \/ PollExit
  BY <1>3, AfterPollKeepsInv DEF PollSuccess, PollTimeout, PollExit
<1>4. ASSUME NEW id \in DOMAIN jobs, Settled(id)
      PROVE  Inv'
  BY <1>4, AnsweredKeepsInv
<1>5. CASE QuietStep
  BY <1>5, QuietKeepsInv
<1> QED
  BY <1>1, <1>2, <1>3, <1>4, <1>5, StepKinds

-----------------------------------------------------------------------------
\* The coordinator's variables hold what their types say in every reachable state,
\* for every program, set of engines and bound: in particular an engine's counter
\* is never decremented below zero (engine_lambda.cc:50, engine_local.cc:21).
THEOREM TypeCorrect == Spec => []TypeOK
<1>1. Inv => TypeOK
  BY InvParts DEF Inv
<1> QED
  BY <1>1, InvInit, InvNext, PTL DEF Spec

\* No engine is ever given more jobs than max_jobs(), and its counter covers the
\* requests that are open, with any number of duplicates, retries and lost
\* connections (reductor.cc:251, 266).
THEOREM EnginesNeverOvercommitted == Spec => []NeverOvercommitted
<1>1. Inv => NeverOvercommitted
  BY DEF Inv
<1> QED
  BY <1>1, InvInit, InvNext, PTL DEF Spec

(***************************************************************************)
(* The coordinator forgets no job                                          *)
(***************************************************************************)

\* The elements of concatenated, extended and shortened sequences.
LEMMA RangeConcat ==
  ASSUME NEW S, NEW T, NEW s \in Seq(S), NEW u \in Seq(T)
  PROVE  SeqRange(s \o u) = SeqRange(s) \cup SeqRange(u)
<1>1. s \in Seq(S \cup T) /\ u \in Seq(S \cup T)
  OBVIOUS
<1>2. /\ Len(s) \in Nat /\ Len(u) \in Nat
      /\ DOMAIN s = 1 .. Len(s) /\ DOMAIN u = 1 .. Len(u)
      /\ DOMAIN (s \o u) = 1 .. Len(s) + Len(u)
  BY <1>1
<1>3. /\ \A i \in 1 .. Len(s) : (s \o u)[i] = s[i]
      /\ \A i \in 1 .. Len(s) + Len(u) : i > Len(s) => (s \o u)[i] = u[i - Len(s)]
  BY <1>1
<1>4. SeqRange(s \o u) \subseteq SeqRange(s) \cup SeqRange(u)
  BY <1>2, <1>3 DEF SeqRange
<1>5. SeqRange(s) \subseteq SeqRange(s \o u)
  BY <1>2, <1>3 DEF SeqRange
<1>6. SeqRange(u) \subseteq SeqRange(s \o u)
  <2> SUFFICES ASSUME NEW k \in 1 .. Len(u) PROVE u[k] \in SeqRange(s \o u)
    BY <1>2 DEF SeqRange
  <2>1. Len(s) + k \in 1 .. Len(s) + Len(u) /\ Len(s) + k > Len(s) /\ (Len(s) + k) - Len(s) = k
    BY <1>2
  <2>2. (s \o u)[Len(s) + k] = u[k]
    BY <1>3, <2>1
  <2> QED
    BY <1>2, <2>1, <2>2 DEF SeqRange
<1> QED
  BY <1>4, <1>5, <1>6

LEMMA RangeAppend ==
  ASSUME NEW S, NEW s \in Seq(S), NEW x
  PROVE  SeqRange(Append(s, x)) = SeqRange(s) \cup {x}
<1> DEFINE u == <<x>>
<1>1. Append(s, x) = s \o u
  OBVIOUS
<1>2. u \in Seq({x}) /\ SeqRange(u) = {x}
  BY DEF SeqRange
<1> HIDE DEF u
<1>3. SeqRange(s \o u) = SeqRange(s) \cup SeqRange(u)
  BY <1>2, RangeConcat
<1> QED
  BY <1>1, <1>2, <1>3

LEMMA RangeTail ==
  ASSUME NEW S, NEW s \in Seq(S), s # << >>
  PROVE  SeqRange(s) = SeqRange(Tail(s)) \cup {Head(s)}
<1> DEFINE u == <<Head(s)>>
           t == Tail(s)
<1>1. s = u \o t /\ t \in Seq(S) /\ u \in Seq(S)
  OBVIOUS
<1>2. SeqRange(u) = {Head(s)}
  BY DEF SeqRange
<1> HIDE DEF u, t
<1>3. SeqRange(u \o t) = SeqRange(u) \cup SeqRange(t)
  BY <1>1, RangeConcat
<1> QED
  BY <1>1, <1>2, <1>3 DEF t

\* An iteration visits exactly the elements of the set.
LEMMA OrderRange ==
  ASSUME NEW S, NEW o \in Orders(S)
  PROVE  SeqRange(o) = S
  BY DEF Orders, SeqRange

\* Only thunks that can be executed are handed out.
HandsOutExecutables ==
    \A h \in SeqRange(job_queue) \cup InFlight \cup running_jobs : CanBeExecuted(h)

\* The cache holds what executing yields, for every child that has exited too.
CacheIsTrue ==
    /\ \A h \in DOMAIN cache : cache[h] = Eval(h)
    /\ \A i \in DOMAIN jobs : /\ "hash" \in DOMAIN jobs[i]
                              /\ jobs[i].state = "exited" => jobs[i].hash \in DOMAIN cache

\* While targets are loaded nothing has been renamed.
StillLoading ==
    pc = "load" => /\ dep_graph.updated_hashes = << >>
                   /\ remaining_targets \subseteq DOMAIN dep_graph.thunks

\* What is executable has been handed out.
Covered ==
    pc # "threw" /\ ~ Happened("closed") =>
        Executables(dep_graph) \subseteq SeqRange(job_queue) \cup InFlight

JobInv == /\ Forcing!PlainPrograms
          /\ Forcing!Sound(dep_graph)
          /\ HandsOutExecutables
          /\ CacheIsTrue
          /\ StillLoading
          /\ Covered

\* finalize_execution: what becomes executable is appended to the queue
\* (reductor.cc:180-199).
LEMMA FinalizeCovers ==
  ASSUME CoordinatorTyped, Forcing!PlainPrograms, Forcing!KnownThunks,
         Forcing!Sound(dep_graph), NEW h, CanBeExecuted(h),
         NEW q, q \in Seq(SeqRange(q)), NEW at \in {"dispatch", "serviced"},
         finalize_execution(h, Eval(h), q, at)
  PROVE  /\ Forcing!Sound(dep_graph')
         /\ \A x \in SeqRange(job_queue') :
               x \in SeqRange(q) \cup SeqRange(job_queue) \/ CanBeExecuted(x)
         /\ running_jobs' \subseteq running_jobs
         /\ pc' # "threw" => /\ SeqRange(q) \subseteq SeqRange(job_queue')
                             /\ Executables(dep_graph') \subseteq
                                   SeqRange(job_queue') \cup (Executables(dep_graph) \ {h})
<1>0. running_jobs' \subseteq running_jobs
  BY DEF finalize_execution
<1>1. CASE h \notin DOMAIN dep_graph.thunks
  <2>1. UNCHANGED dep_graph /\ job_queue' = q
    BY <1>1 DEF finalize_execution
  <2>2. h \notin Executables(dep_graph)
    BY <1>1 DEF Executables
  <2> QED
    BY <1>0, <2>1, <2>2
<1>2. CASE h \in DOMAIN dep_graph.thunks /\ ForceThrows(dep_graph, h, Eval(h))
  BY <1>0, <1>2 DEF finalize_execution
<1>3. CASE h \in DOMAIN dep_graph.thunks /\ ~ ForceThrows(dep_graph, h, Eval(h))
  <2>0. PICK r \in force_thunk(dep_graph, h, Eval(h)) : \E o1 \in Orders(r.next) :
          dep_graph' = r.graph /\ job_queue' = q \o o1
    BY <1>3 DEF finalize_execution
  <2>1. PICK o1 \in Orders(r.next) : dep_graph' = r.graph /\ job_queue' = q \o o1
    BY <2>0
  <2>2. IsFiniteSet(r.next)
    BY <1>3, ForceIsGraph DEF CoordinatorTyped
  <2>3. o1 \in Seq(r.next) /\ SeqRange(o1) = r.next
    BY <2>2, OrdersAreSeqs, OrderRange
  <2>4. SeqRange(job_queue') = SeqRange(q) \cup r.next
    BY <2>1, <2>3, RangeConcat
  <2>5. /\ Forcing!Sound(r.graph) /\ \A x \in r.next : CanBeExecuted(x)
        /\ Executables(r.graph) = r.next \cup (Executables(dep_graph) \ {h})
    BY <1>3, ResultKeeps
  <2> QED
    BY <1>0, <2>1, <2>4, <2>5
<1> QED
  BY <1>1, <1>2, <1>3

\* A job that is closed is the only one that leaves the set in flight.
LEMMA ClosedLeaves ==
  ASSUME NEW id \in DOMAIN jobs, CloseJob(id)
  PROVE  /\ InFlight' \subseteq InFlight
         /\ InFlight \subseteq InFlight' \cup {jobs[id].hash}
         /\ jobs[id].hash \in InFlight
         /\ \A i \in DOMAIN jobs' : i \in DOMAIN jobs /\ jobs'[i] = jobs[i]
<1>1. DOMAIN jobs' = DOMAIN jobs \ {id} /\ \A i \in DOMAIN jobs' : jobs'[i] = jobs[i]
  BY DEF CloseJob
<1> QED
  BY <1>1 DEF InFlight

\* Failures stay on record.
LEMMA FaultsRecorded ==
  ASSUME Inv, (\E kind : Fault(kind)) \/ UNCHANGED faults
  PROVE  /\ \A kind : Happened(kind) => Happened(kind)'
         /\ \A kind : Fault(kind) => Happened(kind)'
<1>1. faults \in Seq(FaultKinds)
  BY DEF Inv, CountersTyped
<1>2. ASSUME NEW kind, Fault(kind)
      PROVE  SeqRange(faults') = SeqRange(faults) \cup {kind}
  BY <1>1, <1>2, RangeAppend DEF Fault
<1>3. SeqRange(faults) \subseteq SeqRange(faults')
  BY <1>2
<1> QED
  BY <1>2, <1>3 DEF Happened

\* The success callback of a job that has left the loop (reductor.cc:114-117, 180-199).
LEMMA SuccessCovers ==
  ASSUME Inv, JobInv, Forcing!KnownThunks, pc # "threw", NEW id \in DOMAIN jobs, CloseJob(id),
         UNCHANGED faults,
         \A h \in DOMAIN cache' : cache'[h] = Eval(h), DOMAIN cache \subseteq DOMAIN cache',
         finalize_execution(jobs[id].hash, Eval(jobs[id].hash), job_queue, "serviced")
  PROVE  JobInv'
<1> DEFINE h == jobs[id].hash
<1>1. /\ InFlight' \subseteq InFlight /\ InFlight \subseteq InFlight' \cup {h} /\ h \in InFlight
      /\ \A i \in DOMAIN jobs' : i \in DOMAIN jobs /\ jobs'[i] = jobs[i]
  BY ClosedLeaves
<1>2. CanBeExecuted(h)
  BY <1>1 DEF JobInv, HandsOutExecutables
<1>3. CoordinatorTyped /\ job_queue \in Seq(SeqRange(job_queue))
  BY DEF Inv, CoordinatorTyped
<1>4. /\ Forcing!Sound(dep_graph')
      /\ \A x \in SeqRange(job_queue') : x \in SeqRange(job_queue) \/ CanBeExecuted(x)
      /\ running_jobs' \subseteq running_jobs
      /\ pc' # "threw" => /\ SeqRange(job_queue) \subseteq SeqRange(job_queue')
                          /\ Executables(dep_graph') \subseteq
                                SeqRange(job_queue') \cup (Executables(dep_graph) \ {h})
  <2>1. Forcing!PlainPrograms /\ Forcing!Sound(dep_graph)
    BY DEF JobInv
  <2> HIDE DEF h
  <2>2. finalize_execution(h, Eval(h), job_queue, "serviced")
    BY DEF h
  <2> QED
    BY <1>2, <1>3, <2>1, <2>2, FinalizeCovers
<1>5. pc' # "load"
  BY DEF finalize_execution
<1>6. HandsOutExecutables'
  BY <1>1, <1>4 DEF JobInv, HandsOutExecutables, SeqRange, InFlight
<1>7. CacheIsTrue'
  BY <1>1 DEF JobInv, CacheIsTrue
<1>8. Covered'
  <2> SUFFICES ASSUME pc' # "threw", ~ Happened("closed")'
               PROVE  Executables(dep_graph') \subseteq SeqRange(job_queue') \cup InFlight'
    BY DEF Covered, Executables
  <2>1. ~ Happened("closed")
    BY FaultsRecorded
  <2>2. Executables(dep_graph) \subseteq SeqRange(job_queue) \cup InFlight
    BY <2>1 DEF JobInv, Covered
  <2> QED
    BY <1>1, <1>4, <2>2
<1> QED
  BY <1>4, <1>5, <1>6, <1>7, <1>8 DEF JobInv, StillLoading

\* The failure callback queues the job again (reductor.cc:118-165).
LEMMA RetryCovers ==
  ASSUME JobInv, Inv, pc # "threw", pc # "load", NEW id \in DOMAIN jobs, CloseJob(id), Retry(id),
         \E kind : Fault(kind)
  PROVE  JobInv'
<1> DEFINE h == jobs[id].hash
<1>1. /\ InFlight' \subseteq InFlight /\ InFlight \subseteq InFlight' \cup {h} /\ h \in InFlight
      /\ \A i \in DOMAIN jobs' : i \in DOMAIN jobs /\ jobs'[i] = jobs[i]
  BY ClosedLeaves
<1>2. SeqRange(job_queue') = SeqRange(job_queue) \cup {h}
  <2>1. job_queue \in Seq(SeqRange(job_queue))
    BY DEF Inv, CoordinatorTyped
  <2> QED
    BY <2>1, RangeAppend DEF Retry
<1>3. UNCHANGED <<dep_graph, cache, running_jobs>> /\ pc' = "serviced"
  BY DEF Retry
<1>4. Forcing!Sound(dep_graph')
  BY <1>3 DEF JobInv
<1>5. HandsOutExecutables'
  BY <1>1, <1>2, <1>3 DEF JobInv, HandsOutExecutables
<1>6. CacheIsTrue'
  BY <1>1, <1>3 DEF JobInv, CacheIsTrue
<1>7. Covered'
  BY <1>1, <1>2, <1>3, FaultsRecorded DEF JobInv, Covered, Executables
<1> QED
  BY <1>3, <1>4, <1>5, <1>6, <1>7 DEF JobInv, StillLoading

\* Every answer keeps the invariant.
LEMMA AnsweredCovers ==
  ASSUME JobInv, Inv, Forcing!KnownThunks, NEW id \in DOMAIN jobs, Settled(id)
  PROVE  JobInv'
<1>1. CASE RemoteSuccess(id)
  <2>1. \A h \in DOMAIN cache' : cache'[h] = Eval(h)
    BY <1>1 DEF RemoteSuccess, JobInv, CacheIsTrue
  <2>2. DOMAIN cache \subseteq DOMAIN cache'
    BY <1>1 DEF RemoteSuccess
  <2> QED
    BY <1>1, <2>1, <2>2, SuccessCovers DEF RemoteSuccess, Listening, Polling
<1>2. CASE LocalSuccess(id)
  <2>1. cache[jobs[id].hash] = Eval(jobs[id].hash)
    BY <1>2 DEF LocalSuccess, LooksAt, JobInv, CacheIsTrue
  <2>2. /\ \A h \in DOMAIN cache' : cache'[h] = Eval(h)
        /\ DOMAIN cache \subseteq DOMAIN cache'
    BY <1>2 DEF LocalSuccess, LooksAt, JobInv, CacheIsTrue
  <2> QED
    BY <1>2, <2>1, <2>2, SuccessCovers DEF LocalSuccess, LooksAt, Polling
<1>3. CASE RemoteFailure(id) \/ SocketFailure(id)
  BY <1>3, RetryCovers DEF RemoteFailure, SocketFailure, Listening, Polling
<1>4. CASE ConnectionClosed(id) \/ ExecutionFailure(id)
  <2>1. /\ InFlight' \subseteq InFlight
        /\ \A i \in DOMAIN jobs' : i \in DOMAIN jobs /\ jobs'[i] = jobs[i]
    BY <1>4, ClosedLeaves DEF ConnectionClosed, ExecutionFailure
  <2>2. /\ UNCHANGED <<dep_graph, cache, running_jobs, job_queue>>
        /\ pc' \in {"serviced", "threw"}
    BY <1>4 DEF ConnectionClosed, NothingHeard, ExecutionFailure
  <2>3. pc' # "threw" => Happened("closed")'
    <3>1. pc' # "threw" => Fault("closed")
      BY <1>4 DEF ConnectionClosed, ExecutionFailure
    <3> QED
      BY <3>1, FaultsRecorded
  <2>4. Forcing!Sound(dep_graph')
    BY <2>2 DEF JobInv
  <2>5. HandsOutExecutables'
    BY <2>1, <2>2 DEF JobInv, HandsOutExecutables
  <2>6. CacheIsTrue'
    BY <2>1, <2>2 DEF JobInv, CacheIsTrue
  <2> QED
    BY <2>2, <2>3, <2>4, <2>5, <2>6 DEF JobInv, StillLoading, Covered
<1> QED
  BY <1>1, <1>2, <1>3, <1>4 DEF Settled

\* A quiet step leaves the jobs in flight, and the cache gains what a child found.
LEMMA QuietInFlight ==
  ASSUME Inv, QuietStep
  PROVE  InFlight' = InFlight
<1>1. DOMAIN jobs' = DOMAIN jobs /\ \A i \in DOMAIN jobs : jobs'[i].hash = jobs[i].hash
  BY QuietKeepsJobs DEF Inv
<1> QED
  BY <1>1 DEF InFlight

LEMMA QuietCovers ==
  ASSUME JobInv, Inv, QuietStep
  PROVE  JobInv'
<1>1. QuietChange /\ QuietJobs /\ InFlight' = InFlight /\ JobsTyped
  BY QuietChanges, QuietInFlight DEF Inv
<1>2. ASSUME UNCHANGED <<jobs, cache>>
      PROVE  CacheIsTrue'
  BY <1>2 DEF JobInv, CacheIsTrue
<1>3. ASSUME NEW id \in DOMAIN jobs, NEW state \in {"failed", "silent"},
             jobs' = [jobs EXCEPT ![id].state = state], UNCHANGED cache
      PROVE  CacheIsTrue'
  <2>1. /\ DOMAIN jobs' = DOMAIN jobs
        /\ jobs'[id].state = state
        /\ \A i \in DOMAIN jobs : /\ DOMAIN jobs'[i] = {"hash", "engine", "state"}
                                  /\ jobs'[i].hash = jobs[i].hash
                                  /\ i # id => jobs'[i] = jobs[i]
    BY <1>1, <1>3, SameJobs
  <2> QED
    BY <1>3, <2>1 DEF JobInv, CacheIsTrue
<1>4. ASSUME NEW id \in DOMAIN jobs, NEW h, h = jobs[id].hash,
             jobs' = [jobs EXCEPT ![id].state = "exited"],
             cache' = [x \in DOMAIN cache \cup {h} |-> IF x = h THEN Eval(h) ELSE cache[x]]
      PROVE  CacheIsTrue'
  <2>1. /\ DOMAIN jobs' = DOMAIN jobs
        /\ \A i \in DOMAIN jobs : /\ DOMAIN jobs'[i] = {"hash", "engine", "state"}
                                  /\ jobs'[i].hash = jobs[i].hash
                                  /\ i # id => jobs'[i] = jobs[i]
    BY <1>1, <1>4, SameJobs
  <2>2. DOMAIN cache' = DOMAIN cache \cup {h} /\ \A x \in DOMAIN cache' : cache'[x] = Eval(x)
    BY <1>4 DEF JobInv, CacheIsTrue
  <2> QED
    BY <1>4, <2>1, <2>2 DEF JobInv, CacheIsTrue
<1>5. CacheIsTrue'
  <2>1. CASE \E id \in DOMAIN jobs, state \in {"failed", "silent"} :
               jobs' = [jobs EXCEPT ![id].state = state] /\ UNCHANGED cache
    BY <1>3, <2>1
  <2>2. CASE \E id \in DOMAIN jobs :
               LET h == jobs[id].hash
               IN  /\ jobs' = [jobs EXCEPT ![id].state = "exited"]
                   /\ cache' = [x \in DOMAIN cache \cup {h} |->
                                   IF x = h THEN Eval(h) ELSE cache[x]]
    <3>1. PICK id \in DOMAIN jobs :
             LET h == jobs[id].hash
             IN  /\ jobs' = [jobs EXCEPT ![id].state = "exited"]
                 /\ cache' = [x \in DOMAIN cache \cup {h} |->
                                 IF x = h THEN Eval(h) ELSE cache[x]]
      BY <2>2
    <3>2. PICK h : h = jobs[id].hash
      OBVIOUS
    <3>3. /\ jobs' = [jobs EXCEPT ![id].state = "exited"]
          /\ cache' = [x \in DOMAIN cache \cup {h} |-> IF x = h THEN Eval(h) ELSE cache[x]]
      BY <3>1, <3>2
    <3> QED
      BY <1>4, <3>2, <3>3
  <2> QED
    BY <1>1, <1>2, <2>1, <2>2 DEF QuietJobs, JobInv
<1>6. HandsOutExecutables'
  BY <1>1 DEF QuietChange, JobInv, HandsOutExecutables
<1>7. Covered'
  <2>1. Happened("closed") => Happened("closed")'
    BY <1>1, FaultsRecorded DEF QuietChange
  <2> QED
    BY <1>1, <2>1 DEF QuietChange, JobInv, Covered, Executables
<1>8. StillLoading' /\ Forcing!Sound(dep_graph')
  BY <1>1 DEF QuietChange, JobInv, StillLoading
<1> QED
  BY <1>5, <1>6, <1>7, <1>8 DEF JobInv

\* The constructor: a target's executable thunks are queued with it, and a target that
\* the graph already has adds none (reductor.cc:99-107).
LEMMA TargetQueued ==
  ASSUME JobInv, Inv, AddTarget
  PROVE  /\ Forcing!Sound(dep_graph') /\ StillLoading'
         /\ SeqRange(job_queue) \subseteq SeqRange(job_queue')
         /\ \A x \in SeqRange(job_queue') : x \in SeqRange(job_queue) \/ CanBeExecuted(x)
         /\ Executables(dep_graph') \subseteq Executables(dep_graph) \cup SeqRange(job_queue')
<1> DEFINE t == TargetHashes[loaded + 1]
           N == order_one_dependencies(dep_graph', t)
<1>1. pc = "load" /\ dep_graph.updated_hashes = << >> /\ dep_graph' = add_thunk(dep_graph, t)
  BY DEF AddTarget, JobInv, StillLoading
<1>2. t \in Thunk
  BY ReductorAssumption, <1>1 DEF Inv, CountersTyped
<1>3. AddedHash(dep_graph, t) = t
  BY <1>1 DEF AddedHash, updated_hash
<1>4. \/ t \in remaining_targets /\ UNCHANGED <<remaining_targets, job_queue>>
      \/ /\ remaining_targets' = remaining_targets \cup {t}
         /\ \E o1 \in Orders(N) : job_queue' = job_queue \o o1
  BY <1>3 DEF AddTarget
<1> HIDE DEF t
<1>5. /\ Forcing!Sound(dep_graph') /\ t \in DOMAIN dep_graph'.thunks
      /\ dep_graph'.updated_hashes = << >>
      /\ DOMAIN dep_graph.thunks \subseteq DOMAIN dep_graph'.thunks
      /\ Executables(dep_graph') = Executables(dep_graph) \cup N
      /\ IsFiniteSet(N) /\ \A x \in N : CanBeExecuted(x)
      /\ t \in DOMAIN dep_graph.thunks => Executables(dep_graph') = Executables(dep_graph)
  BY <1>1, <1>2, TargetKeeps DEF JobInv
<1> HIDE DEF N
<1>6. StillLoading'
  BY <1>1, <1>4, <1>5 DEF JobInv, StillLoading
<1>7. CASE t \in remaining_targets /\ UNCHANGED job_queue
  <2>1. t \in DOMAIN dep_graph.thunks
    BY <1>1, <1>7 DEF JobInv, StillLoading
  <2> QED
    BY <1>5, <1>6, <1>7, <2>1
<1>8. CASE \E o1 \in Orders(N) : job_queue' = job_queue \o o1
  <2>1. PICK o1 \in Orders(N) : job_queue' = job_queue \o o1
    BY <1>8
  <2>2. o1 \in Seq(N) /\ SeqRange(o1) = N
    BY <1>5, OrdersAreSeqs, OrderRange
  <2>3. SeqRange(job_queue') = SeqRange(job_queue) \cup N
    BY <2>1, <2>2, RangeConcat DEF Inv, CoordinatorTyped
  <2> QED
    BY <1>5, <1>6, <2>3
<1> QED
  BY <1>4, <1>7, <1>8

\* So loading a target keeps the invariant.
LEMMA AddTargetCovers ==
  ASSUME JobInv, Inv, AddTarget
  PROVE  JobInv'
<1>1. /\ Forcing!Sound(dep_graph') /\ StillLoading'
      /\ SeqRange(job_queue) \subseteq SeqRange(job_queue')
      /\ \A x \in SeqRange(job_queue') : x \in SeqRange(job_queue) \/ CanBeExecuted(x)
      /\ Executables(dep_graph') \subseteq Executables(dep_graph) \cup SeqRange(job_queue')
  BY TargetQueued
<1>2. UNCHANGED <<running_jobs, jobs, cache, faults>> /\ pc # "threw"
  BY DEF AddTarget
<1>3. HandsOutExecutables'
  BY <1>1, <1>2 DEF JobInv, HandsOutExecutables, InFlight
<1>4. CacheIsTrue'
  BY <1>2 DEF JobInv, CacheIsTrue
<1>5. Covered'
  BY <1>1, <1>2 DEF JobInv, Covered, InFlight, Happened
<1> QED
  BY <1>1, <1>3, <1>4, <1>5 DEF JobInv

\* The dispatching loop: the front of the queue leaves it for the graph or for an engine
\* (reductor.cc:204-296).
LEMMA DispatchCovers ==
  ASSUME JobInv, Inv, Forcing!KnownThunks, TakeCached \/ Execute \/ NotStarted \/ QueueEmpty
  PROVE  JobInv'
<1>1. job_queue \in Seq(SeqRange(job_queue)) /\ CoordinatorTyped
  BY DEF Inv, CoordinatorTyped
<1>2. job_queue # << >> => /\ SeqRange(job_queue) = SeqRange(Tail(job_queue)) \cup {Head(job_queue)}
                           /\ Tail(job_queue) \in Seq(SeqRange(Tail(job_queue)))
  <2>1. job_queue # << >> => SeqRange(job_queue) = SeqRange(Tail(job_queue)) \cup {Head(job_queue)}
    BY <1>1, RangeTail
  <2>2. job_queue # << >> => Tail(job_queue) \in Seq(SeqRange(job_queue))
    BY <1>1
  <2> QED
    BY <2>1, <2>2, SeqOfOwn
<1>3. CASE TakeCached
  <2> DEFINE h == Head(job_queue)
             q == Tail(job_queue)
  <2>1. job_queue # << >> /\ h \in DOMAIN cache
    BY <1>3 DEF TakeCached, Dispatching
  <2>2. /\ SeqRange(job_queue) = SeqRange(q) \cup {h} /\ q \in Seq(SeqRange(q))
    BY <1>2, <2>1
  <2>3. CanBeExecuted(h)
    BY <2>2 DEF JobInv, HandsOutExecutables
  <2>4. finalize_execution(h, Eval(h), q, "dispatch")
    BY <1>3, <2>1 DEF TakeCached, JobInv, CacheIsTrue
  <2>5. Forcing!PlainPrograms /\ Forcing!Sound(dep_graph) /\ pc # "threw"
    BY <1>3 DEF JobInv, TakeCached, Dispatching
  <2> HIDE DEF h, q
  <2>6. /\ Forcing!Sound(dep_graph')
        /\ \A x \in SeqRange(job_queue') :
              x \in SeqRange(q) \cup SeqRange(job_queue) \/ CanBeExecuted(x)
        /\ running_jobs' \subseteq running_jobs
        /\ pc' # "threw" => /\ SeqRange(q) \subseteq SeqRange(job_queue')
                            /\ Executables(dep_graph') \subseteq
                                  SeqRange(job_queue') \cup (Executables(dep_graph) \ {h})
    BY <1>1, <2>2, <2>3, <2>4, <2>5, FinalizeCovers
  <2>7. pc' # "load"
    BY <2>4 DEF finalize_execution
  <2>8. UNCHANGED <<jobs, cache, faults>>
    BY <1>3 DEF TakeCached
  <2>9. HandsOutExecutables'
    BY <2>2, <2>6, <2>8 DEF JobInv, HandsOutExecutables, InFlight
  <2>10. CacheIsTrue'
    BY <2>8 DEF JobInv, CacheIsTrue
  <2>11. Covered'
    <3> SUFFICES ASSUME pc' # "threw", ~ Happened("closed")
                 PROVE  Executables(dep_graph') \subseteq SeqRange(job_queue') \cup InFlight
      BY <2>8 DEF Covered, InFlight, Happened
    <3>1. Executables(dep_graph) \subseteq SeqRange(job_queue) \cup InFlight
      BY <2>5 DEF JobInv, Covered
    <3> QED
      BY <2>2, <2>6, <3>1
  <2> QED
    BY <2>6, <2>7, <2>9, <2>10, <2>11 DEF JobInv, StillLoading
<1>4. CASE Execute
  <2> DEFINE h == Head(job_queue)
             id == CHOOSE x \in JobId : x \notin DOMAIN jobs
  <2>1. job_queue # << >> /\ pc = "dispatch" /\ DOMAIN jobs # JobId
    BY <1>4 DEF Execute, Dispatching
  <2>2. SeqRange(job_queue) = SeqRange(Tail(job_queue)) \cup {h}
    BY <1>2, <2>1
  <2>3. id \notin DOMAIN jobs
    BY <2>1 DEF Inv, JobsTyped
  <2>4. PICK e : jobs' = [i \in DOMAIN jobs \cup {id} |->
                   IF i = id THEN [hash |-> h, engine |-> e, state |-> "open"] ELSE jobs[i]]
    BY <1>4 DEF Execute, StartJob
  <2>5. /\ UNCHANGED <<pc, dep_graph, cache, faults>> /\ job_queue' = Tail(job_queue)
        /\ running_jobs' = running_jobs \cup {h}
    BY <1>4 DEF Execute
  <2> HIDE DEF h, id
  <2>6. /\ DOMAIN jobs' = DOMAIN jobs \cup {id}
        /\ jobs'[id].hash = h /\ jobs'[id].state = "open" /\ "hash" \in DOMAIN jobs'[id]
        /\ \A i \in DOMAIN jobs : jobs'[i] = jobs[i]
    BY <2>3, <2>4
  <2>7. InFlight' = InFlight \cup {h}
    BY <2>6 DEF InFlight
  <2>8. HandsOutExecutables'
    BY <2>2, <2>5, <2>7 DEF JobInv, HandsOutExecutables
  <2>9. CacheIsTrue'
    BY <2>5, <2>6 DEF JobInv, CacheIsTrue
  <2>10. Covered'
    BY <2>1, <2>2, <2>5, <2>7 DEF JobInv, Covered, Happened
  <2> QED
    BY <2>1, <2>5, <2>8, <2>9, <2>10 DEF JobInv, StillLoading
<1>5. CASE NotStarted \/ QueueEmpty
  <2>1. /\ pc = "dispatch" /\ pc' \in {"poll", "threw"}
        /\ UNCHANGED <<dep_graph, cache, faults, jobs, running_jobs, job_queue>>
    BY <1>5 DEF NotStarted, QueueEmpty, Dispatching
  <2> QED
    BY <2>1 DEF JobInv, HandsOutExecutables, CacheIsTrue, StillLoading, Covered, InFlight, Happened
<1> QED
  BY <1>3, <1>4, <1>5

\* Late jobs are queued again; whether reduce() ends or goes on changes nothing else.
LEMMA AfterPollCovers ==
  ASSUME JobInv, Inv, NEW exit, AfterPoll(exit), pc \in {"poll", "serviced"}
  PROVE  JobInv'
<1>1. PICK late \in SUBSET running_jobs : \E dup \in Orders(late) : job_queue' = job_queue \o dup
  BY DEF AfterPoll
<1>2. PICK dup \in Orders(late) : job_queue' = job_queue \o dup
  BY <1>1
<1>3. dup \in Seq(late) /\ SeqRange(dup) = late
  BY FS_Subset, OrdersAreSeqs, OrderRange DEF Inv, CoordinatorTyped
<1>4. SeqRange(job_queue') = SeqRange(job_queue) \cup late
  BY <1>2, <1>3, RangeConcat DEF Inv, CoordinatorTyped
<1>5. /\ pc' \in {"returned", "threw", "dispatch"}
      /\ UNCHANGED <<dep_graph, cache, jobs, running_jobs, faults>>
  BY DEF AfterPoll
<1>6. HandsOutExecutables'
  BY <1>4, <1>5 DEF JobInv, HandsOutExecutables, InFlight
<1>7. Covered'
  BY <1>4, <1>5 DEF JobInv, Covered, InFlight, Happened
<1> QED
  BY <1>5, <1>6, <1>7 DEF JobInv, StillLoading, CacheIsTrue

\* The invariant holds before the first target is read.
LEMMA JobInvInit == Forcing!PlainPrograms /\ Init => JobInv
<1> SUFFICES ASSUME Forcing!PlainPrograms, Init PROVE JobInv
  OBVIOUS
<1>1. Forcing!Sound(dep_graph)
  BY StartIsSound DEF Init
<1>2. HandsOutExecutables
  BY DEF Init, HandsOutExecutables, SeqRange, InFlight
<1>3. CacheIsTrue
  BY DEF Init, CacheIsTrue
<1>4. StillLoading
  BY DEF Init, StillLoading, EmptyGraph
<1>5. Covered
  BY DEF Init, Covered, Executables, EmptyGraph
<1> QED
  BY <1>1, <1>2, <1>3, <1>4, <1>5 DEF JobInv

\* Every action preserves it.
LEMMA JobInvNext == Inv /\ JobInv /\ Forcing!KnownThunks /\ [Next]_vars => JobInv'
<1> SUFFICES ASSUME Inv, JobInv, Forcing!KnownThunks, [Next]_vars PROVE JobInv'
  OBVIOUS
<1>1. CASE UNCHANGED vars
  BY <1>1 DEF vars, JobInv, HandsOutExecutables, CacheIsTrue, StillLoading, Covered, InFlight,
                  Happened
<1>2. CASE AddTarget
  BY <1>2, AddTargetCovers
<1>3. CASE TakeCached \/ Execute \/ NotStarted \/ QueueEmpty
  BY <1>3, DispatchCovers
<1>4. CASE PollSuccess \/ PollTimeout \/ PollExit
  BY <1>4, AfterPollCovers DEF PollSuccess, PollTimeout, PollExit
<1>5. ASSUME NEW id \in DOMAIN jobs, Settled(id)
      PROVE  JobInv'
  BY <1>5, AnsweredCovers
<1>6. CASE QuietStep
  BY <1>6, QuietCovers
<1> QED
  BY <1>1, <1>2, <1>3, <1>4, <1>5, <1>6, StepKinds

\* No job is forgotten: in every program whose thunks return values, or one thunk that
\* reads main outputs only, every executable thunk of the graph is in the queue or in
\* flight, through duplicates, retries, cached results and renamed thunks
\* (reductor.cc:99-107, 118-165, 180-199, 204-296 and graph.cc:102-154).
THEOREM JobsAreNotForgotten ==
  Forcing!PlainPrograms => (Spec /\ []Forcing!KnownThunks => []NoJobForgotten)
<1>1. JobInv => NoJobForgotten
  BY DEF JobInv, Covered, NoJobForgotten, Executables
<1> QED
  BY <1>1, InvInit, InvNext, JobInvInit, JobInvNext, PTL DEF Spec

(***************************************************************************)
(* What the Reductor does to its graph                                     *)
(***************************************************************************)

\* What has been handed out and has not come back.
HandedOutNow == SeqRange(job_queue) \cup running_jobs

\* A result of h comes in; q is what is left of the queue.
Finalizes(h, q, at) ==
    /\ finalize_execution(h, Eval(h), q, at)
    /\ CanBeExecuted(h)
    /\ at \in {"dispatch", "serviced"} /\ pc # "threw"
    /\ q \in Seq(SeqRange(q))
    /\ SeqRange(q) \subseteq SeqRange(job_queue)
    /\ SeqRange(job_queue) \subseteq SeqRange(q) \cup {h}
    /\ pc # "load" /\ UNCHANGED loaded
    /\ DOMAIN cache \subseteq DOMAIN cache' /\ h \in DOMAIN cache'
    /\ InFlight' \subseteq InFlight

\* Nothing happens to the graph, nothing that was handed out is dropped, and nothing is
\* queued that was not known to be running or in flight.
GraphStays ==
    /\ UNCHANGED <<dep_graph, remaining_targets, loaded>>
    /\ pc = "threw" => pc' = "threw"
    /\ pc = "load" <=> pc' = "load"
    /\ DOMAIN cache \subseteq DOMAIN cache'
    /\ HandedOutNow \subseteq HandedOutNow'
    /\ pc' = "threw" => HandedOutNow' = HandedOutNow
    /\ HandedOutNow' \cup InFlight' \subseteq HandedOutNow \cup InFlight

\* An answer is a result or leaves the graph alone (reductor.cc:114-165).
LEMMA AnsweredSteps ==
  ASSUME Inv, JobInv, NEW id \in DOMAIN jobs, Settled(id)
  PROVE  (\E h, q, at : Finalizes(h, q, at)) \/ GraphStays
<1>0. job_queue \in Seq(SeqRange(job_queue))
  BY DEF Inv, CoordinatorTyped
<1>1. CASE RemoteSuccess(id) \/ LocalSuccess(id)
  <2> DEFINE h == jobs[id].hash
  <2>1. CanBeExecuted(h)
    BY DEF JobInv, HandsOutExecutables, InFlight
  <2>2. finalize_execution(h, Eval(h), job_queue, "serviced") /\ pc \in {"poll", "serviced"}
    BY <1>1 DEF RemoteSuccess, LocalSuccess, Listening, LooksAt, Polling, JobInv, CacheIsTrue
  <2>3. UNCHANGED loaded /\ DOMAIN cache \subseteq DOMAIN cache' /\ h \in DOMAIN cache'
    BY <1>1 DEF RemoteSuccess, LocalSuccess, LooksAt, JobInv, CacheIsTrue
  <2>4. InFlight' \subseteq InFlight
    BY <1>1, ClosedLeaves DEF RemoteSuccess, LocalSuccess
  <2> HIDE DEF h
  <2>5. Finalizes(h, job_queue, "serviced")
    BY <1>0, <2>1, <2>2, <2>3, <2>4 DEF Finalizes
  <2> QED
    BY <2>5
<1>2. CASE RemoteFailure(id) \/ SocketFailure(id)
  <2>1. /\ UNCHANGED <<dep_graph, remaining_targets, loaded, cache, running_jobs>>
        /\ job_queue' = Append(job_queue, jobs[id].hash)
    BY <1>2 DEF RemoteFailure, SocketFailure, Retry
  <2>2. pc \in {"poll", "serviced"} /\ pc' = "serviced"
    BY <1>2 DEF RemoteFailure, SocketFailure, Listening, Polling, Retry
  <2>3. SeqRange(job_queue') = SeqRange(job_queue) \cup {jobs[id].hash}
    BY <1>0, <2>1, RangeAppend
  <2>4. InFlight' \subseteq InFlight /\ jobs[id].hash \in InFlight
    BY <1>2, ClosedLeaves DEF RemoteFailure, SocketFailure
  <2> QED
    BY <2>1, <2>2, <2>3, <2>4 DEF GraphStays, HandedOutNow
<1>3. CASE ConnectionClosed(id) \/ ExecutionFailure(id)
  <2>1. /\ UNCHANGED <<dep_graph, remaining_targets, loaded, cache, running_jobs, job_queue>>
        /\ pc \in {"poll", "serviced"} /\ pc' \in {"serviced", "threw"}
    BY <1>3 DEF ConnectionClosed, NothingHeard, ExecutionFailure, Listening, Polling
  <2>2. InFlight' \subseteq InFlight
    BY <1>3, ClosedLeaves DEF ConnectionClosed, ExecutionFailure
  <2> QED
    BY <2>1, <2>2 DEF GraphStays, HandedOutNow
<1> QED
  BY <1>1, <1>2, <1>3 DEF Settled

\* So is a turn of the dispatching loop (reductor.cc:204-296).
LEMMA DispatchSteps ==
  ASSUME Inv, JobInv, TakeCached \/ Execute \/ NotStarted \/ QueueEmpty
  PROVE  (\E h, q, at : Finalizes(h, q, at)) \/ GraphStays
<1>1. job_queue \in Seq(SeqRange(job_queue))
  BY DEF Inv, CoordinatorTyped
<1>2. job_queue # << >> => /\ SeqRange(job_queue) = SeqRange(Tail(job_queue)) \cup {Head(job_queue)}
                           /\ Tail(job_queue) \in Seq(SeqRange(Tail(job_queue)))
  <2>1. job_queue # << >> => SeqRange(job_queue) = SeqRange(Tail(job_queue)) \cup {Head(job_queue)}
    BY <1>1, RangeTail
  <2>2. job_queue # << >> => Tail(job_queue) \in Seq(SeqRange(job_queue))
    BY <1>1
  <2> QED
    BY <2>1, <2>2, SeqOfOwn
<1>3. CASE TakeCached
  <2> DEFINE h == Head(job_queue)
             q == Tail(job_queue)
  <2>1. /\ job_queue # << >> /\ h \in DOMAIN cache /\ pc = "dispatch"
        /\ UNCHANGED <<loaded, cache>> /\ InFlight' = InFlight
    BY <1>3 DEF TakeCached, Dispatching, InFlight
  <2>2. SeqRange(job_queue) = SeqRange(q) \cup {h} /\ q \in Seq(SeqRange(q))
    BY <1>2, <2>1
  <2>3. CanBeExecuted(h)
    BY <2>2 DEF JobInv, HandsOutExecutables
  <2>4. finalize_execution(h, Eval(h), q, "dispatch")
    BY <1>3, <2>1 DEF TakeCached, JobInv, CacheIsTrue
  <2> HIDE DEF h, q
  <2>5. Finalizes(h, q, "dispatch")
    BY <2>1, <2>2, <2>3, <2>4 DEF Finalizes
  <2> QED
    BY <2>5
<1>4. CASE Execute
  <2>1. /\ UNCHANGED <<pc, dep_graph, remaining_targets, loaded, cache>>
        /\ job_queue' = Tail(job_queue) /\ job_queue # << >> /\ pc = "dispatch"
        /\ running_jobs' = running_jobs \cup {Head(job_queue)}
    BY <1>4 DEF Execute, Dispatching
  <2>2. InFlight' \subseteq InFlight \cup {Head(job_queue)}
    <3> DEFINE id == CHOOSE x \in JobId : x \notin DOMAIN jobs
               h  == Head(job_queue)
    <3>1. PICK e : jobs' = [i \in DOMAIN jobs \cup {id} |->
                     IF i = id THEN [hash |-> h, engine |-> e, state |-> "open"] ELSE jobs[i]]
      BY <1>4 DEF Execute, StartJob
    <3> HIDE DEF id, h
    <3>2. \A i \in DOMAIN jobs' : jobs'[i].hash = h \/ (i \in DOMAIN jobs /\ jobs'[i] = jobs[i])
      BY <3>1
    <3> QED
      BY <3>2 DEF InFlight, h
  <2> QED
    BY <1>2, <2>1, <2>2 DEF GraphStays, HandedOutNow
<1>5. CASE NotStarted \/ QueueEmpty
  <2>1. /\ UNCHANGED <<dep_graph, remaining_targets, loaded, cache, running_jobs, job_queue>>
        /\ pc = "dispatch" /\ pc' \in {"poll", "threw"} /\ InFlight' = InFlight
    BY <1>5 DEF NotStarted, QueueEmpty, Dispatching, InFlight
  <2> QED
    BY <2>1 DEF GraphStays, HandedOutNow
<1> QED
  BY <1>3, <1>4, <1>5

\* The graph changes when a target is loaded and when a result comes in, and nothing
\* that was handed out is dropped otherwise (reductor.cc:99-107, 180-199).
LEMMA GraphSteps ==
  ASSUME Inv, JobInv, [Next]_vars
  PROVE  AddTarget \/ (\E h, q, at : Finalizes(h, q, at)) \/ GraphStays
<1>1. CASE UNCHANGED vars
  BY <1>1 DEF vars, GraphStays, HandedOutNow, SeqRange, InFlight
<1>2. CASE TakeCached \/ Execute \/ NotStarted \/ QueueEmpty
  BY <1>2, DispatchSteps
<1>3. ASSUME NEW exit, AfterPoll(exit), pc \in {"poll", "serviced"}
      PROVE  GraphStays
  <2>1. PICK late \in SUBSET running_jobs : \E dup \in Orders(late) : job_queue' = job_queue \o dup
    BY <1>3 DEF AfterPoll
  <2>2. PICK dup \in Orders(late) : job_queue' = job_queue \o dup
    BY <2>1
  <2>3. dup \in Seq(late) /\ SeqRange(dup) = late
    BY FS_Subset, OrdersAreSeqs, OrderRange DEF Inv, CoordinatorTyped
  <2>4. SeqRange(job_queue') = SeqRange(job_queue) \cup late
    BY <2>2, <2>3, RangeConcat DEF Inv, CoordinatorTyped
  <2>5. /\ UNCHANGED <<dep_graph, remaining_targets, loaded, cache, running_jobs>>
        /\ pc' \in {"returned", "threw", "dispatch"} /\ InFlight' = InFlight
    BY <1>3 DEF AfterPoll, InFlight
  <2> QED
    BY <1>3, <2>4, <2>5 DEF GraphStays, HandedOutNow
<1>4. CASE PollSuccess \/ PollTimeout \/ PollExit
  BY <1>3, <1>4 DEF PollSuccess, PollTimeout, PollExit
<1>5. ASSUME NEW id \in DOMAIN jobs, Settled(id)
      PROVE  (\E h, q, at : Finalizes(h, q, at)) \/ GraphStays
  BY <1>5, AnsweredSteps
<1>6. CASE QuietStep
  <2>1. QuietChange /\ QuietJobs /\ InFlight' = InFlight
    BY <1>6, QuietChanges, QuietInFlight
  <2>2. DOMAIN cache \subseteq DOMAIN cache'
    BY <2>1 DEF QuietJobs
  <2> QED
    BY <2>1, <2>2 DEF QuietChange, GraphStays, HandedOutNow
<1> QED
  BY <1>1, <1>2, <1>4, <1>5, <1>6, StepKinds

(***************************************************************************)
(* What is executable is queued or running                                 *)
(***************************************************************************)

\* Executable thunks go by their own hash and have been handed out.
HandInv == /\ Forcing!OwnContent(dep_graph)
           /\ pc # "threw" => Executables(dep_graph) \subseteq HandedOutNow

\* A result: its thunk leaves the graph, and what becomes executable is queued.
LEMMA FinalizesHands ==
  ASSUME Inv, JobInv, Forcing!KnownThunks, HandInv, NEW h, NEW q, NEW at, Finalizes(h, q, at)
  PROVE  HandInv'
<1>1. Forcing!PlainPrograms /\ Forcing!Sound(dep_graph) /\ CoordinatorTyped
  BY DEF JobInv, Inv
<1>2. /\ pc' # "threw" => /\ SeqRange(q) \subseteq SeqRange(job_queue')
                          /\ Executables(dep_graph') \subseteq
                                SeqRange(job_queue') \cup (Executables(dep_graph) \ {h})
  BY <1>1, FinalizeCovers DEF Finalizes
<1>3. running_jobs' = running_jobs \ {h}
  BY DEF Finalizes, finalize_execution
<1>4. pc' # "threw" => Executables(dep_graph') \subseteq HandedOutNow'
  BY <1>2, <1>3 DEF HandInv, HandedOutNow, Finalizes
<1>5. Forcing!OwnContent(dep_graph')
  <2>1. CASE UNCHANGED dep_graph
    BY <2>1 DEF HandInv
  <2>2. CASE /\ h \in DOMAIN dep_graph.thunks /\ ~ ForceThrows(dep_graph, h, Eval(h))
             /\ \E r \in force_thunk(dep_graph, h, Eval(h)) : dep_graph' = r.graph
    BY <1>1, <2>2, ResultKeeps DEF HandInv, Finalizes
  <2> QED
    BY <2>1, <2>2 DEF Finalizes, finalize_execution
<1> QED
  BY <1>4, <1>5 DEF HandInv

\* The constructor: what a target makes executable is queued with it.
LEMMA AddTargetHands ==
  ASSUME Inv, JobInv, HandInv, AddTarget
  PROVE  HandInv'
<1>1. Executables(dep_graph') \subseteq Executables(dep_graph) \cup SeqRange(job_queue')
  BY TargetQueued
<1>2. SeqRange(job_queue) \subseteq SeqRange(job_queue')
  BY TargetQueued
<1>3. UNCHANGED running_jobs /\ pc # "threw"
  BY DEF AddTarget
<1>4. Forcing!OwnContent(dep_graph')
  <2> DEFINE t == TargetHashes[loaded + 1]
  <2>1. dep_graph.updated_hashes = << >> /\ dep_graph' = add_thunk(dep_graph, t) /\ t \in Thunk
    BY ReductorAssumption DEF AddTarget, JobInv, StillLoading, Inv, CountersTyped
  <2> HIDE DEF t
  <2> QED
    BY <2>1, TargetKeeps DEF JobInv, HandInv
<1> QED
  BY <1>1, <1>2, <1>3, <1>4 DEF HandInv, HandedOutNow

\* It holds before the first target is read.
LEMMA HandInvInit == Init => HandInv
<1> SUFFICES ASSUME Init PROVE HandInv
  OBVIOUS
<1>1. DOMAIN dep_graph.thunks = {}
  BY DEF Init, EmptyGraph
<1> QED
  BY <1>1, StartIsSound DEF HandInv, Executables, Init

\* Every action preserves it.
LEMMA HandInvNext == Inv /\ JobInv /\ Forcing!KnownThunks /\ HandInv /\ [Next]_vars => HandInv'
<1> SUFFICES ASSUME Inv, JobInv, Forcing!KnownThunks, HandInv, [Next]_vars PROVE HandInv'
  OBVIOUS
<1>1. CASE AddTarget
  BY <1>1, AddTargetHands
<1>2. ASSUME NEW h, NEW q, NEW at, Finalizes(h, q, at)
      PROVE  HandInv'
  BY <1>2, FinalizesHands
<1>3. CASE GraphStays
  BY <1>3 DEF GraphStays, HandInv
<1> QED
  BY <1>1, <1>2, <1>3, GraphSteps

(***************************************************************************)
(* No reference is lost                                                    *)
(***************************************************************************)

\* The graph is complete, where forcing makes no two thunks one.
RefInv == Forcing!AllTagsReturned /\ Forcing!Complete(dep_graph)

\* It holds before the first target is read.
LEMMA RefInvInit == Forcing!AllTagsReturned /\ Init => RefInv
  BY StartIsSound DEF Init, RefInv

\* A result finds all it looks up and loses no reference.
LEMMA ResultIsComplete ==
  ASSUME Forcing!PlainPrograms, Forcing!KnownThunks, Forcing!NothingMergesNow,
         Forcing!AllTagsReturned, Forcing!Sound(dep_graph), Forcing!Complete(dep_graph),
         NEW h \in DOMAIN dep_graph.thunks, CanBeExecuted(h)
  PROVE  /\ ~ ForceThrows(dep_graph, h, Eval(h))
         /\ \A r \in force_thunk(dep_graph, h, Eval(h)) : Forcing!Complete(r.graph)
<1>1. Forcing!ThunkShapes /\ Forcing!CanBeExecuted(h) /\ Forcing!PlainResult(h)
  BY PlainThunk
<1>2. Forcing!TagsReturned(h) /\ Forcing!NothingMerges(dep_graph, h)
  BY <1>1 DEF Forcing!KnownThunks, Forcing!AllTagsReturned, Forcing!NothingMergesNow
<1>3. /\ ~ Forcing!ForceThrows(dep_graph, h, Eval(h))
      /\ \A r \in Forcing!force_thunk(dep_graph, h, Eval(h)) : Forcing!Complete(r.graph)
  BY <1>1, <1>2, InstanceAssumptions, Forcing!ForceComplete
<1> QED
  BY <1>3, SameForceThrows, SameForceThunk

\* Every action preserves it, as long as no thunk that may be forced merges two.
LEMMA RefInvNext ==
  Inv /\ JobInv /\ Forcing!KnownThunks /\ Forcing!NothingMergesNow /\ RefInv /\ [Next]_vars
    => RefInv'
<1> SUFFICES ASSUME Inv, JobInv, Forcing!KnownThunks, Forcing!NothingMergesNow,
                    Forcing!AllTagsReturned, Forcing!Complete(dep_graph), [Next]_vars
             PROVE  Forcing!Complete(dep_graph')
  BY DEF RefInv
<1>0. Forcing!PlainPrograms /\ Forcing!Sound(dep_graph)
  BY DEF JobInv
<1>1. CASE AddTarget
  <2> DEFINE t == TargetHashes[loaded + 1]
  <2>1. dep_graph.updated_hashes = << >> /\ dep_graph' = add_thunk(dep_graph, t) /\ t \in Thunk
    BY <1>1, ReductorAssumption DEF AddTarget, JobInv, StillLoading, Inv, CountersTyped
  <2> HIDE DEF t
  <2> QED
    BY <1>0, <2>1, TargetKeeps
<1>2. ASSUME NEW h, NEW q, NEW at, Finalizes(h, q, at)
      PROVE  Forcing!Complete(dep_graph')
  <2>1. CASE UNCHANGED dep_graph
    BY <2>1
  <2>2. CASE /\ h \in DOMAIN dep_graph.thunks
             /\ \E r \in force_thunk(dep_graph, h, Eval(h)) : dep_graph' = r.graph
    BY <1>0, <1>2, <2>2, ResultIsComplete DEF Finalizes
  <2> QED
    BY <1>2, <2>1, <2>2 DEF Finalizes, finalize_execution
<1>3. CASE GraphStays
  BY <1>3 DEF GraphStays
<1> QED
  BY <1>1, <1>2, <1>3, GraphSteps

(***************************************************************************)
(* What it has handed out, and that its lookups succeed                    *)
(***************************************************************************)

\* Until reduce() throws, nothing ready is forgotten and nothing stale is handed out:
\* what is queued or running, as far as the graph knows it, are the executable thunks
\* of the graph, each under the hash of its present content, whatever was duplicated,
\* retried, lost with its connection or renamed (graph.cc:124-145, reductor.cc:180-199).
THEOREM ReductorHandsOutReady ==
  Forcing!PlainPrograms => (Spec /\ []Forcing!KnownThunks => [](pc # "threw" => Forcing!HandedOut))
<1>1. ASSUME JobInv, HandInv, pc # "threw"
      PROVE  Forcing!HandedOut
  <2>1. \A h \in DOMAIN dep_graph.thunks : CanBeExecuted(dep_graph.thunks[h]) <=> CanBeExecuted(h)
    BY <1>1, NamesTellReady DEF JobInv
  <2>2. PendingThunks = Executables(dep_graph)
    BY <1>1, <2>1 DEF JobInv, HandsOutExecutables, HandInv, HandedOutNow, PendingThunks, Executables
  <2>3. \A h \in PendingThunks : dep_graph.thunks[h] = h
    BY <1>1, <2>1, <2>2, SameCanBeExecuted DEF HandInv, Forcing!OwnContent, Executables
  <2> QED
    BY <2>2, <2>3, SameCanBeExecuted DEF Forcing!HandedOut, Executables
<1>2. JobInv /\ HandInv => (pc # "threw" => Forcing!HandedOut)
  BY <1>1
<1> QED
  BY <1>2, InvInit, InvNext, JobInvInit, JobInvNext, HandInvInit, HandInvNext, PTL DEF Spec

\* No reference is lost: who waits for a thunk is listed as its referrer, through every
\* renaming, as long as no two thunks of the graph become one (graph.cc:47, 98).
THEOREM ReductorKeepsReferences ==
  Forcing!PlainPrograms /\ Forcing!AllTagsReturned =>
    (Spec /\ []Forcing!KnownThunks /\ []Forcing!NothingMergesNow => []Forcing!NoLostReference)
<1>1. RefInv => Forcing!NoLostReference
  BY SameDeps DEF RefInv, Forcing!Complete, Forcing!NoLostReference
<1> QED
  BY <1>1, InvInit, InvNext, JobInvInit, JobInvNext, RefInvInit, RefInvNext, PTL DEF Spec

\* The result of a job that was handed out finds every entry it looks up: no at() of
\* graph.cc:89-90 and 124-125 and no lookup of graph.cc:161 throws.
THEOREM ReductorForcesSafely ==
  Forcing!PlainPrograms /\ Forcing!AllTagsReturned =>
    (Spec /\ []Forcing!KnownThunks /\ []Forcing!NothingMergesNow => []Forcing!ForcingNeverThrows)
<1>1. JobInv /\ Forcing!KnownThunks /\ Forcing!NothingMergesNow /\ RefInv
        => Forcing!ForcingNeverThrows
  <2> SUFFICES ASSUME Forcing!AllTagsReturned, JobInv, Forcing!KnownThunks,
                      Forcing!NothingMergesNow, Forcing!Complete(dep_graph),
                      NEW h \in PendingThunks
               PROVE  ~ Forcing!ForceThrows(dep_graph, h, Eval(h))
    BY DEF RefInv, Forcing!ForcingNeverThrows
  <2>1. h \in DOMAIN dep_graph.thunks /\ CanBeExecuted(h)
    BY DEF PendingThunks, JobInv, HandsOutExecutables
  <2>2. ~ ForceThrows(dep_graph, h, Eval(h))
    BY <2>1, ResultIsComplete DEF JobInv
  <2> QED
    BY <2>2, SameForceThrows
<1> QED
  BY <1>1, InvInit, InvNext, JobInvInit, JobInvNext, RefInvInit, RefInvNext, PTL DEF Spec

(***************************************************************************)
(* The targets: what the Reductor has loaded, waits for and has answered   *)
(***************************************************************************)

\* Names in the two maps of hashes, in the instance and here.
LEMMA SameNames ==
  ASSUME NEW g, NEW h
  PROVE  /\ Forcing!updated_hash(g, h) = updated_hash(g, h)
         /\ Forcing!original_hash(g, h) = original_hash(g, h)
  BY Zenon DEF Forcing!updated_hash, updated_hash, Forcing!original_hash, original_hash

\* A graph whose maps are functions, so that entering nothing leaves it as it is.
IsMaps(g) == /\ g = [field \in DOMAIN g |-> g[field]]
             /\ g.thunks = [x \in DOMAIN g.thunks |-> g.thunks[x]]
             /\ g.referencing_thunks =
                   [x \in DOMAIN g.referencing_thunks |-> g.referencing_thunks[x]]

\* Until all targets are loaded, nothing has been renamed and every target that has been
\* loaded remains.
LoadingTargets ==
    pc = "load" => /\ IsMaps(dep_graph) /\ dep_graph.original_hashes = << >>
                   /\ remaining_targets = Targets \ Unloaded

\* After that, the graph leads from each remaining target to its thunk and back.
FollowsTargets ==
    pc # "load" => Unloaded = {} /\ Forcing!Followed(dep_graph, remaining_targets)

\* A target that was loaded and no longer remains has its answer in the cache.
AnswersCached ==
    /\ remaining_targets \subseteq Targets
    /\ \A t \in Targets \ (Unloaded \cup remaining_targets) : FinalThunk(t) \in DOMAIN cache

TargetInv == LoadingTargets /\ FollowsTargets /\ AnswersCached

\* What add_thunk leaves alone; a thunk that the graph has changes nothing
\* (graph.cc:18-23).
LEMMA AddThunkLeaves ==
  ASSUME NEW g, IsGraph(g), g.updated_hashes = << >>, IsMaps(g), NEW t,
         NEW g1, g1 = add_thunk(g, t)
  PROVE  /\ g1.original_hashes = g.original_hashes /\ IsMaps(g1)
         /\ t \in DOMAIN g.thunks => g1 = g
<1> DEFINE L  == LoadedThunks(g, t)
           RB(y) == { AddedHash(g, d) : d \in Deps(y) }
           th == [x \in DOMAIN g.thunks \cup L |->
                        IF x \in L THEN LoadedContent(g, x) ELSE g.thunks[x]]
           rt == [x \in DOMAIN g.referencing_thunks \cup (L \cup UNION { RB(y) : y \in L }) |->
                    (IF x \in DOMAIN g.referencing_thunks THEN g.referencing_thunks[x] ELSE {})
                       \cup { y \in L : x \in RB(y) }]
           vd == g.value_dependencies \cup UNION { ValueDeps(y) : y \in L }
<1>1. g1 = [g EXCEPT !.thunks = th, !.referencing_thunks = rt, !.value_dependencies = vd]
  BY Zenon DEF add_thunk
<1>2. DOMAIN g = {"thunks", "referencing_thunks", "value_dependencies", "original_hashes",
                  "updated_hashes"}
  BY DEF IsGraph, EmptyGraph
<1>3. th = [x \in DOMAIN th |-> th[x]] /\ rt = [x \in DOMAIN rt |-> rt[x]]
  OBVIOUS
<1>4. t \in DOMAIN g.thunks => th = g.thunks /\ rt = g.referencing_thunks
                               /\ vd = g.value_dependencies
  <2> SUFFICES ASSUME t \in DOMAIN g.thunks
               PROVE  th = g.thunks /\ rt = g.referencing_thunks /\ vd = g.value_dependencies
    OBVIOUS
  <2>1. L = {}
    BY DEF LoadedThunks, LeastClosed, AddedHash, updated_hash
  <2> HIDE DEF L
  <2>2. th = g.thunks
    BY <2>1 DEF IsMaps
  <2>3. rt = [x \in DOMAIN g.referencing_thunks |-> g.referencing_thunks[x]]
    BY <2>1
  <2>4. vd = g.value_dependencies
    BY <2>1
  <2> HIDE DEF th, rt, vd
  <2>5. rt = g.referencing_thunks
    BY <2>3, Zenon DEF IsMaps
  <2> QED
    BY <2>2, <2>4, <2>5
<1> HIDE DEF th, rt, vd
<1>5. /\ DOMAIN g1 = DOMAIN g /\ g1 = [field \in DOMAIN g1 |-> g1[field]]
      /\ g1.thunks = th /\ g1.referencing_thunks = rt /\ g1.value_dependencies = vd
      /\ g1.original_hashes = g.original_hashes /\ g1.updated_hashes = g.updated_hashes
  BY <1>1, <1>2
<1>6. t \in DOMAIN g.thunks => g1 = g
  <2> SUFFICES ASSUME t \in DOMAIN g.thunks PROVE g1 = g
    OBVIOUS
  <2>1. \A field \in DOMAIN g : g1[field] = g[field]
    BY <1>2, <1>4, <1>5
  <2>2. g = [field \in DOMAIN g |-> g[field]]
    BY DEF IsMaps
  <2> QED
    BY <1>5, <2>1, <2>2
<1> QED
  BY <1>3, <1>5, <1>6 DEF IsMaps

\* The constructor's loop turns to the next target (reductor.cc:99-107).
LEMMA LoadsNext ==
  ASSUME Inv, JobInv, TargetInv, AddTarget, NEW t, t = TargetHashes[loaded + 1]
  PROVE  /\ pc = "load" /\ t \in Targets /\ t \in Thunk
         /\ dep_graph' = add_thunk(dep_graph, t)
         /\ Unloaded' = Unloaded \ {t}
         /\ remaining_targets' = remaining_targets \cup {t}
         /\ remaining_targets' = Targets \ Unloaded'
         /\ remaining_targets' \subseteq DOMAIN dep_graph'.thunks
         /\ dep_graph'.updated_hashes = << >> /\ dep_graph'.original_hashes = << >>
         /\ IsMaps(dep_graph')
         /\ pc' # "load" => Unloaded' = {}
<1>1. pc = "load" /\ loaded < Len(TargetHashes) /\ loaded \in Nat /\ loaded' = loaded + 1
  BY ReductorAssumption DEF AddTarget, Inv, CountersTyped
<1>2. t \in Targets /\ t \in Thunk
  BY <1>1, ReductorAssumption DEF Targets, SeqRange
<1>3. dep_graph' = add_thunk(dep_graph, t)
  BY DEF AddTarget
<1>4. { TargetHashes[i] : i \in 1 .. loaded + 1 } = { TargetHashes[i] : i \in 1 .. loaded } \cup {t}
  <2>1. 1 .. loaded + 1 = (1 .. loaded) \cup {loaded + 1}
    BY <1>1
  <2> QED
    BY <2>1
<1>5. Unloaded' = Unloaded \ {t}
  BY <1>1, <1>4 DEF Unloaded
<1>6. dep_graph.updated_hashes = << >> /\ remaining_targets \subseteq DOMAIN dep_graph.thunks
  BY <1>1 DEF JobInv, StillLoading
<1>7. remaining_targets' = remaining_targets \cup {t}
  <2>1. AddedHash(dep_graph, t) = t
    BY <1>6 DEF AddedHash, updated_hash
  <2> QED
    BY <2>1 DEF AddTarget
<1>8. remaining_targets = Targets \ Unloaded /\ IsMaps(dep_graph)
      /\ dep_graph.original_hashes = << >>
  BY <1>1 DEF TargetInv, LoadingTargets
<1>9. remaining_targets' = Targets \ Unloaded'
  BY <1>2, <1>5, <1>7, <1>8
<1>10. /\ t \in DOMAIN dep_graph'.thunks /\ dep_graph'.updated_hashes = << >>
       /\ DOMAIN dep_graph.thunks \subseteq DOMAIN dep_graph'.thunks
  BY <1>2, <1>3, <1>6, TargetKeeps DEF JobInv
<1>11. dep_graph'.original_hashes = << >> /\ IsMaps(dep_graph')
  BY <1>3, <1>6, <1>8, AddThunkLeaves DEF Inv, CoordinatorTyped
<1>12. pc' # "load" => Unloaded' = {}
  <2> SUFFICES ASSUME pc' # "load" PROVE Unloaded' = {}
    OBVIOUS
  <2>1. loaded' = Len(TargetHashes)
    BY DEF AddTarget
  <2> QED
    BY <2>1, ReductorAssumption DEF Unloaded, Targets, SeqRange
<1> QED
  BY <1>1, <1>2, <1>3, <1>5, <1>6, <1>7, <1>9, <1>10, <1>11, <1>12

\* Loading a target keeps track of it.
LEMMA AddTargetFollows ==
  ASSUME Inv, JobInv, TargetInv, AddTarget
  PROVE  TargetInv'
<1> DEFINE t == TargetHashes[loaded + 1]
<1> HIDE DEF t
<1>1. /\ remaining_targets' = Targets \ Unloaded'
      /\ remaining_targets' \subseteq DOMAIN dep_graph'.thunks
      /\ dep_graph'.updated_hashes = << >> /\ dep_graph'.original_hashes = << >>
      /\ IsMaps(dep_graph')
      /\ pc' # "load" => Unloaded' = {}
  BY LoadsNext DEF t
<1>2. \A h : /\ Forcing!updated_hash(dep_graph', h) = h
             /\ Forcing!original_hash(dep_graph', h) = h
  BY <1>1, SameNames DEF updated_hash, original_hash
<1>3. FollowsTargets'
  BY <1>1, <1>2 DEF FollowsTargets, Forcing!Followed
<1>4. Unloaded' \subseteq Targets
  BY DEF Unloaded
<1> QED
  BY <1>1, <1>3, <1>4 DEF TargetInv, LoadingTargets, AnswersCached

\* What a result of a thunk of the graph does to the targets (graph.cc:102-154).
LEMMA ResultFollows ==
  ASSUME JobInv, RefInv, Forcing!KnownThunks, Forcing!NothingMergesNow,
         Forcing!NothingComesBackNow, NEW h \in DOMAIN dep_graph.thunks, CanBeExecuted(h),
         NEW T \in SUBSET Targets, Forcing!Followed(dep_graph, T),
         NEW r \in force_thunk(dep_graph, h, Eval(h)), NEW left,
         left = IF Eval(h)[1].hash \in Value THEN T \ {original_hash(dep_graph, h)} ELSE T
  PROVE  /\ Forcing!Followed(r.graph, left)
         /\ \A t \in Targets \ left : updated_hash(r.graph, t) = updated_hash(dep_graph, t)
         /\ Eval(h)[1].hash \in Value => original_hash(r.graph, h) = original_hash(dep_graph, h)
<1>1. Forcing!ThunkShapes /\ Forcing!CanBeExecuted(h) /\ Forcing!PlainResult(h)
  BY PlainThunk DEF JobInv
<1>2. /\ Forcing!TagsReturned(h) /\ Forcing!NothingMerges(dep_graph, h)
      /\ Forcing!NothingComesBack(dep_graph, h)
  BY <1>1 DEF Forcing!KnownThunks, Forcing!AllTagsReturned, Forcing!NothingMergesNow,
              Forcing!NothingComesBackNow, RefInv
<1>3. Forcing!Sound(dep_graph) /\ Forcing!Complete(dep_graph)
  BY DEF JobInv, RefInv
<1>4. /\ r \in Forcing!force_thunk(dep_graph, h, Eval(h))
      /\ left = IF Eval(h)[1].hash \in Value
                THEN T \ {Forcing!original_hash(dep_graph, h)} ELSE T
  BY SameForceThunk, SameNames
<1>5. /\ Forcing!Followed(r.graph, left)
      /\ \A t \in Targets \ left :
            Forcing!updated_hash(r.graph, t) = Forcing!updated_hash(dep_graph, t)
      /\ Eval(h)[1].hash \in Value =>
            Forcing!original_hash(r.graph, h) = Forcing!original_hash(dep_graph, h)
  BY <1>1, <1>2, <1>3, <1>4, InstanceAssumptions, Forcing!ForceFollowed
<1> QED
  BY <1>5, SameNames

\* A result of a thunk of the graph, in the Reductor: it does not throw, it answers the
\* target that the thunk has come from, if it is a value (reductor.cc:180-199).
LEMMA FinalizesThunk ==
  ASSUME Inv, JobInv, RefInv, TargetInv, Forcing!KnownThunks, Forcing!NothingMergesNow,
         Forcing!NothingComesBackNow, NEW h, NEW q, NEW at, Finalizes(h, q, at),
         h \in DOMAIN dep_graph.thunks
  PROVE  /\ ~ ForceThrows(dep_graph, h, Eval(h)) /\ pc' = at
         /\ \E r \in force_thunk(dep_graph, h, Eval(h)) :
               /\ dep_graph' = r.graph
               /\ Eval(h)[1].hash \in Value =>
                     original_hash(r.graph, h) = original_hash(dep_graph, h)
         /\ remaining_targets' = IF Eval(h)[1].hash \in Value
                                 THEN remaining_targets \ {original_hash(dep_graph, h)}
                                 ELSE remaining_targets
         /\ Forcing!Followed(dep_graph', remaining_targets')
         /\ \A t \in Targets \ remaining_targets' :
               updated_hash(dep_graph', t) = updated_hash(dep_graph, t)
<1>1. CanBeExecuted(h) /\ pc # "load" /\ finalize_execution(h, Eval(h), q, at)
  BY DEF Finalizes
<1>2. remaining_targets \in SUBSET Targets /\ Forcing!Followed(dep_graph, remaining_targets)
  BY <1>1 DEF TargetInv, AnswersCached, FollowsTargets
<1>3. ~ ForceThrows(dep_graph, h, Eval(h))
  BY <1>1, ResultIsComplete DEF JobInv, RefInv
<1>4. PICK r \in force_thunk(dep_graph, h, Eval(h)) :
         /\ dep_graph' = r.graph
         /\ remaining_targets' = IF Eval(h)[1].hash \in Value
                                 THEN remaining_targets \ {original_hash(r.graph, h)}
                                 ELSE remaining_targets
  BY <1>1, <1>3 DEF finalize_execution
<1> DEFINE left == IF Eval(h)[1].hash \in Value
                   THEN remaining_targets \ {original_hash(dep_graph, h)} ELSE remaining_targets
<1>5. /\ Forcing!Followed(r.graph, left)
      /\ \A t \in Targets \ left : updated_hash(r.graph, t) = updated_hash(dep_graph, t)
      /\ Eval(h)[1].hash \in Value => original_hash(r.graph, h) = original_hash(dep_graph, h)
  BY <1>1, <1>2, ResultFollows
<1>6. remaining_targets' = left
  BY <1>4, <1>5
<1>7. pc' = at
  BY <1>1, <1>3 DEF finalize_execution
<1> QED
  BY <1>3, <1>4, <1>5, <1>6, <1>7

\* A result keeps track of the targets: one that is done has its answer in the cache.
LEMMA FinalizesFollows ==
  ASSUME Inv, JobInv, RefInv, TargetInv, Forcing!KnownThunks, Forcing!NothingMergesNow,
         Forcing!NothingComesBackNow, NEW h, NEW q, NEW at, Finalizes(h, q, at)
  PROVE  TargetInv'
<1>1. /\ pc # "load" /\ pc' # "load" /\ UNCHANGED loaded
      /\ DOMAIN cache \subseteq DOMAIN cache' /\ h \in DOMAIN cache'
  BY DEF Finalizes, finalize_execution
<1>2. Unloaded' = {} /\ Unloaded = {}
  BY <1>1 DEF TargetInv, FollowsTargets, Unloaded
<1>3. /\ remaining_targets \subseteq Targets /\ Forcing!Followed(dep_graph, remaining_targets)
      /\ \A t \in Targets \ remaining_targets : updated_hash(dep_graph, t) \in DOMAIN cache
  BY <1>1, <1>2 DEF TargetInv, FollowsTargets, AnswersCached, FinalThunk
<1>4. CASE h \notin DOMAIN dep_graph.thunks
  <2>1. UNCHANGED <<dep_graph, remaining_targets>>
    BY <1>4 DEF Finalizes, finalize_execution
  <2> QED
    BY <1>1, <1>2, <1>3, <2>1
       DEF TargetInv, LoadingTargets, FollowsTargets, AnswersCached, FinalThunk
<1>5. CASE h \in DOMAIN dep_graph.thunks
  <2>1. /\ remaining_targets' = IF Eval(h)[1].hash \in Value
                                THEN remaining_targets \ {original_hash(dep_graph, h)}
                                ELSE remaining_targets
        /\ Forcing!Followed(dep_graph', remaining_targets')
        /\ \A t \in Targets \ remaining_targets' :
              updated_hash(dep_graph', t) = updated_hash(dep_graph, t)
    BY <1>5, FinalizesThunk
  <2>2. original_hash(dep_graph, h) \in Targets =>
          updated_hash(dep_graph, original_hash(dep_graph, h)) = h
    BY <1>3, <1>5, SameNames DEF Forcing!Followed
  <2>3. \A t \in Targets \ remaining_targets' : updated_hash(dep_graph', t) \in DOMAIN cache'
    <3> SUFFICES ASSUME NEW t \in Targets \ remaining_targets'
                 PROVE  updated_hash(dep_graph, t) \in DOMAIN cache'
      BY <2>1
    <3>1. t \notin remaining_targets \/ t = original_hash(dep_graph, h)
      BY <2>1
    <3> QED
      BY <1>1, <1>3, <2>2, <3>1
  <2> QED
    BY <1>1, <1>2, <1>3, <2>1, <2>3
       DEF TargetInv, LoadingTargets, FollowsTargets, AnswersCached, FinalThunk
<1> QED
  BY <1>4, <1>5

\* The targets are known before the first one is read.
LEMMA TargetInvInit == Init => TargetInv
<1> SUFFICES ASSUME Init PROVE TargetInv
  OBVIOUS
<1>1. Unloaded = Targets
  BY DEF Init, Unloaded
<1>2. IsMaps(EmptyGraph) /\ EmptyGraph.original_hashes = << >>
  BY DEF EmptyGraph, IsMaps
<1> QED
  BY <1>1, <1>2 DEF Init, TargetInv, LoadingTargets, FollowsTargets, AnswersCached

\* Every action keeps track of them.
LEMMA TargetInvNext ==
  Inv /\ JobInv /\ RefInv /\ TargetInv /\ Forcing!KnownThunks /\ Forcing!NothingMergesNow
      /\ Forcing!NothingComesBackNow /\ [Next]_vars
    => TargetInv'
<1> SUFFICES ASSUME Inv, JobInv, RefInv, TargetInv, Forcing!KnownThunks,
                    Forcing!NothingMergesNow, Forcing!NothingComesBackNow, [Next]_vars
             PROVE  TargetInv'
  OBVIOUS
<1>1. CASE AddTarget
  BY <1>1, AddTargetFollows
<1>2. ASSUME NEW h, NEW q, NEW at, Finalizes(h, q, at)
      PROVE  TargetInv'
  BY <1>2, FinalizesFollows
<1>3. CASE GraphStays
  BY <1>3 DEF GraphStays, TargetInv, LoadingTargets, FollowsTargets, AnswersCached, Unloaded,
              FinalThunk
<1> QED
  BY <1>1, <1>2, <1>3, GraphSteps

(***************************************************************************)
(* Every step is a step of Reduction or changes nothing it sees            *)
(***************************************************************************)

\* The answers, where the targets in open have none yet.
AnswerFrom(g, open) ==
    [t \in Targets |-> IF t \in open THEN Unknown ELSE Eval(updated_hash(g, t))[1].hash]

\* What Reduction sees, in terms of the graph: its executable thunks are pending, and who
\* has been loaded and no longer remains has been answered.
View == /\ pc # "threw" => PendingThunks = Executables(dep_graph)
        /\ Answer = AnswerFrom(dep_graph, Unloaded \cup remaining_targets)

LEMMA Viewed == JobInv /\ HandInv /\ TargetInv => View
<1> SUFFICES ASSUME JobInv, HandInv, TargetInv PROVE View
  OBVIOUS
<1>1. ASSUME pc # "threw" PROVE PendingThunks = Executables(dep_graph)
  <2>1. \A h \in DOMAIN dep_graph.thunks : CanBeExecuted(dep_graph.thunks[h]) <=> CanBeExecuted(h)
    BY NamesTellReady DEF JobInv
  <2> QED
    BY <1>1, <2>1
       DEF JobInv, HandsOutExecutables, HandInv, HandedOutNow, PendingThunks, Executables
<1>2. \A t \in Targets \ (Unloaded \cup remaining_targets) :
         FinalThunk(t) \in DOMAIN cache /\ cache[FinalThunk(t)] = Eval(updated_hash(dep_graph, t))
  BY DEF JobInv, CacheIsTrue, TargetInv, AnswersCached, FinalThunk
<1>3. Answer = AnswerFrom(dep_graph, Unloaded \cup remaining_targets)
  BY <1>2 DEF Answer, AnswerFrom
<1> QED
  BY <1>1, <1>3 DEF View

\* A target is loaded: Load, or nothing if the list names it twice.
LEMMA AddTargetImplements ==
  ASSUME Inv, JobInv, TargetInv, View, AddTarget, View'
  PROVE  [Abstract!Next]_(Abstract!vars)
<1> DEFINE t == TargetHashes[loaded + 1]
           N == order_one_dependencies(dep_graph', t)
<1>1. /\ pc = "load" /\ t \in Targets /\ t \in Thunk
      /\ dep_graph' = add_thunk(dep_graph, t)
      /\ Unloaded' = Unloaded \ {t}
      /\ remaining_targets' = remaining_targets \cup {t}
      /\ remaining_targets' = Targets \ Unloaded'
  BY LoadsNext
<1>2. pc # "threw" /\ pc' # "threw"
  BY DEF AddTarget
<1>3. PendingThunks = Executables(dep_graph) /\ PendingThunks' = Executables(dep_graph')
  BY <1>2 DEF View
<1>4. Unloaded \cup remaining_targets = Targets /\ Unloaded' \cup remaining_targets' = Targets
  BY <1>1 DEF TargetInv, LoadingTargets, Unloaded
<1>5. Answer' = Answer
  BY <1>4 DEF View, AnswerFrom
<1>6. Executables(dep_graph') = Executables(dep_graph) \cup N
  BY <1>1, TargetKeeps DEF JobInv, StillLoading
<1> HIDE DEF t
<1>7. CASE t \in Unloaded
  <2>1. /\ dep_graph' = Abstract!add_thunk(dep_graph, t)
        /\ PendingThunks' = PendingThunks \cup
              Abstract!order_one_dependencies(Abstract!add_thunk(dep_graph, t), t)
    BY <1>1, <1>3, <1>6, AbstractAddThunk, AbstractOrderOne
  <2>2. Abstract!Load(t)
    BY <1>1, <1>5, <1>7, <2>1 DEF Abstract!Load
  <2> QED
    BY <1>7, <2>2 DEF Abstract!Next
<1>8. CASE t \notin Unloaded
  <2>1. t \in remaining_targets
    BY <1>1, <1>4, <1>8
  <2>2. t \in DOMAIN dep_graph.thunks
    BY <1>1, <2>1 DEF JobInv, StillLoading
  <2>3. dep_graph' = dep_graph
    BY <1>1, <2>2, AddThunkLeaves
       DEF JobInv, StillLoading, TargetInv, LoadingTargets, Inv, CoordinatorTyped
  <2>4. Unloaded' = Unloaded
    BY <1>1, <1>8
  <2> QED
    BY <1>3, <1>5, <2>3, <2>4 DEF Abstract!vars
<1> QED
  BY <1>7, <1>8

\* A result of a thunk of the graph is that thunk's ForceThunk.
LEMMA FinalizesImplements ==
  ASSUME Inv, JobInv, RefInv, TargetInv, Forcing!KnownThunks, Forcing!NothingMergesNow,
         Forcing!NothingComesBackNow, View, NEW h, NEW q, NEW at, Finalizes(h, q, at),
         h \in DOMAIN dep_graph.thunks, View'
  PROVE  [Abstract!Next]_(Abstract!vars)
<1> DEFINE v == Eval(h)[1].hash
           t0 == original_hash(dep_graph, h)
<1>1. /\ CanBeExecuted(h) /\ pc # "load" /\ pc # "threw" /\ at # "threw"
      /\ UNCHANGED loaded
  BY DEF Finalizes
<1>2. Unloaded = {} /\ Unloaded' = {}
  BY <1>1 DEF TargetInv, FollowsTargets, Unloaded
<1>3. /\ remaining_targets \in SUBSET Targets
      /\ Forcing!Followed(dep_graph, remaining_targets)
  BY <1>1 DEF TargetInv, FollowsTargets, AnswersCached
<1>4. /\ ~ ForceThrows(dep_graph, h, Eval(h)) /\ pc' = at
      /\ remaining_targets' = IF v \in Value THEN remaining_targets \ {t0} ELSE remaining_targets
      /\ \A t \in Targets \ remaining_targets' :
            updated_hash(dep_graph', t) = updated_hash(dep_graph, t)
  BY FinalizesThunk
<1>5. PICK r \in force_thunk(dep_graph, h, Eval(h)) :
         dep_graph' = r.graph /\ (v \in Value => original_hash(r.graph, h) = t0)
  BY FinalizesThunk
<1>6. PendingThunks = Executables(dep_graph) /\ PendingThunks' = Executables(dep_graph')
  BY <1>1, <1>4 DEF View
<1>7. h \in PendingThunks
  BY <1>1, <1>6, NamesTellReady DEF JobInv, Executables
<1>8. PendingThunks' = (PendingThunks \ {h}) \cup r.next
  BY <1>1, <1>4, <1>5, <1>6, ResultKeeps DEF JobInv
<1>9. /\ Answer = AnswerFrom(dep_graph, remaining_targets)
      /\ Answer' = AnswerFrom(dep_graph', remaining_targets')
  BY <1>2 DEF View
<1>10. Answer' = IF v \in Value /\ t0 \in Targets THEN [Answer EXCEPT ![t0] = v] ELSE Answer
  <2> DEFINE left == remaining_targets'
             g1   == dep_graph'
  <2>1. v = Eval(h)[1].hash /\ t0 = original_hash(dep_graph, h)
    OBVIOUS
  <2> HIDE DEF v, t0
  <2>2. /\ left = IF v \in Value THEN remaining_targets \ {t0} ELSE remaining_targets
        /\ \A t \in Targets \ left : updated_hash(g1, t) = updated_hash(dep_graph, t)
    BY <1>4
  <2> HIDE DEF left, g1
  <2>3. t0 \in Targets => updated_hash(dep_graph, t0) = h /\ t0 \in remaining_targets
    BY <1>3, <2>1, SameNames DEF Forcing!Followed
  <2>4. Answer = AnswerFrom(dep_graph, remaining_targets) /\ Answer' = AnswerFrom(g1, left)
    BY <1>9 DEF left, g1
  <2>5. CASE v \in Value /\ t0 \in Targets
    <3>1. \A t \in Targets : Answer'[t] = IF t = t0 THEN v ELSE Answer[t]
      BY <1>3, <2>1, <2>2, <2>3, <2>4, <2>5 DEF AnswerFrom
    <3> QED
      BY <2>4, <2>5, <3>1 DEF AnswerFrom
  <2>6. CASE ~ (v \in Value /\ t0 \in Targets)
    <3>1. left = remaining_targets
      BY <1>3, <2>2, <2>6
    <3> QED
      BY <2>2, <2>4, <2>6, <3>1 DEF AnswerFrom
  <2> QED
    BY <2>5, <2>6
<1>11. /\ ~ Abstract!ForceThrows(dep_graph, h, Eval(h))
       /\ r \in Abstract!force_thunk(dep_graph, h, Eval(h))
       /\ Abstract!original_hash(r.graph, h) = original_hash(r.graph, h)
  <2>1. Abstract!original_hash(r.graph, h) = original_hash(r.graph, h)
    BY Zenon DEF Abstract!original_hash, original_hash
  <2> QED
    BY <1>4, <2>1, AbstractForceThrows, AbstractForceThunk
<1>12. LET t == Abstract!original_hash(r.graph, h)
       IN  Answer' = IF v \in Value /\ t \in Targets THEN [Answer EXCEPT ![t] = v] ELSE Answer
  BY <1>5, <1>10, <1>11
<1>13. Abstract!ForceThunk(h)
  BY <1>2, <1>5, <1>7, <1>8, <1>11, <1>12 DEF Abstract!ForceThunk
<1> QED
  BY <1>7, <1>13 DEF Abstract!Next

\* Whatever leaves the graph and the targets alone is not seen.
LEMMA OthersUnseen ==
  ASSUME View, View', UNCHANGED <<dep_graph, remaining_targets, loaded>>,
         pc = "threw" => pc' = "threw", pc' = "threw" => HandedOutNow' = HandedOutNow
  PROVE  UNCHANGED Abstract!vars
<1>1. Unloaded' = Unloaded
  BY DEF Unloaded
<1>2. Answer' = Answer
  BY <1>1 DEF View
<1>3. PendingThunks' = PendingThunks
  <2>1. CASE pc' = "threw"
    BY <2>1 DEF PendingThunks, HandedOutNow
  <2>2. CASE pc' # "threw"
    BY <2>2 DEF View
  <2> QED
    BY <2>1, <2>2
<1> QED
  BY <1>1, <1>2, <1>3 DEF Abstract!vars

\* Every step.
LEMMA StepImplements ==
  Inv /\ JobInv /\ RefInv /\ TargetInv /\ Forcing!KnownThunks /\ Forcing!NothingMergesNow
      /\ Forcing!NothingComesBackNow /\ View /\ View' /\ [Next]_vars
    => [Abstract!Next]_(Abstract!vars)
<1> SUFFICES ASSUME Inv, JobInv, RefInv, TargetInv, Forcing!KnownThunks,
                    Forcing!NothingMergesNow, Forcing!NothingComesBackNow, View, View',
                    [Next]_vars
             PROVE  [Abstract!Next]_(Abstract!vars)
  OBVIOUS
<1>1. CASE AddTarget
  BY <1>1, AddTargetImplements
<1>2. ASSUME NEW h, NEW q, NEW at, Finalizes(h, q, at)
      PROVE  [Abstract!Next]_(Abstract!vars)
  <2>1. CASE h \in DOMAIN dep_graph.thunks
    BY <1>2, <2>1, FinalizesImplements
  <2>2. CASE h \notin DOMAIN dep_graph.thunks
    <3>1. /\ UNCHANGED <<dep_graph, remaining_targets, loaded>>
          /\ pc' = at /\ at # "threw" /\ pc # "threw"
      BY <1>2, <2>2 DEF Finalizes, finalize_execution
    <3> QED
      BY <3>1, OthersUnseen
  <2> QED
    BY <2>1, <2>2
<1>3. CASE GraphStays
  BY <1>3, OthersUnseen DEF GraphStays
<1> QED
  BY <1>1, <1>2, <1>3, GraphSteps

\* The first state.
LEMMA StartImplements == Init => Abstract!Init
<1> SUFFICES ASSUME Init PROVE Abstract!Init
  OBVIOUS
<1>1. Unloaded = Targets
  BY DEF Init, Unloaded
<1>2. dep_graph = Abstract!EmptyGraph
  BY Zenon DEF Init, EmptyGraph, Abstract!EmptyGraph
<1>3. PendingThunks = {}
  BY DEF Init, PendingThunks, EmptyGraph
<1>4. Answer = [t \in Targets |-> Unknown]
  BY <1>1 DEF Answer
<1> QED
  BY <1>1, <1>2, <1>3, <1>4 DEF Abstract!Init

\* The Reductor implements Reduction: whatever it duplicates, retries, takes from the cache
\* or loses, what happens to its graph and to the answers it is going to return is that
\* pending thunks are forced, each once, until every target is a value
\* (reductor.cc:99-107, 180-199, 202-345 against graph.cc:102-154).
THEOREM ReductorImplementsReduction ==
  Forcing!PlainPrograms /\ Forcing!AllTagsReturned =>
    (Spec /\ []Forcing!KnownThunks /\ []Forcing!NothingMergesNow /\ []Forcing!NothingComesBackNow
       => ImplementsReduction)
<1> QED
  BY InvInit, InvNext, JobInvInit, JobInvNext, HandInvInit, HandInvNext, RefInvInit, RefInvNext,
     TargetInvInit, TargetInvNext, Viewed, StartImplements, StepImplements, PTL
     DEF Spec, ImplementsReduction, Abstract!Spec

(***************************************************************************)
(* Why reduce() throws                                                     *)
(***************************************************************************)

\* A failure that loses a slot or a job for good.
Lost == Happened("socket") \/ Happened("closed")

\* What is queued or under way is ready in the graph or has been reduced.
KnownJobs == \A h \in HandedOutNow \cup InFlight : h \in Executables(dep_graph) \cup DOMAIN cache

\* As long as nothing was lost, slots are those of the open requests, and reduce() polls
\* with jobs in the queue only if there are requests to wait for.
WaitsForJobs ==
    ~ Lost => /\ SlotsMatch
              /\ pc = "poll" => job_queue = << >> \/ DOMAIN jobs # {}

\* A child that has failed is on record.
FailedIsKnown == \A i \in DOMAIN jobs : jobs[i].state = "failed" => Happened("child")

\* An exception has its cause on record.
HasCause ==
    pc = "threw" => \/ \E kind \in FaultKinds \ {"retryable", "silent"} : Happened(kind)
                    \/ SignalLeftOver

ThrowInv == /\ EnginesSuffice
            /\ Forcing!Acyclic(dep_graph)
            /\ KnownJobs
            /\ WaitsForJobs
            /\ FailedIsKnown
            /\ HasCause

\* The graph has no cycle: loading (graph.cc:16-68).
LEMMA AddTargetAcyclic ==
  ASSUME Inv, JobInv, RefInv, TargetInv, Forcing!Acyclic(dep_graph), AddTarget
  PROVE  Forcing!Acyclic(dep_graph')
<1> DEFINE t == TargetHashes[loaded + 1]
<1>1. /\ t \in Thunk /\ dep_graph' = add_thunk(dep_graph, t) /\ pc = "load"
  BY LoadsNext
<1>2. dep_graph.updated_hashes = << >>
  BY <1>1 DEF JobInv, StillLoading
<1>3. Forcing!ThunkShapes /\ Forcing!Sound(dep_graph) /\ Forcing!Complete(dep_graph)
  BY DEF JobInv, RefInv, Forcing!PlainPrograms
<1> HIDE DEF t
<1>4. Forcing!Acyclic(Forcing!add_thunk(dep_graph, t))
  BY <1>1, <1>2, <1>3, InstanceAssumptions, Forcing!LoadAcyclic
<1> QED
  BY <1>1, <1>4, SameAddThunk

\* ... and forcing (graph.cc:102-154).
LEMMA ResultAcyclic ==
  ASSUME JobInv, RefInv, Forcing!KnownThunks, Forcing!NothingMergesNow,
         Forcing!NothingComesBackNow, Forcing!Acyclic(dep_graph),
         NEW h \in DOMAIN dep_graph.thunks, CanBeExecuted(h),
         NEW r \in force_thunk(dep_graph, h, Eval(h))
  PROVE  Forcing!Acyclic(r.graph)
<1>1. Forcing!ThunkShapes /\ Forcing!CanBeExecuted(h) /\ Forcing!PlainResult(h)
  BY PlainThunk DEF JobInv
<1>2. /\ Forcing!TagsReturned(h) /\ Forcing!NothingMerges(dep_graph, h)
      /\ Forcing!NothingComesBack(dep_graph, h)
  BY <1>1 DEF Forcing!KnownThunks, Forcing!AllTagsReturned, Forcing!NothingMergesNow,
              Forcing!NothingComesBackNow, RefInv
<1>3. Forcing!Sound(dep_graph) /\ Forcing!Complete(dep_graph)
  BY DEF JobInv, RefInv
<1>4. r \in Forcing!force_thunk(dep_graph, h, Eval(h))
  BY SameForceThunk
<1> QED
  BY <1>1, <1>2, <1>3, <1>4, InstanceAssumptions, Forcing!ForceAcyclic

\* The graph part of every step.
LEMMA StaysAcyclic ==
  ASSUME Inv, JobInv, RefInv, TargetInv, Forcing!KnownThunks, Forcing!NothingMergesNow,
         Forcing!NothingComesBackNow, Forcing!Acyclic(dep_graph), [Next]_vars
  PROVE  Forcing!Acyclic(dep_graph')
<1>1. CASE AddTarget
  BY <1>1, AddTargetAcyclic
<1>2. ASSUME NEW h, NEW q, NEW at, Finalizes(h, q, at)
      PROVE  Forcing!Acyclic(dep_graph')
  <2>1. CASE UNCHANGED dep_graph
    BY <2>1
  <2>2. CASE /\ h \in DOMAIN dep_graph.thunks
             /\ \E r \in force_thunk(dep_graph, h, Eval(h)) : dep_graph' = r.graph
    BY <1>2, <2>2, ResultAcyclic DEF Finalizes
  <2> QED
    BY <1>2, <2>1, <2>2 DEF Finalizes, finalize_execution
<1>3. CASE GraphStays
  BY <1>3 DEF GraphStays
<1> QED
  BY <1>1, <1>2, <1>3, GraphSteps

\* A result: what else is under way stays ready, and what becomes ready joins it
\* (reductor.cc:180-199).
LEMMA FinalizesKnown ==
  ASSUME Inv, JobInv, RefInv, TargetInv, Forcing!KnownThunks, Forcing!NothingMergesNow,
         Forcing!NothingComesBackNow, KnownJobs, NEW h, NEW q, NEW at, Finalizes(h, q, at)
  PROVE  KnownJobs'
<1>1. /\ InFlight' \subseteq InFlight /\ DOMAIN cache \subseteq DOMAIN cache'
      /\ h \in DOMAIN cache' /\ SeqRange(q) \subseteq SeqRange(job_queue)
      /\ running_jobs' \subseteq running_jobs /\ q \in Seq(SeqRange(q)) /\ CanBeExecuted(h)
  BY DEF Finalizes, finalize_execution
<1>2. CASE h \notin DOMAIN dep_graph.thunks
  <2>1. UNCHANGED dep_graph /\ job_queue' = q
    BY <1>2 DEF Finalizes, finalize_execution
  <2> QED
    BY <1>1, <2>1 DEF KnownJobs, HandedOutNow, Executables
<1>3. CASE h \in DOMAIN dep_graph.thunks
  <2>1. ~ ForceThrows(dep_graph, h, Eval(h))
    BY <1>3, FinalizesThunk
  <2>2. PICK r \in force_thunk(dep_graph, h, Eval(h)) : \E o1 \in Orders(r.next) :
          dep_graph' = r.graph /\ job_queue' = q \o o1
    BY <1>3, <2>1 DEF Finalizes, finalize_execution
  <2>3. PICK o1 \in Orders(r.next) : dep_graph' = r.graph /\ job_queue' = q \o o1
    BY <2>2
  <2>4. /\ IsFiniteSet(r.next)
        /\ Executables(r.graph) = r.next \cup (Executables(dep_graph) \ {h})
    BY <1>1, <1>3, <2>1, ResultKeeps DEF JobInv
  <2>5. o1 \in Seq(r.next) /\ SeqRange(o1) = r.next
    BY <2>4, OrdersAreSeqs, OrderRange
  <2>6. SeqRange(job_queue') = SeqRange(q) \cup r.next
    BY <1>1, <2>3, <2>5, RangeConcat
  <2>7. Executables(dep_graph') = r.next \cup (Executables(dep_graph) \ {h})
    BY <2>3, <2>4
  <2> QED
    BY <1>1, <2>6, <2>7 DEF KnownJobs, HandedOutNow, Executables
<1> QED
  BY <1>2, <1>3

\* What the constructor queues is ready in the graph (reductor.cc:99-107).
LEMMA AddTargetKnown ==
  ASSUME Inv, JobInv, TargetInv, KnownJobs, AddTarget
  PROVE  KnownJobs'
<1> DEFINE t == TargetHashes[loaded + 1]
           N == order_one_dependencies(dep_graph', t)
<1>1. t \in Thunk /\ dep_graph' = add_thunk(dep_graph, t) /\ pc = "load"
  BY LoadsNext
<1>2. Executables(dep_graph') = Executables(dep_graph) \cup N /\ IsFiniteSet(N)
  BY <1>1, TargetKeeps DEF JobInv, StillLoading
<1>3. SeqRange(job_queue') \subseteq SeqRange(job_queue) \cup N
  <2>1. CASE UNCHANGED job_queue
    BY <2>1 DEF SeqRange
  <2>2. CASE \E o1 \in Orders(N) : job_queue' = job_queue \o o1
    <3>1. PICK o1 \in Orders(N) : job_queue' = job_queue \o o1
      BY <2>2
    <3> HIDE DEF N
    <3>2. o1 \in Seq(N) /\ SeqRange(o1) = N
      BY <1>2, OrdersAreSeqs, OrderRange
    <3> QED
      BY <3>1, <3>2, RangeConcat DEF Inv, CoordinatorTyped
  <2> QED
    BY <2>1, <2>2 DEF AddTarget
<1>4. UNCHANGED <<running_jobs, cache>> /\ InFlight' = InFlight
  BY DEF AddTarget, InFlight
<1> HIDE DEF N
<1> QED
  BY <1>2, <1>3, <1>4 DEF KnownJobs, HandedOutNow, Executables

\* Every step.
LEMMA StaysKnown ==
  ASSUME Inv, JobInv, RefInv, TargetInv, Forcing!KnownThunks, Forcing!NothingMergesNow,
         Forcing!NothingComesBackNow, KnownJobs, [Next]_vars
  PROVE  KnownJobs'
<1>1. CASE GraphStays
  BY <1>1 DEF GraphStays, KnownJobs, Executables
<1> QED
  BY <1>1, GraphSteps, AddTargetKnown, FinalizesKnown

\* A step records one failure or none.
LEMMA FaultSteps ==
  ASSUME [Next]_vars
  PROVE  (\E kind : Fault(kind)) \/ UNCHANGED faults
<1>1. ASSUME NEW id \in DOMAIN jobs, Settled(id)
      PROVE  (\E kind : Fault(kind)) \/ UNCHANGED faults
  BY <1>1 DEF Settled, RemoteSuccess, LocalSuccess, LooksAt, RemoteFailure, SocketFailure,
              ConnectionClosed, ExecutionFailure
<1>2. CASE QuietStep
  BY <1>2, QuietChanges DEF QuietChange
<1>3. CASE PollSuccess \/ PollTimeout \/ PollExit
  BY <1>3 DEF PollSuccess, PollTimeout, PollExit, AfterPoll
<1>4. CASE AddTarget \/ TakeCached \/ Execute \/ NotStarted \/ QueueEmpty \/ UNCHANGED vars
  BY <1>4 DEF AddTarget, TakeCached, Execute, NotStarted, QueueEmpty, vars
<1> QED
  BY <1>1, <1>2, <1>3, <1>4, StepKinds

\* An answer gives its slot back, or is recorded as a loss (engine_lambda.cc:50, 112-116).
LEMMA AnsweredSlots ==
  ASSUME Inv, SlotsMatch, NEW id \in DOMAIN jobs, Settled(id), ~ Lost'
  PROVE  SlotsMatch' /\ pc' # "poll"
<1>1. JobsTyped /\ NeverOvercommitted
  BY DEF Inv
<1>2. CASE RemoteSuccess(id) \/ LocalSuccess(id)
  <2>1. pc' # "poll"
    BY <1>2 DEF RemoteSuccess, LocalSuccess, finalize_execution
  <2>2. CloseJob(id) /\ ReleaseSlot(id)
    BY <1>2 DEF RemoteSuccess, LocalSuccess
  <2> QED
    BY <1>1, <2>1, <2>2, CloseKeepsCount
<1>3. CASE RemoteFailure(id) \/ ExecutionFailure(id)
  <2>1. pc' # "poll" /\ CloseJob(id) /\ ReleaseSlot(id)
    BY <1>3 DEF RemoteFailure, ExecutionFailure, Retry
  <2> QED
    BY <1>1, <2>1, CloseKeepsCount
<1>4. CASE SocketFailure(id) \/ ConnectionClosed(id)
  <2>1. Fault("socket") \/ Fault("closed")
    BY <1>4 DEF SocketFailure, ConnectionClosed
  <2>2. Lost'
    BY <2>1, FaultsRecorded DEF Lost
  <2> QED
    BY <2>2
<1> QED
  BY <1>2, <1>3, <1>4 DEF Settled

\* If there is no room for a thunk, some engine has a request open (reductor.cc:249-293).
LEMMA FullIsBusy ==
  ASSUME Inv, SlotsMatch, NEW h, WithRoom(h) = {}, Able(TriedFor(h), h) # {}
  PROVE  DOMAIN jobs # {}
<1>1. PICK i \in Able(TriedFor(h), h) : ~ (job_count[TriedFor(h)[i]] < MaxJobs[TriedFor(h)[i]])
  BY DEF WithRoom
<1> DEFINE e == TriedFor(h)[i]
<1>2. e \in Engines
  BY DEF Able, TriedFor, Engines, SeqRange
<1>3. job_count[e] \in Nat /\ MaxJobs[e] \in Nat \ {0} /\ ~ (job_count[e] < MaxJobs[e])
  BY <1>1, <1>2, ReductorAssumption DEF Inv, JobsTyped
<1> HIDE DEF e
<1>4. Cardinality(InFlightOn(e)) # 0
  BY <1>2, <1>3 DEF SlotsMatch
<1> QED
  BY <1>4, FS_EmptySet DEF InFlightOn

\* The dispatching loop ends with an empty queue, or with requests to wait for, or
\* because the front of the queue is unknown to the graph or no engine takes it.
LEMMA DispatchWaits ==
  ASSUME Inv, SlotsMatch, TakeCached \/ Execute \/ NotStarted \/ QueueEmpty
  PROVE  /\ SlotsMatch'
         /\ pc' = "poll" => job_queue' = << >> \/ DOMAIN jobs' # {}
<1>1. JobsTyped /\ NeverOvercommitted
  BY DEF Inv
<1>2. CASE TakeCached
  <2>1. UNCHANGED <<jobs, job_count>> /\ pc' # "poll"
    BY <1>2 DEF TakeCached, finalize_execution
  <2> QED
    BY <1>1, <2>1, SameEngines
<1>3. CASE Execute
  BY <1>1, <1>3, StartKeepsCount DEF Execute, Dispatching
<1>4. CASE NotStarted
  <2>1. UNCHANGED <<jobs, job_count>>
    BY <1>4 DEF NotStarted
  <2>2. pc' = "poll" => DOMAIN jobs # {}
    BY <1>4, FullIsBusy DEF NotStarted
  <2> QED
    BY <1>1, <2>1, <2>2, SameEngines
<1>5. CASE QueueEmpty
  BY <1>1, <1>5, SameEngines DEF QueueEmpty
<1> QED
  BY <1>2, <1>3, <1>4, <1>5

\* Every step.
LEMMA StaysWaiting ==
  ASSUME Inv, WaitsForJobs, [Next]_vars
  PROVE  WaitsForJobs'
<1> SUFFICES ASSUME ~ Lost'
             PROVE  /\ SlotsMatch'
                    /\ pc' = "poll" => job_queue' = << >> \/ DOMAIN jobs' # {}
  BY DEF WaitsForJobs
<1>1. ~ Lost
  BY FaultSteps, FaultsRecorded DEF Lost
<1>2. SlotsMatch /\ (pc = "poll" => job_queue = << >> \/ DOMAIN jobs # {})
  BY <1>1 DEF WaitsForJobs
<1>3. JobsTyped /\ NeverOvercommitted
  BY DEF Inv
<1>4. CASE UNCHANGED vars
  BY <1>2, <1>3, <1>4, SameEngines DEF vars
<1>5. CASE AddTarget
  BY <1>2, <1>3, <1>5, SameEngines DEF AddTarget
<1>6. CASE TakeCached \/ Execute \/ NotStarted \/ QueueEmpty
  BY <1>2, <1>6, DispatchWaits
<1>7. CASE PollSuccess \/ PollTimeout \/ PollExit
  <2>1. UNCHANGED <<jobs, job_count>> /\ pc' # "poll"
    BY <1>7 DEF PollSuccess, PollTimeout, PollExit, AfterPoll
  <2> QED
    BY <1>2, <1>3, <2>1, SameEngines
<1>8. ASSUME NEW id \in DOMAIN jobs, Settled(id)
      PROVE  SlotsMatch' /\ pc' # "poll"
  BY <1>2, <1>8, AnsweredSlots
<1>9. CASE QuietStep
  <2>1. UNCHANGED job_queue /\ (pc' = "poll" => pc = "poll")
    BY <1>9, QuietChanges DEF QuietChange
  <2>2. (SlotsMatch => SlotsMatch') /\ DOMAIN jobs' = DOMAIN jobs
    BY <1>3, <1>9, QuietKeepsJobs
  <2> QED
    BY <1>2, <2>1, <2>2
<1> QED
  BY <1>4, <1>5, <1>6, <1>7, <1>8, <1>9, StepKinds

\* get_thunk finds the front of the queue, and some engine takes it (reductor.cc:242-293).
LEMMA QueuedIsTaken ==
  ASSUME Inv, JobInv, Forcing!KnownThunks, EnginesSuffice, KnownJobs, NotStarted
  PROVE  pc' # "threw"
<1> DEFINE h == Head(job_queue)
<1>1. job_queue # << >> /\ job_queue \in Seq(SeqRange(job_queue)) /\ h \notin DOMAIN cache
  BY DEF NotStarted, Dispatching, Inv, CoordinatorTyped
<1>2. h \in SeqRange(job_queue)
  BY <1>1, RangeTail
<1>3. h \in DOMAIN dep_graph.thunks /\ CanBeExecuted(h)
  BY <1>1, <1>2 DEF KnownJobs, HandedOutNow, Executables, JobInv, HandsOutExecutables
<1>4. Able(TriedFor(h), h) # {}
  BY <1>3 DEF EnginesSuffice, Forcing!KnownThunks
<1> QED
  BY <1>3, <1>4 DEF NotStarted

\* While targets remain, something is queued or in flight (reductor.cc:300-340).
LEMMA RemainingIsAwaited ==
  ASSUME JobInv, RefInv, TargetInv, Forcing!Acyclic(dep_graph), pc # "load", pc # "threw",
         remaining_targets # {}, ~ Lost
  PROVE  SeqRange(job_queue) \cup InFlight # {}
<1>1. DOMAIN dep_graph.thunks # {}
  BY DEF TargetInv, FollowsTargets, Forcing!Followed
<1>2. Forcing!Executables(dep_graph) # {}
  BY <1>1, InstanceAssumptions, Forcing!AcyclicIsReady DEF RefInv
<1> QED
  BY <1>2, SameExecutables DEF JobInv, Covered, Lost

\* reduce() finds its answers, and does not run out of things to wait for.
LEMMA PollHasCause ==
  ASSUME Inv, JobInv, RefInv, TargetInv, ThrowInv, PollSuccess \/ PollTimeout \/ PollExit,
         pc' = "threw"
  PROVE  Lost
<1>1. pc \in {"poll", "serviced"} /\ \E exit : AfterPoll(exit)
  BY DEF PollSuccess, PollTimeout, PollExit
<1>2. Unloaded = {}
  BY <1>1 DEF TargetInv, FollowsTargets
<1>3. remaining_targets = {} => AnswersFound
  BY <1>2 DEF AnswersFound, TargetInv, AnswersCached
<1>4. remaining_targets # {} /\ PollExit
  BY <1>3 DEF PollSuccess, PollTimeout, PollExit, AfterPoll
<1>5. pc = "poll" /\ DOMAIN jobs = {}
  BY <1>4 DEF PollExit
<1>6. ~ Lost => job_queue = << >> /\ InFlight = {}
  BY <1>5 DEF ThrowInv, WaitsForJobs, InFlight
<1>7. ~ Lost => SeqRange(job_queue) = {}
  BY <1>6 DEF SeqRange
<1> QED
  BY <1>4, <1>5, <1>6, <1>7, RemainingIsAwaited DEF ThrowInv

\* A result that comes in never throws (reductor.cc:180-199).
LEMMA ResultGoesOn ==
  ASSUME JobInv, RefInv, Forcing!KnownThunks, Forcing!NothingMergesNow, NEW h, CanBeExecuted(h),
         NEW q, NEW at \in {"dispatch", "serviced"}, finalize_execution(h, Eval(h), q, at),
         pc' = "threw"
  PROVE  FALSE
<1>1. h \in DOMAIN dep_graph.thunks => ~ ForceThrows(dep_graph, h, Eval(h))
  BY ResultIsComplete DEF JobInv, RefInv
<1> QED
  BY <1>1 DEF finalize_execution

\* reduce() is over once it has thrown.
LEMMA ThrownIsOver ==
  ASSUME [Next]_vars, pc = "threw"
  PROVE  UNCHANGED vars
<1>1. ASSUME NEW id \in DOMAIN jobs, Settled(id)
      PROVE  FALSE
  BY <1>1 DEF Settled, RemoteSuccess, LocalSuccess, RemoteFailure, SocketFailure,
              ConnectionClosed, ExecutionFailure, Listening, LooksAt, Polling
<1>2. CASE QuietStep
  BY <1>2, QuietChanges DEF QuietChange
<1>3. CASE \/ AddTarget \/ TakeCached \/ Execute \/ NotStarted \/ QueueEmpty
           \/ PollSuccess \/ PollTimeout \/ PollExit
  BY <1>3 DEF AddTarget, TakeCached, Execute, NotStarted, QueueEmpty, Dispatching,
              PollSuccess, PollTimeout, PollExit
<1> QED
  BY <1>1, <1>2, <1>3, StepKinds

\* A quiet step that throws has its cause: a child or a TLS connection that failed, a
\* system call, or a SIGCHLD that no child is left for (loop.cc:311-346).
LEMMA QuietHasCause ==
  ASSUME Inv, FailedIsKnown, QuietStep, pc' = "threw"
  PROVE  (\E kind \in FaultKinds \ {"retryable", "silent"} : Happened(kind)') \/ SignalLeftOver'
<1>1. \A kind : /\ Happened(kind) => Happened(kind)'
                /\ Fault(kind) => Happened(kind)'
  BY QuietChanges, FaultsRecorded DEF QuietChange
<1>2. CASE ReadSignal
  <2>1. sigchld' = sigchld /\ jobs' = jobs /\ sigchld /\ DOMAIN jobs # {} /\ LocalJobs = {}
    BY <1>2 DEF ReadSignal
  <2>2. LocalJobs' = LocalJobs
    BY <2>1 DEF LocalJobs, IsLocal
  <2> QED
    BY <2>1, <2>2 DEF SignalLeftOver
<1>3. CASE SystemFailure
  BY <1>1, <1>3 DEF SystemFailure, FaultKinds
<1>4. ASSUME NEW id \in DOMAIN jobs, QuietJob(id)
      PROVE  \E kind \in FaultKinds \ {"retryable", "silent"} : Happened(kind)'
  <2>1. CASE ChildFailure(id)
    BY <1>1, <2>1 DEF ChildFailure, LooksAt, FailedIsKnown, FaultKinds
  <2>2. CASE TlsFailure(id)
    BY <1>1, <2>2 DEF TlsFailure, FaultKinds
  <2>3. CASE StillRunning(id) \/ ChildRuns(id) \/ ChildFails(id) \/ GoesSilent(id)
    BY <2>3 DEF StillRunning, LooksAt, Polling, ChildRuns, ChildFails, ChildEnds, GoesSilent
  <2> QED
    BY <1>4, <2>1, <2>2, <2>3 DEF QuietJob
<1> QED
  BY <1>2, <1>3, <1>4 DEF QuietStep

\* Every step.
LEMMA StaysCaused ==
  ASSUME Inv, JobInv, RefInv, TargetInv, Forcing!KnownThunks, Forcing!NothingMergesNow,
         Forcing!NothingComesBackNow, ThrowInv, [Next]_vars
  PROVE  HasCause'
<1> SUFFICES ASSUME pc' = "threw"
             PROVE  \/ \E kind \in FaultKinds \ {"retryable", "silent"} : Happened(kind)'
                    \/ SignalLeftOver'
  BY DEF HasCause
<1>1. \A kind : Happened(kind) => Happened(kind)'
  BY FaultSteps, FaultsRecorded
<1>2. CASE pc = "threw"
  <2>1. UNCHANGED vars
    BY <1>2, ThrownIsOver
  <2>2. SignalLeftOver => SignalLeftOver'
    BY <2>1 DEF vars, SignalLeftOver, LocalJobs, IsLocal
  <2> QED
    BY <1>1, <1>2, <2>2 DEF ThrowInv, HasCause
<1>3. Lost => Happened("socket")' \/ Happened("closed")'
  BY <1>1 DEF Lost
<1>4. CASE PollSuccess \/ PollTimeout \/ PollExit
  BY <1>3, <1>4, PollHasCause DEF FaultKinds
<1>5. CASE NotStarted
  BY <1>5, QueuedIsTaken DEF ThrowInv
<1>6. ASSUME NEW id \in DOMAIN jobs, ExecutionFailure(id)
      PROVE  \E kind \in FaultKinds \ {"retryable", "silent"} : Happened(kind)'
  <2>1. Fault("fatal")
    BY <1>6 DEF ExecutionFailure
  <2> QED
    BY <2>1, FaultsRecorded DEF FaultKinds
<1>7. CASE TakeCached
  <2> DEFINE h == Head(job_queue)
  <2>1. job_queue # << >> /\ job_queue \in Seq(SeqRange(job_queue)) /\ h \in DOMAIN cache
    BY <1>7 DEF TakeCached, Dispatching, Inv, CoordinatorTyped
  <2>2. CanBeExecuted(h)
    BY <2>1, RangeTail DEF JobInv, HandsOutExecutables
  <2>3. finalize_execution(h, Eval(h), Tail(job_queue), "dispatch")
    BY <1>7, <2>1 DEF TakeCached, JobInv, CacheIsTrue
  <2> HIDE DEF h
  <2> QED
    BY <2>2, <2>3, ResultGoesOn
<1>8. ASSUME NEW id \in DOMAIN jobs, RemoteSuccess(id) \/ LocalSuccess(id)
      PROVE  FALSE
  <2> DEFINE h == jobs[id].hash
  <2>1. CanBeExecuted(h)
    BY DEF JobInv, HandsOutExecutables, InFlight
  <2>2. finalize_execution(h, Eval(h), job_queue, "serviced")
    BY <1>8 DEF RemoteSuccess, LocalSuccess, LooksAt, JobInv, CacheIsTrue
  <2> HIDE DEF h
  <2> QED
    BY <2>1, <2>2, ResultGoesOn
<1>9. ASSUME NEW id \in DOMAIN jobs, RemoteFailure(id) \/ SocketFailure(id) \/ ConnectionClosed(id)
      PROVE  FALSE
  BY <1>9 DEF RemoteFailure, SocketFailure, ConnectionClosed, Retry
<1>10. ASSUME NEW id \in DOMAIN jobs, Settled(id)
       PROVE  \E kind \in FaultKinds \ {"retryable", "silent"} : Happened(kind)'
  BY <1>6, <1>8, <1>9, <1>10 DEF Settled
<1>11. CASE AddTarget \/ Execute \/ QueueEmpty \/ UNCHANGED vars
  BY <1>2, <1>11 DEF AddTarget, Execute, Dispatching, QueueEmpty, vars
<1>12. CASE QuietStep
  BY <1>12, QuietHasCause DEF ThrowInv
<1> QED
  BY <1>4, <1>5, <1>7, <1>10, <1>11, <1>12, StepKinds

\* A child that has failed is on record.
LEMMA FailedStaysKnown ==
  ASSUME Inv, FailedIsKnown, [Next]_vars
  PROVE  FailedIsKnown'
<1>1. /\ \A kind : Happened(kind) => Happened(kind)'
      /\ \A kind : Fault(kind) => Happened(kind)'
  BY FaultSteps, FaultsRecorded
<1>2. ASSUME \A i \in DOMAIN jobs' : \/ i \in DOMAIN jobs /\ jobs'[i] = jobs[i]
                                     \/ jobs'[i].state # "failed"
      PROVE  FailedIsKnown'
  BY <1>1, <1>2 DEF FailedIsKnown
<1>3. CASE UNCHANGED jobs
  BY <1>2, <1>3
<1>4. CASE Execute
  <2> DEFINE id == CHOOSE x \in JobId : x \notin DOMAIN jobs
             h  == Head(job_queue)
  <2>1. PICK e : jobs' = [i \in DOMAIN jobs \cup {id} |->
                   IF i = id THEN [hash |-> h, engine |-> e, state |-> "open"] ELSE jobs[i]]
    BY <1>4 DEF Execute, StartJob
  <2> HIDE DEF id, h
  <2>2. \A i \in DOMAIN jobs' : \/ i \in DOMAIN jobs /\ jobs'[i] = jobs[i]
                                \/ jobs'[i].state # "failed"
    BY <2>1
  <2> QED
    BY <1>2, <2>2
<1>5. ASSUME NEW id \in DOMAIN jobs, Settled(id)
      PROVE  FailedIsKnown'
  <2>1. CloseJob(id)
    BY <1>5 DEF Settled, RemoteSuccess, LocalSuccess, RemoteFailure, SocketFailure,
                ConnectionClosed, ExecutionFailure
  <2> QED
    BY <1>2, <2>1, ClosedLeaves
<1>6. ASSUME NEW id \in DOMAIN jobs, NEW state \in {"failed", "silent", "exited"},
             jobs' = [jobs EXCEPT ![id].state = state], state = "failed" => Fault("child")
      PROVE  FailedIsKnown'
  <2>1. /\ DOMAIN jobs' = DOMAIN jobs /\ jobs'[id].state = state
        /\ \A i \in DOMAIN jobs : i # id => jobs'[i] = jobs[i]
    BY <1>6, SameJobs DEF Inv
  <2>2. CASE state = "failed"
    BY <1>1, <1>6, <2>2 DEF FailedIsKnown
  <2>3. CASE state # "failed"
    BY <1>2, <2>1, <2>3
  <2> QED
    BY <2>2, <2>3
<1>7. CASE QuietStep
  <2>1. CASE ReadSignal \/ SystemFailure
    BY <1>3, <2>1 DEF ReadSignal, SystemFailure
  <2>2. ASSUME NEW id \in DOMAIN jobs, QuietJob(id)
        PROVE  FailedIsKnown'
    <3>1. CASE StillRunning(id) \/ ChildFailure(id) \/ TlsFailure(id)
      BY <1>3, <3>1 DEF StillRunning, ChildFailure, TlsFailure
    <3>2. CASE GoesSilent(id)
      BY <1>6, <3>2 DEF GoesSilent
    <3>3. CASE ChildRuns(id)
      BY <1>6, <3>3 DEF ChildRuns, ChildEnds
    <3>4. CASE ChildFails(id)
      BY <1>6, <3>4 DEF ChildFails, ChildEnds
    <3> QED
      BY <2>2, <3>1, <3>2, <3>3, <3>4 DEF QuietJob
  <2> QED
    BY <1>7, <2>1, <2>2 DEF QuietStep
<1>8. CASE \/ UNCHANGED vars \/ AddTarget \/ TakeCached \/ NotStarted \/ QueueEmpty
           \/ PollSuccess \/ PollTimeout \/ PollExit
  BY <1>3, <1>8 DEF vars, AddTarget, TakeCached, NotStarted, QueueEmpty, PollSuccess,
                    PollTimeout, PollExit, AfterPoll
<1> QED
  BY <1>4, <1>5, <1>7, <1>8, StepKinds

\* Before the first target is read, nothing has happened.
LEMMA ThrowInvInit == EnginesSuffice /\ Init => ThrowInv
<1> SUFFICES ASSUME EnginesSuffice, Init PROVE ThrowInv
  OBVIOUS
<1>1. Forcing!Acyclic(dep_graph)
  BY DEF Init, EmptyGraph, Forcing!Acyclic
<1>2. KnownJobs
  BY DEF Init, KnownJobs, HandedOutNow, SeqRange, InFlight
<1>3. WaitsForJobs
  <2>1. \A e \in Engines : InFlightOn(e) = {} /\ job_count[e] = 0
    BY DEF Init, InFlightOn
  <2>2. SlotsMatch
    BY <2>1, FS_EmptySet DEF SlotsMatch
  <2> QED
    BY <2>2 DEF Init, WaitsForJobs
<1>4. HasCause /\ FailedIsKnown
  BY DEF Init, HasCause, FailedIsKnown
<1> QED
  BY <1>1, <1>2, <1>3, <1>4 DEF ThrowInv

\* Every action preserves it.
LEMMA ThrowInvNext ==
  Inv /\ JobInv /\ RefInv /\ TargetInv /\ Forcing!KnownThunks /\ Forcing!NothingMergesNow
      /\ Forcing!NothingComesBackNow /\ ThrowInv /\ [Next]_vars
    => ThrowInv'
<1> SUFFICES ASSUME Inv, JobInv, RefInv, TargetInv, Forcing!KnownThunks,
                    Forcing!NothingMergesNow, Forcing!NothingComesBackNow, ThrowInv,
                    [Next]_vars
             PROVE  ThrowInv'
  OBVIOUS
<1>1. EnginesSuffice /\ Forcing!Acyclic(dep_graph) /\ KnownJobs /\ WaitsForJobs
  BY DEF ThrowInv
<1>2. Forcing!Acyclic(dep_graph')
  BY <1>1, StaysAcyclic
<1>3. KnownJobs'
  BY <1>1, StaysKnown
<1>4. WaitsForJobs'
  BY <1>1, StaysWaiting
<1>5. HasCause' /\ FailedIsKnown'
  BY StaysCaused, FailedStaysKnown DEF ThrowInv
<1> QED
  BY <1>1, <1>2, <1>3, <1>4, <1>5 DEF ThrowInv

\* reduce() throws for one of the failures that do so, or for a SIGCHLD that has outlived
\* the children, and for nothing else: late jobs, duplicates, failures that can be retried
\* and connections that fall silent never make a lookup fail or leave the loop with nothing
\* to wait for, on any number of engines of any capacity (reductor.cc:242, 293, 330, 339,
\* loop.cc:311-346).
THEOREM ReductorThrowsForACause ==
  Forcing!PlainPrograms /\ Forcing!AllTagsReturned /\ EnginesSuffice =>
    (Spec /\ []Forcing!KnownThunks /\ []Forcing!NothingMergesNow /\ []Forcing!NothingComesBackNow
       => []NeverThrows)
<1>1. ThrowInv => NeverThrows
  BY DEF ThrowInv, HasCause, NeverThrows
<1> QED
  BY <1>1, InvInit, InvNext, JobInvInit, JobInvNext, RefInvInit, RefInvNext, TargetInvInit,
     TargetInvNext, ThrowInvInit, ThrowInvNext, PTL DEF Spec
=============================================================================
