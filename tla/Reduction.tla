----------------------------- MODULE Reduction ------------------------------
(***************************************************************************)
(* What forcing a set of thunks promises, whoever executes them and in     *)
(* whatever order: the owner of an ExecutionGraph holds a set of thunks    *)
(* that are ready to be executed, and replaces them one at a time by what  *)
(* they evaluate to, until every target has become a value.                *)
(*                                                                         *)
(* It is the client's view of src/src/thunk/graph.cc, and the abstract     *)
(* specification that the Reductor implements.                             *)
(***************************************************************************)
EXTENDS ExecutionGraph

CONSTANTS
    Targets,   \* the thunks to force
    Eval(_),   \* the vector<ThunkOutput> that executing a thunk yields
    Unknown    \* the answer for a target that is still to be reduced

ASSUME TargetsAssumption == Targets \subseteq Thunk /\ Unknown \notin Value

VARIABLES
    unloaded,  \* targets that are still to be added
    graph,     \* the ExecutionGraph
    pending,   \* hashes the graph has handed out for execution
    answer     \* what each target has been reduced to

vars == <<unloaded, graph, pending, answer>>

Init ==
    /\ unloaded = Targets
    /\ graph = EmptyGraph
    /\ pending = {}
    /\ answer = [t \in Targets |-> Unknown]

\* The targets are added first, in any order.
Load(t) ==
    /\ t \in unloaded
    /\ unloaded' = unloaded \ {t}
    /\ graph' = add_thunk(graph, t)
    /\ pending' = pending \cup order_one_dependencies(add_thunk(graph, t), t)
    /\ UNCHANGED answer

\* The result of a pending thunk arrives.
ForceThunk(h) ==
    /\ unloaded = {}
    /\ h \in pending
    /\ ~ ForceThrows(graph, h, Eval(h))
    /\ \E r \in force_thunk(graph, h, Eval(h)) :
        /\ graph' = r.graph
        /\ pending' = (pending \ {h}) \cup r.next
        /\ LET t == original_hash(r.graph, h)
           IN  answer' = IF Eval(h)[1].hash \in Value /\ t \in Targets
                         THEN [answer EXCEPT ![t] = Eval(h)[1].hash]
                         ELSE answer
    /\ UNCHANGED unloaded

AllReduced == \A t \in Targets : answer[t] # Unknown

Next ==
    \/ \E t \in unloaded : Load(t)
    \/ \E h \in pending : ForceThunk(h)
    \/ AllReduced /\ pending = {} /\ UNCHANGED vars

Spec == Init /\ [][Next]_vars

-----------------------------------------------------------------------------
\* The graph's maps are functions over thunk hashes and what is handed out is
\* a set of thunks (the type invariant).
TypeOK ==
    /\ unloaded \subseteq Targets
    /\ \A h \in DOMAIN graph.thunks : h \in Thunk /\ graph.thunks[h] \in Thunk
    /\ \A h \in DOMAIN graph.referencing_thunks :
          h \in Thunk /\ graph.referencing_thunks[h] \subseteq Thunk
    /\ graph.value_dependencies \subseteq Value
    /\ pending \subseteq Thunk
    /\ answer \in [Targets -> Value \cup {Unknown}]

\* No reference is lost: a thunk that is still waiting for another one is in
\* that one's referencing list, so the result will reach it
\* (graph.cc:47, 98: the list moves along as hashes change).
NoLostReference ==
    \A t \in DOMAIN graph.thunks : \A d \in Deps(graph.thunks[t]) :
        /\ d \in DOMAIN graph.thunks
        /\ t \in graph.referencing_thunks[d]

\* Forcing a pending thunk finds every entry it looks up: no referrer is stale
\* and no dependency is missing (the at() calls of graph.cc:89-90, 124-125 and
\* the exception of graph.cc:161).
ForcingNeverThrows == \A h \in pending : ~ ForceThrows(graph, h, Eval(h))

\* Nothing ready is forgotten, and what is handed out is the content the graph
\* holds: the executable thunks of the graph are the pending ones, each under
\* the hash of its present content (graph.cc:124-145).
HandedOut ==
    /\ pending = { h \in DOMAIN graph.thunks : CanBeExecuted(graph.thunks[h]) }
    /\ \A h \in pending : graph.thunks[h] = h

(***************************************************************************)
(* The programs for which no job is forgotten: what the proofs take of the *)
(* thunks that the front ends and the functions of a program create. Both  *)
(* clauses of PlainResult matter: a returned thunk that reads a tagged     *)
(* output of a thunk whose hash has changed keeps the old hash             *)
(* (graph.cc:56), and a referrer that becomes ready when a thunk returns a *)
(* thunk next to a value is not handed out (graph.cc:145).                 *)
(***************************************************************************)

IsContent(c) ==
    /\ c = [field \in DOMAIN c |-> c[field]] /\ {"args", "outputs"} \subseteq DOMAIN c
    /\ c.args = [i \in DOMAIN c.args |-> c.args[i]]
    /\ c.outputs \in Seq(Tag) \ {<< >>}

\* A tagged item names one of the outputs after the first of its thunk.
TagsKnown(c) ==
    \A i \in DOMAIN c.args :
        c.args[i].obj \notin Value /\ c.args[i].tag # Main =>
            \E k \in 2 .. Len(c.args[i].obj.outputs) :
                c.args[i].obj.outputs[k] = c.args[i].tag

\* Only main outputs of thunks are read.
MainOnly(c) == \A i \in DOMAIN c.args : c.args[i].obj \notin Value => c.args[i].tag = Main

ThunkShapes ==
    /\ \A t \in Thunk : IsContent(t) /\ TagsKnown(t)
    /\ \A v \in Value : ~ IsContent(v)

\* Executing h yields values, or one thunk that reads main outputs only.
PlainResult(h) ==
    \/ Eval(h) \in Seq([hash : Value, tag : Tag]) \ {<< >>}
    \/ /\ Len(h.outputs) = 1
       /\ Eval(h) \in Seq([hash : Thunk, tag : Tag]) /\ Len(Eval(h)) = 1
       /\ \A s \in Subthunks[Eval(h)[1].hash] : MainOnly(s)

PlainPrograms == ThunkShapes /\ \A h \in Thunk : CanBeExecuted(h) => PlainResult(h)

\* Executing h yields all outputs that the thunk lists, under their tags.
TagsReturned(h) ==
    /\ DOMAIN Eval(h) = DOMAIN h.outputs
    /\ \A i \in DOMAIN h.outputs : Eval(h)[i].tag = h.outputs[i]

AllTagsReturned == \A h \in Thunk : CanBeExecuted(h) => TagsReturned(h)

\* Forcing h does not make two thunks of the graph one: what it returns is new to the
\* graph, and the thunks that become ready are new and different ones.
NothingMerges(g, h) ==
    LET new   == Eval(h)[1].hash
        g2    == ReplaceOld(g, h, Eval(h))
        ready == DOMAIN NowExecutable(g2, new)
    IN  IF new \in Value
        THEN \A r \in ready : /\ g2.thunks[r] \notin DOMAIN g2.thunks
                             /\ \A s \in ready : g2.thunks[s] = g2.thunks[r] => s = r
        ELSE AddedHash(g, new) \notin DOMAIN g.thunks

\* No thunk that can be executed now would make two thunks one.
NothingMergesNow ==
    \A h \in DOMAIN graph.thunks : CanBeExecuted(h) => NothingMerges(graph, h)

\* Forcing h brings nothing back: no referrer becomes the thunk it waited for, and what
\* h returns reads no target that has been reduced and waits for nothing that waits for h.
NothingComesBack(g, h) ==
    LET new    == Eval(h)[1].hash
        g2     == ReplaceOld(g, h, Eval(h))
        loaded == LoadedThunks(g, new)
    IN  IF new \in Value
        THEN \A r \in DOMAIN NowExecutable(g2, new) : g2.thunks[r] # h
        ELSE /\ \A x \in loaded : original_hash(g, x) \notin Targets
             /\ \A d \in UNION { Deps(x) : x \in loaded } : h \notin Below(g, AddedHash(g, d))

\* No thunk that can be executed now would bring anything back.
NothingComesBackNow ==
    \A h \in DOMAIN graph.thunks : CanBeExecuted(h) => NothingComesBack(graph, h)

\* Thunk is what it is declared to be: it holds every thunk that comes to exist.
KnownThunks == DOMAIN graph.thunks \subseteq Thunk
=============================================================================
