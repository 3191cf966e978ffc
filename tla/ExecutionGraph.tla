--------------------------- MODULE ExecutionGraph ---------------------------
(***************************************************************************)
(* The dependency graph of src/src/thunk/graph.cc: the thunks that are     *)
(* still to be reduced, who references whom, and the chain of hashes a     *)
(* thunk goes through as its dependencies are replaced by their results.   *)
(*                                                                         *)
(* A thunk is content-addressed, so the hash of a thunk is modelled by the *)
(* thunk's content (SHA-256 is taken to be collision-free):                *)
(*   [fn, args, outputs]   the function, the data items it reads, one per  *)
(*                         file name, and the tags of its outputs, the     *)
(*                         first one being the main output.                *)
(* A data item [obj, tag] is a value, or an output of a thunk: the bare    *)
(* hash (tag Main) stands for the main output, "hash#tag" for the others.  *)
(*                                                                         *)
(* The graph is a record; the operations below are functions from graphs   *)
(* to graphs, so that the component that owns one (the Reductor) applies   *)
(* them to its member dep_graph_.                                          *)
(***************************************************************************)
EXTENDS Naturals, Sequences, FiniteSets

CONSTANTS
    Thunk,    \* every thunk content that can come to exist
    Value,    \* the hashes of values (objects that are not thunks)
    Tag,      \* output tags
    Main      \* "no tag": the main output, named by the bare hash

\* Thunk and value hashes are told apart by their first character.
ASSUME ObjectAssumption ==
    /\ IsFiniteSet(Thunk)
    /\ Thunk \cap Value = {}
    /\ Main \notin Tag

(***************************************************************************)
(* Thunks                                                                  *)
(***************************************************************************)

Item(obj, tag) == [obj |-> obj, tag |-> tag]

\* An element of vector<ThunkOutput>.
ThunkOutput(hash, tag) == [hash |-> hash, tag |-> tag]

Objects(t) == { t.args[i].obj : i \in DOMAIN t.args }

\* The hashes of thunk.thunks(), with their tags cut off by hash::base.
Deps(t) == Objects(t) \ Value

\* The hashes of thunk.values() and thunk.executables().
ValueDeps(t) == Objects(t) \cap Value

CanBeExecuted(t) == Deps(t) = {}

\* Every thunk reachable from t through the contents on disk, t included.
Subthunks[t \in Thunk] == {t} \cup UNION { Subthunks[d] : d \in Deps(t) }

\* References between contents are well founded: a hash cannot contain itself.
ASSUME SubthunksAssumption ==
    \A t \in Thunk : /\ Deps(t) \subseteq Thunk
                     /\ t \in Subthunks[t]
                     /\ \A d \in Deps(t) : t \notin Subthunks[d]
                     /\ \A s \in Subthunks[t] : Deps(s) \subseteq Subthunks[t]

\* Mutant of UpdateItem: every item follows the main output.
UpdateItemIgnoringTag(item, outs) == Item(outs[1].hash, item.tag)

\* Mutant of UpdateItem: a tagged item loses its tag as soon as it is updated.
UpdateItemLosingTag(item, outs) ==
    LET named == { i \in DOMAIN outs : outs[i].tag = item.tag }
    IN  IF named = {} THEN Item(outs[1].hash, Main)
        ELSE Item(outs[CHOOSE i \in named : TRUE].hash, Main)

\* What Thunk::update_data makes of one item that names `item.obj`, which has
\* been replaced by outs: the bare hash follows the first output; a tagged one
\* follows the output with its tag and loses the tag if that is a value; a tag
\* that is not among the outputs after the first is left as it was.
UpdateItem(item, outs) ==
    LET named == { i \in 2 .. Len(outs) : outs[i].tag = item.tag }
        out   == outs[CHOOSE i \in named : TRUE]
    IN  CASE item.tag = Main -> Item(outs[1].hash, Main)
          [] item.tag # Main /\ named # {} ->
                Item(out.hash, IF out.hash \in Value THEN Main ELSE out.tag)
          [] OTHER -> item

\* update_data for every replaced hash in DOMAIN ren; ren[h] is the
\* vector<ThunkOutput> that takes the place of h.
UpdateData(t, ren) ==
    [t EXCEPT !.args = [i \in DOMAIN t.args |->
        IF t.args[i].obj \in DOMAIN ren
        THEN UpdateItem(t.args[i], ren[t.args[i].obj])
        ELSE t.args[i]]]

\* The outputs of t, each standing for the thunk `hash`.
OutputsAs(t, hash) ==
    [i \in DOMAIN t.outputs |-> ThunkOutput(hash, t.outputs[i])]

\* The orders in which the elements of an unordered_set can be iterated.
Orders(S) == { s \in [1 .. Cardinality(S) -> S] : \A x \in S : \E i \in DOMAIN s : s[i] = x }

(***************************************************************************)
(* Graphs                                                                  *)
(***************************************************************************)

EmptyGraph ==
    [thunks               |-> << >>,     \* hash -> current content
     referencing_thunks   |-> << >>,     \* hash -> hashes of its referrers
     value_dependencies   |-> {},
     original_hashes      |-> << >>,     \* current hash -> first hash
     updated_hashes       |-> << >>]     \* first hash -> current hash

updated_hash(g, h) ==
    IF h \in DOMAIN g.updated_hashes THEN g.updated_hashes[h] ELSE h

original_hash(g, h) ==
    IF h \in DOMAIN g.original_hashes THEN g.original_hashes[h] ELSE h

\* The least subset of S that holds h and, with x, all of succ[x] within S; none
\* if h is not in S.
LeastClosed(h, S, succ) ==
    { x \in S : /\ h \in S
                /\ \A C \in SUBSET S :
                      h \in C /\ (\A y \in C : succ[y] \cap S \subseteq C) => x \in C }

(***************************************************************************)
(* add_thunk                                                               *)
(***************************************************************************)

\* The hash add_thunk(h) returns: the updated hash if the graph holds it.
AddedHash(g, h) ==
    IF updated_hash(g, h) \in DOMAIN g.thunks THEN updated_hash(g, h) ELSE h

\* The thunks add_thunk(h) reads from disk: h, and the dependencies it reaches
\* without passing through a thunk that the graph already holds.
LoadedThunks(g, h) ==
    LET unknown == { s \in Thunk : /\ s \in Subthunks[h]
                                   /\ AddedHash(g, s) \notin DOMAIN g.thunks }
    IN  LeastClosed(h, unknown, [x \in unknown |-> Deps(x)])

\* The rewriting of a freshly read thunk whose dependencies already go by
\* another hash. The new outputs carry the tags of t itself.
LoadedContent(g, t) ==
    LET renamed == { d \in Deps(t) : AddedHash(g, d) # d }
    IN  UpdateData(t, [d \in renamed |-> OutputsAs(t, AddedHash(g, d))])

add_thunk(g, h) ==
    LET loaded == LoadedThunks(g, h)
        ReferencedBy(t) == { AddedHash(g, d) : d \in Deps(t) }
        entries == loaded \cup UNION { ReferencedBy(t) : t \in loaded }
        Referrers(x) == { t \in loaded : x \in ReferencedBy(t) }
    IN [g EXCEPT
        !.thunks = [x \in DOMAIN @ \cup loaded |->
                        IF x \in loaded THEN LoadedContent(g, x) ELSE @[x]],
        !.referencing_thunks = [x \in DOMAIN @ \cup entries |->
                        (IF x \in DOMAIN @ THEN @[x] ELSE {}) \cup Referrers(x)],
        !.value_dependencies = @ \cup UNION { ValueDeps(t) : t \in loaded }]

(***************************************************************************)
(* update_hash                                                             *)
(***************************************************************************)

NewHash(ren, r) == ren[r][1].hash

\* Which of the renamed thunks is the last one to move its entries to a new
\* hash: only if two of them get the same hash is there a choice.
LastMoves(ren) ==
    { last \in [{ NewHash(ren, r) : r \in DOMAIN ren } -> DOMAIN ren] :
        \A n \in DOMAIN last : NewHash(ren, last[n]) = n }

\* The thunk entries update_hash looks up with at(), which throws if absent.
UpdateHashThrows(g, ren) ==
    \E r \in DOMAIN ren : \/ r \notin DOMAIN g.referencing_thunks
                          \/ ~ (g.referencing_thunks[r] \subseteq DOMAIN g.thunks)

\* Mutant of update_hash: the new hash starts with nobody referencing it.
update_hash_without_referrers(g, ren, last) ==
    [g EXCEPT
        !.thunks = [x \in DOMAIN @ \ DOMAIN ren |->
            UpdateData(@[x], [r \in { s \in DOMAIN ren : x \in g.referencing_thunks[s] } |-> ren[r]])],
        !.referencing_thunks = [x \in (DOMAIN @ \ DOMAIN ren) \cup DOMAIN last |->
            IF x \in DOMAIN last THEN {} ELSE @[x]]]

\* update_hash(r, ren[r]) for every r in DOMAIN ren. None of these thunks
\* references another of them, so the order shows only in last.
update_hash(g, ren, last) ==
    LET olds     == DOMAIN ren
        news     == DOMAIN last
        toThunk  == { r \in olds : NewHash(ren, r) \notin Value }
        roots    == { original_hash(g, r) : r \in toThunk }
        RefsOf(x) == [r \in { s \in olds : x \in g.referencing_thunks[s] } |-> ren[r]]
    IN [g EXCEPT
        !.original_hashes = [n \in (DOMAIN @ \ toThunk) \cup (news \ Value) |->
              IF n \in news THEN original_hash(g, last[n]) ELSE @[n]],
        !.updated_hashes = [o \in DOMAIN @ \cup roots |->
              IF o \in roots
              THEN NewHash(ren, CHOOSE r \in toThunk : original_hash(g, r) = o)
              ELSE @[o]],
        !.thunks = [x \in DOMAIN @ \ olds |-> UpdateData(@[x], RefsOf(x))],
        !.referencing_thunks = [x \in (DOMAIN @ \ olds) \cup news |->
              IF x \in news THEN @[last[x]] ELSE @[x]]]

(***************************************************************************)
(* order_one_dependencies: the executable thunks below h.                  *)
(***************************************************************************)

Below(g, h) == LeastClosed(h, DOMAIN g.thunks, [x \in DOMAIN g.thunks |-> Deps(g.thunks[x])])

OrderOneThrows(g, h) ==
    \/ h \notin DOMAIN g.thunks
    \/ \E x \in Below(g, h) : ~ (Deps(g.thunks[x]) \subseteq DOMAIN g.thunks)

\* Mutant of order_one_dependencies: thunks that still wait are handed out too.
order_any_dependencies(g, h) == Below(g, h)

order_one_dependencies(g, h) ==
    { x \in Below(g, h) : CanBeExecuted(g.thunks[x]) }

(***************************************************************************)
(* force_thunk(old, outs): outs has replaced the thunk old, which the      *)
(* graph holds. The steps of the code, in its order.                       *)
(***************************************************************************)

\* Mutant of AddReturned: a returned thunk is not added to the graph.
ReturnedNotAdded(g, outs) == g

\* A returned thunk is added first; the outputs then name it as the graph does.
AddReturned(g, outs) ==
    IF outs[1].hash \in Value THEN g ELSE add_thunk(g, outs[1].hash)

ActualOutputs(g, outs) ==
    IF outs[1].hash \in Value
    THEN outs ELSE [outs EXCEPT ![1].hash = AddedHash(g, outs[1].hash)]

\* outs, whose first hash is in the graph g or a value, takes the place of old.
ReplaceOld(g, old, outs) ==
    update_hash(g, [r \in {old} |-> outs], [n \in {outs[1].hash} |-> old])

\* The referrers of `new` that have become executable, each with the outputs
\* of the thunk that is written under its new hash.
NowExecutable(g, new) ==
    LET ready == { r \in g.referencing_thunks[new] : CanBeExecuted(g.thunks[r]) }
    IN  [r \in ready |-> OutputsAs(g.thunks[r], g.thunks[r])]

\* Each ready thunk is entered under its new hash, unless that is already there.
EnterReady(g, ren) ==
    LET news == { NewHash(ren, r) : r \in DOMAIN ren }
    IN  [g EXCEPT !.thunks = [x \in DOMAIN @ \cup news |-> IF x \in DOMAIN @ THEN @[x] ELSE x]]

\* Every graph the loop over the referrers can end with: the ready thunks are
\* entered and renamed.
RenameReady(g, ren) ==
    { update_hash(entered, ren, last) : entered \in {EnterReady(g, ren)}, last \in LastMoves(ren) }

\* The rest of force_thunk once `new` has replaced the old thunk in g: every
\* [graph, next] pair it can return.
ForceReferrers(g, new, ready) ==
    IF new \in Value
    THEN { [graph |-> [g3 EXCEPT !.referencing_thunks = [x \in DOMAIN @ \ {new} |-> @[x]]],
            next  |-> { NewHash(ready, r) : r \in DOMAIN ready }] : g3 \in RenameReady(g, ready) }
    ELSE { [graph |-> g3, next |-> order_one_dependencies(g3, new)] : g3 \in RenameReady(g, ready) }

\* Does that part look up a thunk that is not there?
ReferrersThrow(g, new, ready) ==
    \/ UpdateHashThrows(g, ready)
    \/ /\ new \notin Value
       /\ \E g3 \in RenameReady(g, ready) : OrderOneThrows(g3, new)

\* Bounded variables over singletons name the stages: the graph with the returned
\* thunk, the outputs as the graph names them, the graph without the old thunk.
ForceThrows(g, old, outs) ==
    \E g1 \in {AddReturned(g, outs)}, actual \in {ActualOutputs(g, outs)} :
        \/ UpdateHashThrows(g1, [r \in {old} |-> actual])
        \/ \E g2 \in {ReplaceOld(g1, old, actual)} :
              \E ready \in {NowExecutable(g2, actual[1].hash)} :
                 ReferrersThrow(g2, actual[1].hash, ready)

\* Every [graph, next] pair force_thunk can return; next is the set of hashes
\* to execute next.
force_thunk(g, old, outs) ==
    UNION { UNION { UNION { ForceReferrers(g2, actual[1].hash, ready)
                            : ready \in {NowExecutable(g2, actual[1].hash)} }
                    : g2 \in {ReplaceOld(g1, old, actual)} }
            : g1 \in {AddReturned(g, outs)}, actual \in {ActualOutputs(g, outs)} }
=============================================================================
