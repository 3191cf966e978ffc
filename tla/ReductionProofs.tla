-------------------------- MODULE ReductionProofs ---------------------------
(***************************************************************************)
(* Proofs about the graph of thunks and about Reduction, for any targets   *)
(* and any plain program: what is ready has been handed out under the hash *)
(* of its present content, no reference is lost, and forcing finds every   *)
(* entry that it looks up.                                                 *)
(*                                                                         *)
(* A graph is Sound when a thunk's name tells whether it waits and every   *)
(* listed referrer waits for the thunk it is listed under; it is Complete  *)
(* when, the other way around, whoever waits is listed. add_thunk and      *)
(* force_thunk are followed stage by stage: the returned thunk is loaded,  *)
(* the old one replaced, the referrers that become ready renamed.          *)
(***************************************************************************)
EXTENDS Reduction, FiniteSetTheorems, WellFoundedInduction, TLAPS

(***************************************************************************)
(* Graphs stay finite                                                      *)
(***************************************************************************)

\* The part of a graph's type that its owner relies on.
IsGraph(g) == /\ DOMAIN g = DOMAIN EmptyGraph
              /\ IsFiniteSet(DOMAIN g.thunks)

\* add_thunk enters finitely many thunks (graph.cc:16-68).
LEMMA AddThunkIsGraph ==
  ASSUME NEW g, IsGraph(g), NEW h
  PROVE  IsGraph(add_thunk(g, h))
<1> DEFINE L == LoadedThunks(g, h)
<1>1. L \subseteq Thunk
  BY DEF LoadedThunks, LeastClosed
<1>2. IsFiniteSet(L)
  BY <1>1, FS_Subset, ObjectAssumption
<1>3. "thunks" \in DOMAIN g
  BY DEF IsGraph, EmptyGraph
<1>4. DOMAIN add_thunk(g, h) = DOMAIN g
  BY DEF add_thunk
<1>5. DOMAIN add_thunk(g, h).thunks = DOMAIN g.thunks \cup L
  BY <1>3 DEF add_thunk
<1>6. IsFiniteSet(DOMAIN g.thunks \cup L)
  BY <1>2, FS_Union DEF IsGraph
<1> QED
  BY <1>4, <1>5, <1>6 DEF IsGraph

\* update_hash enters no thunk, only removes some (graph.cc:70-100).
LEMMA UpdateHashIsGraph ==
  ASSUME NEW g, IsGraph(g), NEW ren, NEW last
  PROVE  /\ IsGraph(update_hash(g, ren, last))
         /\ DOMAIN update_hash(g, ren, last).thunks = DOMAIN g.thunks \ DOMAIN ren
<1>1. "thunks" \in DOMAIN g
  BY DEF IsGraph, EmptyGraph
<1>2. DOMAIN update_hash(g, ren, last) = DOMAIN g
  BY DEF update_hash
<1>3. DOMAIN update_hash(g, ren, last).thunks = DOMAIN g.thunks \ DOMAIN ren
  BY <1>1 DEF update_hash
<1>4. IsFiniteSet(DOMAIN g.thunks \ DOMAIN ren)
  BY FS_Difference DEF IsGraph
<1> QED
  BY <1>2, <1>3, <1>4 DEF IsGraph

\* A returned thunk is added, or nothing is (graph.cc:117-120).
LEMMA AddReturnedIsGraph ==
  ASSUME NEW g, IsGraph(g), NEW outs
  PROVE  IsGraph(AddReturned(g, outs))
  BY AddThunkIsGraph DEF AddReturned

\* The list of referrers moves to the new hash (graph.cc:98).
LEMMA ReferrersMove ==
  ASSUME NEW g, IsGraph(g), NEW old, NEW outs
  PROVE  ReplaceOld(g, old, outs).referencing_thunks[outs[1].hash] = g.referencing_thunks[old]
<1> DEFINE new  == outs[1].hash
           ren  == [r \in {old} |-> outs]
           last == [n \in {new} |-> old]
<1>1. "referencing_thunks" \in DOMAIN g
  BY DEF IsGraph, EmptyGraph
<1>2. update_hash(g, ren, last).referencing_thunks
        = [x \in (DOMAIN g.referencing_thunks \ DOMAIN ren) \cup DOMAIN last |->
              IF x \in DOMAIN last THEN g.referencing_thunks[last[x]]
              ELSE g.referencing_thunks[x]]
  BY <1>1 DEF update_hash
<1>3. new \in DOMAIN last /\ last[new] = old
  OBVIOUS
<1>4. ReplaceOld(g, old, outs) = update_hash(g, ren, last)
  BY DEF ReplaceOld
<1> HIDE DEF new, ren, last
<1>5. update_hash(g, ren, last).referencing_thunks[new] = g.referencing_thunks[old]
  BY <1>2, <1>3
<1> QED
  BY <1>4, <1>5 DEF new

\* The referrers that become executable are among the thunks the graph held.
LEMMA ReadyIsFinite ==
  ASSUME NEW g, IsGraph(g), NEW old, NEW outs,
         ~ UpdateHashThrows(g, [r \in {old} |-> outs])
  PROVE  IsFiniteSet(DOMAIN NowExecutable(ReplaceOld(g, old, outs), outs[1].hash))
<1> DEFINE g2  == ReplaceOld(g, old, outs)
           new == outs[1].hash
<1>1. g.referencing_thunks[old] \subseteq DOMAIN g.thunks
  BY DEF UpdateHashThrows
<1>2. DOMAIN NowExecutable(g2, new) \subseteq g2.referencing_thunks[new]
  BY DEF NowExecutable
<1>3. g2.referencing_thunks[new] = g.referencing_thunks[old]
  BY ReferrersMove
<1> HIDE DEF g2, new
<1>4. DOMAIN NowExecutable(g2, new) \in SUBSET DOMAIN g.thunks
  BY <1>1, <1>2, <1>3
<1> QED
  BY <1>4, FS_Subset DEF IsGraph, g2, new

\* The image of a finite set under a function is finite.
LEMMA ImageIsFinite ==
  ASSUME NEW f, IsFiniteSet(DOMAIN f)
  PROVE  IsFiniteSet({ NewHash(f, r) : r \in DOMAIN f })
<1> DEFINE T == { NewHash(f, r) : r \in DOMAIN f }
           n == [r \in DOMAIN f |-> NewHash(f, r)]
<1>1. n \in Surjection(DOMAIN f, T)
  BY DEF Surjection
<1> QED
  BY <1>1, FS_Surjection

\* Entering and renaming finitely many ready thunks keeps the graph finite, and
\* finitely many thunks are handed out (graph.cc:124-153).
LEMMA ReferrersAreGraph ==
  ASSUME NEW g, IsGraph(g), NEW new, NEW ready, IsFiniteSet(DOMAIN ready),
         NEW r \in ForceReferrers(g, new, ready)
  PROVE  IsGraph(r.graph) /\ IsFiniteSet(r.next)
<1> DEFINE news == { NewHash(ready, x) : x \in DOMAIN ready }
<1>1. IsFiniteSet(news)
  BY ImageIsFinite
<1>2. IsGraph(EnterReady(g, ready))
  <2>1. "thunks" \in DOMAIN g
    BY DEF IsGraph, EmptyGraph
  <2>2. /\ DOMAIN EnterReady(g, ready) = DOMAIN g
        /\ DOMAIN EnterReady(g, ready).thunks = DOMAIN g.thunks \cup news
    BY <2>1 DEF EnterReady
  <2>3. IsFiniteSet(DOMAIN g.thunks \cup news)
    BY <1>1, FS_Union DEF IsGraph
  <2> QED
    BY <2>2, <2>3 DEF IsGraph
<1>3. \A g3 \in RenameReady(g, ready) : IsGraph(g3)
  <2> SUFFICES ASSUME NEW g3 \in RenameReady(g, ready)
               PROVE  IsGraph(g3)
    OBVIOUS
  <2>1. \E last : g3 = update_hash(EnterReady(g, ready), ready, last)
    BY DEF RenameReady
  <2> QED
    BY <1>2, <2>1, UpdateHashIsGraph
<1>4. CASE new \in Value
  <2>1. PICK g3 \in RenameReady(g, ready) :
          r = [graph |-> [g3 EXCEPT !.referencing_thunks = [x \in DOMAIN @ \ {new} |-> @[x]]],
               next  |-> news]
    BY <1>4 DEF ForceReferrers
  <2>2. IsGraph(g3)
    BY <1>3
  <2> HIDE DEF news
  <2>3. IsGraph(r.graph)
    BY <2>1, <2>2 DEF IsGraph, EmptyGraph
  <2>4. r.next = news
    BY <2>1
  <2> QED
    BY <1>1, <2>3, <2>4
<1>5. CASE new \notin Value
  <2>1. PICK g3 \in RenameReady(g, ready) :
          r = [graph |-> g3, next |-> order_one_dependencies(g3, new)]
    BY <1>5 DEF ForceReferrers
  <2>2. IsGraph(g3)
    BY <1>3
  <2>3. order_one_dependencies(g3, new) \in SUBSET DOMAIN g3.thunks
    BY DEF order_one_dependencies, Below, LeastClosed
  <2>4. IsFiniteSet(order_one_dependencies(g3, new))
    BY <2>2, <2>3, FS_Subset DEF IsGraph
  <2> QED
    BY <2>1, <2>2, <2>4
<1> QED
  BY <1>4, <1>5

\* force_thunk returns a finite graph and a finite set of thunks to execute,
\* all of them entered in the graph or made executable (graph.cc:102-154).
LEMMA ForceIsGraph ==
  ASSUME NEW g, IsGraph(g), NEW old, NEW outs, ~ ForceThrows(g, old, outs),
         NEW r \in force_thunk(g, old, outs)
  PROVE  IsGraph(r.graph) /\ IsFiniteSet(r.next)
<1> DEFINE g1     == AddReturned(g, outs)
           actual == ActualOutputs(g, outs)
           new    == actual[1].hash
           g2     == ReplaceOld(g1, old, actual)
           ready  == NowExecutable(g2, new)
<1>1. ~ UpdateHashThrows(g1, [x \in {old} |-> actual])
  BY DEF ForceThrows
<1>2. r \in ForceReferrers(g2, new, ready)
  BY DEF force_thunk
<1>3. IsGraph(g1)
  BY AddReturnedIsGraph
<1>4. IsGraph(g2)
  BY <1>3, UpdateHashIsGraph DEF ReplaceOld
<1> HIDE DEF g1, actual
<1>5. IsFiniteSet(DOMAIN ready)
  BY <1>1, <1>3, ReadyIsFinite
<1> QED
  BY <1>2, <1>4, <1>5, ReferrersAreGraph

(***************************************************************************)
(* What update_data does to a thunk                                        *)
(***************************************************************************)

\* update_data rewrites the items it is asked to and nothing else (thunk.cc:101-139).
LEMMA UpdateDataParts ==
  ASSUME NEW c, IsContent(c), NEW ren
  PROVE  /\ IsContent(UpdateData(c, ren))
         /\ UpdateData(c, ren).outputs = c.outputs
         /\ UpdateData(c, ren).args =
              [i \in DOMAIN c.args |->
                  IF c.args[i].obj \in DOMAIN ren
                  THEN UpdateItem(c.args[i], ren[c.args[i].obj]) ELSE c.args[i]]
<1>1. "args" \in DOMAIN c /\ "outputs" \in DOMAIN c
  BY DEF IsContent
<1>2. DOMAIN UpdateData(c, ren) = DOMAIN c
  BY DEF UpdateData
<1>3. UpdateData(c, ren).outputs = c.outputs
  BY <1>1 DEF UpdateData
<1>4. UpdateData(c, ren).args =
              [i \in DOMAIN c.args |->
                  IF c.args[i].obj \in DOMAIN ren
                  THEN UpdateItem(c.args[i], ren[c.args[i].obj]) ELSE c.args[i]]
  BY <1>1 DEF UpdateData
<1>5. /\ UpdateData(c, ren) = [field \in DOMAIN c |-> UpdateData(c, ren)[field]]
      /\ UpdateData(c, ren).args =
            [i \in DOMAIN UpdateData(c, ren).args |-> UpdateData(c, ren).args[i]]
  BY <1>1 DEF UpdateData
<1> QED
  BY <1>2, <1>3, <1>4, <1>5 DEF IsContent

\* Nothing happens to a thunk that names none of the replaced hashes.
LEMMA NothingReplaced ==
  ASSUME NEW c, IsContent(c), NEW ren, \A i \in DOMAIN c.args : c.args[i].obj \notin DOMAIN ren
  PROVE  UpdateData(c, ren) = c
<1>1. c = [field \in DOMAIN c |-> c[field]] /\ c.args = [i \in DOMAIN c.args |-> c.args[i]]
  BY DEF IsContent
<1>2. UpdateData(c, ren) = [c EXCEPT !.args = c.args]
  BY <1>1 DEF UpdateData
<1> QED
  BY <1>1, <1>2

\* Every item of c that ren replaces goes to the thunk `to` says and keeps its tag,
\* which the new thunk has too.
Moves(c, ren, to) ==
    \A i \in DOMAIN c.args : c.args[i].obj \in DOMAIN ren =>
        /\ UpdateItem(c.args[i], ren[c.args[i].obj]) = Item(to[c.args[i].obj], c.args[i].tag)
        /\ to[c.args[i].obj] \notin Value
        /\ c.args[i].tag # Main => to[c.args[i].obj].outputs = c.args[i].obj.outputs

\* If every replaced item goes to another thunk and keeps its tag, the thunk waits
\* for as much as before, for the new names in place of the old.
LEMMA MovedContent ==
  ASSUME NEW c, IsContent(c), TagsKnown(c), NEW ren, NEW to,
         DOMAIN ren \cap Value = {},
         Moves(c, ren, to)
  PROVE  /\ TagsKnown(UpdateData(c, ren))
         /\ CanBeExecuted(UpdateData(c, ren)) <=> CanBeExecuted(c)
         /\ \A d \in Deps(c) : IF d \in DOMAIN ren THEN to[d] \in Deps(UpdateData(c, ren))
                               ELSE d \in Deps(UpdateData(c, ren))
         /\ \A d \in Deps(UpdateData(c, ren)) :
               \E e \in Deps(c) : d = IF e \in DOMAIN ren THEN to[e] ELSE e
<1> DEFINE u == UpdateData(c, ren)
<1>0. u.args = [i \in DOMAIN c.args |->
                  IF c.args[i].obj \in DOMAIN ren
                  THEN UpdateItem(c.args[i], ren[c.args[i].obj]) ELSE c.args[i]]
  BY UpdateDataParts, Zenon
<1> HIDE DEF u
<1>1. DOMAIN u.args = DOMAIN c.args
  BY <1>0
<1>2. \A i \in DOMAIN c.args : u.args[i] = IF c.args[i].obj \in DOMAIN ren
            THEN Item(to[c.args[i].obj], c.args[i].tag) ELSE c.args[i]
  BY <1>0 DEF Moves
<1>3. \A i \in DOMAIN c.args : c.args[i].obj \in DOMAIN ren =>
          u.args[i].obj = to[c.args[i].obj] /\ u.args[i].tag = c.args[i].tag
  <2> SUFFICES ASSUME NEW i \in DOMAIN c.args, c.args[i].obj \in DOMAIN ren
               PROVE  u.args[i].obj = to[c.args[i].obj] /\ u.args[i].tag = c.args[i].tag
    OBVIOUS
  <2>1. u.args[i] = Item(to[c.args[i].obj], c.args[i].tag)
    BY <1>2
  <2> QED
    BY <2>1 DEF Item
<1>4. \A i \in DOMAIN c.args : c.args[i].obj \notin DOMAIN ren => u.args[i] = c.args[i]
  BY <1>2
<1>5. TagsKnown(u)
  <2> SUFFICES ASSUME NEW i \in DOMAIN c.args, u.args[i].obj \notin Value, u.args[i].tag # Main
               PROVE  \E k \in 2 .. Len(u.args[i].obj.outputs) :
                          u.args[i].obj.outputs[k] = u.args[i].tag
    BY <1>1 DEF TagsKnown
  <2>1. CASE c.args[i].obj \in DOMAIN ren
    <3>1. c.args[i].obj \notin Value /\ c.args[i].tag # Main
      BY <1>3, <2>1
    <3>2. u.args[i].obj.outputs = c.args[i].obj.outputs /\ u.args[i].tag = c.args[i].tag
      BY <1>3, <2>1, <3>1 DEF Moves
    <3>3. \E k \in 2 .. Len(c.args[i].obj.outputs) : c.args[i].obj.outputs[k] = c.args[i].tag
      BY <3>1 DEF TagsKnown
    <3> QED
      BY <3>2, <3>3
  <2>2. CASE c.args[i].obj \notin DOMAIN ren
    BY <1>4, <2>2 DEF TagsKnown
  <2> QED
    BY <2>1, <2>2
<1>6. \A i \in DOMAIN c.args : u.args[i].obj \in Value <=> c.args[i].obj \in Value
  BY <1>3, <1>4 DEF Moves
<1>7. CanBeExecuted(u) <=> CanBeExecuted(c)
  BY <1>1, <1>6 DEF CanBeExecuted, Deps, Objects
<1>8. ASSUME NEW d \in Deps(c)
      PROVE  IF d \in DOMAIN ren THEN to[d] \in Deps(u) ELSE d \in Deps(u)
  <2>1. PICK i \in DOMAIN c.args : c.args[i].obj = d /\ d \notin Value
    BY DEF Deps, Objects
  <2>2. u.args[i].obj = IF d \in DOMAIN ren THEN to[d] ELSE d
    BY <1>3, <1>4, <2>1
  <2>3. u.args[i].obj \notin Value
    BY <1>6, <2>1
  <2> QED
    BY <1>1, <2>2, <2>3 DEF Deps, Objects
<1>9. ASSUME NEW d \in Deps(u)
      PROVE  \E e \in Deps(c) : d = IF e \in DOMAIN ren THEN to[e] ELSE e
  <2>1. PICK i \in DOMAIN c.args : u.args[i].obj = d /\ d \notin Value
    BY <1>1 DEF Deps, Objects
  <2>2. c.args[i].obj \in Deps(c)
    BY <1>6, <2>1 DEF Deps, Objects
  <2> QED
    BY <1>3, <1>4, <2>1, <2>2
<1> QED
  BY <1>5, <1>7, <1>8, <1>9 DEF u

LEMMA ElementOf ==
  ASSUME NEW S, NEW s \in Seq(S), NEW k \in 1 .. Len(s)
  PROVE  s[k] \in S
  OBVIOUS

\* The hashes of a vector<ThunkOutput>.
LEMMA HashesOf ==
  ASSUME NEW H, NEW T, NEW s \in Seq([hash : H, tag : T])
  PROVE  \A k \in 1 .. Len(s) : s[k].hash \in H
<1> SUFFICES ASSUME NEW k \in 1 .. Len(s) PROVE s[k].hash \in H
  OBVIOUS
<1> DEFINE R == [hash : H, tag : T]
<1>1. s \in Seq(R) /\ k \in 1 .. Len(s)
  OBVIOUS
<1> HIDE DEF R
<1>2. s[k] \in R
  BY <1>1, ElementOf
<1>3. s[k] \in [hash : H, tag : T]
  BY <1>2 DEF R
<1> QED
  BY <1>3

ValueOutputs == Seq([hash : Value, tag : Tag]) \ {<< >>}

\* The outputs of t are outs.
Tagged(t, outs) ==
    /\ t.outputs \in Seq(Tag)
    /\ DOMAIN outs = DOMAIN t.outputs
    /\ \A i \in DOMAIN outs : outs[i].tag = t.outputs[i]

\* If a thunk is replaced by values, its referrers wait for everything else they
\* waited for, and for nothing new.
LEMMA ReducedContent ==
  ASSUME NEW c, IsContent(c), TagsKnown(c), NEW old, old \notin Value, NEW ren,
         DOMAIN ren \subseteq {old},
         \A x \in DOMAIN ren : ren[x] \in ValueOutputs
  PROVE  /\ TagsKnown(UpdateData(c, ren))
         /\ Deps(UpdateData(c, ren)) \subseteq Deps(c)
         /\ Deps(c) \ {old} \subseteq Deps(UpdateData(c, ren))
         /\ (\A x \in DOMAIN ren : Tagged(old, ren[x])) => Deps(UpdateData(c, ren)) \cap DOMAIN ren = {}
<1> DEFINE u == UpdateData(c, ren)
<1>0. u.args = [i \in DOMAIN c.args |->
                  IF c.args[i].obj \in DOMAIN ren
                  THEN UpdateItem(c.args[i], ren[c.args[i].obj]) ELSE c.args[i]]
  BY UpdateDataParts, Zenon
<1> HIDE DEF u
<1>1. DOMAIN u.args = DOMAIN c.args
  BY <1>0
<1>2. \A i \in DOMAIN c.args : u.args[i] = IF c.args[i].obj \in DOMAIN ren
            THEN UpdateItem(c.args[i], ren[c.args[i].obj]) ELSE c.args[i]
  BY <1>0
<1>3. ASSUME NEW i \in DOMAIN c.args
      PROVE  /\ u.args[i] = c.args[i] \/ (c.args[i].obj = old /\ u.args[i].obj \in Value)
             /\ c.args[i].obj \in DOMAIN ren /\ Tagged(old, ren[old]) => u.args[i].obj \in Value
  <2>1. CASE c.args[i].obj \notin DOMAIN ren
    BY <1>2, <2>1
  <2>2. CASE c.args[i].obj \in DOMAIN ren
    <3> DEFINE item == c.args[i]
               outs == ren[old]
               named == { k \in 2 .. Len(outs) : outs[k].tag = item.tag }
               out   == outs[CHOOSE k \in named : TRUE]
    <3>1. item.obj = old /\ outs \in Seq([hash : Value, tag : Tag]) /\ outs # << >>
      BY <2>2 DEF ValueOutputs
    <3>2. u.args[i] = UpdateItem(item, outs)
      BY <1>2, <2>2, <3>1
    <3>s. \A k \in 1 .. Len(outs) : outs[k].hash \in Value
      <4> HIDE DEF outs
      <4> QED
        BY <3>1, HashesOf
    <3>3. outs[1].hash \in Value
      <4> HIDE DEF outs
      <4> QED
        BY <3>1, <3>s
    <3>4. named # {} => out.hash \in Value
      <4>1. named # {} => (CHOOSE k \in named : TRUE) \in named
        OBVIOUS
      <4>2. \A k \in named : outs[k].hash \in Value
        <5> HIDE DEF outs
        <5>1. \A k \in named : k \in 1 .. Len(outs)
          BY <3>1
        <5> QED
          BY <3>s, <5>1
      <4> QED
        BY <4>1, <4>2
    <3>5. \/ UpdateItem(item, outs) = Item(outs[1].hash, Main)
          \/ UpdateItem(item, outs) = item
          \/ /\ named # {}
             /\ UpdateItem(item, outs) = Item(out.hash, IF out.hash \in Value THEN Main ELSE out.tag)
      BY DEF UpdateItem
    <3>6. Tagged(old, outs) /\ item.tag # Main => named # {}
      <4> SUFFICES ASSUME Tagged(old, outs), item.tag # Main PROVE named # {}
        OBVIOUS
      <4>1. PICK k \in 2 .. Len(old.outputs) : old.outputs[k] = item.tag
        BY <3>1 DEF TagsKnown
      <4> HIDE DEF outs
      <4>2. DOMAIN outs = 1 .. Len(outs) /\ Len(outs) \in Nat
        BY <3>1
      <4>3. k \in DOMAIN old.outputs /\ outs[k].tag = item.tag
        <5>1. DOMAIN old.outputs = 1 .. Len(old.outputs) /\ Len(old.outputs) \in Nat
          BY DEF Tagged
        <5>2. k \in DOMAIN old.outputs
          BY <4>1, <5>1
        <5>3. outs[k].tag = old.outputs[k]
          BY <5>2 DEF Tagged
        <5> QED
          BY <4>1, <5>2, <5>3
      <4> QED
        BY <4>1, <4>2, <4>3 DEF Tagged
    <3>7. /\ item.tag = Main => UpdateItem(item, outs) = Item(outs[1].hash, Main)
          /\ item.tag # Main /\ named # {} =>
                UpdateItem(item, outs) = Item(out.hash, IF out.hash \in Value THEN Main ELSE out.tag)
      BY DEF UpdateItem
    <3> HIDE DEF named, out
    <3>8. u.args[i] = c.args[i] \/ (c.args[i].obj = old /\ u.args[i].obj \in Value)
      BY <3>1, <3>2, <3>3, <3>4, <3>5 DEF Item
    <3>9. Tagged(old, outs) => u.args[i].obj \in Value
      BY <3>2, <3>3, <3>4, <3>6, <3>7 DEF Item
    <3> QED
      BY <3>8, <3>9
  <2> QED
    BY <2>1, <2>2
<1>4. TagsKnown(u)
  BY <1>1, <1>3 DEF TagsKnown
<1>5. Deps(u) \subseteq Deps(c)
  BY <1>1, <1>3 DEF Deps, Objects
<1>6. Deps(c) \ {old} \subseteq Deps(u)
  BY <1>1, <1>3 DEF Deps, Objects
<1>7. ASSUME \A x \in DOMAIN ren : Tagged(old, ren[x])
      PROVE  Deps(u) \cap DOMAIN ren = {}
  <2>1. \A i \in DOMAIN u.args : u.args[i].obj \notin Value => u.args[i].obj \notin DOMAIN ren
    BY <1>1, <1>3, <1>7
  <2> QED
    BY <2>1 DEF Deps, Objects
<1> QED
  BY <1>4, <1>5, <1>6, <1>7 DEF u

\* A renamed thunk stands under all its tags for itself.
LEMMA RenamedItem ==
  ASSUME NEW item, NEW n, IsContent(n), n \notin Value,
         item.tag # Main => \E k \in 2 .. Len(n.outputs) : n.outputs[k] = item.tag
  PROVE  UpdateItem(item, OutputsAs(n, n)) = Item(n, item.tag)
<1> DEFINE outs  == OutputsAs(n, n)
           named == { k \in 2 .. Len(outs) : outs[k].tag = item.tag }
           out   == outs[CHOOSE k \in named : TRUE]
<1>1. n.outputs \in Seq(Tag) /\ n.outputs # << >>
  BY DEF IsContent
<1>2. outs = [i \in 1 .. Len(n.outputs) |-> ThunkOutput(n, n.outputs[i])]
  BY <1>1 DEF OutputsAs
<1>3. Len(outs) = Len(n.outputs)
  <2>1. Len(n.outputs) \in Nat
    BY <1>1
  <2> QED
    BY <1>2, <2>1
<1>4. \A i \in 1 .. Len(n.outputs) : outs[i].hash = n /\ outs[i].tag = n.outputs[i]
  BY <1>2 DEF ThunkOutput
<1>5. Len(n.outputs) \in Nat /\ Len(n.outputs) >= 1
  BY <1>1
<1> HIDE DEF outs
<1>6. CASE item.tag = Main
  <2>1. UpdateItem(item, outs) = Item(outs[1].hash, Main)
    BY <1>6 DEF UpdateItem
  <2> QED
    BY <1>4, <1>5, <1>6, <2>1 DEF outs
<1>7. CASE item.tag # Main
  <2>1. named # {}
    BY <1>3, <1>4, <1>5, <1>7
  <2>2. UpdateItem(item, outs) = Item(out.hash, IF out.hash \in Value THEN Main ELSE out.tag)
    BY <1>7, <2>1 DEF UpdateItem
  <2>3. (CHOOSE k \in named : TRUE) \in named
    BY <2>1
  <2>4. out.hash = n /\ out.tag = item.tag
    BY <1>3, <1>4, <1>5, <2>3
  <2> HIDE DEF named, out
  <2> QED
    BY <2>2, <2>4 DEF outs
<1> QED
  BY <1>6, <1>7

(***************************************************************************)
(* Sound graphs                                                            *)
(***************************************************************************)

\* An entry's name has its outputs, and its tagged items can be followed.
Named(x, c) == IsContent(x) /\ IsContent(c) /\ c.outputs = x.outputs /\ TagsKnown(c)

AllNamed(g) == \A x \in DOMAIN g.thunks : Named(x, g.thunks[x])

\* A thunk goes by the hash of what it now is as soon as it can be executed.
Aligned(g) == \A x \in DOMAIN g.thunks : CanBeExecuted(g.thunks[x]) <=> CanBeExecuted(x)

\* Who is entered as a referrer of a thunk is in the graph and still waits for it.
Referenced(g) ==
    \A d \in DOMAIN g.referencing_thunks \ Value : \A x \in g.referencing_thunks[d] :
        x \in DOMAIN g.thunks /\ d \in Deps(g.thunks[x])

Sound(g) == IsGraph(g) /\ AllNamed(g) /\ Aligned(g) /\ Referenced(g)

\* Names in the graph are not values.
LEMMA NamesAreThunks ==
  ASSUME ThunkShapes, NEW g, AllNamed(g)
  PROVE  /\ \A x \in DOMAIN g.thunks : x \notin Value /\ g.thunks[x] \notin Value
         /\ \A d : d \notin Value => AddedHash(g, d) \notin Value
<1>1. \A x \in DOMAIN g.thunks : x \notin Value /\ g.thunks[x] \notin Value
  BY DEF AllNamed, Named, ThunkShapes
<1>2. \A d : AddedHash(g, d) = d \/ AddedHash(g, d) \in DOMAIN g.thunks
  BY DEF AddedHash
<1> QED
  BY <1>1, <1>2

(***************************************************************************)
(* add_thunk                                                               *)
(***************************************************************************)

\* What add_thunk may read: thunks below h that the graph does not know.
Unread(g, h) == { s \in Thunk : /\ s \in Subthunks[h]
                                 /\ AddedHash(g, s) \notin DOMAIN g.thunks }

\* The least closed set is closed.
LEMMA LeastIsClosed ==
  ASSUME NEW h, NEW S, NEW succ, NEW y \in LeastClosed(h, S, succ), NEW d \in succ[y] \cap S
  PROVE  d \in LeastClosed(h, S, succ)
  BY DEF LeastClosed

\* The thunks add_thunk reads are new ones, h among them, and it stops only at thunks
\* that the graph knows (graph.cc:19-33).
LEMMA LoadedAreNew ==
  ASSUME NEW g, NEW h
  PROVE  /\ LoadedThunks(g, h) \subseteq Unread(g, h)
         /\ LoadedThunks(g, h) \cap DOMAIN g.thunks = {}
         /\ LoadedThunks(g, h) # {} => h \in LoadedThunks(g, h) /\ AddedHash(g, h) = h
         /\ \A y \in LoadedThunks(g, h) : Deps(y) \cap Unread(g, h) \subseteq LoadedThunks(g, h)
<1> DEFINE U == Unread(g, h)
           succ == [x \in U |-> Deps(x)]
<1>1. LoadedThunks(g, h) = LeastClosed(h, U, succ)
  BY DEF LoadedThunks, Unread
<1>2. LoadedThunks(g, h) \subseteq U
  BY <1>1 DEF LeastClosed
<1>3. LoadedThunks(g, h) # {} => h \in LoadedThunks(g, h)
  BY <1>1 DEF LeastClosed
<1>4. \A s \in U : AddedHash(g, s) = s /\ s \notin DOMAIN g.thunks
  BY DEF Unread, AddedHash
<1>5. \A y \in LoadedThunks(g, h) : Deps(y) \cap U \subseteq LoadedThunks(g, h)
  <2> SUFFICES ASSUME NEW y \in LoadedThunks(g, h), NEW d \in Deps(y) \cap U
               PROVE  d \in LoadedThunks(g, h)
    OBVIOUS
  <2>1. d \in succ[y] \cap U
    BY <1>2
  <2> HIDE DEF U, succ
  <2> QED
    BY <1>1, <2>1, LeastIsClosed
<1> QED
  BY <1>2, <1>3, <1>4, <1>5

\* order_one_dependencies reaches every thunk that has been read, in any graph that
\* holds them with their references to one another.
LEMMA LoadedBelow ==
  ASSUME NEW g, NEW h, NEW g3, LoadedThunks(g, h) \subseteq DOMAIN g3.thunks,
         \A y \in LoadedThunks(g, h) : Deps(y) \cap Unread(g, h) \subseteq Deps(g3.thunks[y])
  PROVE  LoadedThunks(g, h) \subseteq Below(g3, h)
<1> DEFINE U == Unread(g, h)
           L == LoadedThunks(g, h)
           S == DOMAIN g3.thunks
<1> SUFFICES ASSUME NEW x \in L PROVE x \in Below(g3, h)
  OBVIOUS
<1>1. h \in L /\ L \subseteq U /\ \A y \in L : Deps(y) \cap U \subseteq L
  BY LoadedAreNew
<1>2. ASSUME NEW C \in SUBSET S, h \in C, \A y \in C : Deps(g3.thunks[y]) \cap S \subseteq C
      PROVE  x \in C
  <2> DEFINE D == C \cap L
  <2>1. D \in SUBSET U /\ h \in D
    BY <1>1, <1>2
  <2>2. \A y \in D : Deps(y) \cap U \subseteq D
    BY <1>1, <1>2
  <2>3. L = LeastClosed(h, U, [y \in U |-> Deps(y)])
    BY DEF LoadedThunks, Unread
  <2>4. \A y \in D : [z \in U |-> Deps(z)][y] \cap U \subseteq D
    BY <2>1, <2>2
  <2> HIDE DEF D, U, L
  <2>5. x \in D
    BY <2>1, <2>3, <2>4 DEF LeastClosed
  <2> QED
    BY <2>5 DEF D
<1>3. \A y \in S : [z \in S |-> Deps(g3.thunks[z])][y] = Deps(g3.thunks[y])
  OBVIOUS
<1> QED
  BY <1>1, <1>2, <1>3 DEF Below, LeastClosed

\* A freshly read thunk waits for the same thunks, under the names they now have
\* (graph.cc:39-56).
LEMMA LoadedIsNamed ==
  ASSUME ThunkShapes, NEW g, AllNamed(g), NEW t \in Thunk,
         MainOnly(t) \/ \A d \in Deps(t) : AddedHash(g, d) = d
  PROVE  /\ Named(t, LoadedContent(g, t))
         /\ CanBeExecuted(LoadedContent(g, t)) <=> CanBeExecuted(t)
         /\ \A d \in Deps(t) : AddedHash(g, d) \in Deps(LoadedContent(g, t))
         /\ \A d \in Deps(LoadedContent(g, t)) : \E e \in Deps(t) : d = AddedHash(g, e)
<1> DEFINE renamed == { d \in Deps(t) : AddedHash(g, d) # d }
           ren == [d \in renamed |-> OutputsAs(t, AddedHash(g, d))]
           to  == [d \in renamed |-> AddedHash(g, d)]
<1>1. LoadedContent(g, t) = UpdateData(t, ren)
  BY DEF LoadedContent
<1>2. IsContent(t) /\ TagsKnown(t)
  BY DEF ThunkShapes
<1>3. DOMAIN ren \cap Value = {}
  BY DEF Deps
<1>4. Moves(t, ren, to)
  <2> SUFFICES ASSUME NEW i \in DOMAIN t.args, t.args[i].obj \in renamed
               PROVE  /\ UpdateItem(t.args[i], ren[t.args[i].obj]) = Item(to[t.args[i].obj], t.args[i].tag)
                      /\ to[t.args[i].obj] \notin Value
                      /\ t.args[i].tag = Main
    BY DEF Moves
  <2> DEFINE d == t.args[i].obj
  <2>1. t.args[i].tag = Main
    BY DEF MainOnly, Deps
  <2>2. to[d] = AddedHash(g, d) /\ ren[d] = OutputsAs(t, AddedHash(g, d))
    OBVIOUS
  <2>3. 1 \in DOMAIN t.outputs
    BY <1>2 DEF IsContent
  <2>4. OutputsAs(t, AddedHash(g, d))[1].hash = AddedHash(g, d)
    BY <2>3 DEF OutputsAs, ThunkOutput
  <2>5. d \notin Value
    BY DEF Deps
  <2>6. AddedHash(g, d) \notin Value
    BY <2>5, NamesAreThunks
  <2>7. UpdateItem(t.args[i], ren[d]) = Item(ren[d][1].hash, Main)
    BY <2>1 DEF UpdateItem
  <2> QED
    BY <2>1, <2>2, <2>4, <2>6, <2>7
<1> HIDE DEF ren, to
<1>5. /\ TagsKnown(UpdateData(t, ren))
      /\ CanBeExecuted(UpdateData(t, ren)) <=> CanBeExecuted(t)
      /\ \A d \in Deps(t) : IF d \in DOMAIN ren THEN to[d] \in Deps(UpdateData(t, ren))
                            ELSE d \in Deps(UpdateData(t, ren))
      /\ \A d \in Deps(UpdateData(t, ren)) :
            \E e \in Deps(t) : d = IF e \in DOMAIN ren THEN to[e] ELSE e
  BY <1>2, <1>3, <1>4, MovedContent
<1>6. IsContent(UpdateData(t, ren)) /\ UpdateData(t, ren).outputs = t.outputs
  BY <1>2, UpdateDataParts, Zenon
<1>7. ASSUME NEW d \in Deps(t)
      PROVE  AddedHash(g, d) \in Deps(LoadedContent(g, t))
  <2>1. CASE d \in renamed
    <3>1. d \in DOMAIN ren /\ to[d] = AddedHash(g, d)
      BY <2>1 DEF ren, to
    <3> QED
      BY <1>1, <1>5, <3>1
  <2>2. CASE d \notin renamed
    <3>1. d \notin DOMAIN ren /\ AddedHash(g, d) = d
      BY <2>2 DEF ren
    <3> QED
      BY <1>1, <1>5, <3>1
  <2> QED
    BY <2>1, <2>2
<1>8. \A e \in Deps(t) : AddedHash(g, e) = IF e \in DOMAIN ren THEN to[e] ELSE e
  BY DEF ren, to
<1>9. \A d \in Deps(LoadedContent(g, t)) : \E e \in Deps(t) : d = AddedHash(g, e)
  BY <1>1, <1>5, <1>8
<1> QED
  BY <1>1, <1>2, <1>5, <1>6, <1>7, <1>9 DEF Named

\* add_thunk leaves the entries the graph has, and enters the thunks it reads with
\* the names of what they reference (graph.cc:16-68).
LEMMA AddThunkParts ==
  ASSUME NEW g, IsGraph(g), NEW h
  PROVE  /\ add_thunk(g, h).thunks =
              [x \in DOMAIN g.thunks \cup LoadedThunks(g, h) |->
                  IF x \in LoadedThunks(g, h) THEN LoadedContent(g, x) ELSE g.thunks[x]]
         /\ \A d \in DOMAIN add_thunk(g, h).referencing_thunks :
               \A x \in add_thunk(g, h).referencing_thunks[d] :
                  \/ d \in DOMAIN g.referencing_thunks /\ x \in g.referencing_thunks[d]
                  \/ x \in LoadedThunks(g, h) /\ \E e \in Deps(x) : d = AddedHash(g, e)
         /\ add_thunk(g, h).updated_hashes = g.updated_hashes
         /\ add_thunk(g, h).original_hashes = g.original_hashes
<1> DEFINE L == LoadedThunks(g, h)
           ReferencedBy(t) == { AddedHash(g, d) : d \in Deps(t) }
           entries == L \cup UNION { ReferencedBy(t) : t \in L }
           Referrers(x) == { t \in L : x \in ReferencedBy(t) }
           R == [x \in DOMAIN g.referencing_thunks \cup entries |->
                   (IF x \in DOMAIN g.referencing_thunks THEN g.referencing_thunks[x] ELSE {})
                      \cup Referrers(x)]
<1>1. {"thunks", "referencing_thunks", "updated_hashes", "original_hashes"} \subseteq DOMAIN g
  BY DEF IsGraph, EmptyGraph
<1>2. add_thunk(g, h).thunks =
              [x \in DOMAIN g.thunks \cup L |->
                  IF x \in L THEN LoadedContent(g, x) ELSE g.thunks[x]]
  BY <1>1 DEF add_thunk
<1>3. add_thunk(g, h).referencing_thunks = R
  BY <1>1 DEF add_thunk
<1>4. /\ add_thunk(g, h).updated_hashes = g.updated_hashes
      /\ add_thunk(g, h).original_hashes = g.original_hashes
  BY <1>1 DEF add_thunk
<1>5. ASSUME NEW d \in DOMAIN R, NEW x \in R[d]
      PROVE  \/ d \in DOMAIN g.referencing_thunks /\ x \in g.referencing_thunks[d]
             \/ x \in L /\ \E e \in Deps(x) : d = AddedHash(g, e)
  OBVIOUS
<1> HIDE DEF R
<1> QED
  BY <1>2, <1>3, <1>4, <1>5

\* Who is read is entered as a referrer of all it references, and nobody is dropped
\* (graph.cc:47, 60).
LEMMA AddThunkReferences ==
  ASSUME NEW g, IsGraph(g), NEW h
  PROVE  /\ DOMAIN g.referencing_thunks \cup LoadedThunks(g, h) \subseteq
               DOMAIN add_thunk(g, h).referencing_thunks
         /\ \A d \in DOMAIN g.referencing_thunks :
               g.referencing_thunks[d] \subseteq add_thunk(g, h).referencing_thunks[d]
         /\ \A x \in LoadedThunks(g, h) : \A e \in Deps(x) :
               x \in add_thunk(g, h).referencing_thunks[AddedHash(g, e)]
<1> DEFINE L == LoadedThunks(g, h)
           ReferencedBy(t) == { AddedHash(g, d) : d \in Deps(t) }
           entries == L \cup UNION { ReferencedBy(t) : t \in L }
           Referrers(x) == { t \in L : x \in ReferencedBy(t) }
           R == [x \in DOMAIN g.referencing_thunks \cup entries |->
                   (IF x \in DOMAIN g.referencing_thunks THEN g.referencing_thunks[x] ELSE {})
                      \cup Referrers(x)]
<1>1. "referencing_thunks" \in DOMAIN g
  BY DEF IsGraph, EmptyGraph
<1>2. add_thunk(g, h).referencing_thunks = R
  BY <1>1 DEF add_thunk
<1>3. /\ DOMAIN g.referencing_thunks \cup L \subseteq DOMAIN R
      /\ \A d \in DOMAIN g.referencing_thunks : g.referencing_thunks[d] \subseteq R[d]
  OBVIOUS
<1>4. \A x \in L : \A e \in Deps(x) : x \in R[AddedHash(g, e)]
  <2> SUFFICES ASSUME NEW x \in L, NEW e \in Deps(x) PROVE x \in R[AddedHash(g, e)]
    OBVIOUS
  <2>1. AddedHash(g, e) \in ReferencedBy(x)
    OBVIOUS
  <2>2. AddedHash(g, e) \in entries /\ x \in Referrers(AddedHash(g, e))
    BY <2>1
  <2> HIDE DEF entries, Referrers
  <2> QED
    BY <2>2
<1> HIDE DEF R
<1> QED
  BY <1>2, <1>3, <1>4

\* The graph stays sound when a thunk is added, if nothing has been renamed yet or the
\* thunks that are read use main outputs only.
LEMMA AddThunkSound ==
  ASSUME ThunkShapes, NEW g, Sound(g), NEW h, IsGraph(add_thunk(g, h)),
         \A t \in LoadedThunks(g, h) : MainOnly(t) \/ \A d \in Deps(t) : AddedHash(g, d) = d
  PROVE  /\ Sound(add_thunk(g, h))
         /\ \A y \in LoadedThunks(g, h) :
               Deps(y) \cap Unread(g, h) \subseteq Deps(add_thunk(g, h).thunks[y])
<1> DEFINE L  == LoadedThunks(g, h)
           g1 == add_thunk(g, h)
<1>1. /\ DOMAIN g1.thunks = DOMAIN g.thunks \cup L
      /\ \A x \in L : g1.thunks[x] = LoadedContent(g, x)
      /\ \A x \in DOMAIN g.thunks : g1.thunks[x] = g.thunks[x]
  <2>1. g1.thunks = [x \in DOMAIN g.thunks \cup L |->
                        IF x \in L THEN LoadedContent(g, x) ELSE g.thunks[x]]
    BY AddThunkParts DEF Sound
  <2>2. L \cap DOMAIN g.thunks = {}
    BY LoadedAreNew
  <2> HIDE DEF g1, L
  <2> QED
    BY <2>1, <2>2
<1>2. L \subseteq Thunk /\ L \subseteq Unread(g, h)
  BY LoadedAreNew DEF Unread
<1>3. AllNamed(g) /\ Aligned(g) /\ Referenced(g)
  BY DEF Sound
<1>4. \A x \in L : /\ Named(x, LoadedContent(g, x))
                   /\ CanBeExecuted(LoadedContent(g, x)) <=> CanBeExecuted(x)
                   /\ \A d \in Deps(x) : AddedHash(g, d) \in Deps(LoadedContent(g, x))
  BY <1>2, <1>3, LoadedIsNamed
<1>5. \A d \in DOMAIN g1.referencing_thunks : \A x \in g1.referencing_thunks[d] :
                  \/ d \in DOMAIN g.referencing_thunks /\ x \in g.referencing_thunks[d]
                  \/ x \in L /\ \E e \in Deps(x) : d = AddedHash(g, e)
  BY AddThunkParts DEF Sound
<1> HIDE DEF g1, L
<1>6. AllNamed(g1)
  BY <1>1, <1>3, <1>4 DEF AllNamed
<1>7. Aligned(g1)
  BY <1>1, <1>3, <1>4 DEF Aligned
<1>8. Referenced(g1)
  <2> SUFFICES ASSUME NEW d \in DOMAIN g1.referencing_thunks \ Value,
                      NEW x \in g1.referencing_thunks[d]
               PROVE  x \in DOMAIN g1.thunks /\ d \in Deps(g1.thunks[x])
    BY DEF Referenced
  <2>1. CASE d \in DOMAIN g.referencing_thunks /\ x \in g.referencing_thunks[d]
    BY <1>1, <1>3, <2>1 DEF Referenced
  <2>2. CASE x \in L /\ \E e \in Deps(x) : d = AddedHash(g, e)
    BY <1>1, <1>4, <2>2
  <2> QED
    BY <1>5, <2>1, <2>2
<1>9. \A y \in L : Deps(y) \cap Unread(g, h) \subseteq Deps(g1.thunks[y])
  <2>1. \A s \in Unread(g, h) : AddedHash(g, s) = s
    BY DEF Unread, AddedHash
  <2> QED
    BY <1>1, <1>4, <2>1
<1> QED
  BY <1>6, <1>7, <1>8, <1>9 DEF Sound, g1, L

(***************************************************************************)
(* update_hash                                                             *)
(***************************************************************************)

\* The content of x after update_hash: its items that name one of the replaced thunks
\* follow, if it is entered as that thunk's referrer.
RefsOf(g, ren, x) == [r \in { s \in DOMAIN ren : x \in g.referencing_thunks[s] } |-> ren[r]]

LEMMA UpdateHashParts ==
  ASSUME NEW g, IsGraph(g), NEW ren, NEW last
  PROVE  /\ DOMAIN update_hash(g, ren, last).thunks = DOMAIN g.thunks \ DOMAIN ren
         /\ \A x \in DOMAIN g.thunks \ DOMAIN ren :
               update_hash(g, ren, last).thunks[x] = UpdateData(g.thunks[x], RefsOf(g, ren, x))
         /\ DOMAIN update_hash(g, ren, last).referencing_thunks =
               (DOMAIN g.referencing_thunks \ DOMAIN ren) \cup DOMAIN last
         /\ \A x \in DOMAIN last :
               update_hash(g, ren, last).referencing_thunks[x] = g.referencing_thunks[last[x]]
         /\ \A x \in (DOMAIN g.referencing_thunks \ DOMAIN ren) \ DOMAIN last :
               update_hash(g, ren, last).referencing_thunks[x] = g.referencing_thunks[x]
<1> DEFINE u == update_hash(g, ren, last)
<1>1. {"thunks", "referencing_thunks"} \subseteq DOMAIN g
  BY DEF IsGraph, EmptyGraph
<1>2. u.thunks = [x \in DOMAIN g.thunks \ DOMAIN ren |->
                     UpdateData(g.thunks[x], RefsOf(g, ren, x))]
  BY <1>1 DEF update_hash, RefsOf
<1>3. u.referencing_thunks =
              [x \in (DOMAIN g.referencing_thunks \ DOMAIN ren) \cup DOMAIN last |->
                  IF x \in DOMAIN last THEN g.referencing_thunks[last[x]]
                  ELSE g.referencing_thunks[x]]
  BY <1>1 DEF update_hash
<1> HIDE DEF u
<1>4. /\ DOMAIN u.thunks = DOMAIN g.thunks \ DOMAIN ren
      /\ \A x \in DOMAIN g.thunks \ DOMAIN ren :
            u.thunks[x] = UpdateData(g.thunks[x], RefsOf(g, ren, x))
  BY <1>2
<1>5. /\ DOMAIN u.referencing_thunks = (DOMAIN g.referencing_thunks \ DOMAIN ren) \cup DOMAIN last
      /\ \A x \in DOMAIN last : u.referencing_thunks[x] = g.referencing_thunks[last[x]]
      /\ \A x \in (DOMAIN g.referencing_thunks \ DOMAIN ren) \ DOMAIN last :
            u.referencing_thunks[x] = g.referencing_thunks[x]
  BY <1>3
<1> QED
  BY <1>4, <1>5 DEF u

\* A thunk that can be executed is nobody's referrer, so that removing it leaves no
\* dangling reference; and who references it cannot be executed.
LEMMA ExecutableReferences ==
  ASSUME NEW g, Sound(g), NEW old \in DOMAIN g.thunks, CanBeExecuted(old), old \notin Value
  PROVE  /\ \A d \in DOMAIN g.referencing_thunks \ Value : old \notin g.referencing_thunks[d]
         /\ old \in DOMAIN g.referencing_thunks =>
               \A x \in g.referencing_thunks[old] :
                  x \in DOMAIN g.thunks /\ old \in Deps(g.thunks[x]) /\ ~ CanBeExecuted(x)
<1>1. Deps(g.thunks[old]) = {}
  BY DEF Sound, Aligned, CanBeExecuted
<1>2. \A d \in DOMAIN g.referencing_thunks \ Value : \A x \in g.referencing_thunks[d] :
        x \in DOMAIN g.thunks /\ d \in Deps(g.thunks[x])
  BY DEF Sound, Referenced
<1>3. \A x \in DOMAIN g.thunks : old \in Deps(g.thunks[x]) => ~ CanBeExecuted(x)
  BY DEF Sound, Aligned, CanBeExecuted
<1> QED
  BY <1>1, <1>2, <1>3

ReferrersFound(g, old, outs) == ~ UpdateHashThrows(g, [r \in {old} |-> outs])

\* The thunk old has left the graph g, which is now g2; only its referrers may have
\* become executable.
ValuesReplace(g, old, g2) ==
    /\ IsGraph(g2) /\ AllNamed(g2) /\ Referenced(g2)
    /\ DOMAIN g2.thunks = DOMAIN g.thunks \ {old}
    /\ g.referencing_thunks[old] \subseteq DOMAIN g.thunks \ {old}
    /\ \A x \in DOMAIN g.thunks \ {old} :
          IF x \in g.referencing_thunks[old] THEN ~ CanBeExecuted(x)
          ELSE CanBeExecuted(g2.thunks[x]) <=> CanBeExecuted(x)
    /\ \A x \in DOMAIN g.thunks \ {old} : Deps(g2.thunks[x]) \subseteq Deps(g.thunks[x])

\* The thunk old is replaced by values (graph.cc:70-100, 122).
LEMMA ReplaceByValues ==
  ASSUME ThunkShapes, NEW g, Sound(g), NEW old \in DOMAIN g.thunks, CanBeExecuted(old),
         NEW outs \in ValueOutputs, ReferrersFound(g, old, outs)
  PROVE  /\ ValuesReplace(g, old, ReplaceOld(g, old, outs))
         /\ Tagged(old, outs) => \A x \in g.referencing_thunks[old] :
                                    old \notin Deps(ReplaceOld(g, old, outs).thunks[x])
<1> USE DEF ValueOutputs, ReferrersFound
<1> DEFINE new  == outs[1].hash
           ren  == [r \in {old} |-> outs]
           last == [n \in {new} |-> old]
           g2   == ReplaceOld(g, old, outs)
<1>1. g2 = update_hash(g, ren, last)
  BY DEF ReplaceOld
<1>2. IsGraph(g) /\ AllNamed(g) /\ Aligned(g) /\ Referenced(g)
  BY DEF Sound
<1>3. IsGraph(g2)
  BY <1>1, <1>2, UpdateHashIsGraph
<1>4. old \notin Value
  BY <1>2, NamesAreThunks
<1>5. new \in Value
  <2>1. 1 \in 1 .. Len(outs)
    OBVIOUS
  <2> QED
    BY <2>1, HashesOf
<1>6. DOMAIN ren = {old} /\ ren[old] = outs /\ DOMAIN last = {new} /\ last[new] = old
  OBVIOUS
<1>7. old \in DOMAIN g.referencing_thunks
  BY <1>6 DEF UpdateHashThrows
<1> HIDE DEF new, ren, last, g2
<1>8. /\ DOMAIN g2.thunks = DOMAIN g.thunks \ {old}
      /\ \A x \in DOMAIN g.thunks \ {old} :
            g2.thunks[x] = UpdateData(g.thunks[x], RefsOf(g, ren, x))
      /\ DOMAIN g2.referencing_thunks = (DOMAIN g.referencing_thunks \ {old}) \cup {new}
      /\ \A x \in (DOMAIN g.referencing_thunks \ {old}) \ {new} :
            g2.referencing_thunks[x] = g.referencing_thunks[x]
  BY <1>1, <1>2, <1>6, UpdateHashParts
<1>9. \A x : /\ DOMAIN RefsOf(g, ren, x) = IF x \in g.referencing_thunks[old] THEN {old} ELSE {}
             /\ \A r \in DOMAIN RefsOf(g, ren, x) : RefsOf(g, ren, x)[r] = outs
  BY <1>6 DEF RefsOf
<1>10. ASSUME NEW x \in DOMAIN g.thunks \ {old}
       PROVE  /\ Named(x, g2.thunks[x])
              /\ Deps(g.thunks[x]) \ {old} \subseteq Deps(g2.thunks[x])
              /\ Deps(g2.thunks[x]) \subseteq Deps(g.thunks[x])
              /\ x \in g.referencing_thunks[old] /\ Tagged(old, outs) => old \notin Deps(g2.thunks[x])
              /\ x \notin g.referencing_thunks[old] =>
                    (CanBeExecuted(g2.thunks[x]) <=> CanBeExecuted(g.thunks[x]))
  <2> DEFINE c == g.thunks[x]
             R == RefsOf(g, ren, x)
  <2>1. Named(x, c)
    BY <1>2 DEF AllNamed
  <2>2. IsContent(c) /\ TagsKnown(c)
    BY <2>1 DEF Named
  <2>3. g2.thunks[x] = UpdateData(c, R)
    BY <1>8
  <2>4. DOMAIN R \subseteq {old} /\ \A r \in DOMAIN R : R[r] = outs
    BY <1>9
  <2>4a. /\ x \notin g.referencing_thunks[old] => DOMAIN R = {}
         /\ x \in g.referencing_thunks[old] => DOMAIN R = {old}
    BY <1>9
  <2> HIDE DEF c, R
  <2>5. /\ TagsKnown(UpdateData(c, R))
        /\ Deps(c) \ {old} \subseteq Deps(UpdateData(c, R))
        /\ Deps(UpdateData(c, R)) \subseteq Deps(c)
        /\ (\A r \in DOMAIN R : Tagged(old, R[r])) => Deps(UpdateData(c, R)) \cap DOMAIN R = {}
    <3> HIDE DEF ValueOutputs
    <3>1. \A r \in DOMAIN R : R[r] \in ValueOutputs
      BY <2>4
    <3>2. DOMAIN R \subseteq {old} /\ IsContent(c) /\ TagsKnown(c) /\ old \notin Value
      BY <1>4, <2>2, <2>4
    <3> QED
      BY <3>1, <3>2, ReducedContent
  <2>6. IsContent(UpdateData(c, R)) /\ UpdateData(c, R).outputs = c.outputs
    BY <2>2, UpdateDataParts, Zenon
  <2>7. DOMAIN R = {} => (CanBeExecuted(UpdateData(c, R)) <=> CanBeExecuted(c))
    <3>1. DOMAIN R = {} => Moves(c, R, R) /\ DOMAIN R \cap Value = {}
      BY DEF Moves
    <3> QED
      BY <2>2, <3>1, MovedContent
  <2>8. x \in g.referencing_thunks[old] /\ Tagged(old, outs) => old \notin Deps(UpdateData(c, R))
    BY <2>4, <2>4a, <2>5
  <2> QED
    BY <2>1, <2>3, <2>4a, <2>5, <2>6, <2>7, <2>8 DEF Named, c
<1>11. AllNamed(g2)
  BY <1>8, <1>10 DEF AllNamed
<1>12. /\ \A d \in DOMAIN g.referencing_thunks \ Value : old \notin g.referencing_thunks[d]
       /\ \A x \in g.referencing_thunks[old] :
             x \in DOMAIN g.thunks /\ old \in Deps(g.thunks[x]) /\ ~ CanBeExecuted(x)
  BY <1>4, <1>7, ExecutableReferences
<1>13. Referenced(g2)
  <2> SUFFICES ASSUME NEW d \in DOMAIN g2.referencing_thunks \ Value,
                      NEW x \in g2.referencing_thunks[d]
               PROVE  x \in DOMAIN g2.thunks /\ d \in Deps(g2.thunks[x])
    BY DEF Referenced
  <2>1. d \in DOMAIN g.referencing_thunks /\ d # old /\ x \in g.referencing_thunks[d]
    BY <1>5, <1>8
  <2>2. x \in DOMAIN g.thunks /\ d \in Deps(g.thunks[x]) /\ x # old
    BY <1>2, <1>12, <2>1 DEF Referenced
  <2> QED
    BY <1>8, <1>10, <2>1, <2>2
<1>14. DOMAIN g2.thunks = DOMAIN g.thunks \ {old}
  BY <1>8
<1>15. g.referencing_thunks[old] \subseteq DOMAIN g.thunks \ {old}
  BY <1>4, <1>7, <1>12
<1>16. \A x \in DOMAIN g.thunks \ {old} :
               IF x \in g.referencing_thunks[old] THEN ~ CanBeExecuted(x)
               ELSE CanBeExecuted(g2.thunks[x]) <=> CanBeExecuted(x)
  BY <1>2, <1>10, <1>12 DEF Aligned
<1> QED
  BY <1>3, <1>10, <1>11, <1>13, <1>14, <1>15, <1>16 DEF g2, ValuesReplace

\* The thunk old has left the graph g, which is now g2, for the thunk new: the items
\* of its referrers follow, and nobody has become executable.
ThunkReplaces(g, old, new, g2) ==
    /\ Sound(g2)
    /\ DOMAIN g2.thunks = DOMAIN g.thunks \ {old}
    /\ \A x \in DOMAIN g.thunks \ {old} : Deps(g.thunks[x]) \ {old} \subseteq Deps(g2.thunks[x])
    /\ \A x \in DOMAIN g.thunks \ {old} : \A d \in Deps(g2.thunks[x]) :
          \E e \in Deps(g.thunks[x]) :
              d = IF e = old /\ x \in g.referencing_thunks[old] THEN new ELSE e
    /\ g.referencing_thunks[old] \subseteq DOMAIN g.thunks \ {old}
    /\ \A x \in g.referencing_thunks[old] : ~ CanBeExecuted(x)

\* The thunk old is replaced by another one, which keeps its referrers waiting
\* (graph.cc:70-100, 122).
LEMMA ReplaceByThunk ==
  ASSUME ThunkShapes, NEW g, Sound(g), NEW old \in DOMAIN g.thunks, CanBeExecuted(old),
         Len(old.outputs) = 1, NEW outs, outs[1].hash \notin Value,
         ReferrersFound(g, old, outs)
  PROVE  ThunkReplaces(g, old, outs[1].hash, ReplaceOld(g, old, outs))
<1> USE DEF ReferrersFound
<1> DEFINE new  == outs[1].hash
           ren  == [r \in {old} |-> outs]
           last == [n \in {new} |-> old]
           to   == [r \in {old} |-> new]
           g2   == ReplaceOld(g, old, outs)
<1>1. g2 = update_hash(g, ren, last)
  BY DEF ReplaceOld
<1>2. IsGraph(g) /\ AllNamed(g) /\ Aligned(g) /\ Referenced(g)
  BY DEF Sound
<1>3. IsGraph(g2)
  BY <1>1, <1>2, UpdateHashIsGraph
<1>4. old \notin Value
  BY <1>2, NamesAreThunks
<1>5. new \notin Value
  OBVIOUS
<1>6. /\ DOMAIN ren = {old} /\ ren[old] = outs /\ DOMAIN last = {new} /\ last[new] = old
      /\ to[old] = new
  OBVIOUS
<1>7. old \in DOMAIN g.referencing_thunks
  BY <1>6 DEF UpdateHashThrows
<1>7a. outs[1].hash = new
  OBVIOUS
<1> HIDE DEF new, ren, last, g2, to
<1>8. /\ DOMAIN g2.thunks = DOMAIN g.thunks \ {old}
      /\ \A x \in DOMAIN g.thunks \ {old} :
            g2.thunks[x] = UpdateData(g.thunks[x], RefsOf(g, ren, x))
      /\ DOMAIN g2.referencing_thunks = (DOMAIN g.referencing_thunks \ {old}) \cup {new}
      /\ g2.referencing_thunks[new] = g.referencing_thunks[old]
      /\ \A x \in (DOMAIN g.referencing_thunks \ {old}) \ {new} :
            g2.referencing_thunks[x] = g.referencing_thunks[x]
  BY <1>1, <1>2, <1>6, UpdateHashParts
<1>9. \A x : /\ DOMAIN RefsOf(g, ren, x) = IF x \in g.referencing_thunks[old] THEN {old} ELSE {}
             /\ \A r \in DOMAIN RefsOf(g, ren, x) : RefsOf(g, ren, x)[r] = outs
  BY <1>6 DEF RefsOf
<1>10. ASSUME NEW x \in DOMAIN g.thunks \ {old}
       PROVE  /\ Named(x, g2.thunks[x])
              /\ Deps(g.thunks[x]) \ {old} \subseteq Deps(g2.thunks[x])
              /\ x \in g.referencing_thunks[old] /\ old \in Deps(g.thunks[x]) => new \in Deps(g2.thunks[x])
              /\ CanBeExecuted(g2.thunks[x]) <=> CanBeExecuted(g.thunks[x])
              /\ \A d \in Deps(g2.thunks[x]) : \E e \in Deps(g.thunks[x]) :
                    d = IF e = old /\ x \in g.referencing_thunks[old] THEN new ELSE e
  <2> DEFINE c == g.thunks[x]
             R == RefsOf(g, ren, x)
  <2>1. Named(x, c)
    BY <1>2 DEF AllNamed
  <2>2. IsContent(c) /\ TagsKnown(c)
    BY <2>1 DEF Named
  <2>3. g2.thunks[x] = UpdateData(c, R)
    BY <1>8
  <2>4. DOMAIN R \subseteq {old} /\ \A r \in DOMAIN R : R[r] = outs
    BY <1>9
  <2>5. IF x \in g.referencing_thunks[old] THEN DOMAIN R = {old} ELSE DOMAIN R = {}
    BY <1>9
  <2> HIDE DEF c, R
  <2>6. Moves(c, R, to)
    <3> SUFFICES ASSUME NEW i \in DOMAIN c.args, c.args[i].obj \in DOMAIN R
                 PROVE  /\ UpdateItem(c.args[i], R[c.args[i].obj]) = Item(to[c.args[i].obj], c.args[i].tag)
                        /\ to[c.args[i].obj] \notin Value
                        /\ c.args[i].tag = Main
      BY DEF Moves
    <3>1. c.args[i].obj = old /\ R[c.args[i].obj] = outs
      BY <2>4
    <3>2. c.args[i].tag = Main
      BY <1>4, <2>2, <3>1 DEF TagsKnown
    <3>3. UpdateItem(c.args[i], outs) = Item(outs[1].hash, Main)
      BY <3>2 DEF UpdateItem
    <3> QED
      BY <1>5, <1>6, <1>7a, <3>1, <3>2, <3>3
  <2>7. DOMAIN R \cap Value = {}
    BY <1>4, <2>4
  <2>8. /\ TagsKnown(UpdateData(c, R))
        /\ CanBeExecuted(UpdateData(c, R)) <=> CanBeExecuted(c)
        /\ \A d \in Deps(c) : IF d \in DOMAIN R THEN to[d] \in Deps(UpdateData(c, R))
                              ELSE d \in Deps(UpdateData(c, R))
        /\ \A d \in Deps(UpdateData(c, R)) :
              \E e \in Deps(c) : d = IF e \in DOMAIN R THEN to[e] ELSE e
    BY <2>2, <2>6, <2>7, MovedContent
  <2>9. IsContent(UpdateData(c, R)) /\ UpdateData(c, R).outputs = c.outputs
    BY <2>2, UpdateDataParts, Zenon
  <2>10. Deps(c) \ {old} \subseteq Deps(UpdateData(c, R))
    BY <2>4, <2>8
  <2>11. x \in g.referencing_thunks[old] /\ old \in Deps(c) => new \in Deps(UpdateData(c, R))
    BY <1>6, <2>5, <2>8
  <2>12. \A d \in Deps(UpdateData(c, R)) : \E e \in Deps(c) :
            d = IF e = old /\ x \in g.referencing_thunks[old] THEN new ELSE e
    BY <1>6, <2>5, <2>8
  <2> QED
    BY <2>1, <2>3, <2>8, <2>9, <2>10, <2>11, <2>12 DEF Named, c
<1>11. AllNamed(g2)
  BY <1>8, <1>10 DEF AllNamed
<1>12. /\ \A d \in DOMAIN g.referencing_thunks \ Value : old \notin g.referencing_thunks[d]
       /\ \A x \in g.referencing_thunks[old] :
             x \in DOMAIN g.thunks /\ old \in Deps(g.thunks[x]) /\ ~ CanBeExecuted(x)
  BY <1>4, <1>7, ExecutableReferences
<1>13. Referenced(g2)
  <2> SUFFICES ASSUME NEW d \in DOMAIN g2.referencing_thunks \ Value,
                      NEW x \in g2.referencing_thunks[d]
               PROVE  x \in DOMAIN g2.thunks /\ d \in Deps(g2.thunks[x])
    BY DEF Referenced
  <2>1. CASE d = new
    <3>1. x \in g.referencing_thunks[old] /\ x # old
      BY <1>4, <1>7, <1>8, <1>12, <2>1
    <3> QED
      BY <1>8, <1>10, <1>12, <2>1, <3>1
  <2>2. CASE d # new
    <3>1. d \in DOMAIN g.referencing_thunks /\ d # old /\ x \in g.referencing_thunks[d]
      BY <1>8, <2>2
    <3>2. x \in DOMAIN g.thunks /\ d \in Deps(g.thunks[x]) /\ x # old
      BY <1>2, <1>12, <3>1 DEF Referenced
    <3> QED
      BY <1>8, <1>10, <3>1, <3>2
  <2> QED
    BY <2>1, <2>2
<1>14. Aligned(g2)
  BY <1>2, <1>8, <1>10 DEF Aligned
<1>15. g.referencing_thunks[old] \subseteq DOMAIN g.thunks \ {old}
  BY <1>4, <1>7, <1>12
<1>16. ThunkReplaces(g, old, new, g2)
  BY <1>3, <1>8, <1>10, <1>11, <1>12, <1>13, <1>14, <1>15 DEF ThunkReplaces, Sound
<1> QED
  BY <1>7a, <1>16 DEF g2

\* What the loop over the referrers is given: thunks of the graph that can be executed
\* and still go by the hash of a thunk that could not.
IsReady(g, ready) ==
    /\ DOMAIN ready \subseteq DOMAIN g.thunks
    /\ \A r \in DOMAIN ready : /\ ready[r] = OutputsAs(g.thunks[r], g.thunks[r])
                               /\ CanBeExecuted(g.thunks[r]) /\ ~ CanBeExecuted(r)
    /\ \A x \in DOMAIN g.thunks \ DOMAIN ready : CanBeExecuted(g.thunks[x]) <=> CanBeExecuted(x)

\* A ready thunk's new hash is its content.
LEMMA ReadyHash ==
  ASSUME NEW g, AllNamed(g), NEW ready, IsReady(g, ready), NEW r \in DOMAIN ready
  PROVE  NewHash(ready, r) = g.thunks[r]
<1>1. IsContent(g.thunks[r]) /\ ready[r] = OutputsAs(g.thunks[r], g.thunks[r])
  BY DEF AllNamed, Named, IsReady
<1>2. 1 \in DOMAIN g.thunks[r].outputs
  BY <1>1 DEF IsContent
<1> QED
  BY <1>1, <1>2 DEF NewHash, OutputsAs, ThunkOutput

\* The items that name a ready thunk now name what it has become, for its referrers.
FollowReady(g, ready, g3) ==
    \A x \in DOMAIN g.thunks \ DOMAIN ready : \A d \in Deps(g3.thunks[x]) :
        \E e \in Deps(g.thunks[x]) :
            d = IF e \in DOMAIN ready /\ x \in g.referencing_thunks[e] THEN g.thunks[e] ELSE e

\* Entering the ready thunks under their new hashes and renaming them makes the graph
\* sound again (graph.cc:124-141).
LEMMA RenameReadySound ==
  ASSUME ThunkShapes, NEW g, IsGraph(g), AllNamed(g), Referenced(g),
         NEW ready, IsReady(g, ready), ~ UpdateHashThrows(g, ready),
         NEW g3 \in RenameReady(g, ready), IsGraph(g3)
  PROVE  /\ Sound(g3)
         /\ DOMAIN g3.thunks =
              (DOMAIN g.thunks \cup { NewHash(ready, r) : r \in DOMAIN ready }) \ DOMAIN ready
         /\ \A x \in DOMAIN g.thunks \ DOMAIN ready :
               Deps(g.thunks[x]) \ DOMAIN ready \subseteq Deps(g3.thunks[x])
         /\ FollowReady(g, ready, g3)
<1> DEFINE olds == DOMAIN ready
           news == { NewHash(ready, r) : r \in olds }
           e    == EnterReady(g, ready)
           to   == [r \in olds |-> g.thunks[r]]
<1>1. PICK last \in LastMoves(ready) : g3 = update_hash(e, ready, last)
  BY DEF RenameReady
<1>2. "thunks" \in DOMAIN g /\ "referencing_thunks" \in DOMAIN g
  BY DEF IsGraph, EmptyGraph
<1>3. /\ DOMAIN e = DOMAIN g
      /\ e.referencing_thunks = g.referencing_thunks
      /\ e.thunks = [x \in DOMAIN g.thunks \cup news |->
                        IF x \in DOMAIN g.thunks THEN g.thunks[x] ELSE x]
  BY <1>2 DEF EnterReady
<1>4. \A r \in olds : /\ NewHash(ready, r) = g.thunks[r] /\ to[r] = g.thunks[r]
                      /\ ready[r] = OutputsAs(g.thunks[r], g.thunks[r])
                      /\ r \in DOMAIN g.thunks /\ CanBeExecuted(g.thunks[r]) /\ ~ CanBeExecuted(r)
  BY ReadyHash DEF IsReady
<1>5. /\ DOMAIN last = news
      /\ \A n \in news : last[n] \in olds /\ g.thunks[last[n]] = n
  <2>1. DOMAIN last = news /\ \A n \in news : last[n] \in olds /\ NewHash(ready, last[n]) = n
    BY DEF LastMoves
  <2> QED
    BY <1>4, <2>1
<1>6. \A n \in news : \E r \in olds : n = g.thunks[r]
  BY <1>4
<1>7. \A r \in olds : r \in DOMAIN g.referencing_thunks
  BY DEF UpdateHashThrows
<1>8. \A x \in DOMAIN g.thunks : Named(x, g.thunks[x]) /\ x \notin Value /\ g.thunks[x] \notin Value
  BY NamesAreThunks DEF AllNamed
<1>9. IsGraph(e)
  <2>1. DOMAIN g3.thunks = DOMAIN e.thunks \ olds
    <3>1. "thunks" \in DOMAIN e
      BY <1>2, <1>3
    <3> HIDE DEF e
    <3> QED
      BY <1>1, <3>1 DEF update_hash
  <2>2. DOMAIN e.thunks = DOMAIN g.thunks \cup (DOMAIN g3.thunks \ DOMAIN g.thunks) \cup (DOMAIN e.thunks \cap olds)
    BY <1>3, <2>1
  <2>3. DOMAIN e.thunks = DOMAIN g.thunks \cup (DOMAIN g3.thunks \ DOMAIN g.thunks)
    BY <1>4, <2>2
  <2>4. IsFiniteSet(DOMAIN g3.thunks \ DOMAIN g.thunks)
    BY FS_Difference DEF IsGraph
  <2>5. IsFiniteSet(DOMAIN e.thunks)
    BY <2>3, <2>4, FS_Union DEF IsGraph
  <2> QED
    BY <1>3, <2>5 DEF IsGraph
<1> HIDE DEF e, to, news, olds
<1>10. /\ DOMAIN e.thunks = DOMAIN g.thunks \cup news
       /\ \A x \in DOMAIN g.thunks : e.thunks[x] = g.thunks[x]
       /\ \A x \in news : x \in DOMAIN g.thunks \/ e.thunks[x] = x
  BY <1>3
<1>11. /\ DOMAIN g3.thunks = DOMAIN e.thunks \ olds
       /\ \A x \in DOMAIN e.thunks \ olds :
            g3.thunks[x] = UpdateData(e.thunks[x], RefsOf(e, ready, x))
       /\ DOMAIN g3.referencing_thunks = (DOMAIN e.referencing_thunks \ olds) \cup news
       /\ \A x \in news : g3.referencing_thunks[x] = e.referencing_thunks[last[x]]
       /\ \A x \in (DOMAIN e.referencing_thunks \ olds) \ news :
            g3.referencing_thunks[x] = e.referencing_thunks[x]
  BY <1>1, <1>5, <1>9, UpdateHashParts DEF olds
<1>12. ASSUME NEW x \in DOMAIN e.thunks \ olds
       PROVE  Named(x, e.thunks[x]) /\ (CanBeExecuted(e.thunks[x]) <=> CanBeExecuted(x))
  <2>1. CASE x \in DOMAIN g.thunks
    BY <1>8, <1>10, <2>1 DEF IsReady, olds
  <2>2. CASE x \notin DOMAIN g.thunks
    <3>1. x \in news /\ e.thunks[x] = x
      BY <1>10, <2>2
    <3>2. PICK r \in olds : x = g.thunks[r]
      BY <1>6, <3>1
    <3> QED
      BY <1>4, <1>8, <3>1, <3>2 DEF Named
  <2> QED
    BY <2>1, <2>2
<1>13. ASSUME NEW x \in DOMAIN e.thunks \ olds
       PROVE  /\ Named(x, g3.thunks[x])
              /\ CanBeExecuted(g3.thunks[x]) <=> CanBeExecuted(x)
              /\ \A d \in Deps(e.thunks[x]) :
                    IF d \in olds /\ x \in g.referencing_thunks[d]
                    THEN g.thunks[d] \in Deps(g3.thunks[x])
                    ELSE d \in Deps(g3.thunks[x])
              /\ \A d \in Deps(g3.thunks[x]) : \E b \in Deps(e.thunks[x]) :
                    d = IF b \in olds /\ x \in g.referencing_thunks[b] THEN g.thunks[b] ELSE b
  <2> DEFINE c == e.thunks[x]
             R == RefsOf(e, ready, x)
  <2>1. /\ DOMAIN R = { s \in olds : x \in g.referencing_thunks[s] }
        /\ \A r \in DOMAIN R : R[r] = ready[r]
    BY <1>3 DEF RefsOf, olds
  <2>2. Named(x, c) /\ (CanBeExecuted(c) <=> CanBeExecuted(x)) /\ IsContent(c) /\ TagsKnown(c)
    BY <1>12 DEF Named
  <2>3. g3.thunks[x] = UpdateData(c, R)
    BY <1>11
  <2> HIDE DEF c, R
  <2>4. Moves(c, R, to)
    <3> SUFFICES ASSUME NEW i \in DOMAIN c.args, c.args[i].obj \in DOMAIN R
                 PROVE  /\ UpdateItem(c.args[i], R[c.args[i].obj]) = Item(to[c.args[i].obj], c.args[i].tag)
                        /\ to[c.args[i].obj] \notin Value
                        /\ to[c.args[i].obj].outputs = c.args[i].obj.outputs
      BY DEF Moves
    <3> DEFINE r == c.args[i].obj
               n == g.thunks[r]
    <3>1. r \in olds /\ R[r] = OutputsAs(n, n) /\ to[r] = n
      BY <1>4, <2>1
    <3>2. IsContent(n) /\ n.outputs = r.outputs /\ n \notin Value /\ r \notin Value
      BY <1>4, <1>8, <3>1 DEF Named
    <3>3. c.args[i].tag # Main => \E k \in 2 .. Len(n.outputs) : n.outputs[k] = c.args[i].tag
      BY <2>2, <3>2 DEF TagsKnown
    <3>4. UpdateItem(c.args[i], OutputsAs(n, n)) = Item(n, c.args[i].tag)
      <4> HIDE DEF n
      <4> QED
        BY <3>2, <3>3, RenamedItem
    <3> QED
      BY <3>1, <3>2, <3>4
  <2>5. DOMAIN R \cap Value = {}
    BY <1>4, <1>8, <2>1
  <2>6. /\ TagsKnown(UpdateData(c, R))
        /\ CanBeExecuted(UpdateData(c, R)) <=> CanBeExecuted(c)
        /\ \A d \in Deps(c) : IF d \in DOMAIN R THEN to[d] \in Deps(UpdateData(c, R))
                              ELSE d \in Deps(UpdateData(c, R))
        /\ \A d \in Deps(UpdateData(c, R)) :
              \E b \in Deps(c) : d = IF b \in DOMAIN R THEN to[b] ELSE b
    BY <2>2, <2>4, <2>5, MovedContent
  <2>7. IsContent(UpdateData(c, R)) /\ UpdateData(c, R).outputs = c.outputs
    BY <2>2, UpdateDataParts, Zenon
  <2>8. Named(x, g3.thunks[x])
    BY <2>2, <2>3, <2>6, <2>7 DEF Named
  <2>9. \A d \in Deps(c) : IF d \in olds /\ x \in g.referencing_thunks[d]
                           THEN g.thunks[d] \in Deps(g3.thunks[x])
                           ELSE d \in Deps(g3.thunks[x])
    BY <1>4, <2>1, <2>3, <2>6
  <2>10. \A d \in Deps(g3.thunks[x]) : \E b \in Deps(c) :
            d = IF b \in olds /\ x \in g.referencing_thunks[b] THEN g.thunks[b] ELSE b
    BY <1>4, <2>1, <2>3, <2>6
  <2> QED
    BY <2>2, <2>3, <2>6, <2>8, <2>9, <2>10 DEF c
<1>14. AllNamed(g3)
  BY <1>11, <1>13 DEF AllNamed
<1>15. Aligned(g3)
  BY <1>11, <1>13 DEF Aligned
<1>16. \A d \in DOMAIN g.referencing_thunks \ Value : \A x \in g.referencing_thunks[d] :
          x \in DOMAIN g.thunks \ olds /\ d \in Deps(g.thunks[x])
  BY <1>4 DEF Referenced, CanBeExecuted
<1>17. Referenced(g3)
  <2> SUFFICES ASSUME NEW d \in DOMAIN g3.referencing_thunks \ Value,
                      NEW x \in g3.referencing_thunks[d]
               PROVE  x \in DOMAIN g3.thunks /\ d \in Deps(g3.thunks[x])
    BY DEF Referenced
  <2>1. CASE d \in news
    <3>1. x \in g.referencing_thunks[last[d]] /\ last[d] \in olds /\ g.thunks[last[d]] = d
      BY <1>3, <1>5, <1>11, <2>1
    <3>2. last[d] \in DOMAIN g.referencing_thunks \ Value
      BY <1>4, <1>7, <1>8, <3>1
    <3>3. x \in DOMAIN g.thunks \ olds /\ last[d] \in Deps(g.thunks[x])
      BY <1>16, <3>1, <3>2
    <3> QED
      BY <1>10, <1>11, <1>13, <3>1, <3>3
  <2>2. CASE d \notin news
    <3>1. d \in DOMAIN g.referencing_thunks \ olds /\ x \in g.referencing_thunks[d]
      BY <1>3, <1>11, <2>2
    <3>2. x \in DOMAIN g.thunks \ olds /\ d \in Deps(g.thunks[x])
      BY <1>16, <3>1
    <3> QED
      BY <1>10, <1>11, <1>13, <3>1, <3>2
  <2> QED
    BY <2>1, <2>2
<1>18. \A x \in DOMAIN g.thunks \ olds : Deps(g.thunks[x]) \ olds \subseteq Deps(g3.thunks[x])
  BY <1>10, <1>13
<1>19. FollowReady(g, ready, g3)
  BY <1>10, <1>13 DEF FollowReady, olds
<1> QED
  BY <1>10, <1>11, <1>14, <1>15, <1>17, <1>18, <1>19 DEF Sound, olds, news

(***************************************************************************)
(* force_thunk                                                             *)
(***************************************************************************)

\* What force_thunk promises: the graph stays sound, it hands out executable thunks
\* only, and all of those that were not in the graph before; the others stay.
Forced(g, old, r) ==
    /\ Sound(r.graph)
    /\ \A x \in r.next : CanBeExecuted(x) /\ x \in DOMAIN r.graph.thunks
    /\ \A x \in DOMAIN g.thunks : CanBeExecuted(x) /\ x # old => x \in DOMAIN r.graph.thunks
    /\ \A x \in DOMAIN r.graph.thunks :
          CanBeExecuted(x) => x \in r.next \/ (x \in DOMAIN g.thunks /\ x # old)

\* Forcing to values: the referrers that have become executable are renamed and
\* handed out (graph.cc:124-149).
LEMMA ForcedToValues ==
  ASSUME ThunkShapes, NEW g, Sound(g), NEW old \in DOMAIN g.thunks, CanBeExecuted(old),
         NEW outs \in Seq([hash : Value, tag : Tag]) \ {<< >>},
         ~ ForceThrows(g, old, outs), NEW r \in force_thunk(g, old, outs)
  PROVE  Forced(g, old, r)
<1> DEFINE new   == outs[1].hash
           g2    == ReplaceOld(g, old, outs)
           ready == NowExecutable(g2, new)
           news  == { NewHash(ready, x) : x \in DOMAIN ready }
<1>1. new \in Value
  <2>1. 1 \in 1 .. Len(outs)
    OBVIOUS
  <2> QED
    BY <2>1, HashesOf
<1>2. AddReturned(g, outs) = g /\ ActualOutputs(g, outs) = outs
  BY <1>1 DEF AddReturned, ActualOutputs
<1>3. ~ UpdateHashThrows(g, [x \in {old} |-> outs]) /\ ~ UpdateHashThrows(g2, ready)
  BY <1>2 DEF ForceThrows, ReferrersThrow
<1>4. r \in ForceReferrers(g2, new, ready)
  BY <1>2 DEF force_thunk
<1>5. IsGraph(g) /\ IsGraph(r.graph)
  BY ForceIsGraph DEF Sound
<1>6. /\ IsGraph(g2) /\ AllNamed(g2) /\ Referenced(g2)
      /\ DOMAIN g2.thunks = DOMAIN g.thunks \ {old}
      /\ g.referencing_thunks[old] \subseteq DOMAIN g.thunks \ {old}
      /\ \A x \in DOMAIN g.thunks \ {old} :
               IF x \in g.referencing_thunks[old] THEN ~ CanBeExecuted(x)
               ELSE CanBeExecuted(g2.thunks[x]) <=> CanBeExecuted(x)
  <2>1. outs \in ValueOutputs /\ ReferrersFound(g, old, outs)
    BY <1>3 DEF ValueOutputs, ReferrersFound
  <2>2. ValuesReplace(g, old, ReplaceOld(g, old, outs))
    BY <2>1, ReplaceByValues
  <2> QED
    BY <2>2 DEF ValuesReplace
<1>7. g2.referencing_thunks[new] = g.referencing_thunks[old]
  BY <1>5, ReferrersMove
<1> HIDE DEF g2, new
<1>8. /\ DOMAIN ready = { x \in g.referencing_thunks[old] : CanBeExecuted(g2.thunks[x]) }
      /\ \A x \in DOMAIN ready : ready[x] = OutputsAs(g2.thunks[x], g2.thunks[x])
  BY <1>7 DEF NowExecutable
<1> HIDE DEF ready
<1>9. IsReady(g2, ready)
  BY <1>6, <1>8 DEF IsReady
<1>10. PICK g3 \in RenameReady(g2, ready) :
          r = [graph |-> [g3 EXCEPT !.referencing_thunks = [x \in DOMAIN @ \ {new} |-> @[x]]],
               next  |-> news]
  BY <1>1, <1>4 DEF ForceReferrers
<1>11. r.next = news
  BY <1>10
<1>12. r.graph = [g3 EXCEPT !.referencing_thunks = [x \in DOMAIN @ \ {new} |-> @[x]]]
  BY <1>10
<1>13. DOMAIN r.graph = DOMAIN g3 /\ r.graph.thunks = g3.thunks
  BY <1>5, <1>12 DEF IsGraph, EmptyGraph
<1>14. IsGraph(g3)
  BY <1>5, <1>13 DEF IsGraph
<1>15. /\ Sound(g3)
       /\ DOMAIN g3.thunks = (DOMAIN g2.thunks \cup news) \ DOMAIN ready
  BY <1>3, <1>6, <1>9, <1>14, RenameReadySound
<1>16. Referenced(r.graph)
  <2>1. "referencing_thunks" \in DOMAIN g3
    BY <1>14 DEF IsGraph, EmptyGraph
  <2>2. r.graph.referencing_thunks =
          [x \in DOMAIN g3.referencing_thunks \ {new} |-> g3.referencing_thunks[x]]
    BY <1>12, <2>1
  <2> QED
    BY <1>13, <1>15, <2>2 DEF Sound, Referenced
<1>17. Sound(r.graph)
  BY <1>5, <1>13, <1>15, <1>16 DEF Sound, AllNamed, Aligned
<1>18. \A x \in news : CanBeExecuted(x)
  BY <1>6, <1>9, ReadyHash DEF IsReady
<1>19. \A x \in DOMAIN ready : ~ CanBeExecuted(x)
  BY <1>9 DEF IsReady
<1> QED
  BY <1>6, <1>11, <1>13, <1>15, <1>17, <1>18, <1>19 DEF Forced

\* Forcing to a thunk: no referrer becomes executable, and the executable ones among
\* the thunks that are read with it are handed out (graph.cc:117-122, 151-153).
LEMMA ForcedToThunk ==
  ASSUME ThunkShapes, NEW g, Sound(g), NEW old \in DOMAIN g.thunks, CanBeExecuted(old),
         Len(old.outputs) = 1, NEW outs, 1 \in DOMAIN outs, "hash" \in DOMAIN outs[1],
         outs[1].hash \in Thunk,
         \A s \in Subthunks[outs[1].hash] : MainOnly(s),
         ~ ForceThrows(g, old, outs), NEW r \in force_thunk(g, old, outs)
  PROVE  Forced(g, old, r)
<1> DEFINE o      == outs[1].hash
           g1     == add_thunk(g, o)
           actual == [outs EXCEPT ![1].hash = AddedHash(g, o)]
           new    == actual[1].hash
           g2     == ReplaceOld(g1, old, actual)
           ready  == NowExecutable(g2, new)
           L      == LoadedThunks(g, o)
<1>1. o \notin Value
  BY ObjectAssumption
<1>2. AddReturned(g, outs) = g1 /\ ActualOutputs(g, outs) = actual
  BY <1>1 DEF AddReturned, ActualOutputs
<1>3. new = AddedHash(g, o)
  OBVIOUS
<1>4. ~ UpdateHashThrows(g1, [x \in {old} |-> actual]) /\ ~ UpdateHashThrows(g2, ready)
  BY <1>2 DEF ForceThrows, ReferrersThrow
<1>5. r \in ForceReferrers(g2, new, ready)
  <2> DEFINE h1 == AddReturned(g, outs)
             a1 == ActualOutputs(g, outs)
  <2>1. r \in ForceReferrers(ReplaceOld(h1, old, a1), a1[1].hash,
                             NowExecutable(ReplaceOld(h1, old, a1), a1[1].hash))
    BY DEF force_thunk
  <2> HIDE DEF h1, a1, g1, actual
  <2>2. h1 = g1 /\ a1 = actual
    BY <1>2 DEF h1, a1
  <2> QED
    BY <2>1, <2>2
<1>6. IsGraph(g) /\ IsGraph(r.graph) /\ IsGraph(g1)
  BY ForceIsGraph, AddThunkIsGraph DEF Sound
<1>7. new \notin Value
  BY <1>1, <1>3, NamesAreThunks DEF Sound
<1>8. \A t \in L : MainOnly(t)
  BY LoadedAreNew DEF Unread
<1>9. L \cap DOMAIN g.thunks = {} /\ (L # {} => new = o)
  BY <1>3, LoadedAreNew
<1>10. DOMAIN g1.thunks = DOMAIN g.thunks \cup L
  <2>1. g1.thunks = [x \in DOMAIN g.thunks \cup L |->
                        IF x \in L THEN LoadedContent(g, x) ELSE g.thunks[x]]
    BY <1>6, AddThunkParts
  <2> HIDE DEF g1
  <2> QED
    BY <2>1
<1>11. Sound(g1) /\ \A y \in L : Deps(y) \cap Unread(g, o) \subseteq Deps(g1.thunks[y])
  BY <1>6, <1>8, AddThunkSound
<1> HIDE DEF g1, L, o, actual, new
<1>12. actual[1].hash = new
  BY DEF new
<1>13. /\ Sound(g2)
       /\ DOMAIN g2.thunks = DOMAIN g1.thunks \ {old}
       /\ \A x \in DOMAIN g1.thunks \ {old} :
             Deps(g1.thunks[x]) \ {old} \subseteq Deps(g2.thunks[x])
       /\ g1.referencing_thunks[old] \subseteq DOMAIN g1.thunks \ {old}
       /\ \A x \in g1.referencing_thunks[old] : ~ CanBeExecuted(x)
  <2>1. ReferrersFound(g1, old, actual) /\ old \in DOMAIN g1.thunks
    BY <1>4, <1>10 DEF ReferrersFound
  <2>2. ThunkReplaces(g1, old, actual[1].hash, ReplaceOld(g1, old, actual))
    BY <1>7, <1>11, <1>12, <2>1, ReplaceByThunk
  <2> QED
    BY <2>2 DEF ThunkReplaces
<1>14. g2.referencing_thunks[new] = g1.referencing_thunks[old]
  BY <1>6, <1>12, ReferrersMove
<1> HIDE DEF g2
<1>15. DOMAIN ready = {}
  BY <1>13, <1>14 DEF NowExecutable, Sound, Aligned
<1> HIDE DEF ready
<1>16. IsReady(g2, ready) /\ IsGraph(g2) /\ AllNamed(g2) /\ Referenced(g2)
  BY <1>13, <1>15 DEF IsReady, Sound, Aligned
<1>17. PICK g3 \in RenameReady(g2, ready) :
          r = [graph |-> g3, next |-> order_one_dependencies(g3, new)]
  BY <1>5, <1>7 DEF ForceReferrers
<1>18. r.graph = g3 /\ r.next = order_one_dependencies(g3, new)
  BY <1>17
<1>19. /\ Sound(g3)
       /\ DOMAIN g3.thunks =
            (DOMAIN g2.thunks \cup { NewHash(ready, x) : x \in DOMAIN ready }) \ DOMAIN ready
       /\ \A x \in DOMAIN g2.thunks \ DOMAIN ready :
             Deps(g2.thunks[x]) \ DOMAIN ready \subseteq Deps(g3.thunks[x])
  BY <1>4, <1>6, <1>16, <1>18, RenameReadySound
<1>20. DOMAIN g3.thunks = DOMAIN g2.thunks
  BY <1>15, <1>19
<1>21. \A x \in DOMAIN g3.thunks : CanBeExecuted(g3.thunks[x]) <=> CanBeExecuted(x)
  BY <1>19 DEF Sound, Aligned
<1>22. \A x \in r.next : CanBeExecuted(x)
  BY <1>18, <1>21 DEF order_one_dependencies, Below, LeastClosed
<1>23. L \subseteq Below(g3, o)
  <2>1. L \subseteq DOMAIN g3.thunks
    BY <1>9, <1>10, <1>13, <1>20
  <2>2. old \notin Unread(g, o)
    BY DEF Unread, AddedHash
  <2>3. \A y \in L : Deps(y) \cap Unread(g, o) \subseteq Deps(g3.thunks[y])
    BY <1>9, <1>10, <1>11, <1>13, <1>15, <1>19, <2>2
  <2> QED
    BY <2>1, <2>3, LoadedBelow DEF L
<1>24. ASSUME NEW x \in DOMAIN g3.thunks, CanBeExecuted(x)
       PROVE  x \in r.next \/ (x \in DOMAIN g.thunks /\ x # old)
  <2>1. x # old /\ x \in DOMAIN g.thunks \cup L
    BY <1>10, <1>13, <1>20
  <2>2. x \in L => x \in order_one_dependencies(g3, new)
    BY <1>9, <1>21, <1>23, <1>24 DEF order_one_dependencies
  <2> QED
    BY <1>18, <2>1, <2>2
<1>25. \A x \in r.next : x \in DOMAIN g3.thunks
  BY <1>18 DEF order_one_dependencies, Below, LeastClosed
<1>26. \A x \in DOMAIN g.thunks : x # old => x \in DOMAIN g3.thunks
  BY <1>10, <1>13, <1>20
<1> QED
  BY <1>18, <1>19, <1>22, <1>24, <1>25, <1>26 DEF Forced

\* Forcing a thunk to what executing it yields.
LEMMA ForceSound ==
  ASSUME ThunkShapes, NEW g, Sound(g), NEW old \in DOMAIN g.thunks, CanBeExecuted(old),
         PlainResult(old), ~ ForceThrows(g, old, Eval(old)),
         NEW r \in force_thunk(g, old, Eval(old))
  PROVE  Forced(g, old, r)
<1> DEFINE outs == Eval(old)
<1>1. CASE outs \in Seq([hash : Value, tag : Tag]) \ {<< >>}
  BY <1>1, ForcedToValues
<1>2. CASE /\ Len(old.outputs) = 1
           /\ outs \in Seq([hash : Thunk, tag : Tag]) /\ Len(outs) = 1
           /\ \A s \in Subthunks[outs[1].hash] : MainOnly(s)
  <2> DEFINE T == [hash : Thunk, tag : Tag]
  <2> HIDE DEF T, outs
  <2>1. outs \in Seq(T) /\ Len(outs) = 1
    BY <1>2 DEF T
  <2>1a. DOMAIN outs = 1 .. Len(outs) /\ 1 \in 1 .. Len(outs)
    BY <2>1
  <2>2. 1 \in DOMAIN outs /\ outs[1] \in T
    BY <2>1, <2>1a, ElementOf
  <2>3. "hash" \in DOMAIN outs[1] /\ outs[1].hash \in Thunk
    BY <2>2 DEF T
  <2>4. ~ ForceThrows(g, old, outs) /\ r \in force_thunk(g, old, outs)
    BY DEF outs
  <2> QED
    BY <1>2, <2>2, <2>3, <2>4, ForcedToThunk
<1> QED
  BY <1>1, <1>2 DEF PlainResult

\* What can be executed now.
Executables(g) == { h \in DOMAIN g.thunks : CanBeExecuted(g.thunks[h]) }

(***************************************************************************)
(* What is handed out is what the graph holds                              *)
(***************************************************************************)

\* An executable thunk goes by the hash of what the graph holds for it.
OwnContent(g) == \A x \in DOMAIN g.thunks : CanBeExecuted(x) => g.thunks[x] = x

\* No item of an executable thunk names a thunk.
LEMMA NoThunkItems ==
  ASSUME NEW c, CanBeExecuted(c), NEW i \in DOMAIN c.args
  PROVE  c.args[i].obj \in Value
  BY DEF CanBeExecuted, Deps, Objects

\* A thunk that is read and can be executed is entered as it is (graph.cc:39-62).
LEMMA AddThunkOwn ==
  ASSUME ThunkShapes, NEW g, IsGraph(g), OwnContent(g), NEW h
  PROVE  OwnContent(add_thunk(g, h))
<1> DEFINE L  == LoadedThunks(g, h)
           g1 == add_thunk(g, h)
<1>1. g1.thunks = [x \in DOMAIN g.thunks \cup L |->
                      IF x \in L THEN LoadedContent(g, x) ELSE g.thunks[x]]
  BY AddThunkParts
<1>2. ASSUME NEW x \in L, CanBeExecuted(x)
      PROVE  LoadedContent(g, x) = x
  <2> DEFINE ren == [d \in { e \in Deps(x) : AddedHash(g, e) # e } |-> OutputsAs(x, AddedHash(g, d))]
  <2>1. LoadedContent(g, x) = UpdateData(x, ren)
    BY DEF LoadedContent
  <2>2. DOMAIN ren = {}
    BY <1>2 DEF CanBeExecuted
  <2>3. x \in Thunk
    BY LoadedAreNew DEF Unread
  <2>4. IsContent(x)
    BY <2>3 DEF ThunkShapes
  <2> HIDE DEF ren
  <2> QED
    BY <2>1, <2>2, <2>4, NothingReplaced
<1> HIDE DEF g1, L
<1>3. OwnContent(g1)
  BY <1>1, <1>2 DEF OwnContent
<1> QED
  BY <1>3 DEF g1

\* update_hash rewrites no thunk that can be executed, since it is nobody's referrer
\* (graph.cc:89-94).
LEMMA UpdateHashOwn ==
  ASSUME NEW g, IsGraph(g), AllNamed(g), Referenced(g), OwnContent(g), NEW ren, NEW last,
         DOMAIN ren \subseteq DOMAIN g.referencing_thunks \ Value
  PROVE  OwnContent(update_hash(g, ren, last))
<1> DEFINE u == update_hash(g, ren, last)
<1>1. /\ DOMAIN u.thunks = DOMAIN g.thunks \ DOMAIN ren
      /\ \A x \in DOMAIN g.thunks \ DOMAIN ren :
            u.thunks[x] = UpdateData(g.thunks[x], RefsOf(g, ren, x))
  BY UpdateHashParts
<1> HIDE DEF u
<1>2. ASSUME NEW x \in DOMAIN g.thunks \ DOMAIN ren, CanBeExecuted(x)
      PROVE  u.thunks[x] = x
  <2>1. g.thunks[x] = x /\ Deps(x) = {} /\ IsContent(x)
    BY <1>2 DEF OwnContent, AllNamed, Named, CanBeExecuted
  <2>2. \A s \in DOMAIN ren : x \notin g.referencing_thunks[s]
    BY <2>1 DEF Referenced
  <2>3. DOMAIN RefsOf(g, ren, x) = {}
    BY <2>2 DEF RefsOf
  <2>4. UpdateData(x, RefsOf(g, ren, x)) = x
    BY <2>1, <2>3, NothingReplaced
  <2> QED
    BY <1>1, <2>1, <2>4
<1>3. OwnContent(u)
  BY <1>1, <1>2 DEF OwnContent
<1> QED
  BY <1>3 DEF u

\* The graph with the ready thunks entered under their new hashes.
LEMMA EnterReadyParts ==
  ASSUME NEW g, IsGraph(g), NEW ready, IsFiniteSet(DOMAIN ready)
  PROVE  /\ IsGraph(EnterReady(g, ready))
         /\ EnterReady(g, ready).referencing_thunks = g.referencing_thunks
         /\ EnterReady(g, ready).original_hashes = g.original_hashes
         /\ EnterReady(g, ready).updated_hashes = g.updated_hashes
         /\ DOMAIN EnterReady(g, ready).thunks =
               DOMAIN g.thunks \cup { NewHash(ready, r) : r \in DOMAIN ready }
         /\ \A x \in DOMAIN EnterReady(g, ready).thunks :
               EnterReady(g, ready).thunks[x] = IF x \in DOMAIN g.thunks THEN g.thunks[x] ELSE x
<1> DEFINE e    == EnterReady(g, ready)
           news == { NewHash(ready, r) : r \in DOMAIN ready }
<1>1. {"thunks", "referencing_thunks", "original_hashes", "updated_hashes"} \subseteq DOMAIN g
  BY DEF IsGraph, EmptyGraph
<1>2. /\ DOMAIN e = DOMAIN g
      /\ e.referencing_thunks = g.referencing_thunks
      /\ e.original_hashes = g.original_hashes
      /\ e.updated_hashes = g.updated_hashes
      /\ e.thunks = [x \in DOMAIN g.thunks \cup news |->
                        IF x \in DOMAIN g.thunks THEN g.thunks[x] ELSE x]
  BY <1>1 DEF EnterReady
<1>3. IsFiniteSet(news)
  BY ImageIsFinite
<1> HIDE DEF news, e
<1>4. DOMAIN e.thunks = DOMAIN g.thunks \cup news
  BY <1>2
<1>5. IsFiniteSet(DOMAIN e.thunks)
  BY <1>3, <1>4, FS_Union DEF IsGraph
<1>6. IsGraph(e)
  BY <1>2, <1>5 DEF IsGraph
<1> QED
  BY <1>2, <1>4, <1>6 DEF e, news

\* Renaming the ready thunks keeps it so: each is entered as its present content
\* (graph.cc:124-141).
LEMMA RenameReadyOwn ==
  ASSUME ThunkShapes, NEW g, IsGraph(g), AllNamed(g), Referenced(g), OwnContent(g),
         NEW ready, IsReady(g, ready), DOMAIN ready \subseteq DOMAIN g.referencing_thunks,
         NEW g3 \in RenameReady(g, ready)
  PROVE  OwnContent(g3)
<1> DEFINE e == EnterReady(g, ready)
<1>1. PICK last \in LastMoves(ready) : g3 = update_hash(e, ready, last)
  BY DEF RenameReady
<1>2. IsFiniteSet(DOMAIN ready)
  BY FS_Subset DEF IsReady, IsGraph
<1>3. /\ IsGraph(e) /\ e.referencing_thunks = g.referencing_thunks
      /\ DOMAIN e.thunks = DOMAIN g.thunks \cup { NewHash(ready, r) : r \in DOMAIN ready }
      /\ \A x \in DOMAIN e.thunks :
            e.thunks[x] = IF x \in DOMAIN g.thunks THEN g.thunks[x] ELSE x
  BY <1>2, EnterReadyParts
<1> HIDE DEF e
<1>4. \A x \in DOMAIN e.thunks : x \in DOMAIN g.thunks \/ \E r \in DOMAIN g.thunks : x = g.thunks[r]
  BY <1>3, ReadyHash DEF IsReady
<1>5. AllNamed(e)
  BY <1>3, <1>4 DEF AllNamed, Named
<1>6. Referenced(e)
  BY <1>3 DEF Referenced
<1>7. OwnContent(e)
  BY <1>3 DEF OwnContent
<1>8. DOMAIN ready \cap Value = {}
  BY NamesAreThunks DEF IsReady
<1> QED
  BY <1>1, <1>3, <1>5, <1>6, <1>7, <1>8, UpdateHashOwn

\* Replacing the executed thunk keeps it so (graph.cc:122).
LEMMA ReplaceOldOwn ==
  ASSUME ThunkShapes, NEW g, Sound(g), OwnContent(g), NEW old \in DOMAIN g.thunks, NEW outs,
         ReferrersFound(g, old, outs)
  PROVE  OwnContent(ReplaceOld(g, old, outs))
<1> DEFINE ren  == [r \in {old} |-> outs]
           last == [n \in {outs[1].hash} |-> old]
<1>1. DOMAIN ren = {old}
  OBVIOUS
<1>2. old \in DOMAIN g.referencing_thunks \ Value
  BY <1>1, NamesAreThunks DEF ReferrersFound, UpdateHashThrows, Sound
<1>3. ReplaceOld(g, old, outs) = update_hash(g, ren, last)
  BY DEF ReplaceOld
<1> HIDE DEF ren, last
<1>4. OwnContent(update_hash(g, ren, last))
  BY <1>1, <1>2, UpdateHashOwn DEF Sound
<1> QED
  BY <1>3, <1>4

\* The stages of force_thunk: the graph with the returned thunk is sound; so is the one
\* without the old thunk, but for the thunks that are ready now (graph.cc:117-141).
Staged(g, old, outs) ==
    LET g1     == AddReturned(g, outs)
        actual == ActualOutputs(g, outs)
        g2     == ReplaceOld(g1, old, actual)
    IN  /\ Sound(g1) /\ old \in DOMAIN g1.thunks
        /\ IsGraph(g2) /\ AllNamed(g2) /\ Referenced(g2)
        /\ IsReady(g2, NowExecutable(g2, actual[1].hash))

\* Forcing to values: nothing is added, and the ready thunks are referrers of the old one.
LEMMA StagesOfValues ==
  ASSUME ThunkShapes, NEW g, Sound(g), NEW old \in DOMAIN g.thunks, CanBeExecuted(old),
         NEW outs \in ValueOutputs, ReferrersFound(g, old, outs)
  PROVE  /\ AddReturned(g, outs) = g /\ ActualOutputs(g, outs) = outs /\ outs[1].hash \in Value
         /\ ValuesReplace(g, old, ReplaceOld(g, old, outs))
         /\ Staged(g, old, outs)
<1> DEFINE new   == outs[1].hash
           g2    == ReplaceOld(g, old, outs)
           ready == NowExecutable(g2, new)
<1>1. new \in Value
  <2>1. outs \in Seq([hash : Value, tag : Tag]) /\ 1 \in 1 .. Len(outs)
    BY DEF ValueOutputs
  <2> QED
    BY <2>1, HashesOf
<1>2. AddReturned(g, outs) = g /\ ActualOutputs(g, outs) = outs
  BY <1>1 DEF AddReturned, ActualOutputs
<1>3. ValuesReplace(g, old, g2)
  BY ReplaceByValues
<1>4. g2.referencing_thunks[new] = g.referencing_thunks[old]
  BY ReferrersMove DEF Sound
<1> HIDE DEF g2, new
<1>5. /\ DOMAIN ready = { x \in g.referencing_thunks[old] : CanBeExecuted(g2.thunks[x]) }
      /\ \A x \in DOMAIN ready : ready[x] = OutputsAs(g2.thunks[x], g2.thunks[x])
  BY <1>4 DEF NowExecutable
<1> HIDE DEF ready
<1>6. IsReady(g2, ready)
  BY <1>3, <1>5 DEF IsReady, ValuesReplace
<1>7. Staged(g, old, outs)
  <2>1. IsGraph(g2) /\ AllNamed(g2) /\ Referenced(g2)
    BY <1>3 DEF ValuesReplace
  <2> QED
    BY <1>2, <1>6, <2>1, Zenon DEF Staged, g2, ready, new
<1> QED
  BY <1>1, <1>2, <1>3, <1>7 DEF g2, new

\* Forcing to a thunk: it is added first, and no thunk is ready afterwards.
LEMMA StagesOfThunk ==
  ASSUME ThunkShapes, NEW g, Sound(g), NEW old \in DOMAIN g.thunks, CanBeExecuted(old),
         Len(old.outputs) = 1, NEW outs, 1 \in DOMAIN outs, "hash" \in DOMAIN outs[1],
         outs[1].hash \in Thunk, \A s \in Subthunks[outs[1].hash] : MainOnly(s)
  PROVE  /\ AddReturned(g, outs) = add_thunk(g, outs[1].hash)
         /\ ActualOutputs(g, outs)[1].hash = AddedHash(g, outs[1].hash)
         /\ AddedHash(g, outs[1].hash) \notin Value
         /\ Sound(AddReturned(g, outs))
         /\ old \in DOMAIN AddReturned(g, outs).thunks
         /\ ReferrersFound(AddReturned(g, outs), old, ActualOutputs(g, outs)) =>
               /\ ThunkReplaces(AddReturned(g, outs), old, AddedHash(g, outs[1].hash),
                                ReplaceOld(AddReturned(g, outs), old, ActualOutputs(g, outs)))
               /\ DOMAIN NowExecutable(ReplaceOld(AddReturned(g, outs), old, ActualOutputs(g, outs)),
                                       AddedHash(g, outs[1].hash)) = {}
               /\ Staged(g, old, outs)
<1> DEFINE o      == outs[1].hash
           g1     == AddReturned(g, outs)
           actual == ActualOutputs(g, outs)
           new    == AddedHash(g, o)
           g2     == ReplaceOld(g1, old, actual)
           ready  == NowExecutable(g2, new)
<1>1. o \notin Value
  BY ObjectAssumption
<1>2. g1 = add_thunk(g, o) /\ actual[1].hash = new
  BY <1>1 DEF AddReturned, ActualOutputs
<1>3. new \notin Value
  BY <1>1, NamesAreThunks DEF Sound
<1>4. \A t \in LoadedThunks(g, o) : MainOnly(t)
  BY LoadedAreNew DEF Unread
<1>5. IsGraph(g1)
  BY AddReturnedIsGraph DEF Sound
<1> HIDE DEF g1, o, actual, new
<1>6. Sound(g1)
  BY <1>2, <1>4, <1>5, AddThunkSound
<1>7. old \in DOMAIN g1.thunks
  <2>1. g1.thunks = [x \in DOMAIN g.thunks \cup LoadedThunks(g, o) |->
                        IF x \in LoadedThunks(g, o) THEN LoadedContent(g, x) ELSE g.thunks[x]]
    BY <1>2, AddThunkParts DEF Sound
  <2> QED
    BY <2>1
<1>8. ASSUME ReferrersFound(g1, old, actual)
      PROVE  ThunkReplaces(g1, old, new, g2) /\ DOMAIN ready = {} /\ Staged(g, old, outs)
  <2>1. ThunkReplaces(g1, old, new, g2)
    <3>1. actual[1].hash \notin Value
      BY <1>2, <1>3
    <3>2. ThunkReplaces(g1, old, actual[1].hash, ReplaceOld(g1, old, actual))
      BY <1>6, <1>7, <1>8, <3>1, ReplaceByThunk
    <3> QED
      BY <1>2, <3>2
  <2>2. g2.referencing_thunks[new] = g1.referencing_thunks[old]
    BY <1>2, <1>5, ReferrersMove
  <2> HIDE DEF g2
  <2>3. DOMAIN ready = {}
    BY <2>1, <2>2 DEF NowExecutable, ThunkReplaces, Sound, Aligned
  <2> HIDE DEF ready
  <2>4. IsReady(g2, ready) /\ IsGraph(g2) /\ AllNamed(g2) /\ Referenced(g2)
    BY <2>1, <2>3 DEF IsReady, ThunkReplaces, Sound, Aligned
  <2>5. Staged(g, old, outs)
    BY <1>2, <1>6, <1>7, <2>4, Zenon DEF Staged, g1, g2, actual, ready
  <2> QED
    BY <2>1, <2>3, <2>5
<1> QED
  BY <1>2, <1>3, <1>6, <1>7, <1>8 DEF g1, g2, o, actual, new, ready

\* What the last stage leaves of g3, the graph in which the ready thunks are renamed.
LeftOf(g3, new, left) ==
    /\ IsGraph(g3)
    /\ left.thunks = g3.thunks
    /\ left.original_hashes = g3.original_hashes /\ left.updated_hashes = g3.updated_hashes
    /\ IF new \in Value
       THEN left.referencing_thunks =
              [x \in DOMAIN g3.referencing_thunks \ {new} |-> g3.referencing_thunks[x]]
       ELSE left.referencing_thunks = g3.referencing_thunks

\* The last stage: the ready thunks are renamed, and the list of a value's referrers is
\* dropped (graph.cc:124-153).
LEMMA LastStage ==
  ASSUME NEW g, IsGraph(g), NEW new, NEW ready, IsFiniteSet(DOMAIN ready),
         NEW r \in ForceReferrers(g, new, ready)
  PROVE  \E g3 \in RenameReady(g, ready) : LeftOf(g3, new, r.graph)
<1> USE DEF LeftOf
<1> DEFINE cut(g3) == [g3 EXCEPT !.referencing_thunks = [x \in DOMAIN @ \ {new} |-> @[x]]]
<1>1. ASSUME NEW g3 \in RenameReady(g, ready) PROVE IsGraph(g3)
  <2> DEFINE e == EnterReady(g, ready)
  <2>1. PICK last \in LastMoves(ready) : g3 = update_hash(e, ready, last)
    BY DEF RenameReady
  <2>2. IsGraph(e)
    BY EnterReadyParts
  <2> HIDE DEF e
  <2> QED
    BY <2>1, <2>2, UpdateHashIsGraph
<1>2. CASE new \in Value
  <2>1. PICK g3 \in RenameReady(g, ready) : r.graph = cut(g3)
    <3>1. PICK g3 \in RenameReady(g, ready) :
             r = [graph |-> cut(g3), next |-> { NewHash(ready, x) : x \in DOMAIN ready }]
      BY <1>2, Zenon DEF ForceReferrers
    <3> HIDE DEF cut
    <3> QED
      BY <3>1
  <2>2. /\ IsGraph(g3) /\ "thunks" \in DOMAIN g3 /\ "referencing_thunks" \in DOMAIN g3
        /\ "original_hashes" \in DOMAIN g3 /\ "updated_hashes" \in DOMAIN g3
    BY <1>1 DEF IsGraph, EmptyGraph
  <2> QED
    BY <1>2, <2>1, <2>2
<1>3. CASE new \notin Value
  <2>1. PICK g3 \in RenameReady(g, ready) : r.graph = g3
    <3>1. PICK g3 \in RenameReady(g, ready) :
             r = [graph |-> g3, next |-> order_one_dependencies(g3, new)]
      BY <1>3 DEF ForceReferrers
    <3> QED
      BY <3>1
  <2> QED
    BY <1>1, <1>3, <2>1
<1> QED
  BY <1>2, <1>3

\* What executing a thunk of a plain program yields.
LEMMA TwoResults ==
  ASSUME NEW h, PlainResult(h)
  PROVE  \/ Eval(h) \in ValueOutputs
         \/ /\ Len(h.outputs) = 1
            /\ 1 \in DOMAIN Eval(h) /\ "hash" \in DOMAIN Eval(h)[1] /\ Eval(h)[1].hash \in Thunk
            /\ \A s \in Subthunks[Eval(h)[1].hash] : MainOnly(s)
<1> DEFINE outs == Eval(h)
           T    == [hash : Thunk, tag : Tag]
<1>1. CASE outs \in ValueOutputs
  BY <1>1
<1>2. CASE outs \notin ValueOutputs
  <2>1. /\ Len(h.outputs) = 1 /\ outs \in Seq(T) /\ Len(outs) = 1
        /\ \A s \in Subthunks[outs[1].hash] : MainOnly(s)
    BY <1>2 DEF PlainResult, ValueOutputs
  <2> HIDE DEF T, outs
  <2>2. DOMAIN outs = 1 .. Len(outs) /\ 1 \in 1 .. Len(outs)
    BY <2>1
  <2>3. 1 \in DOMAIN outs /\ outs[1] \in T
    BY <2>1, <2>2, ElementOf
  <2>4. "hash" \in DOMAIN outs[1] /\ outs[1].hash \in Thunk
    BY <2>3 DEF T
  <2> QED
    BY <2>1, <2>3, <2>4 DEF outs
<1> QED
  BY <1>1, <1>2

\* The stages of forcing a thunk to what executing it yields.
LEMMA ForceStages ==
  ASSUME ThunkShapes, NEW g, Sound(g), NEW old \in DOMAIN g.thunks, CanBeExecuted(old),
         PlainResult(old), ReferrersFound(AddReturned(g, Eval(old)), old, ActualOutputs(g, Eval(old)))
  PROVE  Staged(g, old, Eval(old))
<1> DEFINE outs == Eval(old)
<1>1. CASE outs \in ValueOutputs
  <2>1. outs[1].hash \in Value
    <3>1. outs \in Seq([hash : Value, tag : Tag]) /\ 1 \in 1 .. Len(outs)
      BY <1>1 DEF ValueOutputs
    <3> HIDE DEF outs
    <3> QED
      BY <3>1, HashesOf
  <2>2. ReferrersFound(g, old, outs)
    BY <2>1 DEF AddReturned, ActualOutputs
  <2> HIDE DEF outs
  <2>3. Staged(g, old, outs)
    BY <1>1, <2>2, StagesOfValues
  <2> QED
    BY <2>3 DEF outs
<1>2. CASE outs \notin ValueOutputs
  <2>1. /\ Len(old.outputs) = 1
        /\ 1 \in DOMAIN outs /\ "hash" \in DOMAIN outs[1] /\ outs[1].hash \in Thunk
        /\ \A s \in Subthunks[outs[1].hash] : MainOnly(s)
    BY <1>2, TwoResults
  <2>2. ReferrersFound(AddReturned(g, outs), old, ActualOutputs(g, outs))
    OBVIOUS
  <2> HIDE DEF outs
  <2>3. Staged(g, old, outs)
    BY <2>1, <2>2, StagesOfThunk
  <2> QED
    BY <2>3 DEF outs
<1> QED
  BY <1>1, <1>2

\* Forcing a thunk to values or to a thunk keeps it so (graph.cc:102-154).
LEMMA ForceOwn ==
  ASSUME ThunkShapes, NEW g, Sound(g), OwnContent(g), NEW old \in DOMAIN g.thunks,
         CanBeExecuted(old), PlainResult(old), ~ ForceThrows(g, old, Eval(old)),
         NEW r \in force_thunk(g, old, Eval(old))
  PROVE  OwnContent(r.graph)
<1> DEFINE outs   == Eval(old)
           g1     == AddReturned(g, outs)
           actual == ActualOutputs(g, outs)
           new    == actual[1].hash
           g2     == ReplaceOld(g1, old, actual)
           ready  == NowExecutable(g2, new)
<1>2. ReferrersFound(g1, old, actual) /\ DOMAIN ready \subseteq DOMAIN g2.referencing_thunks
  BY DEF ForceThrows, ReferrersThrow, ReferrersFound, UpdateHashThrows
<1>1. Staged(g, old, outs)
  BY <1>2, ForceStages
<1>3. OwnContent(g1)
  BY AddThunkOwn DEF AddReturned, Sound
<1>4. r \in ForceReferrers(g2, new, ready)
  BY DEF force_thunk
<1> HIDE DEF outs, g1, actual, new
<1>5. Sound(g1) /\ old \in DOMAIN g1.thunks
  BY <1>1 DEF Staged, g1
<1>6. OwnContent(g2)
  BY <1>2, <1>3, <1>5, ReplaceOldOwn
<1>7. IsGraph(g2) /\ AllNamed(g2) /\ Referenced(g2) /\ IsReady(g2, ready)
  BY <1>1 DEF Staged, g1, actual, new
<1> HIDE DEF g2, ready
<1>8. \A g3 \in RenameReady(g2, ready) : OwnContent(g3)
  BY <1>2, <1>6, <1>7, RenameReadyOwn
<1>9. PICK g3 \in RenameReady(g2, ready) : LeftOf(g3, new, r.graph)
  <2>1. IsFiniteSet(DOMAIN ready)
    BY <1>7, FS_Subset DEF IsReady, IsGraph
  <2> QED
    BY <1>4, <1>7, <2>1, LastStage
<1> QED
  BY <1>8, <1>9 DEF OwnContent, LeftOf

(***************************************************************************)
(* Complete graphs: no reference is lost, and force_thunk finds all it     *)
(* looks up                                                                *)
(***************************************************************************)

\* Whoever waits for a thunk is listed as its referrer.
Complete(g) ==
    /\ DOMAIN g.thunks \subseteq DOMAIN g.referencing_thunks
    /\ \A x \in DOMAIN g.thunks : \A d \in Deps(g.thunks[x]) :
          d \in DOMAIN g.thunks /\ x \in g.referencing_thunks[d]

\* update_hash finds the list of referrers and every thunk on it (graph.cc:89-90).
LEMMA CompleteFinds ==
  ASSUME ThunkShapes, NEW g, AllNamed(g), Referenced(g), Complete(g),
         NEW ren, DOMAIN ren \subseteq DOMAIN g.thunks
  PROVE  ~ UpdateHashThrows(g, ren)
<1>1. \A r \in DOMAIN ren : r \in DOMAIN g.referencing_thunks \ Value
  BY NamesAreThunks DEF Complete
<1> QED
  BY <1>1 DEF UpdateHashThrows, Referenced

\* Nor does replacing one thunk by its outputs.
LEMMA CompleteFindsOld ==
  ASSUME ThunkShapes, NEW g, Sound(g), Complete(g), NEW old \in DOMAIN g.thunks, NEW outs
  PROVE  ReferrersFound(g, old, outs)
<1>1. DOMAIN [r \in {old} |-> outs] \subseteq DOMAIN g.thunks
  OBVIOUS
<1> QED
  BY <1>1, CompleteFinds DEF ReferrersFound, Sound

\* add_thunk lists every thunk it reads as a referrer of what it waits for, all of which
\* the graph has or add_thunk has read too (graph.cc:28-62).
LEMMA AddThunkComplete ==
  ASSUME ThunkShapes, NEW g, Sound(g), Complete(g), NEW h \in Thunk,
         \A t \in LoadedThunks(g, h) : MainOnly(t) \/ \A d \in Deps(t) : AddedHash(g, d) = d
  PROVE  Complete(add_thunk(g, h))
<1> DEFINE L  == LoadedThunks(g, h)
           g1 == add_thunk(g, h)
<1>1. /\ DOMAIN g1.thunks = DOMAIN g.thunks \cup L
      /\ \A x \in L : g1.thunks[x] = LoadedContent(g, x)
      /\ \A x \in DOMAIN g.thunks \ L : g1.thunks[x] = g.thunks[x]
  <2>1. g1.thunks = [x \in DOMAIN g.thunks \cup L |->
                        IF x \in L THEN LoadedContent(g, x) ELSE g.thunks[x]]
    BY AddThunkParts DEF Sound
  <2> HIDE DEF g1, L
  <2> QED
    BY <2>1
<1>2. L \subseteq Unread(g, h) /\ \A y \in L : Deps(y) \cap Unread(g, h) \subseteq L
  BY LoadedAreNew
<1>3. /\ DOMAIN g.referencing_thunks \cup L \subseteq DOMAIN g1.referencing_thunks
      /\ \A d \in DOMAIN g.referencing_thunks :
            g.referencing_thunks[d] \subseteq g1.referencing_thunks[d]
      /\ \A x \in L : \A e \in Deps(x) : x \in g1.referencing_thunks[AddedHash(g, e)]
  BY AddThunkReferences DEF Sound
<1>4. \A x \in L : \A d \in Deps(LoadedContent(g, x)) : \E e \in Deps(x) : d = AddedHash(g, e)
  <2> SUFFICES ASSUME NEW x \in L
               PROVE  \A d \in Deps(LoadedContent(g, x)) : \E e \in Deps(x) : d = AddedHash(g, e)
    OBVIOUS
  <2>1. x \in Thunk /\ (MainOnly(x) \/ \A d \in Deps(x) : AddedHash(g, d) = d)
    BY <1>2 DEF Unread
  <2> QED
    BY <2>1, LoadedIsNamed DEF Sound
<1>5. \A x \in L : \A e \in Deps(x) : AddedHash(g, e) \in DOMAIN g.thunks \cup L
  <2> SUFFICES ASSUME NEW x \in L, NEW e \in Deps(x), AddedHash(g, e) \notin DOMAIN g.thunks
               PROVE  AddedHash(g, e) \in L
    OBVIOUS
  <2>1. x \in Thunk /\ x \in Subthunks[h]
    BY <1>2 DEF Unread
  <2>2. e \in Thunk /\ e \in Subthunks[h]
    BY <2>1, SubthunksAssumption
  <2>3. e \in Unread(g, h) /\ AddedHash(g, e) = e
    BY <2>2 DEF Unread, AddedHash
  <2> QED
    BY <1>2, <2>3
<1> HIDE DEF g1, L
<1>6. ASSUME NEW x \in DOMAIN g1.thunks, NEW d \in Deps(g1.thunks[x])
      PROVE  d \in DOMAIN g1.thunks /\ x \in g1.referencing_thunks[d]
  <2>1. CASE x \in L
    <3>1. PICK e \in Deps(x) : d = AddedHash(g, e)
      BY <1>1, <1>4, <2>1
    <3> QED
      BY <1>1, <1>3, <1>5, <2>1, <3>1
  <2>2. CASE x \notin L
    <3>1. d \in DOMAIN g.thunks /\ x \in g.referencing_thunks[d]
      BY <1>1, <2>2 DEF Complete
    <3> QED
      BY <1>1, <1>3, <3>1 DEF Complete
  <2> QED
    BY <2>1, <2>2
<1>7. DOMAIN g1.thunks \subseteq DOMAIN g1.referencing_thunks
  BY <1>1, <1>3 DEF Complete
<1> QED
  BY <1>6, <1>7 DEF Complete, g1

\* The lists of referrers after the old thunk has been replaced (graph.cc:96-99).
LEMMA ReplacedReferrers ==
  ASSUME NEW g, IsGraph(g), NEW old, NEW outs
  PROVE  /\ DOMAIN ReplaceOld(g, old, outs).referencing_thunks =
               (DOMAIN g.referencing_thunks \ {old}) \cup {outs[1].hash}
         /\ ReplaceOld(g, old, outs).referencing_thunks[outs[1].hash] = g.referencing_thunks[old]
         /\ \A x \in (DOMAIN g.referencing_thunks \ {old}) \ {outs[1].hash} :
               ReplaceOld(g, old, outs).referencing_thunks[x] = g.referencing_thunks[x]
<1> DEFINE new  == outs[1].hash
           ren  == [r \in {old} |-> outs]
           last == [n \in {new} |-> old]
<1>1. DOMAIN ren = {old} /\ DOMAIN last = {new} /\ last[new] = old
  OBVIOUS
<1>2. ReplaceOld(g, old, outs) = update_hash(g, ren, last)
  BY DEF ReplaceOld
<1> HIDE DEF ren, last, new
<1>3. /\ DOMAIN update_hash(g, ren, last).referencing_thunks =
               (DOMAIN g.referencing_thunks \ {old}) \cup {new}
      /\ update_hash(g, ren, last).referencing_thunks[new] = g.referencing_thunks[old]
      /\ \A x \in (DOMAIN g.referencing_thunks \ {old}) \ {new} :
            update_hash(g, ren, last).referencing_thunks[x] = g.referencing_thunks[x]
  BY <1>1, UpdateHashParts
<1> QED
  BY <1>2, <1>3 DEF new

\* Replacing the old thunk by values leaves nobody waiting for it (graph.cc:122).
LEMMA ReplaceByValuesComplete ==
  ASSUME ThunkShapes, NEW g, Sound(g), Complete(g), NEW old \in DOMAIN g.thunks,
         CanBeExecuted(old), NEW outs \in ValueOutputs, Tagged(old, outs), outs[1].hash \in Value
  PROVE  Complete(ReplaceOld(g, old, outs))
<1> DEFINE new == outs[1].hash
           g2  == ReplaceOld(g, old, outs)
<1>1. ReferrersFound(g, old, outs)
  BY CompleteFindsOld
<1>2. /\ ValuesReplace(g, old, g2)
      /\ \A x \in g.referencing_thunks[old] : old \notin Deps(g2.thunks[x])
  BY <1>1, ReplaceByValues
<1>3. /\ DOMAIN g2.referencing_thunks = (DOMAIN g.referencing_thunks \ {old}) \cup {new}
      /\ \A x \in (DOMAIN g.referencing_thunks \ {old}) \ {new} :
            g2.referencing_thunks[x] = g.referencing_thunks[x]
  BY ReplacedReferrers DEF Sound
<1>4. \A x \in DOMAIN g.thunks : x \notin Value
  BY NamesAreThunks DEF Sound
<1>5. new \in Value
  OBVIOUS
<1> HIDE DEF g2, new
<1>6. DOMAIN g2.thunks = DOMAIN g.thunks \ {old}
  BY <1>2 DEF ValuesReplace
<1>7. ASSUME NEW x \in DOMAIN g2.thunks, NEW d \in Deps(g2.thunks[x])
      PROVE  d \in DOMAIN g2.thunks /\ x \in g2.referencing_thunks[d]
  <2>1. d \in Deps(g.thunks[x])
    BY <1>2, <1>6 DEF ValuesReplace
  <2>2. d \in DOMAIN g.thunks /\ x \in g.referencing_thunks[d]
    BY <1>6, <2>1 DEF Complete
  <2>3. d # old
    BY <1>2, <2>2
  <2>4. d \in DOMAIN g.referencing_thunks /\ d # new
    BY <1>4, <1>5, <2>2 DEF Complete
  <2> QED
    BY <1>3, <1>6, <2>2, <2>3, <2>4
<1>8. DOMAIN g2.thunks \subseteq DOMAIN g2.referencing_thunks
  BY <1>3, <1>6 DEF Complete
<1> QED
  BY <1>7, <1>8 DEF Complete, g2

\* Replacing the old thunk by one that nobody waits for yet: its referrers are exactly
\* those of the old one (graph.cc:98, 122).
LEMMA ReplaceByThunkComplete ==
  ASSUME NEW g, Sound(g), Complete(g), NEW old \in DOMAIN g.thunks, NEW outs,
         ThunkReplaces(g, old, outs[1].hash, ReplaceOld(g, old, outs)),
         outs[1].hash \in DOMAIN g.thunks \ {old},
         \A x \in DOMAIN g.thunks : outs[1].hash \notin Deps(g.thunks[x])
  PROVE  Complete(ReplaceOld(g, old, outs))
<1> DEFINE new == outs[1].hash
           g2  == ReplaceOld(g, old, outs)
<1>1. /\ DOMAIN g2.referencing_thunks = (DOMAIN g.referencing_thunks \ {old}) \cup {new}
      /\ g2.referencing_thunks[new] = g.referencing_thunks[old]
      /\ \A x \in (DOMAIN g.referencing_thunks \ {old}) \ {new} :
            g2.referencing_thunks[x] = g.referencing_thunks[x]
  BY ReplacedReferrers DEF Sound
<1>2. /\ new \in DOMAIN g.thunks \ {old}
      /\ \A x \in DOMAIN g.thunks : new \notin Deps(g.thunks[x])
      /\ ThunkReplaces(g, old, new, g2)
  OBVIOUS
<1> HIDE DEF g2, new
<1>3. DOMAIN g2.thunks = DOMAIN g.thunks \ {old}
  BY <1>2 DEF ThunkReplaces
<1>4. ASSUME NEW x \in DOMAIN g2.thunks, NEW d \in Deps(g2.thunks[x])
      PROVE  d \in DOMAIN g2.thunks /\ x \in g2.referencing_thunks[d]
  <2>1. PICK e \in Deps(g.thunks[x]) :
           d = IF e = old /\ x \in g.referencing_thunks[old] THEN new ELSE e
    BY <1>2, <1>3 DEF ThunkReplaces
  <2>2. e \in DOMAIN g.thunks /\ x \in g.referencing_thunks[e] /\ e # new
    BY <1>2, <1>3, <2>1 DEF Complete
  <2>3. CASE e = old
    BY <1>1, <1>2, <1>3, <2>1, <2>2, <2>3
  <2>4. CASE e # old
    <3>1. d = e /\ e \in DOMAIN g.referencing_thunks
      BY <2>1, <2>2, <2>4 DEF Complete
    <3> QED
      BY <1>1, <1>3, <2>2, <2>4, <3>1
  <2> QED
    BY <2>3, <2>4
<1>5. DOMAIN g2.thunks \subseteq DOMAIN g2.referencing_thunks
  BY <1>1, <1>3 DEF Complete
<1> QED
  BY <1>4, <1>5 DEF Complete, g2

\* The ready thunks become different ones that the graph does not have.
AllDistinct(g, ready) ==
    \A r \in DOMAIN ready : /\ g.thunks[r] \notin DOMAIN g.thunks
                            /\ \A s \in DOMAIN ready : g.thunks[s] = g.thunks[r] => s = r

\* Renaming the ready thunks moves each list of referrers to the new hash, if the new
\* hashes are different ones (graph.cc:124-141).
LEMMA RenameReadyComplete ==
  ASSUME ThunkShapes, NEW g, IsGraph(g), AllNamed(g), Referenced(g), Complete(g),
         NEW ready, IsReady(g, ready), AllDistinct(g, ready),
         NEW g3 \in RenameReady(g, ready), IsGraph(g3)
  PROVE  Complete(g3)
<1> DEFINE olds == DOMAIN ready
           news == { NewHash(ready, r) : r \in olds }
           e    == EnterReady(g, ready)
<1>1. /\ Sound(g3) /\ FollowReady(g, ready, g3)
      /\ DOMAIN g3.thunks = (DOMAIN g.thunks \cup news) \ olds
  <2>1. ~ UpdateHashThrows(g, ready)
    BY CompleteFinds DEF IsReady
  <2> QED
    BY <2>1, RenameReadySound
<1>2. PICK last \in LastMoves(ready) : g3 = update_hash(e, ready, last)
  BY DEF RenameReady
<1>3. IsFiniteSet(olds)
  BY FS_Subset DEF IsReady, IsGraph
<1>4. IsGraph(e) /\ e.referencing_thunks = g.referencing_thunks
  BY <1>3, EnterReadyParts
<1>5. \A r \in olds : NewHash(ready, r) = g.thunks[r]
  BY ReadyHash
<1>6. DOMAIN last = news /\ \A n \in news : last[n] \in olds /\ NewHash(ready, last[n]) = n
  BY DEF LastMoves
<1> HIDE DEF e, news
<1>7. /\ DOMAIN g3.referencing_thunks = (DOMAIN g.referencing_thunks \ olds) \cup news
      /\ \A x \in news : g3.referencing_thunks[x] = g.referencing_thunks[last[x]]
      /\ \A x \in (DOMAIN g.referencing_thunks \ olds) \ news :
            g3.referencing_thunks[x] = g.referencing_thunks[x]
  BY <1>2, <1>4, <1>6, UpdateHashParts
<1>8. \A r \in olds : g.thunks[r] \in news /\ last[g.thunks[r]] = r
  <2>1. \A r \in olds : g.thunks[r] \in news
    BY <1>5 DEF news
  <2> QED
    BY <1>5, <1>6, <2>1 DEF AllDistinct
<1>9. news \cap DOMAIN g.thunks = {} /\ \A n \in news : CanBeExecuted(n)
  <2>1. \A n \in news : \E r \in olds : n = g.thunks[r]
    BY <1>5, <1>6
  <2> QED
    BY <2>1 DEF AllDistinct, IsReady
<1>10. ASSUME NEW x \in DOMAIN g3.thunks, NEW d \in Deps(g3.thunks[x])
       PROVE  d \in DOMAIN g3.thunks /\ x \in g3.referencing_thunks[d]
  <2>1. x \in DOMAIN g.thunks \ olds
    <3>1. x \notin news
      BY <1>1, <1>9, <1>10 DEF Sound, Aligned, CanBeExecuted
    <3> QED
      BY <1>1, <3>1
  <2>2. PICK b \in Deps(g.thunks[x]) :
           d = IF b \in olds /\ x \in g.referencing_thunks[b] THEN g.thunks[b] ELSE b
    BY <1>1, <2>1 DEF FollowReady
  <2>3. b \in DOMAIN g.thunks /\ x \in g.referencing_thunks[b] /\ b \in DOMAIN g.referencing_thunks
    BY <2>1, <2>2 DEF Complete
  <2>4. CASE b \in olds
    <3>1. d = g.thunks[b] /\ d \in news /\ last[d] = b
      BY <1>8, <2>2, <2>3, <2>4
    <3>2. d \notin olds
      BY <1>9, <3>1 DEF IsReady
    <3> QED
      BY <1>1, <1>7, <2>3, <3>1, <3>2
  <2>5. CASE b \notin olds
    <3>1. d = b /\ b \notin news
      BY <1>9, <2>2, <2>3, <2>5
    <3> QED
      BY <1>1, <1>7, <2>3, <2>5, <3>1
  <2> QED
    BY <2>4, <2>5
<1>11. DOMAIN g3.thunks \subseteq DOMAIN g3.referencing_thunks
  BY <1>1, <1>7 DEF Complete
<1> QED
  BY <1>10, <1>11 DEF Complete

\* Below a thunk of a complete graph order_one_dependencies finds everything
\* (graph.cc:161).
LEMMA CompleteOrder ==
  ASSUME NEW g, Complete(g), NEW h \in DOMAIN g.thunks
  PROVE  ~ OrderOneThrows(g, h)
  BY DEF OrderOneThrows, Complete, Below, LeastClosed

\* What is left of the graph is complete if it was before the list of a value's
\* referrers was dropped.
LEMMA LeftComplete ==
  ASSUME ThunkShapes, NEW g3, Sound(g3), Complete(g3), NEW new, NEW left, LeftOf(g3, new, left)
  PROVE  Complete(left)
<1>1. \A x \in DOMAIN g3.thunks : x \notin Value
  BY NamesAreThunks DEF Sound
<1> QED
  BY <1>1 DEF LeftOf, Complete

\* Forcing to values (graph.cc:102-149).
LEMMA ForceValuesComplete ==
  ASSUME ThunkShapes, NEW g, Sound(g), Complete(g), NEW old \in DOMAIN g.thunks,
         CanBeExecuted(old), NEW outs \in ValueOutputs, Tagged(old, outs),
         AllDistinct(ReplaceOld(g, old, outs), NowExecutable(ReplaceOld(g, old, outs), outs[1].hash))
  PROVE  /\ ~ ForceThrows(g, old, outs)
         /\ \A r \in force_thunk(g, old, outs) : Complete(r.graph)
<1> DEFINE new   == outs[1].hash
           g2    == ReplaceOld(g, old, outs)
           ready == NowExecutable(g2, new)
<1>1. ReferrersFound(g, old, outs)
  BY CompleteFindsOld
<1>2. /\ AddReturned(g, outs) = g /\ ActualOutputs(g, outs) = outs /\ new \in Value
      /\ Staged(g, old, outs)
  BY <1>1, StagesOfValues
<1>3. IsGraph(g2) /\ AllNamed(g2) /\ Referenced(g2) /\ IsReady(g2, ready)
  BY <1>2 DEF Staged
<1>4. Complete(g2)
  BY <1>2, ReplaceByValuesComplete
<1>5. ForceThrows(g, old, outs) <=> ~ ReferrersFound(g, old, outs) \/ ReferrersThrow(g2, new, ready)
  BY <1>2 DEF ForceThrows, ReferrersFound
<1>6. ASSUME NEW r \in force_thunk(g, old, outs)
      PROVE  r \in ForceReferrers(g2, new, ready)
  BY <1>2 DEF force_thunk
<1> HIDE DEF g2, new, ready
<1>7. ~ UpdateHashThrows(g2, ready)
  BY <1>3, <1>4, CompleteFinds DEF IsReady
<1>8. ~ ForceThrows(g, old, outs)
  BY <1>1, <1>2, <1>5, <1>7 DEF ReferrersThrow
<1>9. AllDistinct(g2, ready)
  BY DEF g2, new, ready
<1>10. ASSUME NEW r \in force_thunk(g, old, outs)
       PROVE  Complete(r.graph)
  <2>1. IsFiniteSet(DOMAIN ready)
    BY <1>3, FS_Subset DEF IsReady, IsGraph
  <2>2. PICK g3 \in RenameReady(g2, ready) : LeftOf(g3, new, r.graph)
    BY <1>3, <1>6, <2>1, LastStage
  <2>3. IsGraph(g3)
    BY <2>2 DEF LeftOf
  <2>4. Complete(g3)
    BY <1>3, <1>4, <1>9, <2>3, RenameReadyComplete
  <2>5. Sound(g3)
    BY <1>3, <1>7, <2>3, RenameReadySound
  <2> QED
    BY <2>2, <2>4, <2>5, LeftComplete
<1> QED
  BY <1>8, <1>10

\* Forcing to a thunk that the graph does not know (graph.cc:102-122, 151-153).
LEMMA ForceThunkComplete ==
  ASSUME ThunkShapes, NEW g, Sound(g), Complete(g), NEW old \in DOMAIN g.thunks,
         CanBeExecuted(old), Len(old.outputs) = 1, NEW outs, 1 \in DOMAIN outs,
         "hash" \in DOMAIN outs[1], outs[1].hash \in Thunk,
         \A s \in Subthunks[outs[1].hash] : MainOnly(s),
         AddedHash(g, outs[1].hash) \notin DOMAIN g.thunks
  PROVE  /\ ~ ForceThrows(g, old, outs)
         /\ \A r \in force_thunk(g, old, outs) : Complete(r.graph)
<1> DEFINE o      == outs[1].hash
           g1     == AddReturned(g, outs)
           actual == ActualOutputs(g, outs)
           g2     == ReplaceOld(g1, old, actual)
           ready  == NowExecutable(g2, o)
           L      == LoadedThunks(g, o)
<1>1. AddedHash(g, o) = o /\ o \notin DOMAIN g.thunks
  BY DEF AddedHash
<1>2. g1 = add_thunk(g, o) /\ actual[1].hash = o /\ o \notin Value
  BY <1>1, StagesOfThunk
<1>3. Sound(g1) /\ old \in DOMAIN g1.thunks
  BY StagesOfThunk
<1>4. \A t \in L : MainOnly(t)
  BY LoadedAreNew DEF Unread
<1>5. Complete(g1)
  BY <1>2, <1>4, AddThunkComplete
<1>6. ReferrersFound(g1, old, actual)
  BY <1>3, <1>5, CompleteFindsOld
<1>7. ThunkReplaces(g1, old, o, g2) /\ DOMAIN ready = {} /\ Staged(g, old, outs)
  BY <1>1, <1>6, StagesOfThunk
<1>8. IsGraph(g2) /\ AllNamed(g2) /\ Referenced(g2) /\ IsReady(g2, ready)
  BY <1>2, <1>7 DEF Staged
<1>9. ForceThrows(g, old, outs) <=> ~ ReferrersFound(g1, old, actual) \/ ReferrersThrow(g2, o, ready)
  BY <1>2 DEF ForceThrows, ReferrersFound
<1>10. ASSUME NEW r \in force_thunk(g, old, outs)
       PROVE  r \in ForceReferrers(g2, o, ready)
  BY <1>2 DEF force_thunk
<1> HIDE DEF g1, actual, o, L
<1>11. o \in L
  <2>1. o \in Thunk /\ o \in Subthunks[o]
    BY SubthunksAssumption DEF o
  <2>2. o \in Unread(g, o)
    BY <1>1, <2>1 DEF Unread
  <2>3. L = LeastClosed(o, Unread(g, o), [x \in Unread(g, o) |-> Deps(x)])
    BY DEF L, LoadedThunks, Unread
  <2> QED
    BY <2>2, <2>3 DEF LeastClosed
<1>12. /\ DOMAIN g1.thunks = DOMAIN g.thunks \cup L
       /\ \A x \in L : g1.thunks[x] = LoadedContent(g, x)
       /\ \A x \in DOMAIN g.thunks \ L : g1.thunks[x] = g.thunks[x]
  <2>1. g1.thunks = [x \in DOMAIN g.thunks \cup L |->
                        IF x \in L THEN LoadedContent(g, x) ELSE g.thunks[x]]
    BY <1>2, AddThunkParts DEF Sound, L
  <2> QED
    BY <2>1
<1>13. ASSUME NEW x \in DOMAIN g1.thunks
       PROVE  o \notin Deps(g1.thunks[x])
  <2>1. CASE x \notin L
    BY <1>1, <1>12, <2>1 DEF Complete
  <2>2. CASE x \in L
    <3>1. x \in Thunk /\ x \in Subthunks[o] /\ MainOnly(x)
      BY <1>4, <2>2, LoadedAreNew DEF Unread, L
    <3>2. \A d \in Deps(LoadedContent(g, x)) : \E e \in Deps(x) : d = AddedHash(g, e)
      BY <3>1, LoadedIsNamed DEF Sound
    <3>3. o \in Deps(g1.thunks[x]) => \E e \in Deps(x) : o = AddedHash(g, e)
      BY <1>12, <2>2, <3>2
    <3>4. \A e : o = AddedHash(g, e) => e = o
      BY <1>1 DEF AddedHash
    <3>5. o \notin Deps(x)
      BY <3>1, SubthunksAssumption
    <3> QED
      BY <3>3, <3>4, <3>5
  <2> QED
    BY <2>1, <2>2
<1>14. Complete(g2)
  <2>1. o \in DOMAIN g1.thunks \ {old}
    BY <1>1, <1>11, <1>12
  <2>2. ThunkReplaces(g1, old, actual[1].hash, ReplaceOld(g1, old, actual))
    BY <1>2, <1>7
  <2> QED
    BY <1>2, <1>3, <1>5, <1>13, <2>1, <2>2, ReplaceByThunkComplete
<1>15. o \in DOMAIN g2.thunks
  BY <1>1, <1>7, <1>11, <1>12 DEF ThunkReplaces
<1> HIDE DEF g2, ready
<1>16. ~ UpdateHashThrows(g2, ready)
  BY <1>7 DEF UpdateHashThrows
<1>17. ASSUME NEW g3 \in RenameReady(g2, ready)
       PROVE  IsGraph(g3) /\ Complete(g3) /\ Sound(g3) /\ o \in DOMAIN g3.thunks
  <2>1. IsFiniteSet(DOMAIN ready)
    BY <1>7, FS_EmptySet
  <2>2. IsGraph(g3)
    <3>1. PICK last \in LastMoves(ready) : g3 = update_hash(EnterReady(g2, ready), ready, last)
      BY DEF RenameReady
    <3>2. IsGraph(EnterReady(g2, ready))
      BY <1>8, <2>1, EnterReadyParts
    <3> QED
      BY <3>1, <3>2, UpdateHashIsGraph
  <2>3. AllDistinct(g2, ready)
    BY <1>7 DEF AllDistinct
  <2>4. Complete(g3)
    BY <1>8, <1>14, <2>2, <2>3, RenameReadyComplete
  <2>5. /\ Sound(g3)
        /\ DOMAIN g3.thunks = (DOMAIN g2.thunks \cup { NewHash(ready, r) : r \in DOMAIN ready }) \ DOMAIN ready
    BY <1>8, <1>16, <2>2, RenameReadySound
  <2> QED
    BY <1>7, <1>15, <2>2, <2>4, <2>5
<1>18. ~ ForceThrows(g, old, outs)
  <2>1. \A g3 \in RenameReady(g2, ready) : ~ OrderOneThrows(g3, o)
    BY <1>17, CompleteOrder
  <2> QED
    BY <1>6, <1>9, <1>16, <2>1 DEF ReferrersThrow
<1>19. ASSUME NEW r \in force_thunk(g, old, outs)
       PROVE  Complete(r.graph)
  <2>1. IsFiniteSet(DOMAIN ready)
    BY <1>7, FS_EmptySet
  <2>2. PICK g3 \in RenameReady(g2, ready) : LeftOf(g3, o, r.graph)
    BY <1>8, <1>10, <2>1, LastStage
  <2> QED
    BY <1>17, <2>2, LeftComplete
<1> QED
  BY <1>18, <1>19

\* Forcing a thunk to what executing it yields finds all it looks up and loses no
\* reference, if it does not make two thunks one.
LEMMA ForceComplete ==
  ASSUME ThunkShapes, NEW g, Sound(g), Complete(g), NEW old \in DOMAIN g.thunks,
         CanBeExecuted(old), PlainResult(old), TagsReturned(old), NothingMerges(g, old)
  PROVE  /\ ~ ForceThrows(g, old, Eval(old))
         /\ \A r \in force_thunk(g, old, Eval(old)) : Complete(r.graph)
<1> DEFINE outs == Eval(old)
<1>1. CASE outs \in ValueOutputs
  <2>1. outs[1].hash \in Value
    <3>1. outs \in Seq([hash : Value, tag : Tag]) /\ 1 \in 1 .. Len(outs)
      BY <1>1 DEF ValueOutputs
    <3> HIDE DEF outs
    <3> QED
      BY <3>1, HashesOf
  <2>2. Tagged(old, outs)
    <3>1. old.outputs \in Seq(Tag)
      BY DEF Sound, AllNamed, Named, IsContent
    <3> QED
      BY <3>1 DEF TagsReturned, Tagged
  <2>3. AllDistinct(ReplaceOld(g, old, outs), NowExecutable(ReplaceOld(g, old, outs), outs[1].hash))
    BY <2>1 DEF NothingMerges, AllDistinct
  <2> HIDE DEF outs
  <2>4. ~ ForceThrows(g, old, outs) /\ \A r \in force_thunk(g, old, outs) : Complete(r.graph)
    BY <1>1, <2>2, <2>3, ForceValuesComplete
  <2> QED
    BY <2>4 DEF outs
<1>2. CASE outs \notin ValueOutputs
  <2>1. /\ Len(old.outputs) = 1
        /\ 1 \in DOMAIN outs /\ "hash" \in DOMAIN outs[1] /\ outs[1].hash \in Thunk
        /\ \A s \in Subthunks[outs[1].hash] : MainOnly(s)
    BY <1>2, TwoResults
  <2>2. AddedHash(g, outs[1].hash) \notin DOMAIN g.thunks
    BY <2>1, ObjectAssumption DEF NothingMerges
  <2> HIDE DEF outs
  <2>4. ~ ForceThrows(g, old, outs) /\ \A r \in force_thunk(g, old, outs) : Complete(r.graph)
    BY <2>1, <2>2, ForceThunkComplete
  <2> QED
    BY <2>4 DEF outs
<1> QED
  BY <1>1, <1>2

(***************************************************************************)
(* What the owner of a graph relies on                                     *)
(***************************************************************************)

\* The empty graph is sound and complete.
LEMMA EmptyIsSound == Sound(EmptyGraph) /\ OwnContent(EmptyGraph) /\ Complete(EmptyGraph)
<1>1. DOMAIN EmptyGraph.thunks = {} /\ DOMAIN EmptyGraph.referencing_thunks = {}
  BY DEF EmptyGraph
<1>2. IsFiniteSet({})
  BY FS_EmptySet
<1> QED
  BY <1>1, <1>2 DEF Sound, IsGraph, AllNamed, Aligned, Referenced, OwnContent, Complete

\* A thunk that the graph does not know is read.
LEMMA UnknownIsLoaded ==
  ASSUME NEW g, NEW h \in Thunk, AddedHash(g, h) \notin DOMAIN g.thunks
  PROVE  h \in LoadedThunks(g, h)
<1>1. h \in Unread(g, h)
  BY SubthunksAssumption DEF Unread
<1> QED
  BY <1>1 DEF LoadedThunks, LeastClosed, Unread

\* Loading h into g, in which nothing has been renamed yet, gives g1: what is executable
\* now was so before or is below h, and nothing is if the graph had h already.
Loaded(g, h, g1) ==
    /\ Sound(g1) /\ h \in DOMAIN g1.thunks /\ g1.updated_hashes = << >>
    /\ DOMAIN g.thunks \subseteq DOMAIN g1.thunks
    /\ Executables(g1) = Executables(g) \cup order_one_dependencies(g1, h)
    /\ IsFiniteSet(order_one_dependencies(g1, h))
    /\ \A x \in order_one_dependencies(g1, h) : CanBeExecuted(x)
    /\ h \in DOMAIN g.thunks => Executables(g1) = Executables(g)
    /\ OwnContent(g) => OwnContent(g1)
    /\ Complete(g) => Complete(g1)

\* add_thunk for a target (graph.cc:16-68, reductor.cc:99-107).
LEMMA LoadKeeps ==
  ASSUME ThunkShapes, NEW g, Sound(g), g.updated_hashes = << >>, NEW h \in Thunk
  PROVE  Loaded(g, h, add_thunk(g, h))
<1> DEFINE L  == LoadedThunks(g, h)
           g1 == add_thunk(g, h)
<1>1. IsGraph(g) /\ IsGraph(g1)
  BY AddThunkIsGraph DEF Sound
<1>2. \A d : AddedHash(g, d) = d
  BY DEF AddedHash, updated_hash
<1>3. /\ Sound(g1)
      /\ \A y \in L : Deps(y) \cap Unread(g, h) \subseteq Deps(g1.thunks[y])
  BY <1>1, <1>2, AddThunkSound
<1>4. /\ DOMAIN g1.thunks = DOMAIN g.thunks \cup L
      /\ \A x \in DOMAIN g.thunks \ L : g1.thunks[x] = g.thunks[x]
  <2>1. g1.thunks = [x \in DOMAIN g.thunks \cup L |->
                        IF x \in L THEN LoadedContent(g, x) ELSE g.thunks[x]]
    BY <1>1, AddThunkParts
  <2> HIDE DEF g1, L
  <2> QED
    BY <2>1
<1>5. g1.updated_hashes = << >>
  BY <1>1, AddThunkParts
<1>6. OwnContent(g) => OwnContent(g1)
  BY <1>1, AddThunkOwn
<1>7. Complete(g) => Complete(g1)
  BY <1>2, AddThunkComplete
<1>8. L \cap DOMAIN g.thunks = {} /\ (h \in DOMAIN g.thunks => L = {})
  BY <1>2, LoadedAreNew
<1>9. h \in DOMAIN g1.thunks
  BY <1>2, <1>4, UnknownIsLoaded
<1> HIDE DEF g1
<1>10. L \subseteq Below(g1, h)
  <2>1. L \subseteq DOMAIN g1.thunks
    BY <1>4
  <2> QED
    BY <1>3, <2>1, LoadedBelow
<1> HIDE DEF L
<1>11. order_one_dependencies(g1, h) \subseteq Executables(g1)
  BY DEF order_one_dependencies, Below, LeastClosed, Executables
<1>12. IsFiniteSet(order_one_dependencies(g1, h))
  <2>1. order_one_dependencies(g1, h) \in SUBSET DOMAIN g1.thunks
    BY <1>11 DEF Executables
  <2> QED
    BY <1>1, <2>1, FS_Subset DEF IsGraph, g1
<1>13. \A x \in Executables(g1) : CanBeExecuted(x)
  BY <1>3 DEF Executables, Sound, Aligned
<1>14. Executables(g) \subseteq Executables(g1)
  BY <1>4, <1>8 DEF Executables
<1>15. Executables(g1) \subseteq Executables(g) \cup (L \cap order_one_dependencies(g1, h))
  BY <1>4, <1>10 DEF Executables, order_one_dependencies
<1> QED
  BY <1>3, <1>4, <1>5, <1>6, <1>7, <1>8, <1>9, <1>11, <1>12, <1>13, <1>14, <1>15 DEF Loaded, g1

\* Forcing old in g gives r: what is executable now was so before or is handed out.
Reduced(g, old, r) ==
    /\ Sound(r.graph) /\ IsFiniteSet(r.next)
    /\ \A x \in r.next : CanBeExecuted(x)
    /\ Executables(r.graph) = r.next \cup (Executables(g) \ {old})
    /\ OwnContent(g) => OwnContent(r.graph)

\* force_thunk with what executing a thunk of a plain program yields (graph.cc:102-154).
LEMMA ForceKeeps ==
  ASSUME ThunkShapes, NEW g, Sound(g), NEW old \in DOMAIN g.thunks, CanBeExecuted(old),
         PlainResult(old), ~ ForceThrows(g, old, Eval(old)),
         NEW r \in force_thunk(g, old, Eval(old))
  PROVE  Reduced(g, old, r)
<1>1. Forced(g, old, r)
  BY ForceSound
<1>2. IsFiniteSet(r.next)
  BY ForceIsGraph DEF Sound
<1>3. OwnContent(g) => OwnContent(r.graph)
  BY ForceOwn
<1>4. \A x \in DOMAIN g.thunks : CanBeExecuted(g.thunks[x]) <=> CanBeExecuted(x)
  BY DEF Sound, Aligned
<1>5. \A x \in DOMAIN r.graph.thunks : CanBeExecuted(r.graph.thunks[x]) <=> CanBeExecuted(x)
  BY <1>1 DEF Forced, Sound, Aligned
<1>6. Executables(r.graph) = r.next \cup (Executables(g) \ {old})
  BY <1>1, <1>4, <1>5 DEF Forced, Executables
<1> QED
  BY <1>1, <1>2, <1>3, <1>6 DEF Forced, Reduced

(***************************************************************************)
(* Targets are found again under the names they have come to have          *)
(***************************************************************************)

\* The targets in T are in the graph, each under its updated hash, from which its
\* original hash leads back to it; no other thunk goes back to a target.
Followed(g, T) ==
    /\ \A t \in T : /\ updated_hash(g, t) \in DOMAIN g.thunks
                    /\ original_hash(g, updated_hash(g, t)) = t
    /\ \A x \in DOMAIN g.thunks : original_hash(g, x) \in Targets =>
          original_hash(g, x) \in T /\ updated_hash(g, original_hash(g, x)) = x

\* What update_hash makes of the two maps (graph.cc:75-87).
LEMMA UpdateHashNames ==
  ASSUME NEW g, IsGraph(g), NEW ren, NEW last, NEW g2, g2 = update_hash(g, ren, last)
  PROVE  /\ \A x \in DOMAIN last \ Value : original_hash(g2, x) = original_hash(g, last[x])
         /\ \A x : /\ x \notin DOMAIN last
                   /\ x \in DOMAIN ren => NewHash(ren, x) \in Value
                   => original_hash(g2, x) = original_hash(g, x)
         /\ \A t : \/ /\ updated_hash(g2, t) = updated_hash(g, t)
                      /\ \A r \in DOMAIN ren : NewHash(ren, r) \notin Value => original_hash(g, r) # t
                   \/ \E r \in DOMAIN ren : /\ NewHash(ren, r) \notin Value /\ original_hash(g, r) = t
                                            /\ updated_hash(g2, t) = NewHash(ren, r)
<1> DEFINE toThunk == { r \in DOMAIN ren : NewHash(ren, r) \notin Value }
           roots   == { original_hash(g, r) : r \in toThunk }
           first(t) == CHOOSE r \in toThunk : original_hash(g, r) = t
<1>1. {"original_hashes", "updated_hashes"} \subseteq DOMAIN g
  BY DEF IsGraph, EmptyGraph
<1>2. g2.original_hashes = [n \in (DOMAIN g.original_hashes \ toThunk) \cup (DOMAIN last \ Value) |->
              IF n \in DOMAIN last THEN original_hash(g, last[n]) ELSE g.original_hashes[n]]
  BY <1>1 DEF update_hash
<1>3. g2.updated_hashes = [t \in DOMAIN g.updated_hashes \cup roots |->
              IF t \in roots THEN NewHash(ren, first(t)) ELSE g.updated_hashes[t]]
  BY <1>1 DEF update_hash
<1>4. \A t \in roots : first(t) \in toThunk /\ original_hash(g, first(t)) = t
  OBVIOUS
<1>5. \A t : t \notin roots => \A r \in toThunk : original_hash(g, r) # t
  OBVIOUS
<1> HIDE DEF roots, first
<1>6. \A x \in DOMAIN last \ Value : original_hash(g2, x) = original_hash(g, last[x])
  <2> SUFFICES ASSUME NEW x \in DOMAIN last \ Value
               PROVE  original_hash(g2, x) = original_hash(g, last[x])
    OBVIOUS
  <2>1. x \in DOMAIN g2.original_hashes /\ g2.original_hashes[x] = original_hash(g, last[x])
    BY <1>2
  <2>2. original_hash(g2, x) = g2.original_hashes[x]
    BY <2>1 DEF original_hash
  <2> QED
    BY <2>1, <2>2
<1>7. ASSUME NEW x, x \notin DOMAIN last, x \notin toThunk
      PROVE  original_hash(g2, x) = original_hash(g, x)
  <2>1. x \in DOMAIN g2.original_hashes <=> x \in DOMAIN g.original_hashes
    BY <1>2, <1>7
  <2>2. x \in DOMAIN g.original_hashes => g2.original_hashes[x] = g.original_hashes[x]
    BY <1>2, <1>7
  <2> QED
    BY <2>1, <2>2 DEF original_hash
<1>8. ASSUME NEW t
      PROVE  IF t \in roots THEN updated_hash(g2, t) = NewHash(ren, first(t))
             ELSE updated_hash(g2, t) = updated_hash(g, t)
  <2>1. CASE t \in roots
    <3>1. t \in DOMAIN g2.updated_hashes /\ g2.updated_hashes[t] = NewHash(ren, first(t))
      BY <1>3, <2>1
    <3> QED
      BY <2>1, <3>1 DEF updated_hash
  <2>2. CASE t \notin roots
    <3>1. t \in DOMAIN g2.updated_hashes <=> t \in DOMAIN g.updated_hashes
      BY <1>3, <2>2
    <3>2. t \in DOMAIN g.updated_hashes => g2.updated_hashes[t] = g.updated_hashes[t]
      BY <1>3, <2>2
    <3> QED
      BY <2>2, <3>1, <3>2 DEF updated_hash
  <2> QED
    BY <2>1, <2>2
<1>9. ASSUME NEW t
      PROVE  \/ /\ updated_hash(g2, t) = updated_hash(g, t)
                /\ \A r \in DOMAIN ren : NewHash(ren, r) \notin Value => original_hash(g, r) # t
             \/ \E r \in DOMAIN ren : /\ NewHash(ren, r) \notin Value /\ original_hash(g, r) = t
                                      /\ updated_hash(g2, t) = NewHash(ren, r)
  <2>1. CASE t \in roots
    BY <1>4, <1>8, <2>1
  <2>2. CASE t \notin roots
    BY <1>5, <1>8, <2>2
  <2> QED
    BY <2>1, <2>2
<1>10. \A x : x \in toThunk <=> x \in DOMAIN ren /\ NewHash(ren, x) \notin Value
  OBVIOUS
<1> HIDE DEF toThunk
<1> QED
  BY <1>6, <1>7, <1>9, <1>10

\* The thunks olds of g go by the names `to` in g3, and the maps say so.
Renamed(g, olds, to, g3) ==
    /\ DOMAIN g3.thunks = (DOMAIN g.thunks \cup { to[r] : r \in olds }) \ olds
    /\ \A r \in olds : original_hash(g3, to[r]) = original_hash(g, r)
    /\ \A x \in DOMAIN g.thunks \ olds :
          (\A r \in olds : to[r] # x) => original_hash(g3, x) = original_hash(g, x)
    /\ \A t : \/ /\ updated_hash(g3, t) = updated_hash(g, t)
                 /\ \A r \in olds : original_hash(g, r) # t
              \/ \E r \in olds : original_hash(g, r) = t /\ updated_hash(g3, t) = to[r]

\* Renaming keeps track of the targets, and does not touch those that are done.
LEMMA RenamedFollowed ==
  ASSUME NEW g, NEW T \in SUBSET Targets, Followed(g, T), NEW olds \in SUBSET DOMAIN g.thunks,
         NEW to, NEW g3, Renamed(g, olds, to, g3),
         \A r \in olds : /\ to[r] \notin olds
                         /\ to[r] \in DOMAIN g.thunks => original_hash(g, to[r]) \notin Targets
  PROVE  /\ Followed(g3, T)
         /\ \A t \in Targets \ T : updated_hash(g3, t) = updated_hash(g, t)
<1>1. \A r \in olds : original_hash(g, r) \in Targets =>
         original_hash(g, r) \in T /\ updated_hash(g, original_hash(g, r)) = r
  BY DEF Followed
<1>2. \A t \in Targets \ T : updated_hash(g3, t) = updated_hash(g, t)
  BY <1>1 DEF Renamed
<1>3. ASSUME NEW t \in T
      PROVE  updated_hash(g3, t) \in DOMAIN g3.thunks /\ original_hash(g3, updated_hash(g3, t)) = t
  <2> DEFINE y == updated_hash(g, t)
  <2>1. y \in DOMAIN g.thunks /\ original_hash(g, y) = t /\ t \in Targets
    BY DEF Followed
  <2> HIDE DEF y
  <2>2. CASE y \in olds
    <3>1. \A r \in olds : original_hash(g, r) = t => r = y
      BY <1>1, <2>1 DEF y
    <3>2. updated_hash(g3, t) = to[y]
      BY <2>1, <2>2, <3>1 DEF Renamed
    <3>3. to[y] \in DOMAIN g3.thunks
      BY <2>2 DEF Renamed
    <3> QED
      BY <2>1, <2>2, <3>2, <3>3 DEF Renamed
  <2>3. CASE y \notin olds
    <3>1. \A r \in olds : original_hash(g, r) # t
      BY <1>1, <2>1, <2>3 DEF y
    <3>2. updated_hash(g3, t) = y
      BY <3>1 DEF Renamed, y
    <3>3. \A r \in olds : to[r] # y
      BY <2>1
    <3>4. original_hash(g3, y) = t /\ y \in DOMAIN g3.thunks
      BY <2>1, <2>3, <3>3 DEF Renamed
    <3> QED
      BY <3>2, <3>4
  <2> QED
    BY <2>2, <2>3
<1>4. ASSUME NEW x \in DOMAIN g3.thunks, original_hash(g3, x) \in Targets
      PROVE  original_hash(g3, x) \in T /\ updated_hash(g3, original_hash(g3, x)) = x
  <2> DEFINE t == original_hash(g3, x)
  <2>1. ASSUME NEW r \in olds, x = to[r]
        PROVE  t \in T /\ updated_hash(g3, t) = x
    <3>1. original_hash(g, r) = t
      BY <2>1 DEF Renamed
    <3>2. t \in T /\ updated_hash(g, t) = r
      BY <1>1, <1>4, <3>1
    <3>3. \A s \in olds : original_hash(g, s) = t => s = r
      BY <1>1, <1>4, <3>2
    <3> HIDE DEF t
    <3>4. updated_hash(g3, t) = to[r]
      BY <3>1, <3>3 DEF Renamed
    <3> QED
      BY <2>1, <3>2, <3>4
  <2>2. ASSUME \A r \in olds : x # to[r]
        PROVE  t \in T /\ updated_hash(g3, t) = x
    <3>1. x \in DOMAIN g.thunks \ olds
      BY <2>2 DEF Renamed
    <3>2. original_hash(g, x) = t
      BY <2>2, <3>1 DEF Renamed
    <3>3. t \in T /\ updated_hash(g, t) = x
      BY <1>4, <3>1, <3>2 DEF Followed
    <3>4. \A s \in olds : original_hash(g, s) # t
      BY <1>1, <1>4, <3>1, <3>3
    <3> HIDE DEF t
    <3>5. updated_hash(g3, t) = updated_hash(g, t)
      BY <3>4 DEF Renamed
    <3> QED
      BY <3>3, <3>5
  <2> QED
    BY <2>1, <2>2
<1> QED
  BY <1>2, <1>3, <1>4 DEF Followed

\* The ready thunks go by the hashes of their contents (graph.cc:124-141).
LEMMA ReadyRenamed ==
  ASSUME ThunkShapes, NEW g, IsGraph(g), AllNamed(g), Referenced(g),
         NEW ready, IsReady(g, ready), ~ UpdateHashThrows(g, ready), AllDistinct(g, ready),
         NEW g3 \in RenameReady(g, ready), IsGraph(g3)
  PROVE  /\ Renamed(g, DOMAIN ready, [r \in DOMAIN ready |-> g.thunks[r]], g3)
         /\ \A x : x \notin DOMAIN ready /\ (\A r \in DOMAIN ready : g.thunks[r] # x)
                     => original_hash(g3, x) = original_hash(g, x)
<1> DEFINE olds == DOMAIN ready
           news == { NewHash(ready, r) : r \in olds }
           e    == EnterReady(g, ready)
           to   == [r \in olds |-> g.thunks[r]]
<1>1. PICK last \in LastMoves(ready) : g3 = update_hash(e, ready, last)
  BY DEF RenameReady
<1>2. IsFiniteSet(olds)
  BY FS_Subset DEF IsReady, IsGraph
<1>3. /\ IsGraph(e) /\ e.original_hashes = g.original_hashes
      /\ e.updated_hashes = g.updated_hashes
  BY <1>2, EnterReadyParts
<1>4. \A r \in olds : NewHash(ready, r) = g.thunks[r] /\ g.thunks[r] \notin Value
  BY ReadyHash, NamesAreThunks DEF IsReady
<1>5. DOMAIN last = news /\ \A n \in news : last[n] \in olds /\ NewHash(ready, last[n]) = n
  BY DEF LastMoves
<1>6. DOMAIN g3.thunks = (DOMAIN g.thunks \cup news) \ olds
  BY RenameReadySound
<1> HIDE DEF e
<1>7. \A x : original_hash(e, x) = original_hash(g, x) /\ updated_hash(e, x) = updated_hash(g, x)
  BY <1>3 DEF original_hash, updated_hash
<1>8. /\ \A x \in DOMAIN last \ Value : original_hash(g3, x) = original_hash(e, last[x])
      /\ \A x : /\ x \notin DOMAIN last
                /\ x \in olds => NewHash(ready, x) \in Value
                => original_hash(g3, x) = original_hash(e, x)
      /\ \A t : \/ /\ updated_hash(g3, t) = updated_hash(e, t)
                   /\ \A r \in olds : NewHash(ready, r) \notin Value => original_hash(e, r) # t
                \/ \E r \in olds : /\ NewHash(ready, r) \notin Value /\ original_hash(e, r) = t
                                   /\ updated_hash(g3, t) = NewHash(ready, r)
  BY <1>1, <1>3, UpdateHashNames
<1>9. \A r \in olds : g.thunks[r] \in news /\ last[g.thunks[r]] = r
  <2>1. \A r \in olds : g.thunks[r] \in news
    BY <1>4
  <2> QED
    BY <1>4, <1>5, <2>1 DEF AllDistinct
<1>10. \A x : (\A r \in olds : g.thunks[r] # x) => x \notin news
  BY <1>4
<1>11. news = { to[r] : r \in olds }
  BY <1>4
<1>12. \A r \in olds : to[r] = g.thunks[r]
  OBVIOUS
<1> HIDE DEF news, to
<1>13. \A r \in olds : original_hash(g3, to[r]) = original_hash(g, r)
  BY <1>4, <1>5, <1>7, <1>8, <1>9, <1>12
<1>14. \A x : x \notin olds /\ (\A r \in olds : g.thunks[r] # x)
                => original_hash(g3, x) = original_hash(g, x)
  BY <1>5, <1>7, <1>8, <1>10
<1>15. \A t : \/ /\ updated_hash(g3, t) = updated_hash(g, t)
                 /\ \A r \in olds : original_hash(g, r) # t
              \/ \E r \in olds : original_hash(g, r) = t /\ updated_hash(g3, t) = to[r]
  BY <1>4, <1>7, <1>8, <1>12
<1>16. Renamed(g, olds, to, g3)
  BY <1>6, <1>11, <1>12, <1>13, <1>14, <1>15 DEF Renamed
<1> QED
  BY <1>14, <1>16 DEF to

\* The stages of forcing to values, in a complete graph.
LEMMA ValuesStages ==
  ASSUME ThunkShapes, NEW g, Sound(g), Complete(g), NEW old \in DOMAIN g.thunks,
         CanBeExecuted(old), NEW outs \in ValueOutputs, Tagged(old, outs),
         NEW g2, g2 = ReplaceOld(g, old, outs),
         NEW ready, ready = NowExecutable(g2, outs[1].hash),
         NEW r \in force_thunk(g, old, outs)
  PROVE  /\ outs[1].hash \in Value
         /\ ValuesReplace(g, old, g2) /\ IsReady(g2, ready) /\ ~ UpdateHashThrows(g2, ready)
         /\ \E g3 \in RenameReady(g2, ready) : LeftOf(g3, outs[1].hash, r.graph)
<1>1. ReferrersFound(g, old, outs)
  BY CompleteFindsOld
<1>2. /\ AddReturned(g, outs) = g /\ ActualOutputs(g, outs) = outs /\ outs[1].hash \in Value
      /\ ValuesReplace(g, old, g2) /\ Staged(g, old, outs)
  BY <1>1, StagesOfValues
<1>3. IsGraph(g2) /\ AllNamed(g2) /\ Referenced(g2) /\ IsReady(g2, ready)
  BY <1>2 DEF Staged
<1>4. Complete(g2)
  BY <1>2, ReplaceByValuesComplete
<1>5. ~ UpdateHashThrows(g2, ready)
  BY <1>3, <1>4, CompleteFinds DEF IsReady
<1>6. r \in ForceReferrers(g2, outs[1].hash, ready)
  BY <1>2 DEF force_thunk
<1>7. IsFiniteSet(DOMAIN ready)
  BY <1>3, FS_Subset DEF IsReady, IsGraph
<1>8. \E g3 \in RenameReady(g2, ready) : LeftOf(g3, outs[1].hash, r.graph)
  BY <1>3, <1>6, <1>7, LastStage
<1> QED
  BY <1>2, <1>3, <1>5, <1>8

\* Forcing to values: the target that old has come from is done, under the name old.
LEMMA ForceValuesFollowed ==
  ASSUME ThunkShapes, NEW g, Sound(g), Complete(g), NEW old \in DOMAIN g.thunks,
         CanBeExecuted(old), NEW outs \in ValueOutputs, Tagged(old, outs),
         NEW g2, g2 = ReplaceOld(g, old, outs),
         NEW ready, ready = NowExecutable(g2, outs[1].hash),
         AllDistinct(g2, ready), \A x \in DOMAIN ready : g2.thunks[x] # old,
         NEW T \in SUBSET Targets, Followed(g, T), NEW r \in force_thunk(g, old, outs)
  PROVE  /\ Followed(r.graph, T \ {original_hash(g, old)})
         /\ \A t \in Targets \ (T \ {original_hash(g, old)}) :
               updated_hash(r.graph, t) = updated_hash(g, t)
         /\ original_hash(r.graph, old) = original_hash(g, old)
<1> DEFINE new == outs[1].hash
           o   == original_hash(g, old)
<1>1. /\ new \in Value
      /\ ValuesReplace(g, old, g2) /\ IsReady(g2, ready) /\ ~ UpdateHashThrows(g2, ready)
      /\ \E g3 \in RenameReady(g2, ready) : LeftOf(g3, new, r.graph)
  BY ValuesStages
<1>2. PICK g3 \in RenameReady(g2, ready) : LeftOf(g3, new, r.graph)
  BY <1>1
<1>3. \A x : /\ x \notin Value => original_hash(g2, x) = original_hash(g, x)
             /\ updated_hash(g2, x) = updated_hash(g, x)
  <2> DEFINE ren  == [x \in {old} |-> outs]
             last == [n \in {new} |-> old]
  <2>1. DOMAIN ren = {old} /\ DOMAIN last = {new} /\ NewHash(ren, old) = new
    BY DEF NewHash
  <2>2. g2 = update_hash(g, ren, last) /\ IsGraph(g)
    BY DEF ReplaceOld, Sound
  <2> HIDE DEF ren, last, new
  <2>3. /\ \A x : /\ x \notin DOMAIN last
                  /\ x \in DOMAIN ren => NewHash(ren, x) \in Value
                  => original_hash(g2, x) = original_hash(g, x)
        /\ \A t : \/ /\ updated_hash(g2, t) = updated_hash(g, t)
                     /\ \A s \in DOMAIN ren : NewHash(ren, s) \notin Value => original_hash(g, s) # t
                  \/ \E s \in DOMAIN ren : /\ NewHash(ren, s) \notin Value /\ original_hash(g, s) = t
                                           /\ updated_hash(g2, t) = NewHash(ren, s)
    BY <2>2, UpdateHashNames
  <2> QED
    BY <1>1, <2>1, <2>3
<1>4. /\ IsGraph(g2) /\ AllNamed(g2) /\ Referenced(g2)
      /\ DOMAIN g2.thunks = DOMAIN g.thunks \ {old}
  BY <1>1 DEF ValuesReplace
<1>5. \A x \in DOMAIN g.thunks : x \notin Value
  BY NamesAreThunks DEF Sound
<1> HIDE DEF new
<1>6. Followed(g2, T \ {o})
  <2>1. \A x \in DOMAIN g2.thunks : x # old /\ x \in DOMAIN g.thunks
                                      /\ original_hash(g2, x) = original_hash(g, x)
    BY <1>3, <1>4, <1>5
  <2>2. ASSUME NEW t \in T \ {o}
        PROVE  updated_hash(g2, t) \in DOMAIN g2.thunks /\ original_hash(g2, updated_hash(g2, t)) = t
    <3>1. /\ updated_hash(g, t) \in DOMAIN g.thunks
          /\ original_hash(g, updated_hash(g, t)) = t
      BY DEF Followed
    <3>2. updated_hash(g, t) # old
      BY <3>1
    <3> QED
      BY <1>3, <1>4, <1>5, <3>1, <3>2
  <2>3. ASSUME NEW x \in DOMAIN g2.thunks, original_hash(g2, x) \in Targets
        PROVE  original_hash(g2, x) \in T \ {o} /\ updated_hash(g2, original_hash(g2, x)) = x
    <3>1. original_hash(g, x) \in T /\ updated_hash(g, original_hash(g, x)) = x
      BY <2>1, <2>3 DEF Followed
    <3>2. original_hash(g, x) # o
      BY <2>1, <2>3, <3>1 DEF Followed
    <3> QED
      BY <1>3, <2>1, <3>1, <3>2
  <2> QED
    BY <2>2, <2>3 DEF Followed
<1>7. IsGraph(g3)
  BY <1>2 DEF LeftOf
<1>8. /\ Renamed(g2, DOMAIN ready, [x \in DOMAIN ready |-> g2.thunks[x]], g3)
      /\ \A x : x \notin DOMAIN ready /\ (\A y \in DOMAIN ready : g2.thunks[y] # x)
                  => original_hash(g3, x) = original_hash(g2, x)
  BY <1>1, <1>2, <1>4, <1>7, ReadyRenamed
<1>9. /\ Followed(g3, T \ {o})
      /\ \A t \in Targets \ (T \ {o}) : updated_hash(g3, t) = updated_hash(g2, t)
  <2> DEFINE to == [x \in DOMAIN ready |-> g2.thunks[x]]
  <2>1. \A x \in DOMAIN ready : to[x] \notin DOMAIN ready /\ to[x] \notin DOMAIN g2.thunks
    BY <1>1 DEF AllDistinct, IsReady
  <2>2. DOMAIN ready \in SUBSET DOMAIN g2.thunks
    BY <1>1 DEF IsReady
  <2> HIDE DEF to, o
  <2>3. Renamed(g2, DOMAIN ready, to, g3)
    BY <1>8 DEF to
  <2> QED
    BY <1>6, <2>1, <2>2, <2>3, RenamedFollowed
<1>10. original_hash(g3, old) = original_hash(g, old)
  <2>1. old \notin DOMAIN ready
    BY <1>1, <1>4 DEF IsReady
  <2> QED
    BY <1>3, <1>5, <1>8, <2>1
<1>11. \A x : /\ original_hash(r.graph, x) = original_hash(g3, x)
              /\ updated_hash(r.graph, x) = updated_hash(g3, x)
  BY <1>2 DEF LeftOf, original_hash, updated_hash
<1>12. DOMAIN r.graph.thunks = DOMAIN g3.thunks
  BY <1>2 DEF LeftOf
<1> QED
  BY <1>3, <1>9, <1>10, <1>11, <1>12 DEF Followed

\* The thunk returned, and what is read with it, are new to the graph g, which becomes g1.
NewlyRead(g, o, g1) ==
    /\ Sound(g1) /\ Complete(g1)
    /\ o \in LoadedThunks(g, o) /\ LoadedThunks(g, o) \cap DOMAIN g.thunks = {}
    /\ DOMAIN g1.thunks = DOMAIN g.thunks \cup LoadedThunks(g, o)
    /\ \A x \in DOMAIN g.thunks : g1.thunks[x] = g.thunks[x]
    /\ \A x \in LoadedThunks(g, o) : \A d \in Deps(g1.thunks[x]) : \E e \in Deps(x) : d = AddedHash(g, e)
    /\ \A x : /\ original_hash(g1, x) = original_hash(g, x)
              /\ updated_hash(g1, x) = updated_hash(g, x)

\* add_thunk for a thunk that the graph does not know.
LEMMA NewIsRead ==
  ASSUME ThunkShapes, NEW g, Sound(g), Complete(g), NEW o \in Thunk,
         \A t \in LoadedThunks(g, o) : MainOnly(t) \/ \A d \in Deps(t) : AddedHash(g, d) = d,
         AddedHash(g, o) \notin DOMAIN g.thunks
  PROVE  NewlyRead(g, o, add_thunk(g, o))
<1> DEFINE L  == LoadedThunks(g, o)
           g1 == add_thunk(g, o)
<1>1. IsGraph(g) /\ IsGraph(g1)
  BY AddThunkIsGraph DEF Sound
<1>2. Sound(g1) /\ Complete(g1)
  BY <1>1, AddThunkSound, AddThunkComplete
<1>3. o \in L
  BY UnknownIsLoaded
<1>4. L \cap DOMAIN g.thunks = {} /\ L \subseteq Unread(g, o)
  BY LoadedAreNew
<1>5. /\ g1.thunks = [x \in DOMAIN g.thunks \cup L |->
                        IF x \in L THEN LoadedContent(g, x) ELSE g.thunks[x]]
      /\ g1.updated_hashes = g.updated_hashes /\ g1.original_hashes = g.original_hashes
  BY <1>1, AddThunkParts
<1> HIDE DEF g1, L
<1>6. /\ DOMAIN g1.thunks = DOMAIN g.thunks \cup L
      /\ \A x \in DOMAIN g.thunks : g1.thunks[x] = g.thunks[x]
      /\ \A x \in L : g1.thunks[x] = LoadedContent(g, x)
  BY <1>4, <1>5
<1>7. \A x \in L : \A d \in Deps(LoadedContent(g, x)) : \E e \in Deps(x) : d = AddedHash(g, e)
  <2> SUFFICES ASSUME NEW x \in L
               PROVE  \A d \in Deps(LoadedContent(g, x)) : \E e \in Deps(x) : d = AddedHash(g, e)
    OBVIOUS
  <2>1. x \in Thunk /\ (MainOnly(x) \/ \A d \in Deps(x) : AddedHash(g, d) = d)
    BY <1>4 DEF Unread, L
  <2> QED
    BY <2>1, LoadedIsNamed DEF Sound
<1>8. \A x \in L : \A d \in Deps(g1.thunks[x]) : \E e \in Deps(x) : d = AddedHash(g, e)
  BY <1>6, <1>7
<1>9. \A x : /\ original_hash(g1, x) = original_hash(g, x)
             /\ updated_hash(g1, x) = updated_hash(g, x)
  BY <1>5 DEF original_hash, updated_hash
<1> QED
  BY <1>2, <1>3, <1>4, <1>6, <1>8, <1>9 DEF NewlyRead, L, g1

\* The stages of forcing to a thunk, in a complete graph that does not know it.
LEMMA ThunkStages ==
  ASSUME ThunkShapes, NEW g, Sound(g), Complete(g), NEW old \in DOMAIN g.thunks,
         CanBeExecuted(old), Len(old.outputs) = 1, NEW outs, 1 \in DOMAIN outs,
         "hash" \in DOMAIN outs[1], NEW o \in Thunk, o = outs[1].hash,
         \A s \in Subthunks[o] : MainOnly(s), AddedHash(g, o) \notin DOMAIN g.thunks,
         NEW g1, g1 = AddReturned(g, outs),
         NEW actual, actual = ActualOutputs(g, outs),
         NEW g2, g2 = ReplaceOld(g1, old, actual),
         NEW r \in force_thunk(g, old, outs)
  PROVE  /\ o \notin Value /\ actual[1].hash = o /\ NewlyRead(g, o, g1)
         /\ ThunkReplaces(g1, old, o, g2)
         /\ \E ready : /\ DOMAIN ready = {} /\ IsReady(g2, ready)
                       /\ \E g3 \in RenameReady(g2, ready) : LeftOf(g3, o, r.graph)
<1> DEFINE ready == NowExecutable(g2, o)
<1>1. AddedHash(g, o) = o
  BY DEF AddedHash
<1>2. g1 = add_thunk(g, o) /\ actual[1].hash = o /\ o \notin Value
  BY <1>1, StagesOfThunk
<1>3. \A t \in LoadedThunks(g, o) : MainOnly(t)
  BY LoadedAreNew DEF Unread
<1>4. NewlyRead(g, o, g1)
  BY <1>2, <1>3, NewIsRead
<1>5. ReferrersFound(g1, old, actual)
  <2>1. Sound(g1) /\ Complete(g1) /\ old \in DOMAIN g1.thunks
    BY <1>4 DEF NewlyRead
  <2> QED
    BY <2>1, CompleteFindsOld
<1>6. ThunkReplaces(g1, old, o, g2) /\ DOMAIN ready = {} /\ Staged(g, old, outs)
  BY <1>1, <1>5, StagesOfThunk
<1>7. IsGraph(g2) /\ IsReady(g2, ready)
  BY <1>2, <1>6 DEF Staged
<1>8. r \in ForceReferrers(g2, o, ready)
  BY <1>2 DEF force_thunk
<1> HIDE DEF ready
<1>9. IsFiniteSet(DOMAIN ready)
  BY <1>6, FS_EmptySet
<1>10. \E g3 \in RenameReady(g2, ready) : LeftOf(g3, o, r.graph)
  BY <1>7, <1>8, <1>9, LastStage
<1> QED
  BY <1>2, <1>4, <1>6, <1>7, <1>10

\* Forcing to a thunk: the target that old has come from goes on under its name.
LEMMA ForceThunkFollowed ==
  ASSUME ThunkShapes, NEW g, Sound(g), Complete(g), NEW old \in DOMAIN g.thunks,
         CanBeExecuted(old), Len(old.outputs) = 1, NEW outs, 1 \in DOMAIN outs,
         "hash" \in DOMAIN outs[1], outs[1].hash \in Thunk,
         \A s \in Subthunks[outs[1].hash] : MainOnly(s),
         AddedHash(g, outs[1].hash) \notin DOMAIN g.thunks,
         \A x \in LoadedThunks(g, outs[1].hash) : original_hash(g, x) \notin Targets,
         NEW T \in SUBSET Targets, Followed(g, T), NEW r \in force_thunk(g, old, outs)
  PROVE  /\ Followed(r.graph, T)
         /\ \A t \in Targets \ T : updated_hash(r.graph, t) = updated_hash(g, t)
<1> DEFINE o      == outs[1].hash
           g1     == AddReturned(g, outs)
           actual == ActualOutputs(g, outs)
           g2     == ReplaceOld(g1, old, actual)
           L      == LoadedThunks(g, o)
<1>1. /\ o \notin Value /\ actual[1].hash = o /\ NewlyRead(g, o, g1)
      /\ ThunkReplaces(g1, old, o, g2)
      /\ \E ready : /\ DOMAIN ready = {} /\ IsReady(g2, ready)
                    /\ \E g3 \in RenameReady(g2, ready) : LeftOf(g3, o, r.graph)
  BY ThunkStages
<1>2. PICK ready : /\ DOMAIN ready = {} /\ IsReady(g2, ready)
                   /\ \E g3 \in RenameReady(g2, ready) : LeftOf(g3, o, r.graph)
  BY <1>1
<1>3. PICK g3 \in RenameReady(g2, ready) : LeftOf(g3, o, r.graph)
  BY <1>2
<1>4. \A x \in L : original_hash(g, x) \notin Targets
  OBVIOUS
<1>5. g2 = update_hash(g1, [x \in {old} |-> actual], [n \in {o} |-> old])
  BY <1>1 DEF ReplaceOld
<1> HIDE DEF o, g1, actual, g2, L
<1>6. /\ Sound(g1) /\ o \in L /\ L \cap DOMAIN g.thunks = {} /\ DOMAIN g1.thunks = DOMAIN g.thunks \cup L
      /\ \A x : /\ original_hash(g1, x) = original_hash(g, x)
                /\ updated_hash(g1, x) = updated_hash(g, x)
  BY <1>1 DEF NewlyRead, L
<1>7. Followed(g1, T)
  BY <1>4, <1>6 DEF Followed
<1>8. Sound(g2) /\ DOMAIN g2.thunks = DOMAIN g1.thunks \ {old}
  BY <1>1 DEF ThunkReplaces
<1>9. /\ Followed(g2, T)
      /\ \A t \in Targets \ T : updated_hash(g2, t) = updated_hash(g1, t)
  <2> DEFINE ren  == [x \in {old} |-> actual]
             last == [n \in {o} |-> old]
             to   == [x \in {old} |-> o]
  <2>1. /\ DOMAIN ren = {old} /\ DOMAIN last = {o} /\ NewHash(ren, old) = o /\ last[o] = old
        /\ to[old] = o
    BY <1>1 DEF NewHash
  <2>2. g2 = update_hash(g1, ren, last) /\ IsGraph(g1)
    BY <1>5, <1>6 DEF Sound
  <2> HIDE DEF ren, last, to
  <2>3. /\ \A x \in DOMAIN last \ Value : original_hash(g2, x) = original_hash(g1, last[x])
        /\ \A x : /\ x \notin DOMAIN last
                  /\ x \in DOMAIN ren => NewHash(ren, x) \in Value
                  => original_hash(g2, x) = original_hash(g1, x)
        /\ \A t : \/ /\ updated_hash(g2, t) = updated_hash(g1, t)
                     /\ \A s \in DOMAIN ren : NewHash(ren, s) \notin Value => original_hash(g1, s) # t
                  \/ \E s \in DOMAIN ren : /\ NewHash(ren, s) \notin Value /\ original_hash(g1, s) = t
                                           /\ updated_hash(g2, t) = NewHash(ren, s)
    BY <2>2, UpdateHashNames
  <2>4. o \in DOMAIN g1.thunks /\ o # old
    BY <1>6
  <2>5. DOMAIN g2.thunks = (DOMAIN g1.thunks \cup { to[x] : x \in {old} }) \ {old}
    BY <1>8, <2>1, <2>4
  <2>6. Renamed(g1, {old}, to, g2)
    BY <1>1, <2>1, <2>3, <2>4, <2>5 DEF Renamed
  <2> DEFINE olds == {old}
  <2>7. olds \in SUBSET DOMAIN g1.thunks /\ Renamed(g1, olds, to, g2)
    BY <1>6, <2>6
  <2>8. \A x \in olds : /\ to[x] \notin olds
                        /\ to[x] \in DOMAIN g1.thunks => original_hash(g1, to[x]) \notin Targets
    BY <1>4, <1>6, <2>1, <2>4
  <2> HIDE DEF olds
  <2> QED
    BY <1>7, <2>7, <2>8, RenamedFollowed
<1>10. IsGraph(g3) /\ AllDistinct(g2, ready) /\ ~ UpdateHashThrows(g2, ready)
  BY <1>2, <1>3 DEF LeftOf, AllDistinct, UpdateHashThrows
<1>11. Renamed(g2, DOMAIN ready, [x \in DOMAIN ready |-> g2.thunks[x]], g3)
  BY <1>2, <1>3, <1>8, <1>10, ReadyRenamed DEF Sound
<1>12. /\ Followed(g3, T)
       /\ \A t \in Targets \ T : updated_hash(g3, t) = updated_hash(g2, t)
  <2> DEFINE to == [x \in DOMAIN ready |-> g2.thunks[x]]
  <2> HIDE DEF to
  <2>1. Renamed(g2, DOMAIN ready, to, g3) /\ DOMAIN ready \in SUBSET DOMAIN g2.thunks
    BY <1>2, <1>11 DEF to
  <2> QED
    BY <1>2, <1>9, <2>1, RenamedFollowed
<1>13. \A x : /\ original_hash(r.graph, x) = original_hash(g3, x)
              /\ updated_hash(r.graph, x) = updated_hash(g3, x)
  BY <1>3 DEF LeftOf, original_hash, updated_hash
<1>14. DOMAIN r.graph.thunks = DOMAIN g3.thunks
  BY <1>3 DEF LeftOf
<1> QED
  BY <1>6, <1>9, <1>12, <1>13, <1>14 DEF Followed

\* Forcing a thunk to what executing it yields keeps track of the targets, where nothing
\* merges and nothing comes back: a value is the answer of the target that old has come
\* from, and the targets that are done keep the name they have (graph.cc:102-154).
LEMMA ForceFollowed ==
  ASSUME ThunkShapes, NEW g, Sound(g), Complete(g), NEW old \in DOMAIN g.thunks,
         CanBeExecuted(old), PlainResult(old), TagsReturned(old), NothingMerges(g, old),
         NothingComesBack(g, old), NEW T \in SUBSET Targets, Followed(g, T),
         NEW r \in force_thunk(g, old, Eval(old)),
         NEW left, left = IF Eval(old)[1].hash \in Value THEN T \ {original_hash(g, old)} ELSE T
  PROVE  /\ Followed(r.graph, left)
         /\ \A t \in Targets \ left : updated_hash(r.graph, t) = updated_hash(g, t)
         /\ Eval(old)[1].hash \in Value => original_hash(r.graph, old) = original_hash(g, old)
<1> DEFINE outs == Eval(old)
           g2   == ReplaceOld(g, old, outs)
<1>1. CASE outs \in ValueOutputs
  <2>1. outs[1].hash \in Value
    <3>1. outs \in Seq([hash : Value, tag : Tag]) /\ 1 \in 1 .. Len(outs)
      BY <1>1 DEF ValueOutputs
    <3> HIDE DEF outs
    <3> QED
      BY <3>1, HashesOf
  <2>2. Tagged(old, outs)
    <3>1. old.outputs \in Seq(Tag)
      BY DEF Sound, AllNamed, Named, IsContent
    <3> QED
      BY <3>1 DEF TagsReturned, Tagged
  <2>3. /\ AllDistinct(g2, NowExecutable(g2, outs[1].hash))
        /\ \A x \in DOMAIN NowExecutable(g2, outs[1].hash) : g2.thunks[x] # old
    BY <2>1 DEF NothingMerges, NothingComesBack, AllDistinct
  <2> HIDE DEF outs
  <2>4. /\ Followed(r.graph, T \ {original_hash(g, old)})
        /\ \A t \in Targets \ (T \ {original_hash(g, old)}) :
              updated_hash(r.graph, t) = updated_hash(g, t)
        /\ original_hash(r.graph, old) = original_hash(g, old)
    BY <1>1, <2>2, <2>3, ForceValuesFollowed DEF outs
  <2> QED
    BY <2>1, <2>4 DEF outs
<1>2. CASE outs \notin ValueOutputs
  <2>1. /\ Len(old.outputs) = 1
        /\ 1 \in DOMAIN outs /\ "hash" \in DOMAIN outs[1] /\ outs[1].hash \in Thunk
        /\ \A s \in Subthunks[outs[1].hash] : MainOnly(s)
    BY <1>2, TwoResults
  <2>2. /\ outs[1].hash \notin Value /\ AddedHash(g, outs[1].hash) \notin DOMAIN g.thunks
        /\ \A x \in LoadedThunks(g, outs[1].hash) : original_hash(g, x) \notin Targets
    BY <2>1, ObjectAssumption DEF NothingMerges, NothingComesBack
  <2> HIDE DEF outs
  <2>3. Followed(r.graph, T) /\ \A t \in Targets \ T : updated_hash(r.graph, t) = updated_hash(g, t)
    BY <2>1, <2>2, ForceThunkFollowed DEF outs
  <2> QED
    BY <2>2, <2>3 DEF outs
<1> QED
  BY <1>1, <1>2

(***************************************************************************)
(* No cycles                                                               *)
(***************************************************************************)

\* Among any thunks of the graph there is one that waits for none of the others.
Acyclic(g) ==
    \A S \in SUBSET DOMAIN g.thunks : S # {} => \E x \in S : Deps(g.thunks[x]) \cap S = {}

\* In such a graph something can be executed as long as there is anything.
LEMMA AcyclicIsReady ==
  ASSUME NEW g, Acyclic(g), Complete(g), DOMAIN g.thunks # {}
  PROVE  Executables(g) # {}
<1>1. PICK x \in DOMAIN g.thunks : Deps(g.thunks[x]) \cap DOMAIN g.thunks = {}
  BY DEF Acyclic
<1> QED
  BY <1>1 DEF Complete, Executables, CanBeExecuted

\* The thunks on disk do not wait for each other in a circle.
LEMMA DiskIsAcyclic ==
  ASSUME NEW S \in SUBSET Thunk, S # {}
  PROVE  \E x \in S : Deps(x) \cap S = {}
<1> DEFINE succ == [y \in Thunk |-> Deps(y)]
           C(x) == LeastClosed(x, Thunk, succ)
           size(x) == Cardinality(C(x))
<1>1. \A x \in Thunk : C(x) \in SUBSET Thunk /\ IsFiniteSet(C(x)) /\ size(x) \in Nat
  <2>1. \A x \in Thunk : C(x) \in SUBSET Thunk
    BY DEF LeastClosed
  <2> HIDE DEF C
  <2> QED
    BY <2>1, FS_Subset, FS_CardinalityType, ObjectAssumption
<1>2. ASSUME NEW x \in Thunk, NEW d \in Deps(x)
      PROVE  /\ d \in Thunk /\ C(d) \subseteq C(x) /\ x \in C(x) /\ x \notin C(d)
  <2>1. d \in Thunk /\ succ[x] = Deps(x)
    BY SubthunksAssumption
  <2>2. x \in C(x)
    BY DEF LeastClosed
  <2>3. C(d) \subseteq C(x)
    <3> SUFFICES ASSUME NEW y \in C(d), NEW D \in SUBSET Thunk, x \in D,
                        \A z \in D : succ[z] \cap Thunk \subseteq D
                 PROVE  y \in D
      BY DEF LeastClosed
    <3>1. d \in D
      BY <2>1
    <3> HIDE DEF succ
    <3> QED
      BY <3>1 DEF LeastClosed
  <2>4. x \notin C(d)
    <3> DEFINE D == Subthunks[d] \cap Thunk
    <3>1. d \in D /\ x \notin D
      BY <2>1, SubthunksAssumption
    <3>2. \A z \in D : succ[z] \cap Thunk \subseteq D
      BY <2>1, SubthunksAssumption
    <3>3. D \in SUBSET Thunk
      OBVIOUS
    <3> HIDE DEF D, succ
    <3> QED
      BY <3>1, <3>2, <3>3 DEF LeastClosed
  <2> QED
    BY <2>1, <2>2, <2>3, <2>4
<1>3. \A x \in Thunk : \A d \in Deps(x) : size(d) < size(x)
  <2> SUFFICES ASSUME NEW x \in Thunk, NEW d \in Deps(x) PROVE size(d) < size(x)
    OBVIOUS
  <2>1. C(d) \subseteq C(x) /\ C(d) # C(x) /\ d \in Thunk
    BY <1>2
  <2> HIDE DEF C
  <2>2. Cardinality(C(d)) <= Cardinality(C(x)) /\ Cardinality(C(d)) # Cardinality(C(x))
    BY <1>1, <2>1, FS_Subset
  <2> QED
    BY <1>1, <2>1, <2>2
<1> HIDE DEF size, C
<1>4. \E x \in S : \A y \in S : ~ (size(y) < size(x))
  <2> DEFINE N == { size(x) : x \in S }
             R == OpToRel(<, Nat)
  <2>1. N \subseteq Nat /\ N # {}
    BY <1>1
  <2>2. IsWellFoundedOn(R, Nat)
    BY NatLessThanWellFounded
  <2>3. \E m \in N : \A n \in N : <<n, m>> \notin R
    <3> HIDE DEF N, R
    <3> QED
      BY <2>1, <2>2, WFMin
  <2>4. \A m, n \in N : n < m => <<n, m>> \in R
    BY <2>1 DEF OpToRel
  <2> QED
    BY <2>3, <2>4
<1> QED
  BY <1>3, <1>4

\* Thunks that are read wait for each other only as they do on disk.
LEMMA ReadIsAcyclic ==
  ASSUME NEW g, NEW o, NEW g1, NewlyRead(g, o, g1), NEW S \in SUBSET LoadedThunks(g, o), S # {}
  PROVE  \E x \in S : Deps(g1.thunks[x]) \cap S = {}
<1>1. LoadedThunks(g, o) \subseteq Thunk
  BY LoadedAreNew DEF Unread
<1>2. PICK x \in S : Deps(x) \cap S = {}
  BY <1>1, DiskIsAcyclic
<1>3. ASSUME NEW d \in Deps(g1.thunks[x]) \cap S
      PROVE  FALSE
  <2>1. PICK e \in Deps(x) : d = AddedHash(g, e)
    BY DEF NewlyRead
  <2>2. d \notin DOMAIN g.thunks
    BY DEF NewlyRead
  <2>3. d = e
    BY <2>1, <2>2 DEF AddedHash
  <2> QED
    BY <1>2, <2>3
<1> QED
  BY <1>3

\* A target: what it needs is read from disk (graph.cc:16-68).
LEMMA LoadAcyclic ==
  ASSUME ThunkShapes, NEW g, Sound(g), Complete(g), Acyclic(g), g.updated_hashes = << >>,
         NEW h \in Thunk
  PROVE  Acyclic(add_thunk(g, h))
<1> DEFINE g1 == add_thunk(g, h)
           L  == LoadedThunks(g, h)
<1>1. \A d : AddedHash(g, d) = d
  BY DEF AddedHash, updated_hash
<1>2. CASE h \in DOMAIN g.thunks
  <2>1. L = {}
    BY <1>1, <1>2, LoadedAreNew
  <2>2. g1.thunks = [x \in DOMAIN g.thunks \cup L |->
                        IF x \in L THEN LoadedContent(g, x) ELSE g.thunks[x]]
    BY AddThunkParts DEF Sound
  <2> HIDE DEF g1, L
  <2>3. DOMAIN g1.thunks = DOMAIN g.thunks /\ \A x \in DOMAIN g.thunks : g1.thunks[x] = g.thunks[x]
    BY <2>1, <2>2
  <2>4. Acyclic(g1)
    BY <2>3 DEF Acyclic
  <2> QED
    BY <2>4 DEF g1
<1>3. CASE h \notin DOMAIN g.thunks
  <2>1. NewlyRead(g, h, g1)
    BY <1>1, <1>3, NewIsRead
  <2> HIDE DEF g1
  <2>2. ASSUME NEW S \in SUBSET DOMAIN g1.thunks, S # {}
        PROVE  \E x \in S : Deps(g1.thunks[x]) \cap S = {}
    <3>1. /\ DOMAIN g1.thunks = DOMAIN g.thunks \cup L
          /\ \A x \in DOMAIN g.thunks : g1.thunks[x] = g.thunks[x]
      BY <2>1 DEF NewlyRead
    <3>2. CASE S \cap DOMAIN g.thunks # {}
      <4>1. PICK x \in S \cap DOMAIN g.thunks : Deps(g.thunks[x]) \cap (S \cap DOMAIN g.thunks) = {}
        BY <3>2 DEF Acyclic
      <4>2. Deps(g.thunks[x]) \subseteq DOMAIN g.thunks
        BY DEF Complete
      <4> QED
        BY <3>1, <4>1, <4>2
    <3>3. CASE S \cap DOMAIN g.thunks = {}
      <4>1. S \in SUBSET L
        BY <3>1, <3>3
      <4> QED
        BY <2>1, <2>2, <4>1, ReadIsAcyclic
    <3> QED
      BY <3>2, <3>3
  <2>3. Acyclic(g1)
    BY <2>2 DEF Acyclic
  <2> QED
    BY <2>3 DEF g1
<1> QED
  BY <1>2, <1>3

\* What renaming the ready thunks leaves has no cycle: they wait for nothing.
LEMMA RenameAcyclic ==
  ASSUME ThunkShapes, NEW g, IsGraph(g), AllNamed(g), Referenced(g), Acyclic(g),
         NEW ready, IsReady(g, ready), ~ UpdateHashThrows(g, ready),
         NEW g3 \in RenameReady(g, ready), IsGraph(g3)
  PROVE  Acyclic(g3)
<1> DEFINE olds == DOMAIN ready
           news == { NewHash(ready, r) : r \in olds }
<1>1. Sound(g3) /\ FollowReady(g, ready, g3) /\ DOMAIN g3.thunks = (DOMAIN g.thunks \cup news) \ olds
  BY RenameReadySound
<1>2. \A r \in olds : g.thunks[r] \in news
  BY ReadyHash
<1>3. \A n \in news : CanBeExecuted(n)
  BY ReadyHash DEF IsReady
<1> HIDE DEF news
<1>4. \A n \in news \cap DOMAIN g3.thunks : Deps(g3.thunks[n]) = {}
  BY <1>1, <1>3 DEF Sound, Aligned, CanBeExecuted
<1>5. ASSUME NEW S \in SUBSET DOMAIN g3.thunks, S # {}, S \cap news = {}
      PROVE  \E x \in S : Deps(g3.thunks[x]) \cap S = {}
  <2>1. S \in SUBSET (DOMAIN g.thunks \ olds)
    BY <1>1, <1>5
  <2>2. PICK x \in S : Deps(g.thunks[x]) \cap S = {}
    BY <1>5, <2>1 DEF Acyclic
  <2>3. \A d \in Deps(g3.thunks[x]) : d \in news \/ d \in Deps(g.thunks[x])
    BY <1>1, <1>2, <2>1 DEF FollowReady
  <2> QED
    BY <1>5, <2>2, <2>3
<1>6. ASSUME NEW S \in SUBSET DOMAIN g3.thunks, S \cap news # {}
      PROVE  \E x \in S : Deps(g3.thunks[x]) \cap S = {}
  <2>1. PICK n \in S : n \in news
    BY <1>6
  <2> QED
    BY <1>4, <2>1
<1> QED
  BY <1>5, <1>6 DEF Acyclic

\* Forcing to values (graph.cc:102-149).
LEMMA ForceValuesAcyclic ==
  ASSUME ThunkShapes, NEW g, Sound(g), Complete(g), Acyclic(g), NEW old \in DOMAIN g.thunks,
         CanBeExecuted(old), NEW outs \in ValueOutputs, Tagged(old, outs),
         NEW r \in force_thunk(g, old, outs)
  PROVE  Acyclic(r.graph)
<1> DEFINE new   == outs[1].hash
           g2    == ReplaceOld(g, old, outs)
           ready == NowExecutable(g2, new)
<1>1. /\ ValuesReplace(g, old, g2) /\ IsReady(g2, ready) /\ ~ UpdateHashThrows(g2, ready)
      /\ \E g3 \in RenameReady(g2, ready) : LeftOf(g3, new, r.graph)
  BY ValuesStages
<1> HIDE DEF new, g2, ready
<1>2. PICK g3 \in RenameReady(g2, ready) : LeftOf(g3, new, r.graph)
  BY <1>1
<1>3. /\ IsGraph(g2) /\ AllNamed(g2) /\ Referenced(g2)
      /\ DOMAIN g2.thunks = DOMAIN g.thunks \ {old}
      /\ \A x \in DOMAIN g.thunks \ {old} : Deps(g2.thunks[x]) \subseteq Deps(g.thunks[x])
  BY <1>1 DEF ValuesReplace
<1>4. Acyclic(g2)
  <2> SUFFICES ASSUME NEW S \in SUBSET DOMAIN g2.thunks, S # {}
               PROVE  \E x \in S : Deps(g2.thunks[x]) \cap S = {}
    BY DEF Acyclic
  <2>1. PICK x \in S : Deps(g.thunks[x]) \cap S = {}
    BY <1>3 DEF Acyclic
  <2> QED
    BY <1>3, <2>1
<1>5. Acyclic(g3)
  BY <1>1, <1>2, <1>3, <1>4, RenameAcyclic DEF LeftOf
<1> QED
  BY <1>2, <1>5 DEF LeftOf, Acyclic

\* Who waits for a thunk has below it what is below that one.
LEMMA BelowGrows ==
  ASSUME NEW g, NEW y \in DOMAIN g.thunks, NEW d \in Deps(g.thunks[y]), NEW z \in Below(g, d)
  PROVE  z \in Below(g, y)
<1> DEFINE S    == DOMAIN g.thunks
           succ == [x \in S |-> Deps(g.thunks[x])]
<1>1. succ[y] = Deps(g.thunks[y])
  OBVIOUS
<1>2. Below(g, d) = LeastClosed(d, S, succ) /\ Below(g, y) = LeastClosed(y, S, succ)
  BY DEF Below
<1> HIDE DEF S, succ
<1>3. d \in S /\ z \in S
  BY <1>2 DEF LeastClosed
<1>4. ASSUME NEW C \in SUBSET S, y \in C, \A x \in C : succ[x] \cap S \subseteq C
      PROVE  z \in C
  <2>1. d \in C
    BY <1>1, <1>3, <1>4
  <2> QED
    BY <1>2, <1>4, <2>1 DEF LeastClosed
<1> QED
  BY <1>2, <1>3, <1>4 DEF LeastClosed, S

\* Forcing to a thunk that waits for nothing that waits for the old one (graph.cc:102-122).
LEMMA ForceThunkAcyclic ==
  ASSUME ThunkShapes, NEW g, Sound(g), Complete(g), Acyclic(g), NEW old \in DOMAIN g.thunks,
         CanBeExecuted(old), Len(old.outputs) = 1, NEW outs, 1 \in DOMAIN outs,
         "hash" \in DOMAIN outs[1], outs[1].hash \in Thunk,
         \A s \in Subthunks[outs[1].hash] : MainOnly(s),
         AddedHash(g, outs[1].hash) \notin DOMAIN g.thunks,
         \A d \in UNION { Deps(x) : x \in LoadedThunks(g, outs[1].hash) } :
            old \notin Below(g, AddedHash(g, d)),
         NEW r \in force_thunk(g, old, outs)
  PROVE  Acyclic(r.graph)
<1> DEFINE o      == outs[1].hash
           g1     == AddReturned(g, outs)
           actual == ActualOutputs(g, outs)
           g2     == ReplaceOld(g1, old, actual)
           L      == LoadedThunks(g, o)
           B      == { y \in DOMAIN g.thunks : old \in Below(g, y) }
           A      == DOMAIN g.thunks \ B
<1>1. /\ NewlyRead(g, o, g1) /\ ThunkReplaces(g1, old, o, g2)
      /\ \E ready : /\ DOMAIN ready = {} /\ IsReady(g2, ready)
                    /\ \E g3 \in RenameReady(g2, ready) : LeftOf(g3, o, r.graph)
  BY ThunkStages
<1>2. PICK ready : /\ DOMAIN ready = {} /\ IsReady(g2, ready)
                   /\ \E g3 \in RenameReady(g2, ready) : LeftOf(g3, o, r.graph)
  BY <1>1
<1>3. PICK g3 \in RenameReady(g2, ready) : LeftOf(g3, o, r.graph)
  BY <1>2
<1>4. \A x \in L : \A d \in Deps(x) : AddedHash(g, d) \notin B
  OBVIOUS
<1> HIDE DEF o, g1, g2, L
<1>5. /\ Sound(g1) /\ Complete(g1) /\ o \in L /\ L \cap DOMAIN g.thunks = {}
      /\ DOMAIN g1.thunks = DOMAIN g.thunks \cup L
      /\ \A x \in DOMAIN g.thunks : g1.thunks[x] = g.thunks[x]
      /\ \A x \in L : \A d \in Deps(g1.thunks[x]) : \E e \in Deps(x) : d = AddedHash(g, e)
  BY <1>1 DEF NewlyRead, L
<1>6. /\ Sound(g2) /\ DOMAIN g2.thunks = DOMAIN g1.thunks \ {old}
      /\ \A x \in DOMAIN g2.thunks : \A d \in Deps(g2.thunks[x]) :
            d \in Deps(g1.thunks[x]) \ {old} \/ (d = o /\ old \in Deps(g1.thunks[x]))
  <2>1. /\ Sound(g2) /\ DOMAIN g2.thunks = DOMAIN g1.thunks \ {old}
        /\ \A x \in DOMAIN g1.thunks \ {old} : \A d \in Deps(g2.thunks[x]) :
              \E e \in Deps(g1.thunks[x]) :
                 d = IF e = old /\ x \in g1.referencing_thunks[old] THEN o ELSE e
    BY <1>1 DEF ThunkReplaces
  <2>2. \A x \in DOMAIN g1.thunks : old \in Deps(g1.thunks[x]) => x \in g1.referencing_thunks[old]
    BY <1>5 DEF Complete
  <2> QED
    BY <2>1, <2>2
<1>7. old \in B
  BY DEF Below, LeastClosed
<1>8. \A y \in A : Deps(g.thunks[y]) \subseteq A
  <2> SUFFICES ASSUME NEW y \in A, NEW d \in Deps(g.thunks[y]), d \notin A PROVE FALSE
    OBVIOUS
  <2>1. d \in B
    BY DEF Complete
  <2> QED
    BY <2>1, BelowGrows
<1> HIDE DEF A
<1>9. \A x \in L : Deps(g1.thunks[x]) \subseteq L \cup A
  <2> SUFFICES ASSUME NEW x \in L, NEW d \in Deps(g1.thunks[x]) PROVE d \in L \cup A
    OBVIOUS
  <2>1. d \in DOMAIN g1.thunks
    BY <1>5 DEF Complete
  <2>2. d \notin B
    BY <1>4, <1>5
  <2> QED
    BY <1>5, <2>1, <2>2 DEF A
<1>10. A \subseteq DOMAIN g.thunks /\ old \notin A /\ DOMAIN g.thunks = A \cup B /\ B \subseteq DOMAIN g.thunks
  BY <1>7 DEF A
<1> HIDE DEF B
<1>11. Acyclic(g2)
  <2> SUFFICES ASSUME NEW S \in SUBSET DOMAIN g2.thunks, S # {}
               PROVE  \E x \in S : Deps(g2.thunks[x]) \cap S = {}
    BY DEF Acyclic
  <2>1. CASE S \cap A # {}
    <3>1. PICK x \in S \cap A : Deps(g.thunks[x]) \cap (S \cap A) = {}
      BY <1>10, <2>1 DEF Acyclic
    <3>2. Deps(g1.thunks[x]) \subseteq A /\ old \notin Deps(g1.thunks[x])
      BY <1>5, <1>8, <1>10
    <3>3. Deps(g2.thunks[x]) \subseteq Deps(g1.thunks[x])
      BY <1>6, <3>2
    <3> QED
      BY <1>5, <1>10, <3>1, <3>2, <3>3
  <2>2. CASE S \cap A = {} /\ S \cap L # {}
    <3>1. PICK x \in S \cap L : Deps(g1.thunks[x]) \cap (S \cap L) = {}
      <4> DEFINE U == S \cap L
      <4>1. U \in SUBSET LoadedThunks(g, o) /\ U # {}
        BY <2>2 DEF L
      <4> HIDE DEF U
      <4>2. \E x \in U : Deps(g1.thunks[x]) \cap U = {}
        BY <1>1, <4>1, ReadIsAcyclic
      <4> QED
        BY <4>2 DEF U
    <3>2. old \notin Deps(g1.thunks[x])
      BY <1>5, <1>9, <1>10
    <3>3. Deps(g2.thunks[x]) \subseteq Deps(g1.thunks[x])
      BY <1>6, <3>2
    <3> QED
      BY <1>9, <2>2, <3>1, <3>3
  <2>3. CASE S \cap A = {} /\ S \cap L = {}
    <3>1. S \in SUBSET DOMAIN g.thunks
      BY <1>5, <1>6, <2>3
    <3>2. PICK x \in S : Deps(g.thunks[x]) \cap S = {}
      BY <3>1 DEF Acyclic
    <3>3. \A d \in Deps(g2.thunks[x]) : d \in Deps(g.thunks[x]) \/ d = o
      BY <1>5, <1>6, <3>1
    <3> QED
      BY <1>5, <2>3, <3>2, <3>3
  <2> QED
    BY <2>1, <2>2, <2>3
<1>12. IsGraph(g3) /\ ~ UpdateHashThrows(g2, ready)
  BY <1>2, <1>3 DEF LeftOf, UpdateHashThrows
<1>13. Acyclic(g3)
  BY <1>2, <1>3, <1>6, <1>11, <1>12, RenameAcyclic DEF Sound
<1> QED
  BY <1>3, <1>13 DEF LeftOf, Acyclic

\* Forcing a thunk to what executing it yields makes no cycle, where nothing merges and
\* nothing comes back (graph.cc:102-154).
LEMMA ForceAcyclic ==
  ASSUME ThunkShapes, NEW g, Sound(g), Complete(g), Acyclic(g), NEW old \in DOMAIN g.thunks,
         CanBeExecuted(old), PlainResult(old), TagsReturned(old), NothingMerges(g, old),
         NothingComesBack(g, old), NEW r \in force_thunk(g, old, Eval(old))
  PROVE  Acyclic(r.graph)
<1> DEFINE outs == Eval(old)
<1>1. CASE outs \in ValueOutputs
  <2>1. Tagged(old, outs)
    <3>1. old.outputs \in Seq(Tag)
      BY DEF Sound, AllNamed, Named, IsContent
    <3> QED
      BY <3>1 DEF TagsReturned, Tagged
  <2> HIDE DEF outs
  <2> QED
    BY <1>1, <2>1, ForceValuesAcyclic DEF outs
<1>2. CASE outs \notin ValueOutputs
  <2>1. /\ Len(old.outputs) = 1
        /\ 1 \in DOMAIN outs /\ "hash" \in DOMAIN outs[1] /\ outs[1].hash \in Thunk
        /\ \A s \in Subthunks[outs[1].hash] : MainOnly(s)
    BY <1>2, TwoResults
  <2>2. /\ AddedHash(g, outs[1].hash) \notin DOMAIN g.thunks
        /\ \A d \in UNION { Deps(x) : x \in LoadedThunks(g, outs[1].hash) } :
              old \notin Below(g, AddedHash(g, d))
    BY <2>1, ObjectAssumption DEF NothingMerges, NothingComesBack
  <2> HIDE DEF outs
  <2> QED
    BY <2>1, <2>2, ForceThunkAcyclic DEF outs
<1> QED
  BY <1>1, <1>2

(***************************************************************************)
(* Reduction                                                               *)
(***************************************************************************)

\* The inductive invariant: the graph is sound, its executable thunks are the pending
\* ones, and nothing has been renamed while targets are loaded.
ReductionInv ==
    /\ PlainPrograms
    /\ Sound(graph) /\ OwnContent(graph)
    /\ pending = Executables(graph)
    /\ unloaded \subseteq Thunk
    /\ unloaded # {} => graph.updated_hashes = << >>

\* It holds before the first target is loaded.
LEMMA ReductionInvInit == PlainPrograms /\ Init => ReductionInv
<1> SUFFICES ASSUME PlainPrograms, Init PROVE ReductionInv
  OBVIOUS
<1>1. graph = EmptyGraph /\ unloaded \subseteq Thunk /\ pending = {}
  BY TargetsAssumption DEF Init
<1>2. Executables(EmptyGraph) = {} /\ EmptyGraph.updated_hashes = << >>
  BY DEF Executables, EmptyGraph
<1> QED
  BY <1>1, <1>2, EmptyIsSound DEF ReductionInv

\* A pending thunk is one of the graph's that a plain program's results are about.
LEMMA PendingIsPlain ==
  ASSUME ReductionInv, KnownThunks, NEW h \in pending
  PROVE  /\ ThunkShapes /\ Sound(graph) /\ OwnContent(graph)
         /\ h \in DOMAIN graph.thunks /\ h \in Thunk /\ CanBeExecuted(h) /\ PlainResult(h)
<1>1. h \in DOMAIN graph.thunks /\ CanBeExecuted(h)
  BY DEF ReductionInv, Executables, Sound, Aligned
<1> QED
  BY <1>1 DEF ReductionInv, KnownThunks, PlainPrograms

\* Loading a target preserves it.
LEMMA LoadKeepsInv ==
  ASSUME ReductionInv, NEW t \in unloaded, Load(t)
  PROVE  ReductionInv'
<1>1. ThunkShapes /\ Sound(graph) /\ graph.updated_hashes = << >> /\ t \in Thunk
  BY DEF ReductionInv, PlainPrograms
<1>2. Loaded(graph, t, graph')
  BY <1>1, LoadKeeps DEF Load
<1>3. pending' = pending \cup order_one_dependencies(graph', t) /\ unloaded' \subseteq unloaded
  BY DEF Load
<1> QED
  BY <1>2, <1>3 DEF ReductionInv, Loaded

\* So does the result of a pending thunk.
LEMMA ForceKeepsInv ==
  ASSUME ReductionInv, KnownThunks, NEW h \in pending, ForceThunk(h)
  PROVE  ReductionInv'
<1>1. PICK r \in force_thunk(graph, h, Eval(h)) :
         graph' = r.graph /\ pending' = (pending \ {h}) \cup r.next
  BY DEF ForceThunk
<1>2. unloaded = {} /\ unloaded' = {} /\ ~ ForceThrows(graph, h, Eval(h))
  BY DEF ForceThunk
<1>3. Reduced(graph, h, r)
  BY <1>2, PendingIsPlain, ForceKeeps
<1> QED
  BY <1>1, <1>2, <1>3 DEF ReductionInv, Reduced

\* Every action preserves it.
LEMMA ReductionInvNext == ReductionInv /\ KnownThunks /\ [Next]_vars => ReductionInv'
<1> SUFFICES ASSUME ReductionInv, KnownThunks, [Next]_vars PROVE ReductionInv'
  OBVIOUS
<1>1. CASE UNCHANGED vars
  BY <1>1 DEF vars, ReductionInv
<1>2. ASSUME NEW t \in unloaded, Load(t) PROVE ReductionInv'
  BY <1>2, LoadKeepsInv
<1>3. ASSUME NEW h \in pending, ForceThunk(h) PROVE ReductionInv'
  BY <1>3, ForceKeepsInv
<1> QED
  BY <1>1, <1>2, <1>3 DEF Next

\* Nothing ready is forgotten, and what is handed out is what the graph holds: in every
\* plain program the pending thunks are the executable ones of the graph, each under the
\* hash of its present content (graph.cc:124-145).
THEOREM ReadyIsHandedOut == PlainPrograms => (Spec /\ []KnownThunks => []HandedOut)
<1>1. ReductionInv => HandedOut
  BY DEF ReductionInv, HandedOut, Executables, OwnContent, Sound, Aligned
<1> QED
  BY <1>1, ReductionInvInit, ReductionInvNext, PTL DEF Spec

\* What the other two need besides: the graph is complete.
CompleteInv == AllTagsReturned /\ Complete(graph)

\* It holds before the first target is loaded.
LEMMA CompleteInvInit == AllTagsReturned /\ Init => CompleteInv
  BY EmptyIsSound DEF Init, CompleteInv

\* Every action preserves it, as long as no thunk that may be forced merges two.
LEMMA CompleteInvNext ==
  ReductionInv /\ KnownThunks /\ NothingMergesNow /\ CompleteInv /\ [Next]_vars => CompleteInv'
<1> SUFFICES ASSUME ReductionInv, KnownThunks, NothingMergesNow, AllTagsReturned,
                    Complete(graph), [Next]_vars
             PROVE  Complete(graph')
  BY DEF CompleteInv
<1>1. CASE UNCHANGED vars
  BY <1>1 DEF vars
<1>2. ASSUME NEW t \in unloaded, Load(t) PROVE Complete(graph')
  <2>1. ThunkShapes /\ Sound(graph) /\ graph.updated_hashes = << >> /\ t \in Thunk
    BY DEF ReductionInv, PlainPrograms
  <2>2. Loaded(graph, t, graph')
    BY <1>2, <2>1, LoadKeeps DEF Load
  <2> QED
    BY <2>2 DEF Loaded
<1>3. ASSUME NEW h \in pending, ForceThunk(h) PROVE Complete(graph')
  <2>1. /\ ThunkShapes /\ Sound(graph) /\ h \in DOMAIN graph.thunks /\ h \in Thunk
        /\ CanBeExecuted(h) /\ PlainResult(h)
    BY PendingIsPlain
  <2>2. TagsReturned(h) /\ NothingMerges(graph, h)
    BY <2>1 DEF AllTagsReturned, NothingMergesNow
  <2>3. \E r \in force_thunk(graph, h, Eval(h)) : graph' = r.graph
    BY <1>3 DEF ForceThunk
  <2> QED
    BY <2>1, <2>2, <2>3, ForceComplete
<1> QED
  BY <1>1, <1>2, <1>3 DEF Next

\* No reference is lost: who waits for a thunk is listed as its referrer, through every
\* renaming, as long as no two thunks of the graph become one (graph.cc:47, 98).
THEOREM ReferencesAreKept ==
  PlainPrograms /\ AllTagsReturned =>
    (Spec /\ []KnownThunks /\ []NothingMergesNow => []NoLostReference)
<1>1. CompleteInv => NoLostReference
  BY DEF CompleteInv, Complete, NoLostReference
<1> QED
  BY <1>1, ReductionInvInit, ReductionInvNext, CompleteInvInit, CompleteInvNext, PTL DEF Spec

\* The result of a pending thunk finds every entry it looks up: no at() of graph.cc:89-90
\* and 124-125 and no lookup of graph.cc:161 throws.
THEOREM ForcingIsSafe ==
  PlainPrograms /\ AllTagsReturned =>
    (Spec /\ []KnownThunks /\ []NothingMergesNow => []ForcingNeverThrows)
<1>1. ReductionInv /\ KnownThunks /\ NothingMergesNow /\ CompleteInv => ForcingNeverThrows
  <2> SUFFICES ASSUME ReductionInv, KnownThunks, NothingMergesNow, CompleteInv, NEW h \in pending
               PROVE  ~ ForceThrows(graph, h, Eval(h))
    BY DEF ForcingNeverThrows
  <2>1. /\ ThunkShapes /\ Sound(graph) /\ h \in DOMAIN graph.thunks /\ h \in Thunk
        /\ CanBeExecuted(h) /\ PlainResult(h)
    BY PendingIsPlain
  <2>2. TagsReturned(h) /\ NothingMerges(graph, h) /\ Complete(graph)
    BY <2>1 DEF AllTagsReturned, NothingMergesNow, CompleteInv
  <2> QED
    BY <2>1, <2>2, ForceComplete
<1> QED
  BY <1>1, ReductionInvInit, ReductionInvNext, CompleteInvInit, CompleteInvNext, PTL DEF Spec
=============================================================================
