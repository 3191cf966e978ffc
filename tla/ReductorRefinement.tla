------------------------- MODULE ReductorRefinement -------------------------
(***************************************************************************)
(* The Reductor implements Reduction: whatever it duplicates, retries or   *)
(* takes from the cache, its graph evolves by forcing pending thunks, each *)
(* once, and the answers it is going to return are those of Reduction.     *)
(***************************************************************************)
EXTENDS Reductor

CONSTANT Unknown

\* No value stands for "not known yet".
ASSUME UnknownAssumption == Unknown \notin Value

\* Handed out by the graph and not yet replaced: queued, or running as far as the
\* Reductor knows.
PendingThunks == (SeqRange(job_queue) \cup running_jobs) \cap DOMAIN dep_graph.thunks

\* The targets the constructor has not come to.
Unloaded == Targets \ { TargetHashes[i] : i \in 1 .. loaded }

\* What reduce() would return for a target that is no longer remaining.
Answer == [t \in Targets |->
             IF \/ t \in Unloaded \cup remaining_targets
                \/ FinalThunk(t) \notin DOMAIN cache
             THEN Unknown ELSE cache[FinalThunk(t)][1].hash]

Abstract == INSTANCE Reduction
              WITH unloaded <- Unloaded, graph <- dep_graph, pending <- PendingThunks, answer <- Answer

\* Every step of the Reductor is a ForceThunk step of Reduction or changes nothing
\* that Reduction sees (reductor.cc:180-199 against graph.cc:102-154).
ImplementsReduction == Abstract!Spec
=============================================================================
