---------------------------- MODULE MCReduction -----------------------------
(* Reduction on small programs. *)
EXTENDS Reduction, MCPrograms

\* A thunk with two outputs, both of them read, below a thunk that is itself
\* referenced: rewritten twice on the way.
SplitMe == Divide(Out(Inc(Val(4))))
Diamond == { Add(Out(Inc(Out(SplitMe))), Out2(SplitMe, "high")), Inc(Out(SplitMe)) }

\* fib(4) returns thunks over dependencies that other parts of the graph already
\* hold, wait for, or have finished with.
MCTargets == Diamond \cup { Fib(4) }
MCThunk   == Universe(Diamond) \cup Universe({ Fib(4) })

\* Two thunks whose dependencies evaluate to the same value become the same
\* thunk, inc(2), each with a referrer of its own.
Converging == { Inc(Out(Inc(Out(Inc(Val(1)))))), Divide(Out(Inc(Out(Add(Val(1), Val(1)))))) }
ConvergingThunk == Universe(Converging)

\* A returned thunk reads a tagged output of a thunk whose hash has changed.
Tagged == { Add(Out(Defer(Val(1))), Out(Divide(Out(Inc(Val(3)))))) }
TaggedThunk == Universe(Tagged)

\* The programs are of the kind that the proofs about the graph take.
ASSUME ProgramAssumption == PlainPrograms /\ AllTagsReturned

\* Rewriting keeps the meaning: whatever has been substituted in a thunk so far,
\* its content evaluates to what the thunk it started as evaluates to, through
\* every output (graph.cc:44, 75-92; thunk.cc:340-401).
MeaningPreserved ==
    \A h \in DOMAIN graph.thunks :
        LET o == original_hash(graph, h)
        IN  \A i \in DOMAIN o.outputs :
                LET tag == IF i = 1 THEN Main ELSE o.outputs[i]
                IN  Denote(Out2(graph.thunks[h], tag)) = Denote(Out2(o, tag))
=============================================================================
