----------------------------- MODULE MCReductor -----------------------------
(* The Reductor on small programs and engines. *)
EXTENDS ReductorRefinement, MCPrograms

\* A target that reads an output of a thunk that is not its main one, and a thunk that
\* returns a thunk; and a target that reads the main output of the same thunk.
Split == Divide(Val(5))
MCTargetHashes == << Add(Out2(Split, "high"), Out(Later(Val(1)))), Inc(Out(Split)) >>
Reachable == Universe(SeqRange(MCTargetHashes))
MCThunk == Reachable     \* a name of its own: TLC evaluates the universe once

\* Two targets, one of which the other one depends on.
Sum == Add(Out(Inc(Out(Split))), Out2(Split, "high"))
SmallTargetHashes == << Sum, Inc(Out(Split)) >>
SmallThunk == Universe({ Sum })

\* A returned thunk reads a tagged output of a thunk whose hash may have changed,
\* and two thunks become the same one.
UnluckyTargetHashes == << Add(Out(Defer(Val(1))), Out(Divide(Out(Inc(Val(3)))))),
                          Inc(Out(Inc(Val(1)))), Fib(1) >>
UnluckyThunk == Universe(SeqRange(UnluckyTargetHashes))

\* A thunk returns a thunk as its main output and a value as its other one.
MixedTargetHashes == << Inc(Out2(Mixed(Val(1)), "high")) >>
MixedThunk == Universe(SeqRange(MixedTargetHashes))

\* A target is finished and then read again by what the other one returns. The universe of
\* Fib(4) is not closed: ProgramAssumption has to do without that for these targets.
AgainTargetHashes == << Fib(2), Fib(4) >>
AgainThunk == Universe(SeqRange(AgainTargetHashes))

\* A target becomes the thunk it waited for, which is a target as well.
SameTargetHashes == << Id(Val(5)), Id(Out(Id(Val(5)))) >>
SameThunk == Universe(SeqRange(SameTargetHashes))

\* Engines: "lambda" (over TLS) and then "remote" (over TCP) take everything except fib
\* and later thunks, "local" is the fallback. Its second job makes a SIGCHLD during the
\* handling of another one possible.
MCExecEngines     == << "lambda", "remote" >>
MCFallbackEngines == << "local" >>
MCLocalEngines    == { "local" }
MCTlsEngines      == { "lambda" }
MCCanExecute(e, h) == e = "local" \/ h.fn \notin {"fib", "later"}
MCMaxJobs == [e \in {"lambda", "remote", "local"} |-> IF e = "local" THEN 2 ELSE 1]

\* The programs are of the kind that the proofs about the graph take, and their thunks
\* are closed under dependencies, results and rewriting; every one finds an engine.
ASSUME ProgramAssumption ==
    /\ Abstract!PlainPrograms /\ Abstract!AllTagsReturned /\ Grow(Thunk) \subseteq Thunk
    /\ EnginesSuffice

SomeWarm == { Split }

\* What reduce() returns is what evaluating the targets from the inside out
\* gives, whatever was duplicated, retried or cached.
ReturnsRightAnswers ==
    pc = "returned" =>
        \A i \in DOMAIN TargetHashes : final_hashes[i] = Denote(Out(TargetHashes[i]))
=============================================================================
