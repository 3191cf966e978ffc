----------------------------- MODULE MCPrograms -----------------------------
(***************************************************************************)
(* Small programs over numbers, for the model checker: what each function  *)
(* of a thunk does, the set of all thunk contents that a program's         *)
(* reduction can go through, and a reference evaluator that knows nothing  *)
(* of graphs and hashes.                                                   *)
(***************************************************************************)
EXTENDS Naturals, Sequences, FiniteSets

MCMain == "main"
MCTag  == {"out", "low", "high"}

V(n) == [value |-> n]
MCValue == { V(n) : n \in 0 .. 12 }
IsValue(obj) == "value" \in DOMAIN obj

\* Data items: a value, the main output of a thunk, another output of it.
Val(n)     == [obj |-> V(n), tag |-> MCMain]
Out(t)     == [obj |-> t, tag |-> MCMain]
Out2(t, g) == [obj |-> t, tag |-> g]

One(fn, args) == [fn |-> fn, args |-> args, outputs |-> <<"out">>]
Two(fn, args) == [fn |-> fn, args |-> args, outputs |-> <<"low", "high">>]

Id(x)     == One("id", <<x>>)
Inc(x)    == One("inc", <<x>>)
Add(x, y) == One("add", <<x, y>>)
Fib(n)    == One("fib", <<Val(n)>>)
Divide(x) == Two("divide", <<x>>)      \* quotient and remainder by 2
Later(x)  == One("later", <<x>>)       \* returns a thunk that increments x's number
Defer(x)  == One("defer", <<x>>)       \* returns a thunk over x's number
Mixed(x)  == Two("mixed", <<x>>)       \* main output a thunk, the other a value

Arg(t, i) == t.args[i].obj.value
Res(t, s) == [i \in DOMAIN t.outputs |-> [hash |-> s[i], tag |-> t.outputs[i]]]

\* What executing a thunk whose arguments are all values yields.
MCEval(t) ==
    CASE t.fn = "id"     -> Res(t, <<V(Arg(t, 1))>>)
      [] t.fn = "inc"    -> Res(t, <<V(Arg(t, 1) + 1)>>)
      [] t.fn = "add"    -> Res(t, <<V(Arg(t, 1) + Arg(t, 2))>>)
      [] t.fn = "divide" -> Res(t, <<V(Arg(t, 1) \div 2), V(Arg(t, 1) % 2)>>)
      [] t.fn = "mixed"  -> Res(t, <<Fib(Arg(t, 1)), V(Arg(t, 1))>>)
      [] t.fn = "later"  -> Res(t, <<Inc(Val(Arg(t, 1)))>>)
      [] t.fn = "defer"  -> Res(t, <<Add(Out(Inc(Val(Arg(t, 1)))),
                                         Out2(Divide(Out(Inc(Val(3)))), "high"))>>)
      [] t.fn = "fib"    -> Res(t, <<IF Arg(t, 1) < 2 THEN V(Arg(t, 1))
                                     ELSE Add(Out(Fib(Arg(t, 1) - 1)), Out(Fib(Arg(t, 1) - 2)))>>)

-----------------------------------------------------------------------------
Executable(t) == \A i \in DOMAIN t.args : IsValue(t.args[i].obj)

ThunksOf(t) == { t.args[i].obj : i \in { j \in DOMAIN t.args : ~ IsValue(t.args[j].obj) } }

\* t with the arguments that name d replaced by what the outputs outs say.
Replace(t, d, outs) ==
    [t EXCEPT !.args = [i \in DOMAIN t.args |->
        LET a == t.args[i]
            k == IF a.tag = MCMain THEN 1 ELSE CHOOSE j \in DOMAIN outs : outs[j].tag = a.tag
            o == outs[k].hash
        IN  IF a.obj # d THEN a
            ELSE [obj |-> o, tag |-> IF IsValue(o) THEN MCMain ELSE a.tag]]]

\* One round of growth: dependencies, returned thunks, and every rewriting of a
\* thunk by one dependency's result or new hash.
Grow(S) ==
    LET returned == { o \in UNION { { MCEval(t)[i].hash : i \in DOMAIN t.outputs }
                                    : t \in { s \in S : Executable(s) } } : ~ IsValue(o) }
        Successors(d) ==
            IF Executable(d) THEN {MCEval(d)}
            ELSE { Res(s, [i \in DOMAIN s.outputs |-> s]) :
                     s \in { x \in S : x.fn = d.fn /\ Executable(x) } }
    IN  S \cup returned \cup UNION { ThunksOf(t) : t \in S }
          \cup UNION { UNION { { Replace(t, d, outs) : outs \in Successors(d) }
                               : d \in ThunksOf(t) } : t \in S }

\* The thunks a reduction of the targets in S can go through.
Universe(S) ==
    LET grown[n \in Nat] ==
            IF n = 0 THEN S
            ELSE LET U == grown[n - 1] IN Grow(U)
    IN  grown[9]

\* Reference semantics: evaluate the arguments, then the function, then
\* whatever it returns.
RECURSIVE Denote(_)
Denote(item) ==
    IF IsValue(item.obj) THEN item.obj
    ELSE LET t    == item.obj
             args == [i \in DOMAIN t.args |-> [obj |-> Denote(t.args[i]), tag |-> MCMain]]
             outs == MCEval([t EXCEPT !.args = args])
             k    == IF item.tag = MCMain THEN 1
                     ELSE CHOOSE j \in DOMAIN outs : outs[j].tag = item.tag
         IN  IF IsValue(outs[k].hash) THEN outs[k].hash
             ELSE Denote([obj |-> outs[k].hash, tag |-> item.tag])
=============================================================================
