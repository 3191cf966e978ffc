------------------------------- MODULE MCMeow -------------------------------
(* Small instances of MeowEngine: thunks that share dependencies, the last  *)
(* of which reads what the first one computes.                              *)
EXTENDS MeowEngine

MCThunk == {"t1", "t2", "t3", "t4"}
MCDeps == [t1 |-> {"x", "exe"}, t2 |-> {"y"}, t3 |-> {"y", "exe"}, t4 |-> {"o", "exe"}]
MCAfter == [t1 |-> {}, t2 |-> {}, t3 |-> {}, t4 |-> {"t1"}]
MCSize == [x |-> 1, y |-> 1, exe |-> 2, o |-> 1]
MCLocal == {"x", "y", "exe"}
=============================================================================
