------------------------------- MODULE MCLoop -------------------------------
(* Small instances of ExecutionLoop. *)
EXTENDS ExecutionLoop

Children == {"c1", "c2", "c3"}
=============================================================================
