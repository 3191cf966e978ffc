----------------------------- MODULE MCTimeouts -----------------------------
(* Two jobs, one of which has a timeout of its own, on an engine with one slot. *)
EXTENDS JobTimeouts

MCThunkTimeout == [j \in Job |-> IF j = "a" THEN 0 ELSE 2]
=============================================================================
