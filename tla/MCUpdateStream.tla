--------------------------- MODULE MCUpdateStream ---------------------------
(* UpdateStream for TLC: one webhook takes every update, the others messages. *)
EXTENDS UpdateStream, TLC

MCEvents == [h \in Hooks |-> IF h = CHOOSE g \in Hooks : TRUE THEN {} ELSE {"message"}]
==============================================================================
