----------------------------- MODULE MCUpdateBus -----------------------------
(* UpdateBus for TLC: one stream asks for all sessions, the other for one. *)
EXTENDS UpdateBus

CONSTANTS p1, s2

MCFilter == [s \in Streams |-> IF s = s2 THEN {p1} ELSE {}]
==============================================================================
