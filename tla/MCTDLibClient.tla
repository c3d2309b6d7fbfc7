---------------------------- MODULE MCTDLibClient ----------------------------
(* TDLibClient for TLC: the callers are interchangeable. *)
EXTENDS TDLibClient, TLC

Symmetry == Permutations(Callers)
==============================================================================
