-------------------------- MODULE MCWorkerRegistry --------------------------
(* WorkerRegistry for TLC: ids and connections are interchangeable. *)
EXTENDS WorkerRegistry, TLC

Symmetry == Permutations(WorkerIds) \cup Permutations(Conns)
==============================================================================
