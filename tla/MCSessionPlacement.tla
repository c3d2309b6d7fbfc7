------------------------- MODULE MCSessionPlacement -------------------------
(* SessionPlacement for TLC: sessions and workers are interchangeable. *)
EXTENDS SessionPlacement, TLC

Symmetry == Permutations(Sessions) \cup Permutations(Workers)
==============================================================================
