--------------------------- MODULE MCSessionLock ---------------------------
(* Model-checking module for SessionLock. *)
EXTENDS SessionLock, TLC

Symmetry == Permutations(Outputs) \cup Permutations(Locks)
=============================================================================
