---------------------------- MODULE MCFdSources ----------------------------
(* Model-checking module for FdSources. *)
EXTENDS FdSources, TLC

Symmetry == Permutations(Ids)
=============================================================================
