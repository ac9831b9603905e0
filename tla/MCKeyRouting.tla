---------------------------- MODULE MCKeyRouting ----------------------------
(* Model-checking module for KeyRouting: the symmetry of its model values. *)
EXTENDS KeyRouting, TLC

Symmetry == Permutations(Keyboards) \cup Permutations(Grabs)
=============================================================================
