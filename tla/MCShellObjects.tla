--------------------------- MODULE MCShellObjects ---------------------------
(* ShellObjects with interchangeable objects of each kind.                 *)
EXTENDS ShellObjects, TLC

Symmetry == Permutations(Toplevels) \cup Permutations(Popups)
=============================================================================
