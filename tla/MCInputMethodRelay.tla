------------------------- MODULE MCInputMethodRelay -------------------------
(* Model-checking module for InputMethodRelay: the client c1 owns an       *)
(* application surface and a lock surface, c2 an application surface.      *)
EXTENDS InputMethodRelay, TLC

CONSTANTS a1, a2, k, c1, c2

MCSurfaces == {a1, a2, k}
MCLockSurfaces == {k}
MCClientOf == [s \in MCSurfaces |-> IF s = a2 THEN c2 ELSE c1]

Symmetry == Permutations(TextInputs) \cup Permutations(InputMethods)
=============================================================================
