---------------------------- MODULE MCTurnDrain ----------------------------
(* TurnDrain with interchangeable surfaces and handles.                    *)
EXTENDS TurnDrain

Symmetry == Permutations(Layers) \cup Permutations(Handles)
=============================================================================
