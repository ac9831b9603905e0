-------------------------- MODULE MCPointerRouting --------------------------
(* PointerRouting with interchangeable surfaces and constraints.           *)
EXTENDS PointerRouting, TLC

Symmetry == Permutations(Apps) \cup Permutations(Constraints)
=============================================================================
