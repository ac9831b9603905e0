---------------------------- MODULE MCSceneNodes ----------------------------
(* SceneNodes with interchangeable trees, rects and toplevels.             *)
EXTENDS SceneNodes

Symmetry == Permutations(Trees) \cup Permutations(Rects) \cup Permutations(Toplevels)
=============================================================================
