---------------------------- MODULE InsnCountMC ----------------------------
(* Model-checking instances of InsnCount. *)
EXTENDS InsnCount, TLC

Symmetry == Permutations(Harts \ {Main})
=============================================================================
