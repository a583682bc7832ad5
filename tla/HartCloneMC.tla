---------------------------- MODULE HartCloneMC ----------------------------
(* Model-checking instances of HartClone. *)
EXTENDS HartClone, TLC

\* Harts other than the main one are interchangeable.
Symmetry == Permutations(Harts \ {Main})
=============================================================================
