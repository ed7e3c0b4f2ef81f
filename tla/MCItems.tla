------------------------------- MODULE MCItems -------------------------------
(* Model-checking instance of Items.                                        *)
EXTENDS Items, TLC

Symmetry == Permutations(Handlers)
=============================================================================
