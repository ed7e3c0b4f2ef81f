----------------------------- MODULE MCSessions -----------------------------
(* Model-checking instance of Sessions.                                     *)
EXTENDS Sessions, TLC

Symmetry == Permutations(Handlers) \cup Permutations(Sids)
              \cup Permutations(Cids) \cup Permutations(Rids)

=============================================================================
