--------------------------- MODULE MCAttestVerify ---------------------------
(* Model-checking instance of AttestVerify.                                 *)
EXTENDS AttestVerify, TLC

Symmetry == Permutations(Handlers) \cup Permutations(Sids)
              \cup Permutations(Cids) \cup Permutations(Rids)

CONSTANTS h1, h2

OneRule == [h \in Handlers |-> 1]

(* One web form with up to two rules, and one that only attests.           *)
UpToTwoRules == h1 :> 2 @@ h2 :> 0
=============================================================================
