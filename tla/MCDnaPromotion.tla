---------------------------- MODULE MCDnaPromotion ----------------------------
EXTENDS DnaPromotion, TLC

CONSTANTS v0, v1, v2

MCParents == (v0 :> {}) @@ (v1 :> {v0}) @@ (v2 :> {v1})
MCMinimum == [SHADOW |-> 1, CANARY |-> 1]
Symmetry == Permutations(Observations) \cup Permutations(Calls)
================================================================================
