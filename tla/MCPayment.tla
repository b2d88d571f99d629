------------------------------ MODULE MCPayment ------------------------------
EXTENDS Payment, TLC

\* The replicas run the same workers.
Symmetry == Permutations(Workers) \cup Permutations(Hooks)
=============================================================================
