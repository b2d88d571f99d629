--------------------------- MODULE MCRelayCredits ---------------------------
\* Relays are interchangeable: TLC explores one order of their names.
EXTENDS RelayCredits, TLC

Symmetry == Permutations(Relays)
=============================================================================
