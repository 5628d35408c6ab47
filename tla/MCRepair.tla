------------------------------- MODULE MCRepair -------------------------------
EXTENDS Repair, TLC

Symmetry == Permutations(Call) \cup Permutations(Old)
=============================================================================
