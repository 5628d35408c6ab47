-------------------------- MODULE MCImmediateDispatch --------------------------
EXTENDS ImmediateDispatch, TLC

CONSTANT laneA

OneLane == [d \in Delivery |-> laneA]

ProcessSymmetry == Permutations(Process)
=============================================================================
