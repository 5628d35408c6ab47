-------------------------- MODULE MCScheduledDispatch --------------------------
EXTENDS ScheduledDispatch, TLC

CONSTANTS laneA, laneB

Lanes == {laneA, laneB}

OneLane == [d \in Delivery |-> laneA]

\* The youngest Delivery has a lane of its own.
OwnLane == [d \in Delivery |-> IF \A e \in Delivery : e <= d THEN laneB ELSE laneA]

\* The younger ones expire later, and all before the clock stops.
ExpireLater == [d \in Delivery |-> IF d < MaxTime THEN d ELSE MaxTime]

\* Where the run ends a behaviour: nobody sends a second direct message.
OneDirect == Cardinality({d \in Direct : ledger[d] # Absent}) <= 1

WorkerSymmetry == Permutations(Worker)
=============================================================================
