------------------------------ MODULE MCLedgerRoom ------------------------------
(* Two stores in one run: one so large that its bytes need not be counted, *)
(* and a small one.                                                        *)
EXTENDS LedgerRoom, TLC

CONSTANTS laneA, laneB

Lanes == {laneA, laneB}

\* Deliveries 1 and 2 to one thread, 3 to another.
Mixed == [d \in Delivery |-> IF d < 3 THEN laneA ELSE laneB]

WorkerSymmetry == Permutations(Worker)

VARIABLE small

StoresInit == RoomInit /\ small \in BOOLEAN

StoresNext ==
  \/ small /\ RoomNext /\ UNCHANGED small
  \/ ~small /\ LedgerNext /\ UNCHANGED <<bytes, torn, small>>

StoresSpec == StoresInit /\ [][StoresNext]_<<roomVars, small>>
=============================================================================
