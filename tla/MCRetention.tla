---------------------------- MODULE MCRetention -----------------------------
(* A message that is delivered, whose id is also the one a Job may get, and *)
(* one that goes to Quarantine.  Backups are interchangeable.               *)
EXTENDS JobArchive, TLC

CONSTANTS m1, m2

MCOutcome == (m1 :> "settled") @@ (m2 :> "quarantined")
MCTaskBody == [j \in Jobs |-> m1]

Symmetry == Permutations(Transactions)
=============================================================================
