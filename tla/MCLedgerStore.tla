----------------------------- MODULE MCLedgerStore -----------------------------
(* A reader in a store with little in it, two messages without a reader in *)
(* one with a little more, or one message alone with a longer life, in     *)
(* which quarantine divides it.                                            *)
EXTENDS LedgerStore

CONSTANTS
  Alone,        \* the message with a long life
  ReadRecords,  \* records while there is a reader
  TwoRecords,   \* records while there is another message
  AloneRecords  \* records of the message alone

\* Where the run ends a behaviour.
Bound ==
  LET records == Cardinality(Position) IN
  \/ records < ReadRecords
  \/ /\ \A s \in Reader : reader[s] = NotReading
     /\ records < TwoRecords \/ (Known(truth) \subseteq {Alone} /\ records < AloneRecords)
=============================================================================
