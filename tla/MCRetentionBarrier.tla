------------------------- MODULE MCRetentionBarrier -------------------------
(* Two writers and two mutators: enough for a writer that entered before   *)
(* the lock, one that races with it, and a mutator that takes over from a  *)
(* crashed one.                                                            *)
EXTENDS RetentionBarrier, TLC

WriterSymmetry == Permutations(Writer)
=============================================================================
