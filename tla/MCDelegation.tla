----------------------------- MODULE MCDelegation -----------------------------
(* One Job, scheduled or immediate, approved by an operator or by itself. *)
EXTENDS Delegation

MCMode == {[scheduled |-> TRUE, approval |-> "relay"],
           [scheduled |-> FALSE, approval |-> "auto"]}
===============================================================================
