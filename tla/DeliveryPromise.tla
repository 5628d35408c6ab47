---------------------------- MODULE DeliveryPromise ----------------------------
(***************************************************************************)
(* What the Delivery Ledger promises the sender of a message, without      *)
(* claims, workers or leases: whether a turn was started for a Delivery,   *)
(* and what is reported about it.  A turn starts at most once; a report of *)
(* "started" or "notStarted" is true and final; "uncertain" may be         *)
(* resolved later, but only to "started".                                  *)
(***************************************************************************)
CONSTANT Delivery

VARIABLES
  started,  \* whether a turn was started
  report    \* what the sender is told

vars == <<started, report>>

Init ==
  /\ started = [d \in Delivery |-> FALSE]
  /\ report  = [d \in Delivery |-> "open"]

StartTurn(d) ==
  /\ ~started[d]
  /\ report[d] \in {"open", "uncertain"}
  /\ started' = [started EXCEPT ![d] = TRUE]
  /\ UNCHANGED report

ReportStarted(d) ==
  /\ started[d]
  /\ report[d] \in {"open", "uncertain"}
  /\ report' = [report EXCEPT ![d] = "started"]
  /\ UNCHANGED started

ReportNotStarted(d) ==
  /\ ~started[d]
  /\ report[d] = "open"
  /\ report' = [report EXCEPT ![d] = "notStarted"]
  /\ UNCHANGED started

ReportUncertain(d) ==
  /\ report[d] = "open"
  /\ report' = [report EXCEPT ![d] = "uncertain"]
  /\ UNCHANGED started

Next ==
  \E d \in Delivery :
    StartTurn(d) \/ ReportStarted(d) \/ ReportNotStarted(d) \/ ReportUncertain(d)

Spec == Init /\ [][Next]_vars
=============================================================================
