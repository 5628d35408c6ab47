--------------------------- MODULE ImmediateDispatch ---------------------------
(***************************************************************************)
(* The commands that dispatch Deliveries at once, without the scheduler:   *)
(*                                                                         *)
(*   send, reply      routePeerMessage         src/route-admission.js      *)
(*   route retry      retryRouteDelivery                                   *)
(*   route reconcile  reconcileRouteDelivery                               *)
(*   team dispatch    dispatchPreparedTeamCastMessage  src/team-cast.js    *)
(*                                                                         *)
(* A Process runs one command after the other; several run at once, on the *)
(* same messages.  A command on a direct message holds the message's route *)
(* lock while it decides and appends the events that decision leads to,    *)
(* and none while it talks to App Server or records the answer.  A team    *)
(* dispatch holds no lock at all: it works through the snapshot it read    *)
(* first.  Each step is what happens up to the next await that matters.    *)
(*                                                                         *)
(* The route lock of a dead process is reaped by the next one that asks,   *)
(* here at once.  The delays that the code waits for (backoff and window   *)
(* of a retry, grace of a reconciliation, expiry of a selection) are not   *)
(* counted: each may have passed or not whenever it is asked for.          *)
(***************************************************************************)
EXTENDS DeliveryLedger, FiniteSetsExt

CONSTANTS
  Process,     \* processes that run commands
  NoProcess,   \* holder of a free route lock
  MaxFailures  \* bound: failures of the Ledger and deaths of processes

ASSUME ProcessAssumptions ==
  /\ NoProcess \notin Process
  /\ MaxFailures \in Nat

VARIABLES
  routeLock,    \* holder of the route lock of each message
  pc,           \* where each process is
  todo,         \* Deliveries left in its command, the current one first
  attempt,      \* number of the attempt it works on
  found,        \* whether its inspection found the message
  turns,        \* how often App Server took the message of a Delivery
  onWire,       \* requests that nobody waits for and App Server may still take
  interrupted,  \* Deliveries an attempt on which was interrupted
  failures      \* failures and deaths so far

commandVars == <<routeLock, pc, todo, attempt, found>>
history     == <<turns, onWire, interrupted>>
vars        == <<ledgerVars, commandVars, history, failures>>

Steps ==
  {"idle",
   "admit", "begin",                                \* send
   "retry",                                         \* retry
   "inspect", "inspected", "apply",                 \* reconcile
   "recipient",                                     \* team dispatch
   "request", "accepted", "rejected", "uncertain"}  \* an attempt

TypeOK ==
  /\ LedgerTypeOK
  /\ routeLock \in [Direct -> Process \cup {NoProcess}]
  /\ pc \in [Process -> Steps]
  /\ todo \in [Process -> SUBSET Delivery]
  /\ attempt \in [Process -> 0..2]
  /\ found \in [Process -> BOOLEAN]
  /\ turns \in [Delivery -> Nat]
  /\ onWire \subseteq Delivery
  /\ interrupted \subseteq Delivery
  /\ failures \in Nat

Init ==
  /\ LedgerInit
  /\ routeLock = [d \in Direct |-> NoProcess]
  /\ pc = [p \in Process |-> "idle"]
  /\ todo = [p \in Process |-> {}]
  /\ attempt = [p \in Process |-> 0]
  /\ found = [p \in Process |-> FALSE]
  /\ turns = [d \in Delivery |-> 0]
  /\ onWire = {}
  /\ interrupted = {}
  /\ failures = 0

-----------------------------------------------------------------------------
(* Moving on                                                               *)

Current(p) == Min(todo[p])
At(p, d, here) == pc[p] = here /\ d = Current(p)

Goto(p, here) == pc' = [pc EXCEPT ![p] = here]

\* Every route lock that p holds is free after this.
Unlocked(p) == [d \in Direct |-> IF routeLock[d] = p THEN NoProcess ELSE routeLock[d]]

\* The command returns, or throws.
End(p) ==
  /\ routeLock' = Unlocked(p)
  /\ Goto(p, "idle")
  /\ todo' = [todo EXCEPT ![p] = {}]
  /\ attempt' = [attempt EXCEPT ![p] = 0]
  /\ found' = [found EXCEPT ![p] = FALSE]

\* A command on a direct message ends with it, a team dispatch goes on.
Continue(p) ==
  LET rest == todo[p] \ {Current(p)} IN
  IF rest = {}
    THEN End(p)
    ELSE /\ Goto(p, "recipient")
         /\ todo' = [todo EXCEPT ![p] = rest]
         /\ attempt' = [attempt EXCEPT ![p] = 0]
         /\ UNCHANGED <<routeLock, found>>

TakeLock(p, d, here) ==
  /\ routeLock[d] = NoProcess
  /\ routeLock' = [routeLock EXCEPT ![d] = p]
  /\ Goto(p, here)
  /\ todo' = [todo EXCEPT ![p] = {d}]
  /\ UNCHANGED found

\* The attempt of p is on record, and its route lock free.
StartAttempt(p, number) ==
  /\ Goto(p, "request")
  /\ attempt' = [attempt EXCEPT ![p] = number]
  /\ routeLock' = Unlocked(p)
  /\ UNCHANGED <<todo, found>>

\* ledgerRouteDelivery reports an open attempt of a direct message as
\* "dispatching".
Dispatching(d) ==
  \/ ledger[d].state = "created" /\ ledger[d].attempts = 1
  \/ ledger[d].state = "retryable" /\ ledger[d].attempts = 2

-----------------------------------------------------------------------------
(* send                                                                    *)

\* The message is on record: the call is deduplicated, and changes nothing.
\* Otherwise the route lock is kept, while body and conversation are stored.
Send(p, d) ==
  /\ pc[p] = "idle"
  /\ ledger[d] = Absent
  /\ TakeLock(p, d, "admit")
  /\ UNCHANGED <<ledgerVars, attempt, history, failures>>

\* An error before the commit.
SendAbandon(p, d) ==
  /\ At(p, d, "admit")
  /\ End(p)
  /\ UNCHANGED <<ledgerVars, history, failures>>

\* Quarantined and denied messages end here, and so does an admitted one when
\* the summary of its conversation cannot be refreshed.
SendCommit(p, d) ==
  /\ At(p, d, "admit")
  /\ \E admission \in {"admitted", "quarantined", "denied"} :
       /\ Commit(d, admission, "immediate")
       /\ \/ /\ admission = "admitted"
             /\ Goto(p, "begin")
             /\ routeLock' = Unlocked(p)
             /\ UNCHANGED <<todo, attempt, found>>
          \/ End(p)
  /\ UNCHANGED <<history, failures>>

SendBegin(p, d) ==
  /\ At(p, d, "begin")
  /\ BeginImmediate(d)
  /\ StartAttempt(p, 1)
  /\ UNCHANGED <<history, failures>>

-----------------------------------------------------------------------------
(* route retry                                                             *)

Retry(p, d) ==
  /\ pc[p] = "idle"
  /\ ledger[d].admission = "admitted"
  /\ ledger[d].state = "retryable"
  /\ ledger[d].attempts = 1
  /\ TakeLock(p, d, "retry")
  /\ UNCHANGED <<ledgerVars, attempt, history, failures>>

\* Target or body changed, or the backoff has not elapsed.
RetryAbandon(p, d) ==
  /\ At(p, d, "retry")
  /\ End(p)
  /\ UNCHANGED <<ledgerVars, history, failures>>

\* The window is over, or Inbound Policy denies.
RetryRefuse(p, d) ==
  /\ At(p, d, "retry")
  /\ \E state \in {"expired", "policy_denied"} : AppendEvidence(d, 0, state, FALSE)
  /\ End(p)
  /\ UNCHANGED <<history, failures>>

RetryBegin(p, d) ==
  /\ At(p, d, "retry")
  /\ BeginRetry(d)
  /\ StartAttempt(p, ledger[d].attempts + 1)
  /\ UNCHANGED <<history, failures>>

-----------------------------------------------------------------------------
(* route reconcile                                                         *)

\* The record is read under the route lock, which is free again after that.
Reconcile(p, d) ==
  /\ pc[p] = "idle"
  /\ routeLock[d] = NoProcess
  /\ ledger[d].admission = "admitted"
  /\ Dispatching(d) \/ ledger[d].state = "unknown"
  /\ Goto(p, "inspect")
  /\ todo' = [todo EXCEPT ![p] = {d}]
  /\ UNCHANGED <<ledgerVars, routeLock, attempt, found, history, failures>>

\* The search of the thread may miss the message, and finds it only if it was
\* accepted.
Inspect(p, d) ==
  /\ At(p, d, "inspect")
  /\ \E observed \in BOOLEAN :
       /\ observed => turns[d] > 0
       /\ found' = [found EXCEPT ![p] = observed]
  /\ Goto(p, "inspected")
  /\ UNCHANGED <<ledgerVars, routeLock, todo, attempt, history, failures>>

\* The record is read again under the route lock: settled meanwhile, or still
\* open, with the attempt that is the last one by now.
ReconcileReread(p, d) ==
  /\ At(p, d, "inspected")
  /\ routeLock[d] = NoProcess
  /\ IF Dispatching(d) \/ ledger[d].state = "unknown"
       THEN /\ TakeLock(p, d, "apply")
            /\ attempt' = [attempt EXCEPT ![p] = ledger[d].attempts]
       ELSE End(p)
  /\ UNCHANGED <<ledgerVars, history, failures>>

\* The sender or retrier records its own answer without the route lock, so
\* this evidence may be refused.
ReconcileApply(p, d) ==
  /\ At(p, d, "apply")
  /\ LET state == IF found[p] THEN "turn_started" ELSE "unknown" IN
     IF EvidenceFits(d, attempt[p], state, found[p])
       THEN AppendEvidence(d, attempt[p], state, found[p])
       ELSE UNCHANGED ledgerVars
  /\ End(p)
  /\ UNCHANGED <<history, failures>>

-----------------------------------------------------------------------------
(* team dispatch                                                           *)

PrepareTeam ==
  /\ \E refused \in SUBSET TeamCast : CommitTeam(refused)
  /\ UNCHANGED <<commandVars, history, failures>>

TeamDispatch(p) ==
  /\ pc[p] = "idle"
  /\ LET pending == {d \in TeamCast : ledger[d].state = "prepared" /\ ledger[d].attempts = 0}
     IN  /\ pending # {}
         /\ todo' = [todo EXCEPT ![p] = pending]
  /\ Goto(p, "recipient")
  /\ UNCHANGED <<ledgerVars, routeLock, attempt, found, history, failures>>

\* Evidence of a recipient who was settled meanwhile throws, and leaves the
\* rest of the batch.
TeamDeny(p, d) ==
  /\ At(p, d, "recipient")
  /\ IF EvidenceFits(d, 0, "policy_denied", FALSE)
       THEN AppendEvidence(d, 0, "policy_denied", FALSE) /\ Continue(p)
       ELSE End(p) /\ UNCHANGED ledgerVars
  /\ UNCHANGED <<history, failures>>

TeamSchedule(p, d) ==
  /\ At(p, d, "recipient")
  /\ ScheduleTeam(d)
  /\ Continue(p)
  /\ UNCHANGED <<history, failures>>

\* "schedule_failed", or scheduled already.
TeamScheduleFails(p, d) ==
  /\ At(p, d, "recipient")
  /\ Continue(p)
  /\ UNCHANGED <<ledgerVars, history, failures>>

\* A bug the checks must catch: an attempt of somebody else is taken for the
\* own one.
TeamBeginAgain(p, d) ==
  /\ At(p, d, "recipient")
  /\ IF ledger[d].state # "prepared"
       THEN End(p) /\ UNCHANGED ledgerVars
       ELSE /\ StartAttempt(p, 1)
            /\ IF ledger[d].attempts = 0 THEN BeginTeam(d) ELSE UNCHANGED ledgerVars
  /\ UNCHANGED <<history, failures>>

\* An attempt that is on record already is left alone ("unresolved_attempt").
TeamBegin(p, d) ==
  /\ At(p, d, "recipient")
  /\ CASE ledger[d].state # "prepared" -> End(p) /\ UNCHANGED ledgerVars
       [] ledger[d].state = "prepared" /\ ledger[d].attempts = 0 ->
            BeginTeam(d) /\ StartAttempt(p, 1)
       [] OTHER -> Continue(p) /\ UNCHANGED ledgerVars
  /\ UNCHANGED <<history, failures>>

-----------------------------------------------------------------------------
(* An attempt                                                              *)

Take(d) == turns' = [turns EXCEPT ![d] = @ + 1]

\* A bug the checks must catch: a lost answer is taken for a rejection.
RequestMisread(p, d) ==
  /\ At(p, d, "request")
  /\ \/ (Goto(p, "accepted") \/ Goto(p, "rejected")) /\ Take(d) /\ UNCHANGED onWire
     \/ Goto(p, "rejected") /\ UNCHANGED <<turns, onWire>>
  /\ UNCHANGED <<ledgerVars, routeLock, todo, attempt, found, interrupted, failures>>

\* turn/start or turn/steer: taken, with or without the answer getting
\* through; refused in a way that proves the message was not taken (negative
\* acceptance, of a Team Cast a busy target); or no answer and not taken yet.
Request(p, d) ==
  /\ At(p, d, "request")
  /\ \/ (Goto(p, "accepted") \/ Goto(p, "uncertain")) /\ Take(d) /\ UNCHANGED onWire
     \/ Goto(p, "rejected") /\ UNCHANGED <<turns, onWire>>
     \/ Goto(p, "uncertain") /\ onWire' = onWire \cup {d} /\ UNCHANGED turns
  /\ UNCHANGED <<ledgerVars, routeLock, todo, attempt, found, interrupted, failures>>

\* App Server takes a request after the process has given it up.
LateTurn(d) ==
  /\ d \in onWire
  /\ onWire' = onWire \ {d}
  /\ Take(d)
  /\ UNCHANGED <<ledgerVars, commandVars, interrupted, failures>>

\* What the answer means for the attempt.
Outcome(p, d) ==
  CASE pc[p] = "accepted"  -> "turn_started"
    [] pc[p] = "uncertain" -> "unknown"
    [] pc[p] = "rejected" /\ d \in Direct /\ attempt[p] = 1 -> "retryable"
    [] OTHER -> "failed"

\* A bug the checks must catch: an uncertain answer is not recorded.
RecordCertain(p, d) ==
  /\ pc[p] \in {"accepted", "rejected", "uncertain"}
  /\ d = Current(p)
  /\ IF pc[p] # "uncertain" /\ EvidenceFits(d, attempt[p], Outcome(p, d), TRUE)
       THEN AppendEvidence(d, attempt[p], Outcome(p, d), TRUE) /\ Continue(p)
       ELSE End(p) /\ UNCHANGED ledgerVars
  /\ UNCHANGED <<history, failures>>

\* Evidence that the Ledger refuses, because a reconciliation was quicker,
\* throws.
RecordOutcome(p, d) ==
  /\ pc[p] \in {"accepted", "rejected", "uncertain"}
  /\ d = Current(p)
  /\ IF EvidenceFits(d, attempt[p], Outcome(p, d), TRUE)
       THEN AppendEvidence(d, attempt[p], Outcome(p, d), TRUE) /\ Continue(p)
       ELSE End(p) /\ UNCHANGED ledgerVars
  /\ UNCHANGED <<history, failures>>

-----------------------------------------------------------------------------
(* Failures                                                                *)

InAttempt(p) == pc[p] \in {"request", "accepted", "rejected", "uncertain"}

\* A Ledger call throws.  The handler of a direct send or retry takes the
\* failure to record an acceptance for an uncertain answer.
Fault(p, d) ==
  /\ failures < MaxFailures
  /\ d = Current(p)
  /\ pc[p] \in {"admit", "begin", "retry", "apply", "recipient",
                "accepted", "rejected", "uncertain"}
  /\ failures' = failures + 1
  /\ IF pc[p] = "accepted" /\ d \in Direct
       THEN /\ Goto(p, "uncertain")
            /\ UNCHANGED <<routeLock, todo, attempt, found, interrupted>>
       ELSE /\ End(p)
            /\ interrupted' = IF InAttempt(p) THEN interrupted \cup {d} ELSE interrupted
  /\ UNCHANGED <<ledgerVars, turns, onWire>>

\* The process dies; the slot of p is free for the next one.
Crash(p) ==
  /\ failures < MaxFailures
  /\ pc[p] # "idle"
  /\ failures' = failures + 1
  /\ interrupted' = IF InAttempt(p) THEN interrupted \cup {Current(p)} ELSE interrupted
  /\ End(p)
  /\ UNCHANGED <<ledgerVars, turns, onWire>>

-----------------------------------------------------------------------------

Command(p) ==
  \/ \E d \in Direct : Send(p, d) \/ Retry(p, d) \/ Reconcile(p, d)
  \/ TeamDispatch(p)

Step(p, d) ==
  \/ SendAbandon(p, d)
  \/ SendCommit(p, d)
  \/ SendBegin(p, d)
  \/ RetryAbandon(p, d)
  \/ RetryRefuse(p, d)
  \/ RetryBegin(p, d)
  \/ Inspect(p, d)
  \/ ReconcileReread(p, d)
  \/ ReconcileApply(p, d)
  \/ TeamDeny(p, d)
  \/ TeamSchedule(p, d)
  \/ TeamScheduleFails(p, d)
  \/ TeamBegin(p, d)
  \/ Request(p, d)
  \/ RecordOutcome(p, d)

ProcessStep(p) == \E d \in todo[p] : Step(p, d)

Next ==
  \/ PrepareTeam
  \/ \E d \in Delivery : LateTurn(d)
  \/ \E p \in Process :
       \/ Command(p)
       \/ ProcessStep(p)
       \/ \E d \in todo[p] : Fault(p, d)
       \/ Crash(p)

Spec == Init /\ [][Next]_vars

-----------------------------------------------------------------------------
(* Properties                                                              *)

\* App Server takes each message at most once, however often it is sent,
\* retried, reconciled or dispatched to its team, by however many processes,
\* and whatever answers and processes are lost.
AtMostOneTurn == \A d \in Delivery : turns[d] <= 1

\* What the Ledger reports is true: a message reported as started was taken;
\* one reported as failed, expired, denied or retryable was not, and nobody is
\* about to send it, nor a request for it still on its way (for the retryable one, unless a retry is on record).
ReportsAreTrue ==
  \A d \in Delivery :
    /\ ledger[d].state = "turn_started" => turns[d] > 0
    /\ \/ ledger[d].state \in {"failed", "expired", "policy_denied", "denied"}
       \/ ledger[d].state = "retryable" /\ ledger[d].attempts = 1
       => /\ turns[d] = 0 /\ d \notin onWire
          /\ \A p \in Process : ~At(p, d, "request")

Open(d) == Dispatching(d) \/ (ledger[d].state = "prepared" /\ ledger[d].attempts = 1)

\* No attempt is forgotten: whatever reconciliations and other dispatches of
\* the same message come between, an open one has a process that works on it,
\* unless that process died or lost the Ledger.
OpenAttemptsAreOwned ==
  \A d \in Delivery :
    Open(d) => d \in interrupted \/ \E p \in Process : InAttempt(p) /\ d = Current(p)

\* What is on record of an attempt is true, and somebody brings it to an end.
AttemptsAreTracked == TypeOK /\ ReportsAreTrue /\ OpenAttemptsAreOwned

-----------------------------------------------------------------------------
(* The promise these commands implement                                    *)

report ==
  [d \in Delivery |->
    CASE ledger[d].state = "turn_started" -> "started"
      [] ledger[d].state \in {"failed", "expired", "policy_denied"} -> "notStarted"
      [] ledger[d].state = "unknown" -> "uncertain"
      [] OTHER -> "open"]

Promise == INSTANCE DeliveryPromise
  WITH started <- [d \in Delivery |-> turns[d] > 0], report <- report

\* The commands implement DeliveryPromise.
KeepsPromise == Promise!Spec
=============================================================================
