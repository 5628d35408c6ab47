-------------------------- MODULE ScheduledDispatch --------------------------
(***************************************************************************)
(* The scheduler worker of src/scheduler.js dispatching the scheduled      *)
(* Deliveries of the Ledger to App Server, together with the other writers *)
(* of those Deliveries: senders, the cancellation and reconciliation       *)
(* commands.                                                               *)
(*                                                                         *)
(* A pass (runSchedulerPass) takes a snapshot of the Ledger: of every lane *)
(* the first queued Delivery, unless its trigger is not ready or it has a  *)
(* live claim.  It then dispatches them one after the other                *)
(* (dispatchScheduledDelivery): examine, claim, recheck, renew the claim,  *)
(* decide by Inbound Policy, begin the attempt, send turn/start, record    *)
(* the outcome.  Every await in between is a point where others act, the   *)
(* worker dies, or its lease runs out.  An exception that dispatch does    *)
(* not handle ends the whole pass.                                         *)
(*                                                                         *)
(* A worker is a process: after a crash the same member of Worker stands   *)
(* for the next process, which knows nothing of the previous one.  The     *)
(* lifecycle lock of bin/cxmsg.js keeps to one process, except that a      *)
(* worker which writes its record only after the start command's ten       *)
(* seconds is not seen by the next start command; Worker has as many       *)
(* members as may run at once.                                             *)
(*                                                                         *)
(* The App Server is only seen through its answers: whether a trigger is   *)
(* ready, a target idle, a request accepted.  Each answer is free.         *)
(***************************************************************************)
EXTENDS DeliveryLedger, FiniteSetsExt

CONSTANTS
  Expiry,      \* expiry of every Delivery
  MaxFaults,   \* bound: failures of the Ledger or of the connection
  MaxCrashes   \* bound: crashes of workers

ASSUME DispatchAssumptions ==
  /\ Expiry \in [Delivery -> Nat]
  /\ MaxFaults \in Nat
  /\ MaxCrashes \in Nat

VARIABLES
  step,     \* where each worker is
  batch,    \* Deliveries left in its pass, the current one first
  claimId,  \* claim it acquired on the current one
  turns,    \* turns App Server has started for each Delivery
  onWire,   \* requests that nobody waits for and App Server may still take
  ahead,    \* Deliveries queued before each one in its lane when it joined
  faults,   \* failures so far
  crashes   \* crashes so far

workerVars == <<step, batch, claimId>>
history    == <<turns, onWire, ahead>>
budget     == <<faults, crashes>>
vars       == <<ledgerVars, workerVars, history, budget>>

Steps ==
  {"down", "idle", "examine", "claim", "recheck", "renew", "decide", "begin",
   "start", "record", "uncertain", "fail", "release"}

TypeOK ==
  /\ LedgerTypeOK
  /\ step \in [Worker -> Steps]
  /\ batch \in [Worker -> SUBSET Delivery]
  /\ claimId \in [Worker -> Nat]
  /\ turns \in [Delivery -> Nat]
  /\ onWire \subseteq Delivery
  /\ ahead \in [Delivery -> SUBSET Delivery]
  /\ faults \in Nat
  /\ crashes \in Nat

Init ==
  /\ LedgerInit
  /\ step = [w \in Worker |-> "down"]
  /\ batch = [w \in Worker |-> {}]
  /\ claimId = [w \in Worker |-> 0]
  /\ turns = [d \in Delivery |-> 0]
  /\ onWire = {}
  /\ ahead = [d \in Delivery |-> {}]
  /\ faults = 0
  /\ crashes = 0

-----------------------------------------------------------------------------
(* Senders, operators, time                                                *)

\* The Deliveries a newcomer of this lane must not overtake.
QueuedBefore(d) == {e \in Delivery : e < d /\ LaneOf[e] = LaneOf[d] /\ Queued(e)}

\* routePeerMessage with a scheduled wake policy and an expiry to come.
Send(d) ==
  /\ clock < Expiry[d]
  /\ Commit(d, "admitted", "scheduled")
  /\ ahead' = [ahead EXCEPT ![d] = QueuedBefore(d)]
  /\ UNCHANGED <<workerVars, turns, onWire, budget>>

PrepareTeam ==
  /\ CommitTeam({})
  /\ UNCHANGED <<workerVars, history, budget>>

SendTeam(d) ==
  /\ clock < Expiry[d]
  /\ ScheduleTeam(d)
  /\ ahead' = [ahead EXCEPT ![d] = QueuedBefore(d)]
  /\ UNCHANGED <<workerVars, turns, onWire, budget>>

CancelCommand(d) ==
  /\ \E t \in CallTimes : Cancel(d, t)
  /\ UNCHANGED <<workerVars, history, budget>>

\* A bug the checks must catch: any turn of the target counts as the turn of
\* this message.
ReconcileByAnyTurn(d) ==
  /\ d \in Direct
  /\ \/ ledger[d].state = "scheduled" /\ ledger[d].attempts = 1
     \/ ledger[d].state = "unknown"
  /\ \E state \in {"turn_started", "unknown"} :
       AppendEvidence(d, ledger[d].attempts, state, FALSE)
  /\ UNCHANGED <<workerVars, history, budget>>

\* reconcileRouteDelivery: of a Delivery that is dispatching or unknown.  The
\* inspection finds the turn only if there is one, and may miss it.
Reconcile(d) ==
  /\ d \in Direct
  /\ \/ ledger[d].state = "scheduled" /\ ledger[d].attempts = 1
     \/ ledger[d].state = "unknown"
  /\ \E state \in {"turn_started", "unknown"} :
       /\ state = "turn_started" => turns[d] > 0
       /\ AppendEvidence(d, ledger[d].attempts, state, FALSE)
  /\ UNCHANGED <<workerVars, history, budget>>

PassTime ==
  /\ Tick
  /\ UNCHANGED <<workerVars, history, budget>>

-----------------------------------------------------------------------------
(* A pass                                                                  *)

Goto(w, next) ==
  /\ step' = [step EXCEPT ![w] = next]
  /\ UNCHANGED <<batch, claimId>>

Current(w) == Min(batch[w])
At(w, d, here) == step[w] = here /\ d = Current(w)

\* On to the next Delivery of the pass, or to the end of the pass.
Advance(w) ==
  LET rest == batch[w] \ {Current(w)} IN
  /\ batch' = [batch EXCEPT ![w] = rest]
  /\ step' = [step EXCEPT ![w] = IF rest = {} THEN "idle" ELSE "examine"]
  /\ claimId' = [claimId EXCEPT ![w] = 0]

\* An exception leaves runSchedulerPass; the worker starts over.
Abort(w) ==
  /\ batch' = [batch EXCEPT ![w] = {}]
  /\ step' = [step EXCEPT ![w] = "idle"]
  /\ claimId' = [claimId EXCEPT ![w] = 0]

Expired(d) == Expiry[d] <= clock

\* A bug the checks must catch: claimed Deliveries are set aside before the
\* first one of each lane is taken.
UnclaimedHeads ==
  LET free == {d \in Delivery : Queued(d) /\ ~HasLiveClaim(d, clock)}
  IN  {d \in free : \A e \in free : LaneOf[e] = LaneOf[d] => d <= e}

Heads == {d \in Delivery : Queued(d) /\ \A e \in Delivery :
            Queued(e) /\ LaneOf[e] = LaneOf[d] => d <= e}

\* eligibleScheduledDeliveries; expired heads need no trigger.
Snapshot(w) ==
  /\ step[w] = "idle"
  /\ \E triggered \in SUBSET Heads :
       LET ready == {d \in Heads :
             (d \in triggered \/ Expired(d)) /\ ~HasLiveClaim(d, clock)}
       IN  /\ ready # {}
           /\ batch' = [batch EXCEPT ![w] = ready]
           /\ step' = [step EXCEPT ![w] = "examine"]
  /\ UNCHANGED <<ledgerVars, claimId, history, budget>>

\* Evidence of worker w on d: the pass goes on, or a refused event ends it.
Write(w, d, a, state) ==
  /\ IF EvidenceFits(d, a, state, state = "turn_started")
       THEN AppendEvidence(d, a, state, state = "turn_started") /\ Advance(w)
       ELSE Abort(w) /\ UNCHANGED ledgerVars
  /\ UNCHANGED <<history, budget>>

Expire(w, d) ==
  /\ At(w, d, "examine")
  /\ Expired(d)
  /\ Write(w, d, 0, "expired")

\* Trigger, identity or external writer block it, or the target is busy.
Skip(w, d) ==
  /\ At(w, d, "examine")
  /\ ~Expired(d)
  /\ Advance(w)
  /\ UNCHANGED <<ledgerVars, history, budget>>

\* The session of the target is gone, or has another thread.
TargetGone(w, d) ==
  /\ At(w, d, "examine")
  /\ ~Expired(d)
  /\ IF d \in TeamCast
       THEN Advance(w) /\ UNCHANGED <<ledgerVars, history, budget>>
       ELSE Write(w, d, 0, "unknown")

Eligible(w, d) ==
  /\ At(w, d, "examine")
  /\ ~Expired(d)
  /\ ledger[d].claimCount < MaxClaims
  /\ Goto(w, "claim")
  /\ UNCHANGED <<ledgerVars, history, budget>>

\* The clock of a worker does not go back: it reads its calls' times after the
\* one its own claim started from.
OwnTimes(w, d) ==
  {t \in CallTimes : HoldsClaim(d, w, claimId[w]) => ledger[d].claim.from <= t}

AcquireClaim(w, d) ==
  /\ At(w, d, "claim")
  /\ \E t \in CallTimes : Acquire(d, w, t)
  /\ claimId' = [claimId EXCEPT ![w] = ledger[d].claimCount + 1]
  /\ step' = [step EXCEPT ![w] = "recheck"]
  /\ UNCHANGED <<batch, history, budget>>

\* Somebody else holds the claim, or the Delivery is no longer claimable.
ClaimRefused(w, d) ==
  /\ At(w, d, "claim")
  /\ IF Queued(d)
       THEN (\E t \in CallTimes : HasLiveClaim(d, t)) /\ Advance(w)
       ELSE Abort(w)
  /\ UNCHANGED <<ledgerVars, history, budget>>

\* After the claim: still eligible and idle; no longer eligible or busy; or
\* the target, the body or the connection fails.
Recheck(w, d) ==
  /\ At(w, d, "recheck")
  /\ \E next \in {"renew", "release", "fail"} : Goto(w, next)
  /\ UNCHANGED <<ledgerVars, history, budget>>

RenewClaim(w, d) ==
  /\ At(w, d, "renew")
  /\ \E t \in OwnTimes(w, d) : Renew(d, w, claimId[w], t)
  /\ Goto(w, "decide")
  /\ UNCHANGED <<history, budget>>

\* ECLAIMLOST.
ClaimLost(w, d) ==
  /\ At(w, d, "renew")
  /\ \E t \in OwnTimes(w, d) : ~CanRenew(d, w, claimId[w], t)
  /\ Advance(w)
  /\ UNCHANGED <<ledgerVars, history, budget>>

Allow(w, d) ==
  /\ At(w, d, "decide")
  /\ Goto(w, "begin")
  /\ UNCHANGED <<ledgerVars, history, budget>>

\* Inbound Policy denies; refused evidence is an error like any other.
Deny(w, d) ==
  /\ At(w, d, "decide")
  /\ IF EvidenceFits(d, 0, "policy_denied", FALSE)
       THEN AppendEvidence(d, 0, "policy_denied", FALSE) /\ Advance(w)
       ELSE Goto(w, "fail") /\ UNCHANGED ledgerVars
  /\ UNCHANGED <<history, budget>>

BeginAttempt(w, d) ==
  /\ At(w, d, "begin")
  /\ \E t \in OwnTimes(w, d) : BeginScheduled(d, w, claimId[w], t)
  /\ Goto(w, "start")
  /\ UNCHANGED <<history, budget>>

BeginRefused(w, d) ==
  /\ At(w, d, "begin")
  /\ \E t \in OwnTimes(w, d) : ~CanBeginScheduled(d, w, claimId[w], t)
  /\ Goto(w, "fail")
  /\ UNCHANGED <<ledgerVars, history, budget>>

TakeTurn(d) == turns' = [turns EXCEPT ![d] = @ + 1]

\* A bug the checks must catch: after a lost answer the request is repeated.
StartTurnAgain(w, d) ==
  /\ At(w, d, "start")
  /\ (Goto(w, "record") \/ UNCHANGED workerVars) /\ TakeTurn(d)
  /\ UNCHANGED <<ledgerVars, onWire, ahead, budget>>

\* turn/start: taken, with or without the answer getting through; refused; or
\* no answer, and not taken yet.
StartTurn(w, d) ==
  /\ At(w, d, "start")
  /\ \/ (Goto(w, "record") \/ Goto(w, "uncertain")) /\ TakeTurn(d) /\ UNCHANGED onWire
     \/ Goto(w, "uncertain") /\ UNCHANGED <<turns, onWire>>
     \/ Goto(w, "uncertain") /\ onWire' = onWire \cup {d} /\ UNCHANGED turns
  /\ UNCHANGED <<ledgerVars, ahead, budget>>

\* App Server takes a request after the worker has given it up.
LateTurn(d) ==
  /\ d \in onWire
  /\ onWire' = onWire \ {d}
  /\ TakeTurn(d)
  /\ UNCHANGED <<ledgerVars, workerVars, ahead, budget>>

\* Refused evidence is caught once, and recorded as uncertain.
RecordStarted(w, d) ==
  /\ At(w, d, "record")
  /\ IF EvidenceFits(d, 1, "turn_started", TRUE)
       THEN AppendEvidence(d, 1, "turn_started", TRUE) /\ Advance(w)
       ELSE Goto(w, "uncertain") /\ UNCHANGED ledgerVars
  /\ UNCHANGED <<history, budget>>

RecordUncertain(w, d) ==
  /\ At(w, d, "uncertain")
  /\ Write(w, d, 1, "unknown")

ReleaseClaim(w, d) ==
  /\ \E t \in OwnTimes(w, d) :
       IF CanRelease(d, w, claimId[w], t)
         THEN Release(d, w, claimId[w], t) /\ Advance(w)
         ELSE Abort(w) /\ UNCHANGED ledgerVars
  /\ UNCHANGED <<history, budget>>

\* An error before the attempt: a Team Cast Delivery goes back to the queue.
FailDispatch(w, d) ==
  /\ At(w, d, "fail")
  /\ IF d \in TeamCast THEN ReleaseClaim(w, d) ELSE Write(w, d, 0, "unknown")

GiveBack(w, d) ==
  /\ At(w, d, "release")
  /\ ReleaseClaim(w, d)

\* Bound on failures and crashes: they come early enough for the leases they
\* leave behind to end before the clock stops.
LeasesEnd == \A d \in Delivery : ~HasLiveClaim(d, MaxTime)

\* The Ledger or the connection fails.  Errors between the claim and the
\* outcome go to the handler of dispatchScheduledDelivery.
Fault(w, d) ==
  /\ faults < MaxFaults
  /\ LeasesEnd
  /\ faults' = faults + 1
  /\ \/ At(w, d, "examine") /\ Abort(w)
     \/ At(w, d, "claim") /\ Abort(w)
     \/ At(w, d, "renew") /\ Goto(w, "fail")
     \/ At(w, d, "decide") /\ Goto(w, "fail")
     \/ At(w, d, "begin") /\ Goto(w, "fail")
     \/ At(w, d, "record") /\ Goto(w, "uncertain")
     \/ At(w, d, "uncertain") /\ Abort(w)
     \/ At(w, d, "fail") /\ Abort(w)
     \/ At(w, d, "release") /\ Abort(w)
  /\ UNCHANGED <<ledgerVars, history, crashes>>

Start(w) ==
  /\ step[w] = "down"
  /\ Goto(w, "idle")
  /\ UNCHANGED <<ledgerVars, history, budget>>

Crash(w) ==
  /\ step[w] # "down"
  /\ crashes < MaxCrashes
  /\ LeasesEnd
  /\ crashes' = crashes + 1
  /\ step' = [step EXCEPT ![w] = "down"]
  /\ batch' = [batch EXCEPT ![w] = {}]
  /\ claimId' = [claimId EXCEPT ![w] = 0]
  /\ UNCHANGED <<ledgerVars, history, faults>>

-----------------------------------------------------------------------------

Dispatch(w, d) ==
  \/ Expire(w, d)
  \/ Skip(w, d)
  \/ TargetGone(w, d)
  \/ Eligible(w, d)
  \/ AcquireClaim(w, d)
  \/ ClaimRefused(w, d)
  \/ Recheck(w, d)
  \/ RenewClaim(w, d)
  \/ ClaimLost(w, d)
  \/ Allow(w, d)
  \/ Deny(w, d)
  \/ BeginAttempt(w, d)
  \/ BeginRefused(w, d)
  \/ StartTurn(w, d)
  \/ RecordStarted(w, d)
  \/ RecordUncertain(w, d)
  \/ FailDispatch(w, d)
  \/ GiveBack(w, d)

WorkerStep(w) ==
  \/ Snapshot(w)
  \/ \E d \in batch[w] : Dispatch(w, d)

Next ==
  \/ \E d \in Delivery : Send(d) \/ SendTeam(d) \/ CancelCommand(d) \/ Reconcile(d)
  \/ PrepareTeam
  \/ PassTime
  \/ \E d \in Delivery : LateTurn(d)
  \/ \E w \in Worker :
       \/ WorkerStep(w)
       \/ \E d \in batch[w] : Fault(w, d)
       \/ Start(w)
       \/ Crash(w)

Spec == Init /\ [][Next]_vars

(* Time passes; a worker that runs keeps polling, and each await of a      *)
(* dispatch returns or throws; the operator starts a stopped worker again. *)
(* Nothing is assumed of the App Server: a trigger may never become ready, *)
(* a target never idle, a request never be accepted.                       *)
Fairness ==
  /\ WF_vars(PassTime)
  /\ \A w \in Worker : WF_vars(WorkerStep(w)) /\ WF_vars(Start(w))

LiveSpec == Spec /\ Fairness

-----------------------------------------------------------------------------
(* Properties                                                              *)

\* App Server never starts two turns for one Delivery, however workers crash,
\* overlap, lose their leases or lose answers: claims are fenced by the
\* attempt on record, and an uncertain result is never replayed.
AtMostOneTurn == \A d \in Delivery : turns[d] <= 1

\* A lane is FIFO: an attempt begins only when every Delivery that was already
\* queued before this one in its lane has left the queue, although passes
\* work on snapshots and triggers become ready in any order.
LaneIsFifo ==
  [][\A d \in Delivery :
       ledger'[d].attempts > ledger[d].attempts => \A e \in ahead[d] : ~Queued(e)]_vars

\* A worker that lost its lease stops with zero attempts: whoever is about to
\* send turn/start began the one attempt on record under its own claim, which
\* is still the one on record.
StartsUnderOwnClaim ==
  \A w \in Worker : step[w] = "start" =>
    LET d == Current(w) IN
    /\ ledger[d].attempts = 1
    /\ HoldsClaim(d, w, claimId[w])
    /\ turns[d] = 0

\* Workers are fenced: however they overlap, and whoever's lease ends, the
\* records keep their types and nobody starts a turn for another one's claim.
WorkersAreFenced == TypeOK /\ StartsUnderOwnClaim

\* An expired Team Cast Delivery whose claim lapsed but is still on record:
\* its "expired" evidence is refused, the exception ends the pass, and so does
\* every later pass that comes to it.
Wedges(d) ==
  /\ d \in TeamCast
  /\ Queued(d)
  /\ Expired(d)
  /\ ledger[d].claim # NoClaim

\* Every scheduled Delivery leaves the queue: it is dispatched, cancelled,
\* denied, uncertain or expired, whatever its trigger and target do, and also
\* when workers die holding a claim.  Excepted is exactly what the wedge of an
\* older Team Cast Delivery, in whatever lane, keeps waiting for ever
\* (delivery-ledger.js:1919-1925 with scheduler.js:668).
QueueDrains ==
  \A d \in Delivery :
    <>[]Queued(d) => <>[](\E e \in TeamCast : e <= d /\ Wedges(e))

-----------------------------------------------------------------------------
(* The promise this protocol implements                                    *)

report ==
  [d \in Delivery |->
    CASE ledger[d].state = "turn_started" -> "started"
      [] ledger[d].state \in {"expired", "cancelled", "policy_denied"} -> "notStarted"
      [] ledger[d].state = "unknown" -> "uncertain"
      [] OTHER -> "open"]

Promise == INSTANCE DeliveryPromise
  WITH started <- [d \in Delivery |-> turns[d] > 0], report <- report

\* The dispatch protocol implements DeliveryPromise.
KeepsPromise == Promise!Spec
=============================================================================
