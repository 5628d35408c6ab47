---------------------------- MODULE DeliveryLedger ----------------------------
(***************************************************************************)
(* The Delivery Ledger of src/delivery-ledger.js: the operations on one    *)
(* Delivery record, each of which runs under the Ledger lock, validates    *)
(* its event against the projected record (applyDeliveryEvent), appends it *)
(* and updates the index.  Here each operation is one action; a call that  *)
(* throws changes nothing and is not a step.                               *)
(*                                                                         *)
(* A Delivery is one recipient of one Logical Message, numbered in the     *)
(* order of (createdAt, messageId).  Those in TeamCast are the recipients  *)
(* of one Team Cast batch, those in Group of one Group batch, all on Codex *)
(* nodes; every other one is the only Delivery of a direct message.        *)
(*                                                                         *)
(* The caller of an operation reads the time before it waits for the       *)
(* Ledger lock, so the time t that an operation uses may be up to LockWait *)
(* behind the clock when it runs.                                          *)
(***************************************************************************)
EXTENDS Integers, FiniteSets

CONSTANTS
  Delivery,     \* Deliveries, numbered
  TeamCast,     \* those of the Team Cast batch
  Group,        \* those of the Group batch
  Lane,         \* target threads
  LaneOf,       \* the target thread of every Delivery
  Worker,       \* scheduler workers
  NoWorker,     \* holder of no claim
  QueueLimit,   \* pending scheduled Deliveries a lane may have
  LeaseLength,  \* lease of a claim
  LockWait,     \* longest wait for the Ledger lock
  MaxTime,      \* bound: the clock stops here, and a lease that reaches
                \*   beyond it is not renewed again
  MaxClaims     \* bound: claims ever acquired on one Delivery

ASSUME LedgerAssumptions ==
  /\ Delivery \subseteq Nat /\ IsFiniteSet(Delivery)
  /\ TeamCast \subseteq Delivery
  /\ Group \subseteq Delivery \ TeamCast
  /\ LaneOf \in [Delivery -> Lane]
  /\ NoWorker \notin Worker
  /\ QueueLimit \in Nat \ {0}
  /\ LeaseLength \in Nat \ {0}
  /\ LockWait \in Nat
  /\ MaxTime \in Nat
  /\ MaxClaims \in Nat

Direct == Delivery \ (TeamCast \cup Group)

VARIABLES
  ledger,  \* the projected record of every Delivery
  clock    \* wall clock

ledgerVars == <<ledger, clock>>

NoClaim == [worker |-> NoWorker, id |-> 0, from |-> 0, until |-> 0]

\* No batch with this Delivery has been committed.
Absent ==
  [admission |-> "none", wake |-> "none", state |-> "absent",
   attempts |-> 0, claim |-> NoClaim, claimCount |-> 0, evidence |-> {}]

States ==
  {"absent", "created", "scheduled", "prepared", "denied",
   "turn_started", "retryable", "failed", "unknown", "expired",
   "cancelled", "policy_denied"}

Claim ==
  [worker : Worker \cup {NoWorker}, id : Nat, from : Nat, until : Nat]

\* evidence holds <<attempt, state>>; attempts are numbered from 1, and 0 is
\* the null attempt.
Record ==
  [admission  : {"none", "admitted", "quarantined", "denied"},
   wake       : {"none", "immediate", "scheduled", "store-only"},
   state      : States,
   attempts   : 0..2,
   claim      : Claim,
   claimCount : Nat,
   evidence   : SUBSET ((0..2) \X States)]

LedgerTypeOK ==
  /\ ledger \in [Delivery -> Record]
  /\ clock \in Nat

LedgerInit ==
  /\ ledger = [d \in Delivery |-> Absent]
  /\ clock = 0

-----------------------------------------------------------------------------
(* Helpers                                                                 *)

CallTimes == {t \in 0..clock : t + LockWait >= clock}

Put(d, record) == ledger' = [ledger EXCEPT ![d] = record]

\* A bug the checks must catch: a claim outlives its lease.
HasClaim(d, t) == ledger[d].claim # NoClaim

\* Scheduled, and still without an attempt; a scheduler takes the admitted
\* ones.
Pending(d) ==
  /\ ledger[d].wake = "scheduled"
  /\ ledger[d].state = "scheduled"
  /\ ledger[d].attempts = 0

Queued(d) == Pending(d) /\ ledger[d].admission = "admitted"

HasLiveClaim(d, t) == ledger[d].claim # NoClaim /\ ledger[d].claim.until > t

HoldsClaim(d, w, id) ==
  ledger[d].claim # NoClaim /\ ledger[d].claim.worker = w /\ ledger[d].claim.id = id

\* The length commitSingleRecipientDelivery compares with the limit: it looks
\* at message.delivery, of a Team Cast only the first recipient.
CountedLength(lane) ==
  Cardinality({d \in Delivery :
    Queued(d) /\ LaneOf[d] = lane
      /\ (d \in TeamCast => \A e \in TeamCast : d <= e)})

-----------------------------------------------------------------------------
(* Commits                                                                 *)

\* The committed record.  A repeated commit returns the existing one.
Committed(admission, wake, state) ==
  [Absent EXCEPT !.admission = admission, !.wake = wake,
                 !.state = IF admission = "denied" THEN "denied" ELSE state]

Commit(d, admission, wake) ==
  /\ d \in Direct
  /\ ledger[d] = Absent
  /\ wake = "scheduled" => CountedLength(LaneOf[d]) < QueueLimit
  /\ Put(d, Committed(admission, wake,
                      IF wake = "immediate" THEN "created" ELSE "scheduled"))
  /\ UNCHANGED clock

\* One record holds all Deliveries of a batch; refused are the recipients
\* whose Inbound Policy denied the sender.
CommitBatch(batch, refused, wake, state) ==
  /\ batch # {}
  /\ \A d \in batch : ledger[d] = Absent
  /\ ledger' = [d \in Delivery |->
       IF d \in batch
         THEN Committed(IF d \in refused THEN "denied" ELSE "admitted", wake, state)
         ELSE ledger[d]]
  /\ UNCHANGED clock

CommitTeam(refused)  == CommitBatch(TeamCast, refused, "immediate", "prepared")
CommitGroup(refused) == CommitBatch(Group, refused, "store-only", "scheduled")

\* A recipient of the Team Cast was busy: its Delivery joins its lane.
ScheduleTeam(d) ==
  /\ d \in TeamCast
  /\ ledger[d].state = "prepared"
  /\ ledger[d].attempts = 0
  /\ Cardinality({e \in Delivery : Pending(e) /\ LaneOf[e] = LaneOf[d]}) < QueueLimit
  /\ Put(d, [ledger[d] EXCEPT !.wake = "scheduled", !.state = "scheduled"])
  /\ UNCHANGED clock

-----------------------------------------------------------------------------
(* Claims of the Scheduler                                                 *)

\* A bug the checks must catch: a live claim is no obstacle.
AcquireOverLiveClaim(d, w, t) ==
  /\ Queued(d)
  /\ ledger[d].claimCount < MaxClaims
  /\ Put(d, [ledger[d] EXCEPT
       !.claim = [worker |-> w, id |-> ledger[d].claimCount + 1,
                  from |-> t, until |-> t + LeaseLength],
       !.claimCount = @ + 1])
  /\ UNCHANGED clock

Acquire(d, w, t) ==
  /\ Queued(d)
  /\ ~HasLiveClaim(d, t)
  /\ ledger[d].claimCount < MaxClaims
  /\ Put(d, [ledger[d] EXCEPT
       !.claim = [worker |-> w, id |-> ledger[d].claimCount + 1,
                  from |-> t, until |-> t + LeaseLength],
       !.claimCount = @ + 1])
  /\ UNCHANGED clock

CanRenew(d, w, id, t) ==
  /\ ledger[d].state = "scheduled"
  /\ ledger[d].attempts = 0
  /\ HoldsClaim(d, w, id)
  /\ ledger[d].claim.from <= t
  /\ t < ledger[d].claim.until

Renew(d, w, id, t) ==
  /\ CanRenew(d, w, id, t)
  /\ LET old == ledger[d].claim.until
         new == t + LeaseLength
     IN  Put(d, [ledger[d] EXCEPT !.claim =
           [worker |-> w, id |-> id, from |-> t,
            until |-> IF new > old THEN new ELSE old + 1]])
  /\ UNCHANGED clock

\* Releasing where there is no claim succeeds and changes nothing.
CanRelease(d, w, id, t) ==
  \/ ledger[d].claim = NoClaim
  \/ /\ HoldsClaim(d, w, id)
     /\ ledger[d].state = "scheduled"
     /\ ledger[d].attempts = 0
     /\ ledger[d].claim.from <= t

Release(d, w, id, t) ==
  /\ CanRelease(d, w, id, t)
  /\ Put(d, [ledger[d] EXCEPT !.claim = NoClaim])
  /\ UNCHANGED clock

-----------------------------------------------------------------------------
(* Attempts                                                                *)

AddAttempt(d) ==
  /\ Put(d, [ledger[d] EXCEPT !.attempts = @ + 1])
  /\ UNCHANGED clock

BeginImmediate(d) ==
  /\ d \in Direct
  /\ ledger[d].admission = "admitted"
  /\ ledger[d].state = "created"
  /\ ledger[d].attempts = 0
  /\ AddAttempt(d)

BeginRetry(d) ==
  /\ d \in Direct
  /\ ledger[d].admission = "admitted"
  /\ ledger[d].state = "retryable"
  /\ ledger[d].attempts = 1
  /\ AddAttempt(d)

BeginTeam(d) ==
  /\ d \in TeamCast
  /\ ledger[d].state = "prepared"
  /\ ledger[d].attempts = 0
  /\ AddAttempt(d)

\* Bugs the checks must catch: an attempt without the claim, or behind one.
CanBeginUnclaimed(d, w, id, t) == Queued(d)

CanBeginTwice(d, w, id, t) ==
  /\ ledger[d].wake = "scheduled"
  /\ ledger[d].state = "scheduled"
  /\ ledger[d].admission = "admitted"
  /\ HoldsClaim(d, w, id)
  /\ ledger[d].attempts < 2

CanBeginScheduled(d, w, id, t) ==
  /\ Queued(d)
  /\ HoldsClaim(d, w, id)
  /\ ledger[d].claim.from <= t
  /\ t < ledger[d].claim.until

BeginScheduled(d, w, id, t) ==
  /\ CanBeginScheduled(d, w, id, t)
  /\ AddAttempt(d)

-----------------------------------------------------------------------------
(* Evidence                                                                *)

\* A bug the checks must catch: a late answer revives an expired Delivery.
SuccessorsWithRevival ==
  [created      |-> {"turn_started", "retryable", "unknown"},
   scheduled    |-> {"turn_started", "unknown", "expired", "cancelled", "policy_denied"},
   retryable    |-> {"turn_started", "failed", "unknown", "expired", "policy_denied"},
   unknown      |-> {"turn_started", "unknown"},
   turn_started |-> {"turn_started"},
   expired      |-> {"expired", "turn_started"},
   cancelled    |-> {"cancelled"}]

\* The states evidence may lead to from each state of a direct Delivery.
Successors ==
  [created      |-> {"turn_started", "retryable", "unknown"},
   scheduled    |-> {"turn_started", "unknown", "expired", "cancelled", "policy_denied"},
   retryable    |-> {"turn_started", "failed", "unknown", "expired", "policy_denied"},
   unknown      |-> {"turn_started", "unknown"},
   turn_started |-> {"turn_started"},
   expired      |-> {"expired"},
   cancelled    |-> {"cancelled"}]

DirectEvidenceFits(d, a, state) ==
  LET r == ledger[d] IN
  /\ d \in Direct
  /\ r.admission = "admitted"
  /\ r.state \in DOMAIN Successors
  /\ state \in Successors[r.state]
  /\ a <= r.attempts
  /\ state \in {"retryable", "failed"} => a # 0
  /\ state \in {"expired", "cancelled", "policy_denied"} => a = 0
  /\ state = "retryable" => r.attempts = 1
  /\ state = "failed" => r.attempts = 2
  /\ state = "expired" /\ r.wake = "immediate" => r.attempts = 1
  /\ state = "policy_denied" =>
       \/ r.state = "retryable" /\ r.attempts = 1
       \/ r.state = "scheduled" /\ r.attempts = 0 /\ r.claim # NoClaim

\* validTeamEvidence accepts "unknown" only with a transport result, which
\* the caller may not have.
TeamEvidenceFits(d, a, state, hasResult) ==
  LET r == ledger[d] IN
  /\ d \in TeamCast
  /\ r.state \in {"prepared", "scheduled"}
  /\ \/ /\ state = "expired"
        /\ a = 0 /\ r.attempts = 0
        /\ r.state = "scheduled" /\ r.claim = NoClaim
     \/ /\ state = "policy_denied"
        /\ a = 0 /\ r.attempts = 0
        /\ (r.state = "scheduled") = (r.claim # NoClaim)
     \/ /\ state \in {"turn_started", "failed", "unknown"}
        /\ a = 1 /\ r.attempts = 1
        /\ state = "unknown" => hasResult

\* A Group Delivery is only stored; an operator settles it.
GroupEvidenceFits(d, a, state) ==
  /\ d \in Group
  /\ ledger[d].state = "scheduled"
  /\ a = 0
  /\ state \in {"failed", "expired", "cancelled"}

EvidenceFits(d, a, state, hasResult) ==
  \/ DirectEvidenceFits(d, a, state)
  \/ TeamEvidenceFits(d, a, state, hasResult)
  \/ GroupEvidenceFits(d, a, state)

\* Evidence of a Team Cast always ends the claim, direct evidence only
\* together with a policy denial.
AppendEvidence(d, a, state, hasResult) ==
  /\ EvidenceFits(d, a, state, hasResult)
  /\ Put(d, [ledger[d] EXCEPT
       !.state = state,
       !.evidence = @ \cup {<<a, state>>},
       !.claim = IF d \in TeamCast \/ state = "policy_denied" THEN NoClaim ELSE @])
  /\ UNCHANGED clock

\* A bug the checks must catch: only the claim is looked at, not the attempt.
CancelUnclaimed(d, t) ==
  /\ d \in Direct
  /\ ledger[d].state = "scheduled"
  /\ ~HasLiveClaim(d, t)
  /\ AppendEvidence(d, 0, "cancelled", FALSE)

Cancel(d, t) ==
  /\ d \in Direct
  /\ Queued(d)
  /\ ~HasLiveClaim(d, t)
  /\ AppendEvidence(d, 0, "cancelled", FALSE)

-----------------------------------------------------------------------------

Tick ==
  /\ clock < MaxTime
  /\ clock' = clock + 1
  /\ UNCHANGED ledger

(* Any process may call any operation at any time, with a claim or an      *)
(* attempt of its own or of somebody else.  Only the cancellation of a     *)
(* direct Delivery has one writer, cancelScheduledDelivery.                *)

CommitSome(d) ==
  \E admission \in {"admitted", "quarantined", "denied"},
     wake \in {"immediate", "scheduled"} : Commit(d, admission, wake)

ClaimCall(d) ==
  \E w \in Worker, t \in CallTimes :
    \/ Acquire(d, w, t)
    \/ \E id \in 1..MaxClaims :
         \/ ledger[d].claim.until <= MaxTime /\ Renew(d, w, id, t)
         \/ Release(d, w, id, t)
         \/ BeginScheduled(d, w, id, t)

BeginCall(d) == BeginImmediate(d) \/ BeginRetry(d) \/ BeginTeam(d)

EvidenceCall(d) ==
  \/ \E t \in CallTimes : Cancel(d, t)
  \/ \E a \in 0..2, state \in States, hasResult \in BOOLEAN :
       /\ d \in Direct => state # "cancelled"
       /\ AppendEvidence(d, a, state, hasResult)

LedgerNext ==
  \/ \E d \in Delivery :
       CommitSome(d) \/ ScheduleTeam(d) \/ ClaimCall(d) \/ BeginCall(d) \/ EvidenceCall(d)
  \/ \E refused \in SUBSET TeamCast : CommitTeam(refused)
  \/ \E refused \in SUBSET Group : CommitGroup(refused)
  \/ Tick

LedgerSpec == LedgerInit /\ [][LedgerNext]_ledgerVars

-----------------------------------------------------------------------------
(* Properties                                                              *)

\* An attempt is only ever on record for an admitted Delivery, a scheduled or
\* Team Cast Delivery has at most one, and the second one of a direct send
\* follows negative-acceptance evidence of the first: whatever the callers
\* do, no Delivery is replayed (beginImmediateDelivery, beginRetryDelivery,
\* beginScheduledDelivery, beginTeamCastRecipientDelivery).
AttemptsAreJustified ==
  \A d \in Delivery :
    /\ ledger[d].attempts > 0 => ledger[d].admission = "admitted"
    /\ ledger[d].attempts = 2 =>
         ledger[d].wake = "immediate" /\ <<1, "retryable">> \in ledger[d].evidence

\* A cancelled Delivery, and one denied by policy, was never attempted, or
\* its only attempt was proved not accepted.
NoAttemptBehindRefusal ==
  \A d \in Delivery :
    ledger[d].state \in {"cancelled", "policy_denied", "denied"} =>
      \/ ledger[d].attempts = 0
      \/ ledger[d].attempts = 1 /\ <<1, "retryable">> \in ledger[d].evidence

\* A claim is replaced by another one only after its lease: no call made with
\* an old time takes a Delivery from a worker that still may dispatch it
\* (claimScheduledDelivery against renewScheduledDeliveryClaim).
LeaseIsExclusive ==
  [][\A d \in Delivery :
       LET held == ledger[d].claim
           next == ledger'[d].claim
       IN  held # NoClaim /\ next # NoClaim /\ next.id # held.id
             => held.until <= clock]_ledgerVars

\* Once an outcome other than "unknown" is on record, it stays and nothing
\* more is attempted (applyDeliveryEvent).
Settled == {"turn_started", "failed", "expired", "cancelled", "policy_denied", "denied"}

OutcomeIsFinal ==
  [][\A d \in Delivery :
       ledger[d].state \in Settled =>
         /\ ledger'[d].state = ledger[d].state
         /\ ledger'[d].attempts = ledger[d].attempts]_ledgerVars
=============================================================================
