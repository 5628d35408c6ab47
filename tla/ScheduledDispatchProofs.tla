------------------------ MODULE ScheduledDispatchProofs ------------------------
(***************************************************************************)
(* Proofs about ScheduledDispatch for any Deliveries, lanes and workers,   *)
(* any leases, expiries and bounds.                                        *)
(*                                                                         *)
(* Who has an attempt under way holds the claim on record (WorkersSound),  *)
(* and once there is an attempt neither the claim nor the number of        *)
(* attempts changes before that worker has recorded its outcome.           *)
(* The order of a lane rests on this: a Delivery that has left the queue   *)
(* never comes back (NoReturn).                                            *)
(*                                                                         *)
(* The promise is kept by one worker (Alone).  A second one may call a     *)
(* Delivery expired that the first has sent.                               *)
(***************************************************************************)
EXTENDS ScheduledDispatch, DeliveryLedgerProofs

UnderWay(w) == step[w] \in {"start", "record", "uncertain"}

\* A scheduled Delivery is never created nor retryable.
StateSound(d) ==
  /\ ledger[d].state = "turn_started" => turns[d] > 0
  /\ ledger[d].state \notin {"created", "retryable"}

TurnsSound == \A d \in Delivery :
  /\ turns[d] <= 1 /\ (d \in onWire => turns[d] = 0)
  /\ turns[d] > 0 \/ d \in onWire => ledger[d].attempts > 0
  /\ StateSound(d)

WorkersSound == \A w \in Worker :
  /\ UnderWay(w) =>
       /\ Current(w) \in batch[w]
       /\ ledger[Current(w)].attempts = 1 /\ HoldsClaim(Current(w), w, claimId[w])
  /\ step[w] = "start" => turns[Current(w)] = 0 /\ Current(w) \notin onWire
  /\ step[w] = "record" => turns[Current(w)] > 0

\* A Delivery that was once in the queue, or beyond it.
Joined(d) == ledger[d].state \notin {"absent", "prepared"}

QueuesSound ==
  /\ \A d \in Delivery : \A e \in ahead[d] : Joined(e) /\ e < d /\ LaneOf[e] = LaneOf[d]
  /\ \A w \in Worker : \A d \in batch[w] :
       Joined(d) /\ \A e \in ahead[d] : ~Queued(e)

\* What a lone worker relies on besides.
Alone == \A v, w \in Worker : v = w

LoneSound ==
  /\ \A w \in Worker : \A d \in batch[w] :
       ledger[d].attempts = 0 \/ (UnderWay(w) /\ d = Current(w))
  /\ \A d \in Delivery :
       ledger[d].state \in {"expired", "cancelled", "policy_denied"} => ledger[d].attempts = 0

Workers ==
  /\ step \in [Worker -> Steps]
  /\ batch \in [Worker -> SUBSET Delivery]
  /\ claimId \in [Worker -> Nat]
  /\ turns \in [Delivery -> Nat]
  /\ onWire \subseteq Delivery
  /\ ahead \in [Delivery -> SUBSET Delivery]
  /\ faults \in Nat
  /\ crashes \in Nat

SInv ==
  /\ IInv
  /\ Workers
  /\ TurnsSound
  /\ WorkersSound
  /\ QueuesSound
  /\ Alone => LoneSound

-----------------------------------------------------------------------------
(* Steps that begin no attempt and send nothing                            *)

LEMMA SInvTypes ==
  ASSUME SInv
  PROVE  /\ IInv
         /\ \A d \in Delivery : ledger[d] \in Record /\ turns[d] \in Nat /\ d \in Nat
         /\ \A w \in Worker : \A d \in batch[w] : d \in Delivery
         /\ \A d \in Delivery : \A e \in ahead[d] : e \in Delivery
  BY RecordFields, LedgerAssumptions DEF SInv, Workers, IInv

Same(w) == step'[w] = step[w] /\ batch'[w] = batch[w] /\ claimId'[w] = claimId[w]

\* d has just been taken from the queue, as the first of its lane.
Picked(d) ==
  Joined(d) /\ ledger[d].attempts = 0 /\ \A e \in ahead[d] : ~Queued(e)

\* w is in no attempt after the step, and done with the one it was in.
Leaves(w) ==
  /\ ~UnderWay(w)'
  /\ \A d \in batch'[w] :
       \/ d \in batch[w] /\ (UnderWay(w) => d # Current(w))
       \/ d \in Delivery /\ Picked(d)

\* Nothing returns to the queue of d, and nothing is attempted.
NoReturn(d) ==
  /\ ledger'[d].attempts = ledger[d].attempts
  /\ Joined(d) => Joined(d)' /\ (Queued(d)' => Queued(d))

LEMMA SameWorks ==
  ASSUME NEW w \in Worker, Same(w)
  PROVE  (UnderWay(w)' <=> UnderWay(w)) /\ Current(w)' = Current(w)
  BY DEF Same, UnderWay, Current

LEMMA LeavingKeeps ==
  ASSUME SInv, IInv', Workers', UNCHANGED <<turns, onWire>>,
         \A w \in Worker : Same(w) \/ Leaves(w),
         \A d \in Delivery : NoReturn(d),
         \A w \in Worker : Same(w) /\ UnderWay(w) =>
           ledger'[Current(w)].claim = ledger[Current(w)].claim,
         \A d \in Delivery : StateSound(d)',
         Alone => \A d \in Delivery :
           ledger'[d].state \in {"expired", "cancelled", "policy_denied"} =>
             ledger[d].attempts = 0,
         \A d \in Delivery :
           \/ ahead'[d] = ahead[d]
           \/ /\ ~Joined(d)
              /\ \A e \in ahead'[d] : e \in Delivery /\ e < d /\ LaneOf[e] = LaneOf[d] /\ Queued(e)
  PROVE  SInv'
  <1> USE SInvTypes
  <1>1. TurnsSound'
    BY DEF SInv, TurnsSound, NoReturn
  <1>2. ASSUME NEW w \in Worker, UnderWay(w)'
        PROVE  Same(w) /\ UnderWay(w) /\ Current(w)' = Current(w) /\ Current(w) \in batch[w]
    <2>1. Same(w)
      BY <1>2 DEF Leaves
    <2>2. QED
      BY <1>2, <2>1, SameWorks DEF SInv, WorkersSound
  <1>3. WorkersSound'
    <2>1. ASSUME NEW w \in Worker, UnderWay(w)'
          PROVE  /\ Current(w)' \in batch'[w]
                 /\ ledger'[Current(w)'].attempts = 1 /\ HoldsClaim(Current(w), w, claimId[w])'
                 /\ step'[w] = "start" => turns'[Current(w)'] = 0 /\ Current(w)' \notin onWire'
                 /\ step'[w] = "record" => turns'[Current(w)'] > 0
      <3>1. Same(w) /\ UnderWay(w) /\ Current(w)' = Current(w) /\ Current(w) \in Delivery
        BY <1>2, <2>1
      <3>2. /\ ledger'[Current(w)].attempts = ledger[Current(w)].attempts
            /\ ledger'[Current(w)].claim = ledger[Current(w)].claim
        BY <3>1 DEF NoReturn
      <3>3. QED
        BY <3>1, <3>2 DEF SInv, WorkersSound, HoldsClaim, Same
    <2>2. QED
      BY <2>1 DEF WorkersSound, UnderWay
  <1>4. QueuesSound'
    <2>1. ASSUME NEW d \in Delivery, NEW e \in ahead'[d]
          PROVE  e \in Delivery /\ Joined(e) /\ Joined(e)' /\ e < d /\ LaneOf[e] = LaneOf[d]
      <3>1. e \in Delivery /\ Joined(e) /\ e < d /\ LaneOf[e] = LaneOf[d]
        BY DEF SInv, QueuesSound, Queued, Pending, Joined
      <3>2. QED
        BY <3>1 DEF NoReturn
    <2>2. ASSUME NEW w \in Worker, NEW d \in batch'[w]
          PROVE  Joined(d)' /\ \A e \in ahead'[d] : ~Queued(e)'
      <3>1. d \in Delivery /\ Joined(d) /\ \A e \in ahead[d] : ~Queued(e)
        BY DEF Same, Leaves, Picked, SInv, QueuesSound
      <3>2. Joined(d)' /\ ahead'[d] = ahead[d]
        BY <3>1 DEF NoReturn
      <3>3. QED
        BY <2>1, <3>1, <3>2 DEF NoReturn
    <2>3. QED
      BY <2>1, <2>2 DEF QueuesSound
  <1>5. Alone => LoneSound'
    <2> SUFFICES ASSUME Alone PROVE LoneSound'
      OBVIOUS
    <2>1. ASSUME NEW w \in Worker, NEW d \in batch'[w]
          PROVE  ledger'[d].attempts = 0 \/ (UnderWay(w)' /\ d = Current(w)')
      <3>1. CASE Same(w)
        BY <3>1, SameWorks DEF Same, SInv, LoneSound, NoReturn
      <3>2. CASE Leaves(w)
        BY <3>2 DEF Leaves, Picked, SInv, LoneSound, NoReturn
      <3>3. QED
        BY <3>1, <3>2
    <2>2. QED
      BY <2>1 DEF LoneSound, NoReturn
  <1>6. QED
    BY <1>1, <1>3, <1>4, <1>5 DEF SInv, Alone

-----------------------------------------------------------------------------
(* What a step does to the worker that takes it                            *)

WorkerTypes ==
  /\ step \in [Worker -> Steps]
  /\ batch \in [Worker -> SUBSET Delivery]
  /\ claimId \in [Worker -> Nat]

OthersSame(w) == \A v \in Worker \ {w} : Same(v)

LEMMA SInvWorkerTypes == SInv => WorkerTypes
  BY DEF SInv, Workers, WorkerTypes

LEMMA AdvanceLeaves ==
  ASSUME WorkerTypes, NEW w \in Worker, Advance(w)
  PROVE  WorkerTypes' /\ Leaves(w) /\ OthersSame(w)
  <1>1. WorkerTypes' /\ OthersSame(w)
    BY DEF WorkerTypes, Advance, Steps, OthersSame, Same
  <1>2. step'[w] \in {"idle", "examine"} /\ batch'[w] = batch[w] \ {Current(w)}
    BY DEF WorkerTypes, Advance
  <1>3. QED
    BY <1>1, <1>2 DEF Leaves, UnderWay

LEMMA AbortLeaves ==
  ASSUME WorkerTypes, NEW w \in Worker, Abort(w)
  PROVE  WorkerTypes' /\ Leaves(w) /\ OthersSame(w)
  <1>1. WorkerTypes' /\ OthersSame(w)
    BY DEF WorkerTypes, Abort, Steps, OthersSame, Same
  <1>2. step'[w] = "idle" /\ batch'[w] = {}
    BY DEF WorkerTypes, Abort
  <1>3. QED
    BY <1>1, <1>2 DEF Leaves, UnderWay

LEMMA GotoMoves ==
  ASSUME WorkerTypes, NEW w \in Worker, NEW next \in Steps, Goto(w, next)
  PROVE  /\ WorkerTypes' /\ OthersSame(w)
         /\ step'[w] = next /\ batch'[w] = batch[w] /\ claimId'[w] = claimId[w]
         /\ Current(w)' = Current(w)
  BY DEF WorkerTypes, Goto, OthersSame, Same, Current

LEMMA GotoLeaves ==
  ASSUME WorkerTypes, NEW w \in Worker, ~UnderWay(w),
         NEW next \in Steps \ {"start", "record", "uncertain"}, Goto(w, next)
  PROVE  WorkerTypes' /\ Leaves(w) /\ OthersSame(w)
  BY GotoMoves DEF Leaves, UnderWay

-----------------------------------------------------------------------------
(* What a step does to the Ledger                                          *)

Outcomes == {"turn_started", "unknown", "expired", "cancelled", "policy_denied"}

LEMMA EvidenceEffect ==
  ASSUME IInv, NEW d \in Delivery, NEW a \in 0..2, NEW state \in Outcomes,
         NEW hasResult \in BOOLEAN, state = "cancelled" => ledger[d].attempts = 0,
         AppendEvidence(d, a, state, hasResult)
  PROVE  /\ IInv'
         /\ \A e \in Delivery : NoReturn(e) /\ (e # d => ledger'[e] = ledger[e])
         /\ ledger'[d].state = state
         /\ d \notin TeamCast /\ state # "policy_denied" => ledger'[d].claim = ledger[d].claim
  <1>1. state \in States /\ EvidenceFits(d, a, state, hasResult)
    BY DEF Outcomes, States, AppendEvidence
  <1>2. IInv'
    BY <1>1, EvidenceKeeps
  <1> DEFINE c == IF d \in TeamCast \/ state = "policy_denied" THEN NoClaim ELSE ledger[d].claim
             v == ledger[d].evidence \cup {<<a, state>>}
             r == [ledger[d] EXCEPT !.state = state, !.evidence = v, !.claim = c]
  <1>3. Put(d, r)
    BY DEF AppendEvidence
  <1>4. \A e \in Delivery : ledger'[e] = IF e = d THEN r ELSE ledger[e]
    BY <1>3, PutOthers DEF IInv
  <1>5. ledger[d] \in Record
    BY RecordFields DEF IInv
  <1>6. r.state = state /\ r.attempts = ledger[d].attempts /\ r.claim = c
    BY <1>5 DEF Record
  <1> HIDE DEF r
  <1>7. \A e \in Delivery : NoReturn(e)
    BY <1>4, <1>6 DEF NoReturn, Joined, Queued, Pending, Outcomes
  <1>8. QED
    BY <1>2, <1>4, <1>6, <1>7

\* Claims are taken, renewed and given back before the attempt.
LEMMA ClaimEffect ==
  ASSUME IInv, NEW d \in Delivery, NEW w \in Worker, NEW t \in CallTimes, NEW id \in Nat,
         Acquire(d, w, t) \/ Renew(d, w, id, t) \/ Release(d, w, id, t)
  PROVE  /\ IInv'
         /\ \A e \in Delivery : NoReturn(e) /\ ledger'[e].state = ledger[e].state
         /\ \A e \in Delivery : ledger[e].attempts > 0 => ledger'[e].claim = ledger[e].claim
  <1>1. IInv'
    BY AcquireIInv, RenewIInv, ReleaseIInv
  <1>2. PICK c, n :
          /\ Put(d, [ledger[d] EXCEPT !.claim = c, !.claimCount = n])
          /\ ledger[d].attempts = 0 \/ c = ledger[d].claim
    <2>1. CASE Acquire(d, w, t)
      BY <2>1 DEF Acquire, Queued, Pending
    <2>2. CASE Renew(d, w, id, t)
      <3> DEFINE old == ledger[d].claim.until
                 until == IF t + LeaseLength > old THEN t + LeaseLength ELSE old + 1
                 lease == [worker |-> w, id |-> id, from |-> t, until |-> until]
      <3>1. Put(d, [ledger[d] EXCEPT !.claim = lease])
        BY <2>2 DEF Renew
      <3>2. ledger[d].attempts = 0
        BY <2>2 DEF Renew, CanRenew
      <3> HIDE DEF lease
      <3>3. [ledger[d] EXCEPT !.claim = lease] =
              [ledger[d] EXCEPT !.claim = lease, !.claimCount = ledger[d].claimCount]
        BY RecordFields DEF IInv, Record
      <3>4. QED
        BY <3>1, <3>2, <3>3
    <2>3. CASE Release(d, w, id, t)
      <3>1. Put(d, [ledger[d] EXCEPT !.claim = NoClaim])
        BY <2>3 DEF Release
      <3>2. ledger[d].attempts = 0 \/ NoClaim = ledger[d].claim
        BY <2>3 DEF Release, CanRelease
      <3>3. QED
        BY <3>1, <3>2, RecordFields DEF IInv, Record
    <2>4. QED
      BY <2>1, <2>2, <2>3
  <1> DEFINE r == [ledger[d] EXCEPT !.claim = c, !.claimCount = n]
  <1>3. \A e \in Delivery : ledger'[e] = IF e = d THEN r ELSE ledger[e]
    BY <1>2, PutOthers DEF IInv
  <1>4. ledger[d] \in Record
    BY RecordFields DEF IInv
  <1>5. /\ r.state = ledger[d].state /\ r.attempts = ledger[d].attempts /\ r.claim = c
        /\ r.wake = ledger[d].wake /\ r.admission = ledger[d].admission
    BY <1>4 DEF Record
  <1> HIDE DEF r
  <1>6. \A e \in Delivery : NoReturn(e) /\ ledger'[e].state = ledger[e].state
    BY <1>3, <1>5 DEF NoReturn, Joined, Queued, Pending
  <1>7. \A e \in Delivery : ledger[e].attempts > 0 => ledger'[e].claim = ledger[e].claim
    BY <1>2, <1>3, <1>5
  <1>8. QED
    BY <1>1, <1>6, <1>7
-----------------------------------------------------------------------------
(* Senders, operators, time                                                *)

\* No worker moves.
LEMMA OutsideKeeps ==
  ASSUME SInv, IInv', UNCHANGED <<workerVars, turns, onWire, budget>>,
         \A d \in Delivery : NoReturn(d),
         \A d \in Delivery : ledger[d].attempts > 0 =>
           ledger'[d].claim = ledger[d].claim,
         \A d \in Delivery : StateSound(d)',
         Alone => \A d \in Delivery :
           ledger'[d].state \in {"expired", "cancelled", "policy_denied"} =>
             ledger[d].attempts = 0,
         ahead' \in [Delivery -> SUBSET Delivery],
         \A d \in Delivery :
           \/ ahead'[d] = ahead[d]
           \/ /\ ~Joined(d)
              /\ \A e \in ahead'[d] : e \in Delivery /\ e < d /\ LaneOf[e] = LaneOf[d] /\ Queued(e)
  PROVE  SInv'
  <1>1. Workers' /\ \A w \in Worker : Same(w)
    BY DEF SInv, Workers, workerVars, budget, Same
  <1>2. \A w \in Worker : UnderWay(w) => Current(w) \in Delivery /\ ledger[Current(w)].attempts > 0
    BY SInvTypes DEF SInv, WorkersSound
  <1>3. QED
    BY <1>1, <1>2, LeavingKeeps

\* The record of a newcomer.
LEMMA JoinKeeps ==
  ASSUME SInv, IInv', NEW d \in Delivery, ~Joined(d), ledger[d].attempts = 0,
         \A e \in Delivery \ {d} : ledger'[e] = ledger[e],
         ledger'[d].attempts = 0, ledger'[d].state = "scheduled",
         ahead' = [ahead EXCEPT ![d] = QueuedBefore(d)],
         UNCHANGED <<workerVars, turns, onWire, budget>>
  PROVE  SInv'
  <1> USE SInvTypes
  <1>1. ahead \in [Delivery -> SUBSET Delivery]
    BY DEF SInv, Workers
  <1>2. ahead' \in [Delivery -> SUBSET Delivery]
    BY <1>1 DEF QueuedBefore
  <1>3. \A e \in Delivery \ {d} : ahead'[e] = ahead[e]
    BY <1>1
  <1>4. \A e \in ahead'[d] : e \in Delivery /\ e < d /\ LaneOf[e] = LaneOf[d] /\ Queued(e)
    BY <1>1 DEF QueuedBefore
  <1>5. \A e \in Delivery : NoReturn(e)
    BY DEF NoReturn, Joined, Queued, Pending
  <1>6. \A e \in Delivery : ledger[e].attempts > 0 => ledger'[e].claim = ledger[e].claim
    OBVIOUS
  <1>7. \A e \in Delivery : StateSound(e)'
    BY DEF SInv, TurnsSound, StateSound
  <1>8. Alone => \A e \in Delivery :
          ledger'[e].state \in {"expired", "cancelled", "policy_denied"} => ledger[e].attempts = 0
    BY DEF SInv, LoneSound
  <1>9. QED
    BY <1>2, <1>3, <1>4, <1>5, <1>6, <1>7, <1>8, OutsideKeeps

LEMMA SendKeeps ==
  ASSUME SInv, NEW d \in Delivery, Send(d)
  PROVE  SInv'
  <1>1. Commit(d, "admitted", "scheduled")
    BY DEF Send
  <1>2. IInv'
    BY <1>1, SInvTypes, CommitIInv DEF CommitSome
  <1>3. ledger[d] = Absent /\ Put(d, Committed("admitted", "scheduled", "scheduled"))
    BY <1>1 DEF Commit
  <1>4. \A e \in Delivery : ledger'[e] =
          IF e = d THEN Committed("admitted", "scheduled", "scheduled") ELSE ledger[e]
    BY <1>3, SInvTypes, PutOthers DEF IInv
  <1>5. ~Joined(d) /\ ledger[d].attempts = 0
    BY <1>3 DEF Absent, Joined
  <1>6. ledger'[d].attempts = 0 /\ ledger'[d].state = "scheduled"
    BY <1>4 DEF Committed, Absent
  <1>7. QED
    BY <1>2, <1>4, <1>5, <1>6, JoinKeeps DEF Send

LEMMA SendTeamKeeps ==
  ASSUME SInv, NEW d \in Delivery, SendTeam(d)
  PROVE  SInv'
  <1>1. ScheduleTeam(d)
    BY DEF SendTeam
  <1>2. IInv'
    BY <1>1, SInvTypes, ScheduleTeamIInv
  <1> DEFINE r == [ledger[d] EXCEPT !.wake = "scheduled", !.state = "scheduled"]
  <1>3. \A e \in Delivery : ledger'[e] = IF e = d THEN r ELSE ledger[e]
    BY <1>1, SInvTypes, PutOthers DEF IInv, ScheduleTeam
  <1>4. ~Joined(d) /\ ledger[d].attempts = 0
    BY <1>1 DEF ScheduleTeam, Joined
  <1>5. ledger'[d].attempts = 0 /\ ledger'[d].state = "scheduled"
    BY <1>3, <1>4, SInvTypes DEF Record
  <1>6. QED
    BY <1>2, <1>3, <1>4, <1>5, JoinKeeps DEF SendTeam

LEMMA AheadKept ==
  ASSUME SInv, UNCHANGED ahead
  PROVE  ahead' \in [Delivery -> SUBSET Delivery] /\ \A d \in Delivery : ahead'[d] = ahead[d]
  BY DEF SInv, Workers

LEMMA PrepareTeamKeeps ==
  ASSUME SInv, PrepareTeam
  PROVE  SInv'
  <1> USE SInvTypes
  <1>1. CommitTeam({}) /\ UNCHANGED <<workerVars, turns, onWire, budget>> /\ UNCHANGED ahead
    BY DEF PrepareTeam, history
  <1>2. IInv'
    BY <1>1, CommitTeamIInv
  <1>3. ASSUME NEW e \in Delivery
        PROVE  \/ ledger'[e] = ledger[e]
               \/ /\ ledger[e].state = "absent" /\ ledger[e].attempts = 0
                  /\ ledger'[e].state = "prepared" /\ ledger'[e].attempts = 0
    <2>1. CASE e \in TeamCast
      <3>1. ledger[e] = Absent /\ ledger'[e] = Committed("admitted", "immediate", "prepared")
        BY <1>1, <2>1 DEF CommitTeam, CommitBatch
      <3>2. QED
        BY <3>1 DEF Committed, Absent
    <2>2. CASE e \notin TeamCast
      BY <1>1, <2>2 DEF CommitTeam, CommitBatch
    <2>3. QED
      BY <2>1, <2>2
  <1>4. \A e \in Delivery : NoReturn(e)
    BY <1>3 DEF NoReturn, Joined, Queued, Pending
  <1>5. \A e \in Delivery : ledger[e].attempts > 0 => ledger'[e].claim = ledger[e].claim
    BY <1>3
  <1>6. \A e \in Delivery : StateSound(e)'
    BY <1>1, <1>3 DEF SInv, TurnsSound, StateSound
  <1>7. Alone => \A e \in Delivery :
          ledger'[e].state \in {"expired", "cancelled", "policy_denied"} => ledger[e].attempts = 0
    BY <1>3 DEF SInv, LoneSound
  <1>8. QED
    BY <1>1, <1>2, <1>4, <1>5, <1>6, <1>7, AheadKept, OutsideKeeps

LEMMA PassTimeKeeps ==
  ASSUME SInv, PassTime
  PROVE  SInv'
  <1>1. ledger' = ledger /\ UNCHANGED <<workerVars, turns, onWire, budget>> /\ UNCHANGED ahead
    BY DEF PassTime, Tick, history
  <1>2. IInv'
    BY SInvTypes, NextIInv DEF PassTime, LedgerNext
  <1>3. \A e \in Delivery : NoReturn(e) /\ StateSound(e)'
    BY <1>1 DEF NoReturn, Joined, Queued, Pending, SInv, TurnsSound, StateSound
  <1>4. Alone => \A e \in Delivery :
          ledger'[e].state \in {"expired", "cancelled", "policy_denied"} => ledger[e].attempts = 0
    BY <1>1 DEF SInv, LoneSound
  <1>5. QED
    BY <1>1, <1>2, <1>3, <1>4, AheadKept, OutsideKeeps

\* Evidence of an operator on a direct Delivery.
LEMMA OperatorKeeps ==
  ASSUME SInv, NEW d \in Direct, NEW a \in 0..2, NEW state \in Outcomes \ {"policy_denied", "expired"},
         AppendEvidence(d, a, state, FALSE),
         state = "cancelled" => ledger[d].attempts = 0,
         state = "turn_started" => turns[d] > 0,
         UNCHANGED <<workerVars, history, budget>>
  PROVE  SInv'
  <1>1. d \in Delivery /\ d \notin TeamCast
    BY DEF Direct
  <1>2. /\ IInv'
        /\ \A e \in Delivery : NoReturn(e) /\ (e # d => ledger'[e] = ledger[e])
        /\ ledger'[d].state = state /\ ledger'[d].claim = ledger[d].claim
    BY <1>1, SInvTypes, EvidenceEffect
  <1>3. UNCHANGED <<workerVars, turns, onWire, budget>> /\ UNCHANGED ahead
    BY DEF history
  <1>4. \A e \in Delivery : StateSound(e)'
    BY <1>2, <1>3 DEF SInv, TurnsSound, StateSound, Outcomes
  <1>5. Alone => \A e \in Delivery :
          ledger'[e].state \in {"expired", "cancelled", "policy_denied"} => ledger[e].attempts = 0
    BY <1>2 DEF SInv, LoneSound, Outcomes
  <1>6. QED
    BY <1>2, <1>3, <1>4, <1>5, AheadKept, OutsideKeeps

LEMMA CancelKeeps ==
  ASSUME SInv, NEW d \in Delivery, CancelCommand(d)
  PROVE  SInv'
  <1>1. d \in Direct /\ AppendEvidence(d, 0, "cancelled", FALSE) /\ ledger[d].attempts = 0
    BY DEF CancelCommand, Cancel, Queued, Pending
  <1>2. "cancelled" \in Outcomes \ {"policy_denied", "expired"} /\ 0 \in 0..2
    BY DEF Outcomes
  <1>3. QED
    BY <1>1, <1>2, OperatorKeeps DEF CancelCommand

LEMMA ReconcileKeeps ==
  ASSUME SInv, NEW d \in Delivery, Reconcile(d)
  PROVE  SInv'
  <1>1. PICK state \in {"turn_started", "unknown"} :
          /\ state = "turn_started" => turns[d] > 0
          /\ AppendEvidence(d, ledger[d].attempts, state, FALSE)
    BY DEF Reconcile
  <1>2. ledger[d].attempts \in 0..2
    BY SInvTypes DEF Record
  <1>3. state \in Outcomes \ {"policy_denied", "expired"}
    BY DEF Outcomes
  <1>4. QED
    BY <1>1, <1>2, <1>3, OperatorKeeps DEF Reconcile

-----------------------------------------------------------------------------
(* Steps of a worker outside an attempt                                    *)

\* The step leaves the Ledger alone.
LEMMA QuietKeeps ==
  ASSUME SInv, NEW w \in Worker, WorkerTypes', Leaves(w), OthersSame(w),
         UNCHANGED <<ledgerVars, history>>, faults' \in Nat, crashes' \in Nat
  PROVE  SInv'
  <1>1. ledger' = ledger /\ UNCHANGED <<turns, onWire>> /\ UNCHANGED ahead
    BY DEF ledgerVars, history
  <1>2. IInv'
    BY SInvTypes, NextIInv
  <1>3. \A e \in Delivery : NoReturn(e) /\ StateSound(e)'
    BY <1>1 DEF NoReturn, Joined, Queued, Pending, SInv, TurnsSound, StateSound
  <1>4. Alone => \A e \in Delivery :
          ledger'[e].state \in {"expired", "cancelled", "policy_denied"} => ledger[e].attempts = 0
    BY <1>1 DEF SInv, LoneSound
  <1>5. Workers'
    BY <1>1 DEF SInv, Workers, WorkerTypes
  <1>6. \A v \in Worker : Same(v) \/ Leaves(v)
    BY DEF OthersSame
  <1>7. QED
    BY <1>1, <1>2, <1>3, <1>4, <1>5, <1>6, AheadKept, LeavingKeeps

\* The step takes, renews or gives back a claim.
LEMMA ClaimStepKeeps ==
  ASSUME SInv, NEW w \in Worker, NEW d \in Delivery, NEW t \in CallTimes, NEW id \in Nat,
         Acquire(d, w, t) \/ Renew(d, w, id, t) \/ Release(d, w, id, t),
         WorkerTypes', Leaves(w), OthersSame(w), UNCHANGED <<history, budget>>
  PROVE  SInv'
  <1>1. UNCHANGED <<turns, onWire, faults, crashes>> /\ UNCHANGED ahead
    BY DEF history, budget
  <1>2. /\ IInv'
        /\ \A e \in Delivery : NoReturn(e) /\ ledger'[e].state = ledger[e].state
        /\ \A e \in Delivery : ledger[e].attempts > 0 => ledger'[e].claim = ledger[e].claim
    BY SInvTypes, ClaimEffect
  <1>3. \A e \in Delivery : StateSound(e)'
    BY <1>1, <1>2 DEF SInv, TurnsSound, StateSound
  <1>4. Alone => \A e \in Delivery :
          ledger'[e].state \in {"expired", "cancelled", "policy_denied"} => ledger[e].attempts = 0
    BY <1>2 DEF SInv, LoneSound
  <1>5. Workers'
    BY <1>1 DEF SInv, Workers, WorkerTypes
  <1>6. \A v \in Worker : Same(v) \/ Leaves(v)
    BY DEF OthersSame
  <1>7. \A v \in Worker : UnderWay(v) =>
          ledger'[Current(v)].claim = ledger[Current(v)].claim
    BY <1>2, SInvTypes DEF SInv, WorkersSound
  <1>8. QED
    BY <1>1, <1>2, <1>3, <1>4, <1>5, <1>6, <1>7, AheadKept, LeavingKeeps

\* The claim on record is held by one worker.
LEMMA OneEach ==
  ASSUME SInv, NEW v \in Worker, NEW w \in Worker, UnderWay(v), UnderWay(w),
         Current(v) = Current(w)
  PROVE  v = w
  BY DEF SInv, WorkersSound, HoldsClaim

LEMMA EvidenceStepKeeps ==
  ASSUME SInv, NEW w \in Worker, NEW d \in batch[w], d = Current(w), NEW a \in 0..2,
         NEW state \in Outcomes \ {"cancelled"}, NEW hasResult \in BOOLEAN,
         AppendEvidence(d, a, state, hasResult),
         WorkerTypes', Leaves(w), OthersSame(w), UNCHANGED <<history, budget>>,
         state = "turn_started" => turns[d] > 0,
         state \in {"expired", "policy_denied"} => ~UnderWay(w),
         ledger[d].attempts = 0 \/ UnderWay(w) \/ (d \notin TeamCast /\ state # "policy_denied")
  PROVE  SInv'
  <1>1. d \in Delivery
    BY SInvTypes
  <1>2. /\ IInv'
        /\ \A e \in Delivery : NoReturn(e) /\ (e # d => ledger'[e] = ledger[e])
        /\ ledger'[d].state = state
        /\ d \notin TeamCast /\ state # "policy_denied" => ledger'[d].claim = ledger[d].claim
    BY <1>1, SInvTypes, EvidenceEffect
  <1>3. UNCHANGED <<turns, onWire, faults, crashes>> /\ UNCHANGED ahead
    BY DEF history, budget
  <1>4. \A e \in Delivery : StateSound(e)'
    BY <1>2, <1>3 DEF SInv, TurnsSound, StateSound, Outcomes
  <1>5. Alone => \A e \in Delivery :
          ledger'[e].state \in {"expired", "cancelled", "policy_denied"} => ledger[e].attempts = 0
    BY <1>2 DEF SInv, LoneSound, Outcomes
  <1>6. Workers'
    BY <1>3 DEF SInv, Workers, WorkerTypes
  <1>7. \A v \in Worker : Same(v) \/ Leaves(v)
    BY DEF OthersSame
  <1>8. ASSUME NEW v \in Worker, Same(v), UnderWay(v)
        PROVE  ledger'[Current(v)].claim = ledger[Current(v)].claim
    <2>1. Current(v) \in Delivery /\ ledger[Current(v)].attempts = 1
      BY <1>8, SInvTypes DEF SInv, WorkersSound
    <2>2. CASE Current(v) # d
      BY <1>2, <2>1, <2>2
    <2>3. CASE Current(v) = d
      <3>1. v # w
        BY <1>8, SameWorks DEF Leaves
      <3>2. ~UnderWay(w)
        BY <1>8, <2>3, <3>1, OneEach
      <3>3. QED
        BY <1>2, <2>1, <2>3, <3>2
    <2>4. QED
      BY <2>2, <2>3
  <1>9. QED
    BY <1>2, <1>3, <1>4, <1>5, <1>6, <1>7, <1>8, AheadKept, LeavingKeeps

\* Evidence without an attempt on record ends a Team Cast recipient, and is a
\* denial, only before the attempt.
LEMMA EarlyEvidence ==
  ASSUME SInv, NEW d \in Delivery, NEW state, NEW hasResult,
         EvidenceFits(d, 0, state, hasResult), d \in TeamCast \/ state = "policy_denied"
  PROVE  ledger[d].attempts = 0
  <1>1. CASE d \in TeamCast
    BY <1>1 DEF EvidenceFits, DirectEvidenceFits, TeamEvidenceFits, GroupEvidenceFits, Direct, SInv, IInv, Consistent
  <1>2. CASE d \notin TeamCast
    BY <1>2 DEF EvidenceFits, DirectEvidenceFits, TeamEvidenceFits, GroupEvidenceFits, SInv, TurnsSound, StateSound
  <1>3. QED
    BY <1>1, <1>2

\* Evidence of a worker that is in no attempt.
LEMMA EarlyStepKeeps ==
  ASSUME SInv, NEW w \in Worker, NEW d \in batch[w], d = Current(w), ~UnderWay(w),
         NEW state \in {"unknown", "expired", "policy_denied"},
         NEW hasResult \in BOOLEAN, AppendEvidence(d, 0, state, hasResult),
         WorkerTypes', Leaves(w), OthersSame(w), UNCHANGED <<history, budget>>
  PROVE  SInv'
  <1>1. 0 \in 0..2 /\ state \in Outcomes \ {"cancelled"} /\ d \in Delivery
    BY SInvTypes DEF Outcomes
  <1>2. ledger[d].attempts = 0 \/ (d \notin TeamCast /\ state # "policy_denied")
    BY <1>1, EarlyEvidence DEF AppendEvidence
  <1>3. QED
    BY <1>1, <1>2, EvidenceStepKeeps

LEMMA EarlyWriteKeeps ==
  ASSUME SInv, NEW w \in Worker, NEW d \in batch[w], d = Current(w), ~UnderWay(w),
         NEW state \in {"unknown", "expired"}, Write(w, d, 0, state)
  PROVE  SInv'
  <1>1. UNCHANGED <<history, budget>> /\ WorkerTypes /\ faults' \in Nat /\ crashes' \in Nat
    BY SInvWorkerTypes DEF Write, budget, SInv, Workers
  <1>2. CASE AppendEvidence(d, 0, state, state = "turn_started") /\ Advance(w)
    <2>1. (state = "turn_started") \in BOOLEAN
      OBVIOUS
    <2>2. QED
      BY <1>1, <1>2, <2>1, AdvanceLeaves, EarlyStepKeeps
  <1>3. CASE Abort(w) /\ UNCHANGED ledgerVars
    BY <1>1, <1>3, AbortLeaves, QuietKeeps
  <1>4. QED
    BY <1>2, <1>3 DEF Write

LEMMA ExamineKeeps ==
  ASSUME SInv, NEW w \in Worker, NEW d \in batch[w],
         Expire(w, d) \/ Skip(w, d) \/ TargetGone(w, d) \/ Eligible(w, d)
  PROVE  SInv'
  <1>1. d = Current(w) /\ step[w] = "examine" /\ ~UnderWay(w) /\ WorkerTypes
    BY SInvWorkerTypes DEF Expire, Skip, TargetGone, Eligible, At, UnderWay
  <1>2. CASE \E state \in {"unknown", "expired"} : Write(w, d, 0, state)
    BY <1>1, <1>2, EarlyWriteKeeps
  <1>3. CASE (Advance(w) \/ Goto(w, "claim")) /\ UNCHANGED <<ledgerVars, history, budget>>
    <2>1. WorkerTypes' /\ Leaves(w) /\ OthersSame(w)
      BY <1>1, <1>3, AdvanceLeaves, GotoLeaves DEF Steps
    <2>2. faults' \in Nat /\ crashes' \in Nat
      BY <1>3 DEF budget, SInv, Workers
    <2>3. QED
      BY <1>3, <2>1, <2>2, QuietKeeps
  <1>4. QED
    BY <1>2, <1>3 DEF Expire, Skip, TargetGone, Eligible

LEMMA AcquireClaimKeeps ==
  ASSUME SInv, NEW w \in Worker, NEW d \in batch[w], AcquireClaim(w, d)
  PROVE  SInv'
  <1>1. PICK t \in CallTimes : Acquire(d, w, t)
    BY DEF AcquireClaim
  <1>2. d \in Delivery /\ WorkerTypes /\ ledger[d].claimCount \in Nat
    BY SInvTypes, SInvWorkerTypes DEF Record
  <1>3. WorkerTypes' /\ OthersSame(w)
    BY <1>2 DEF WorkerTypes, AcquireClaim, Steps, OthersSame, Same
  <1>4. step[w] = "claim" /\ step'[w] = "recheck" /\ batch'[w] = batch[w]
    BY <1>2 DEF WorkerTypes, AcquireClaim, At
  <1>5. Leaves(w)
    BY <1>4 DEF Leaves, UnderWay
  <1>6. 0 \in Nat /\ UNCHANGED <<history, budget>>
    BY DEF AcquireClaim
  <1>7. QED
    BY <1>1, <1>2, <1>3, <1>5, <1>6, ClaimStepKeeps

LEMMA RenewClaimKeeps ==
  ASSUME SInv, NEW w \in Worker, NEW d \in batch[w], RenewClaim(w, d)
  PROVE  SInv'
  <1>1. PICK t \in CallTimes : Renew(d, w, claimId[w], t)
    BY DEF RenewClaim, OwnTimes
  <1>2. d \in Delivery /\ WorkerTypes /\ claimId[w] \in Nat
    BY SInvTypes, SInvWorkerTypes DEF WorkerTypes
  <1>3. ~UnderWay(w) /\ Goto(w, "decide") /\ UNCHANGED <<history, budget>>
    BY DEF RenewClaim, At, UnderWay
  <1>4. WorkerTypes' /\ Leaves(w) /\ OthersSame(w)
    BY <1>2, <1>3, GotoLeaves DEF Steps
  <1>5. QED
    BY <1>1, <1>2, <1>3, <1>4, ClaimStepKeeps

LEMMA ReleaseClaimKeeps ==
  ASSUME SInv, NEW w \in Worker, NEW d \in batch[w], d = Current(w), ~UnderWay(w),
         ReleaseClaim(w, d)
  PROVE  SInv'
  <1>1. PICK t \in CallTimes :
          \/ Release(d, w, claimId[w], t) /\ Advance(w)
          \/ Abort(w) /\ UNCHANGED ledgerVars
    BY DEF ReleaseClaim, OwnTimes
  <1>2. d \in Delivery /\ WorkerTypes /\ claimId[w] \in Nat
    BY SInvTypes, SInvWorkerTypes DEF WorkerTypes
  <1>3. UNCHANGED <<history, budget>> /\ faults' \in Nat /\ crashes' \in Nat
    BY DEF ReleaseClaim, budget, SInv, Workers
  <1>4. CASE Release(d, w, claimId[w], t) /\ Advance(w)
    BY <1>2, <1>3, <1>4, AdvanceLeaves, ClaimStepKeeps
  <1>5. CASE Abort(w) /\ UNCHANGED ledgerVars
    BY <1>2, <1>3, <1>5, AbortLeaves, QuietKeeps
  <1>6. QED
    BY <1>1, <1>4, <1>5

LEMMA FailKeeps ==
  ASSUME SInv, NEW w \in Worker, NEW d \in batch[w], FailDispatch(w, d) \/ GiveBack(w, d)
  PROVE  SInv'
  <1>1. d = Current(w) /\ ~UnderWay(w) /\ (ReleaseClaim(w, d) \/ Write(w, d, 0, "unknown"))
    BY DEF FailDispatch, GiveBack, At, UnderWay
  <1>2. QED
    BY <1>1, ReleaseClaimKeeps, EarlyWriteKeeps

\* Steps that only move the worker.
LEMMA MoveKeeps ==
  ASSUME SInv, NEW w \in Worker, NEW d \in batch[w],
         \/ ClaimRefused(w, d) \/ Recheck(w, d) \/ ClaimLost(w, d)
         \/ Allow(w, d) \/ BeginRefused(w, d)
  PROVE  SInv'
  <1>1. WorkerTypes /\ ~UnderWay(w) /\ UNCHANGED <<ledgerVars, history, budget>>
    BY SInvWorkerTypes DEF ClaimRefused, Recheck, ClaimLost, Allow, BeginRefused, At, UnderWay
  <1>2. \/ Advance(w) \/ Abort(w)
        \/ \E next \in {"renew", "release", "fail", "begin"} : Goto(w, next)
    BY DEF ClaimRefused, Recheck, ClaimLost, Allow, BeginRefused
  <1>3. WorkerTypes' /\ Leaves(w) /\ OthersSame(w)
    BY <1>1, <1>2, AdvanceLeaves, AbortLeaves, GotoLeaves DEF Steps
  <1>4. faults' \in Nat /\ crashes' \in Nat
    BY <1>1 DEF budget, SInv, Workers
  <1>5. QED
    BY <1>1, <1>3, <1>4, QuietKeeps

LEMMA DenyKeeps ==
  ASSUME SInv, NEW w \in Worker, NEW d \in batch[w], Deny(w, d)
  PROVE  SInv'
  <1>1. WorkerTypes /\ d = Current(w) /\ ~UnderWay(w) /\ UNCHANGED <<history, budget>>
    BY SInvWorkerTypes DEF Deny, At, UnderWay
  <1>2. faults' \in Nat /\ crashes' \in Nat
    BY <1>1 DEF budget, SInv, Workers
  <1>3. CASE AppendEvidence(d, 0, "policy_denied", FALSE) /\ Advance(w)
    BY <1>1, <1>3, AdvanceLeaves, EarlyStepKeeps
  <1>4. CASE Goto(w, "fail") /\ UNCHANGED ledgerVars
    <2>1. WorkerTypes' /\ Leaves(w) /\ OthersSame(w)
      BY <1>1, <1>4, GotoLeaves DEF Steps
    <2>2. QED
      BY <1>1, <1>2, <1>4, <2>1, QuietKeeps
  <1>5. QED
    BY <1>3, <1>4 DEF Deny

\* The first of a lane has nobody queued before it.
LEMMA SnapshotKeeps ==
  ASSUME SInv, NEW w \in Worker, Snapshot(w)
  PROVE  SInv'
  <1>1. WorkerTypes /\ step[w] = "idle" /\ UNCHANGED <<ledgerVars, claimId, history, budget>>
    BY SInvWorkerTypes DEF Snapshot
  <1>2. PICK ready \in SUBSET Heads :
          batch' = [batch EXCEPT ![w] = ready] /\ step' = [step EXCEPT ![w] = "examine"]
    BY DEF Snapshot
  <1>3. \A d \in ready : d \in Delivery
    BY DEF Heads
  <1>4. WorkerTypes' /\ OthersSame(w)
    BY <1>1, <1>2, <1>3 DEF WorkerTypes, Steps, OthersSame, Same
  <1>5. step'[w] = "examine" /\ batch'[w] = ready
    BY <1>1, <1>2 DEF WorkerTypes
  <1>6. ASSUME NEW d \in ready PROVE Picked(d)
    <2>1. d \in Delivery /\ Queued(d)
          /\ \A e \in Delivery : Queued(e) /\ LaneOf[e] = LaneOf[d] => d <= e
      BY DEF Heads
    <2>2. ASSUME NEW e \in ahead[d] PROVE ~Queued(e)
      <3>1. e \in Delivery /\ e < d /\ LaneOf[e] = LaneOf[d] /\ e \in Nat /\ d \in Nat
        BY <2>1, SInvTypes DEF SInv, QueuesSound
      <3>2. QED
        BY <2>1, <3>1
    <2>3. QED
      BY <2>1, <2>2 DEF Picked, Joined, Queued, Pending
  <1>7. Leaves(w)
    BY <1>3, <1>5, <1>6 DEF Leaves, UnderWay
  <1>8. faults' \in Nat /\ crashes' \in Nat
    BY <1>1 DEF budget, SInv, Workers
  <1>9. QED
    BY <1>1, <1>4, <1>7, <1>8, QuietKeeps

LEMMA StartKeeps ==
  ASSUME SInv, NEW w \in Worker, Start(w) \/ Crash(w)
  PROVE  SInv'
  <1>1. WorkerTypes /\ UNCHANGED <<ledgerVars, history>> /\ faults' \in Nat /\ crashes' \in Nat
    BY SInvWorkerTypes DEF Start, Crash, budget, SInv, Workers
  <1>2. CASE Start(w)
    <2>1. Goto(w, "idle") /\ ~UnderWay(w)
      BY <1>2 DEF Start, UnderWay
    <2>2. QED
      BY <1>1, <2>1, GotoLeaves, QuietKeeps DEF Steps
  <1>3. CASE Crash(w)
    <2>1. WorkerTypes' /\ OthersSame(w)
      BY <1>1, <1>3 DEF WorkerTypes, Crash, Steps, OthersSame, Same
    <2>2. step'[w] = "down" /\ batch'[w] = {}
      BY <1>1, <1>3 DEF WorkerTypes, Crash
    <2>3. QED
      BY <1>1, <2>1, <2>2, QuietKeeps DEF Leaves, UnderWay
  <1>4. QED
    BY <1>2, <1>3
-----------------------------------------------------------------------------
(* An attempt                                                              *)

LEMMA BeginAttemptKeeps ==
  ASSUME SInv, NEW w \in Worker, NEW d \in batch[w], BeginAttempt(w, d)
  PROVE  SInv'
  <1> USE SInvTypes
  <1>1. PICK t \in CallTimes : BeginScheduled(d, w, claimId[w], t)
    BY DEF BeginAttempt, OwnTimes
  <1>2. /\ d \in Delivery /\ Queued(d) /\ HoldsClaim(d, w, claimId[w]) /\ AddAttempt(d)
        /\ ledger[d].attempts = 0 /\ ledger[d].state = "scheduled"
    BY <1>1 DEF BeginScheduled, CanBeginScheduled, Queued, Pending
  <1>3. IInv'
    BY <1>1, <1>2, BeginScheduledIInv
  <1> DEFINE r == [ledger[d] EXCEPT !.attempts = ledger[d].attempts + 1]
  <1>4. Put(d, r)
    BY <1>2 DEF AddAttempt, Record
  <1>5. \A e \in Delivery : ledger'[e] = IF e = d THEN r ELSE ledger[e]
    BY <1>2, <1>4, PutOthers DEF IInv
  <1>6. /\ ledger'[d].attempts = 1 /\ ledger'[d].state = "scheduled"
        /\ ledger'[d].claim = ledger[d].claim
    BY <1>2, <1>5 DEF Record
  <1> HIDE DEF r
  <1>7. \A e \in Delivery \ {d} : ledger'[e] = ledger[e]
    BY <1>5
  <1>8. turns[d] = 0 /\ d \notin onWire
    BY <1>2 DEF SInv, TurnsSound
  <1>9. UNCHANGED <<turns, onWire, ahead, faults, crashes>>
    BY DEF BeginAttempt, history, budget
  <1>10. /\ WorkerTypes' /\ OthersSame(w)
         /\ step'[w] = "start" /\ batch'[w] = batch[w] /\ claimId'[w] = claimId[w]
         /\ Current(w)' = Current(w)
    BY SInvWorkerTypes, GotoMoves DEF BeginAttempt, Steps
  <1>11. d = Current(w) /\ ~UnderWay(w)
    BY DEF BeginAttempt, At, UnderWay
  <1>12. Workers'
    BY <1>9, <1>10 DEF SInv, Workers, WorkerTypes
  <1>13. TurnsSound'
    BY <1>6, <1>7, <1>8, <1>9 DEF SInv, TurnsSound, StateSound
  <1>14. ASSUME NEW v \in Worker, UnderWay(v)', v # w
         PROVE  /\ Same(v) /\ UnderWay(v) /\ Current(v)' = Current(v)
                /\ Current(v) \in batch[v] /\ Current(v) \in Delivery /\ Current(v) # d
    <2>1. Same(v)
      BY <1>10, <1>14 DEF OthersSame
    <2>2. QED
      BY <1>2, <1>14, <2>1, SameWorks DEF SInv, WorkersSound
  <1>15. WorkersSound'
    <2>1. ASSUME NEW v \in Worker, UnderWay(v)'
          PROVE  /\ Current(v)' \in batch'[v]
                 /\ ledger'[Current(v)'].attempts = 1 /\ HoldsClaim(Current(v), v, claimId[v])'
                 /\ step'[v] = "start" => turns'[Current(v)'] = 0 /\ Current(v)' \notin onWire'
                 /\ step'[v] = "record" => turns'[Current(v)'] > 0
      <3>1. CASE v = w
        BY <3>1, <1>2, <1>6, <1>8, <1>9, <1>10, <1>11 DEF HoldsClaim
      <3>2. CASE v # w
        BY <2>1, <3>2, <1>7, <1>9, <1>14 DEF SInv, WorkersSound, HoldsClaim, Same
      <3>3. QED
        BY <3>1, <3>2
    <2>2. QED
      BY <2>1 DEF WorkersSound, UnderWay
  <1>16. \A e \in Delivery : (Joined(e)' <=> Joined(e)) /\ (Queued(e)' => Queued(e))
    BY <1>2, <1>6, <1>7 DEF Joined, Queued, Pending
  <1>17. QueuesSound'
    <2>1. \A v \in Worker : \A e \in batch'[v] : e \in batch[v]
      BY <1>10 DEF OthersSame, Same
    <2>2. QED
      BY <1>9, <1>16, <2>1 DEF SInv, QueuesSound
  <1>18. Alone => LoneSound'
    <2> SUFFICES ASSUME Alone PROVE LoneSound'
      OBVIOUS
    <2>1. \A v \in Worker : v = w
      BY DEF Alone
    <2>2. \A e \in batch[w] : ledger[e].attempts = 0
      BY <1>11 DEF SInv, LoneSound
    <2>3. \A e \in batch'[w] : e = d \/ ledger'[e].attempts = 0
      BY <1>7, <1>10, <2>2
    <2>4. UnderWay(w)' /\ d = Current(w)'
      BY <1>10, <1>11 DEF UnderWay
    <2>5. \A e \in Delivery :
            ledger'[e].state \in {"expired", "cancelled", "policy_denied"} => ledger'[e].attempts = 0
      BY <1>6, <1>7 DEF SInv, LoneSound
    <2>6. QED
      BY <2>1, <2>3, <2>4, <2>5 DEF LoneSound
  <1>19. QED
    BY <1>3, <1>12, <1>13, <1>15, <1>17, <1>18 DEF SInv, Alone

\* App Server takes a message, or a request is left on its way, or the worker
\* gives up its answer.
LEMMA TurnKeeps ==
  ASSUME SInv, NEW d \in Delivery, ledger[d].attempts > 0,
         UNCHANGED <<ledgerVars, batch, claimId, ahead>>, faults' \in Nat, crashes' \in Nat,
         step' \in [Worker -> Steps], turns' \in [Delivery -> Nat], onWire' \subseteq Delivery,
         \A e \in Delivery \ {d} : turns'[e] = turns[e] /\ (e \in onWire' <=> e \in onWire),
         turns'[d] <= 1, turns[d] <= turns'[d], d \in onWire' => turns'[d] = 0,
         \A w \in Worker :
           \/ step'[w] = step[w] /\ ~(UnderWay(w) /\ Current(w) = d)
           \/ /\ UnderWay(w) /\ UnderWay(w)' /\ Current(w) = d
              /\ step'[w] = "start" => turns'[d] = 0 /\ d \notin onWire'
              /\ step'[w] = "record" => turns'[d] > 0
  PROVE  SInv'
  <1> USE SInvTypes
  <1>1. ledger' = ledger
    BY DEF ledgerVars
  <1>2. IInv'
    BY NextIInv
  <1>3. Workers'
    BY DEF SInv, Workers
  <1>4. \A w \in Worker : (UnderWay(w)' <=> UnderWay(w)) /\ Current(w)' = Current(w)
    BY DEF UnderWay, Current
  <1>5. TurnsSound'
    <2>1. ASSUME NEW e \in Delivery
          PROVE  /\ turns'[e] <= 1 /\ (e \in onWire' => turns'[e] = 0)
                 /\ turns'[e] > 0 \/ e \in onWire' => ledger'[e].attempts > 0
                 /\ StateSound(e)'
      BY <1>1 DEF SInv, TurnsSound, StateSound
    <2>2. QED
      BY <2>1 DEF TurnsSound
  <1>6. WorkersSound'
    <2>1. ASSUME NEW w \in Worker, UnderWay(w)'
          PROVE  /\ Current(w)' \in batch'[w]
                 /\ ledger'[Current(w)'].attempts = 1 /\ HoldsClaim(Current(w), w, claimId[w])'
                 /\ step'[w] = "start" => turns'[Current(w)'] = 0 /\ Current(w)' \notin onWire'
                 /\ step'[w] = "record" => turns'[Current(w)'] > 0
      <3>1. /\ UnderWay(w) /\ Current(w)' = Current(w) /\ Current(w) \in batch[w]
            /\ Current(w) \in Delivery
            /\ ledger[Current(w)].attempts = 1 /\ HoldsClaim(Current(w), w, claimId[w])
        BY <2>1, <1>4 DEF SInv, WorkersSound
      <3>2. HoldsClaim(Current(w), w, claimId[w])' /\ Current(w)' \in batch'[w]
            /\ ledger'[Current(w)'].attempts = 1
        BY <1>1, <3>1 DEF HoldsClaim
      <3>3. CASE Current(w) = d
        BY <3>1, <3>2, <3>3
      <3>4. CASE Current(w) # d
        BY <3>1, <3>2, <3>4 DEF SInv, WorkersSound
      <3>5. QED
        BY <3>3, <3>4
    <2>2. QED
      BY <2>1 DEF WorkersSound, UnderWay
  <1>7. QueuesSound'
    BY <1>1 DEF SInv, QueuesSound, Joined, Queued, Pending
  <1>8. Alone => LoneSound'
    BY <1>1, <1>4 DEF SInv, LoneSound
  <1>9. QED
    BY <1>2, <1>3, <1>5, <1>6, <1>7, <1>8 DEF SInv, Alone

LEMMA StartTurnKeeps ==
  ASSUME SInv, NEW w \in Worker, NEW d \in batch[w], StartTurn(w, d)
  PROVE  SInv'
  <1> USE SInvTypes
  <1>1. d \in Delivery /\ step[w] = "start" /\ d = Current(w) /\ UnderWay(w)
    BY DEF StartTurn, At, UnderWay
  <1>2. ledger[d].attempts > 0 /\ turns[d] = 0 /\ d \notin onWire
    BY <1>1 DEF SInv, WorkersSound
  <1>3. turns \in [Delivery -> Nat] /\ onWire \subseteq Delivery /\ WorkerTypes
    BY SInvWorkerTypes DEF SInv, Workers
  <1>4. PICK next \in {"record", "uncertain"} :
          /\ Goto(w, next)
          /\ \/ TakeTurn(d) /\ UNCHANGED onWire
             \/ next = "uncertain" /\ UNCHANGED <<turns, onWire>>
             \/ next = "uncertain" /\ UNCHANGED turns /\ onWire' = onWire \cup {d}
    BY DEF StartTurn
  <1>5. /\ turns' \in [Delivery -> Nat] /\ onWire' \subseteq Delivery
        /\ \A e \in Delivery \ {d} : turns'[e] = turns[e] /\ (e \in onWire' <=> e \in onWire)
        /\ turns'[d] <= 1 /\ turns[d] <= turns'[d] /\ (d \in onWire' => turns'[d] = 0)
        /\ next = "record" => turns'[d] > 0
    BY <1>1, <1>2, <1>3, <1>4 DEF TakeTurn
  <1>6. /\ step' \in [Worker -> Steps] /\ step'[w] = next
        /\ \A v \in Worker \ {w} : step'[v] = step[v]
    BY <1>3, <1>4, GotoMoves DEF Steps, WorkerTypes, OthersSame, Same
  <1>7. UnderWay(w)'
    BY <1>6 DEF UnderWay
  <1>8. \A v \in Worker \ {w} : ~(UnderWay(v) /\ Current(v) = d)
    BY <1>1, OneEach
  <1>9. UNCHANGED <<ledgerVars, batch, claimId, ahead, faults, crashes>>
    BY <1>4 DEF StartTurn, Goto, budget
  <1>10. faults' \in Nat /\ crashes' \in Nat
    BY <1>9 DEF SInv, Workers
  <1>11. QED
    BY <1>1, <1>2, <1>5, <1>6, <1>7, <1>8, <1>9, <1>10, TurnKeeps

LEMMA LateTurnKeeps ==
  ASSUME SInv, NEW d \in Delivery, LateTurn(d)
  PROVE  SInv'
  <1> USE SInvTypes
  <1>1. d \in onWire /\ turns[d] = 0 /\ ledger[d].attempts > 0
    BY DEF LateTurn, SInv, TurnsSound
  <1>2. turns \in [Delivery -> Nat] /\ onWire \subseteq Delivery
    BY DEF SInv, Workers
  <1>3. /\ turns' \in [Delivery -> Nat] /\ onWire' \subseteq Delivery
        /\ \A e \in Delivery \ {d} : turns'[e] = turns[e] /\ (e \in onWire' <=> e \in onWire)
        /\ turns'[d] = 1 /\ d \notin onWire'
    BY <1>1, <1>2 DEF LateTurn, TakeTurn
  <1>4. UNCHANGED <<ledgerVars, step, batch, claimId, ahead, faults, crashes>>
    BY DEF LateTurn, workerVars, budget
  <1>5. step' \in [Worker -> Steps] /\ faults' \in Nat /\ crashes' \in Nat
    BY <1>4 DEF SInv, Workers
  <1>6. ASSUME NEW v \in Worker, UnderWay(v), Current(v) = d
        PROVE  UnderWay(v)' /\ step'[v] # "start"
    BY <1>1, <1>4, <1>6 DEF SInv, WorkersSound, UnderWay
  <1>7. QED
    BY <1>1, <1>3, <1>4, <1>5, <1>6, TurnKeeps

\* The answer is lost after all.
LEMMA LoseAnswerKeeps ==
  ASSUME SInv, NEW w \in Worker, NEW d \in batch[w], At(w, d, "record"), Goto(w, "uncertain"),
         UNCHANGED <<ledgerVars, history>>, faults' \in Nat, crashes' \in Nat
  PROVE  SInv'
  <1> USE SInvTypes
  <1>1. d \in Delivery /\ step[w] = "record" /\ d = Current(w) /\ UnderWay(w)
    BY DEF At, UnderWay
  <1>2. ledger[d].attempts > 0
    BY <1>1 DEF SInv, WorkersSound
  <1>3. turns \in [Delivery -> Nat] /\ onWire \subseteq Delivery /\ WorkerTypes
    BY SInvWorkerTypes DEF SInv, Workers
  <1>4. UNCHANGED <<turns, onWire, batch, claimId, ahead>>
    BY DEF Goto, history
  <1>5. turns[d] <= 1 /\ (d \in onWire => turns[d] = 0)
    BY <1>1 DEF SInv, TurnsSound
  <1>6. /\ step' \in [Worker -> Steps] /\ step'[w] = "uncertain"
        /\ \A v \in Worker \ {w} : step'[v] = step[v]
    BY <1>3, GotoMoves DEF Steps, WorkerTypes, OthersSame, Same
  <1>7. UnderWay(w)'
    BY <1>6 DEF UnderWay
  <1>8. \A v \in Worker \ {w} : ~(UnderWay(v) /\ Current(v) = d)
    BY <1>1, OneEach
  <1>9. QED
    BY <1>1, <1>2, <1>3, <1>4, <1>5, <1>6, <1>7, <1>8, TurnKeeps

LEMMA RecordKeeps ==
  ASSUME SInv, NEW w \in Worker, NEW d \in batch[w],
         RecordStarted(w, d) \/ RecordUncertain(w, d)
  PROVE  SInv'
  <1> USE SInvTypes
  <1>1. /\ d \in Delivery /\ d = Current(w) /\ UnderWay(w) /\ UNCHANGED <<history, budget>>
        /\ WorkerTypes /\ faults' \in Nat /\ crashes' \in Nat
    BY SInvWorkerTypes
       DEF RecordStarted, RecordUncertain, Write, At, UnderWay, budget, SInv, Workers
  <1>2. ASSUME NEW state \in {"turn_started", "unknown"}, NEW hasResult \in BOOLEAN,
               state = "turn_started" => step[w] = "record",
               AppendEvidence(d, 1, state, hasResult), Advance(w)
        PROVE  SInv'
    <2>1. WorkerTypes' /\ Leaves(w) /\ OthersSame(w)
      BY <1>1, <1>2, AdvanceLeaves
    <2>2. state = "turn_started" => turns[d] > 0
      BY <1>1, <1>2 DEF SInv, WorkersSound
    <2>3. 1 \in 0..2 /\ state \in Outcomes \ {"cancelled"} /\ state \notin {"expired", "policy_denied"}
      BY DEF Outcomes
    <2>4. QED
      BY <1>1, <1>2, <2>1, <2>2, <2>3, EvidenceStepKeeps
  <1>3. CASE RecordStarted(w, d)
    <2>1. CASE AppendEvidence(d, 1, "turn_started", TRUE) /\ Advance(w)
      BY <1>2, <1>3, <2>1 DEF RecordStarted, At
    <2>2. CASE Goto(w, "uncertain") /\ UNCHANGED ledgerVars
      BY <1>1, <1>3, <2>2, LoseAnswerKeeps DEF RecordStarted
    <2>3. QED
      BY <1>3, <2>1, <2>2 DEF RecordStarted
  <1>4. CASE RecordUncertain(w, d)
    <2>1. CASE AppendEvidence(d, 1, "unknown", "unknown" = "turn_started") /\ Advance(w)
      <3>1. ("unknown" = "turn_started") \in BOOLEAN
        OBVIOUS
      <3>2. QED
        BY <1>2, <2>1, <3>1
    <2>2. CASE Abort(w) /\ UNCHANGED ledgerVars
      BY <1>1, <2>2, AbortLeaves, QuietKeeps
    <2>3. QED
      BY <1>4, <2>1, <2>2 DEF RecordUncertain, Write
  <1>5. QED
    BY <1>3, <1>4

LEMMA FaultKeeps ==
  ASSUME SInv, NEW w \in Worker, NEW d \in batch[w], Fault(w, d)
  PROVE  SInv'
  <1>1. WorkerTypes /\ UNCHANGED <<ledgerVars, history>> /\ faults' \in Nat /\ crashes' \in Nat
    BY SInvWorkerTypes DEF Fault, SInv, Workers
  <1>2. \/ Abort(w)
        \/ ~UnderWay(w) /\ Goto(w, "fail")
        \/ At(w, d, "record") /\ Goto(w, "uncertain")
    BY DEF Fault, At, UnderWay
  <1>3. CASE Abort(w)
    BY <1>1, <1>3, AbortLeaves, QuietKeeps
  <1>4. CASE ~UnderWay(w) /\ Goto(w, "fail")
    BY <1>1, <1>4, GotoLeaves, QuietKeeps DEF Steps
  <1>5. CASE At(w, d, "record") /\ Goto(w, "uncertain")
    BY <1>1, <1>5, LoseAnswerKeeps
  <1>6. QED
    BY <1>2, <1>3, <1>4, <1>5

-----------------------------------------------------------------------------
(* The invariant                                                           *)

LEMMA InitSInv == Init => SInv
  <1> SUFFICES ASSUME Init PROVE SInv
    OBVIOUS
  <1>1. IInv
    BY InitIInv DEF Init
  <1>2. Workers
    BY DEF Init, Workers, Steps
  <1>3. \A d \in Delivery : ledger[d] = Absent /\ turns[d] = 0 /\ d \notin onWire /\ ahead[d] = {}
    BY DEF Init, LedgerInit
  <1>4. \A w \in Worker : step[w] = "down" /\ batch[w] = {}
    BY DEF Init
  <1>5. TurnsSound
    BY <1>3 DEF TurnsSound, StateSound, Absent
  <1>6. WorkersSound /\ QueuesSound
    BY <1>3, <1>4 DEF WorkersSound, QueuesSound, UnderWay
  <1>7. LoneSound
    BY <1>3, <1>4 DEF LoneSound, Absent
  <1>8. QED
    BY <1>1, <1>2, <1>5, <1>6, <1>7 DEF SInv

LEMMA DispatchKeeps ==
  ASSUME SInv, NEW w \in Worker, NEW d \in batch[w], Dispatch(w, d)
  PROVE  SInv'
  <1>1. CASE Expire(w, d) \/ Skip(w, d) \/ TargetGone(w, d) \/ Eligible(w, d)
    BY <1>1, ExamineKeeps
  <1>2. CASE AcquireClaim(w, d)
    BY <1>2, AcquireClaimKeeps
  <1>3. CASE \/ ClaimRefused(w, d) \/ Recheck(w, d) \/ ClaimLost(w, d)
             \/ Allow(w, d) \/ BeginRefused(w, d)
    BY <1>3, MoveKeeps
  <1>4. CASE RenewClaim(w, d)
    BY <1>4, RenewClaimKeeps
  <1>5. CASE Deny(w, d)
    BY <1>5, DenyKeeps
  <1>6. CASE BeginAttempt(w, d)
    BY <1>6, BeginAttemptKeeps
  <1>7. CASE StartTurn(w, d)
    BY <1>7, StartTurnKeeps
  <1>8. CASE RecordStarted(w, d) \/ RecordUncertain(w, d)
    BY <1>8, RecordKeeps
  <1>9. CASE FailDispatch(w, d) \/ GiveBack(w, d)
    BY <1>9, FailKeeps
  <1>10. QED
    BY <1>1, <1>2, <1>3, <1>4, <1>5, <1>6, <1>7, <1>8, <1>9 DEF Dispatch

LEMMA StutterKeeps ==
  ASSUME SInv, UNCHANGED vars
  PROVE  SInv'
  <1>1. UNCHANGED <<ledgerVars, workerVars, history, budget>>
    BY DEF vars
  <1>2. IInv'
    BY <1>1, SInvTypes, NextIInv
  <1>3. \A e \in Delivery : NoReturn(e) /\ StateSound(e)'
    BY <1>1 DEF ledgerVars, history, NoReturn, Joined, Queued, Pending, SInv, TurnsSound, StateSound
  <1>4. Alone => \A e \in Delivery :
          ledger'[e].state \in {"expired", "cancelled", "policy_denied"} => ledger[e].attempts = 0
    BY <1>1 DEF ledgerVars, SInv, LoneSound
  <1>5. \A e \in Delivery : ledger'[e].claim = ledger[e].claim
    BY <1>1 DEF ledgerVars
  <1>6. UNCHANGED <<workerVars, turns, onWire, budget>> /\ UNCHANGED ahead
    BY <1>1 DEF history
  <1>7. QED
    BY <1>2, <1>3, <1>4, <1>5, <1>6, AheadKept, OutsideKeeps

LEMMA NextSInv == SInv /\ [Next]_vars => SInv'
  <1> SUFFICES ASSUME SInv, [Next]_vars PROVE SInv'
    OBVIOUS
  <1>1. ASSUME NEW d \in Delivery,
               Send(d) \/ SendTeam(d) \/ CancelCommand(d) \/ Reconcile(d) \/ LateTurn(d)
        PROVE  SInv'
    BY <1>1, SendKeeps, SendTeamKeeps, CancelKeeps, ReconcileKeeps, LateTurnKeeps
  <1>2. CASE PrepareTeam
    BY <1>2, PrepareTeamKeeps
  <1>3. CASE PassTime
    BY <1>3, PassTimeKeeps
  <1>4. ASSUME NEW w \in Worker, WorkerStep(w) PROVE SInv'
    BY <1>4, SnapshotKeeps, DispatchKeeps DEF WorkerStep
  <1>5. ASSUME NEW w \in Worker, \E d \in batch[w] : Fault(w, d) PROVE SInv'
    BY <1>5, FaultKeeps
  <1>6. ASSUME NEW w \in Worker, Start(w) \/ Crash(w) PROVE SInv'
    BY <1>6, StartKeeps
  <1>7. CASE UNCHANGED vars
    BY <1>7, StutterKeeps
  <1>8. QED
    BY <1>1, <1>2, <1>3, <1>4, <1>5, <1>6, <1>7 DEF Next

\* The inductive invariant holds throughout.
THEOREM SchedulerInvariant == Spec => []SInv
  BY InitSInv, NextSInv, PTL DEF Spec

\* App Server never starts two turns for one Delivery, whatever workers
\* overlap, die, or lose their leases and answers.
THEOREM StartedOnce == Spec => []AtMostOneTurn
  <1>1. SInv => AtMostOneTurn
    BY DEF SInv, TurnsSound, AtMostOneTurn
  <1>2. QED
    BY SchedulerInvariant, <1>1, PTL

\* Whoever is about to send holds the claim that the one attempt was begun
\* under.
THEOREM Fenced == Spec => []WorkersAreFenced
  <1>1. SInv => WorkersAreFenced
    <2> SUFFICES ASSUME SInv PROVE WorkersAreFenced
      OBVIOUS
    <2>1. TypeOK
      BY DEF SInv, Workers, TypeOK, IInv
    <2>2. StartsUnderOwnClaim
      BY DEF SInv, WorkersSound, UnderWay, StartsUnderOwnClaim
    <2>3. QED
      BY <2>1, <2>2 DEF WorkersAreFenced
  <1>2. QED
    BY SchedulerInvariant, <1>1, PTL
-----------------------------------------------------------------------------
(* What a step does to the reports: nothing (Calm), evidence on one        *)
(* Delivery (Settles), an attempt (Begins) or a turn (Takes)               *)

Refused == {"expired", "cancelled", "policy_denied"}

Calm ==
  /\ UNCHANGED turns
  /\ \A e \in Delivery :
       /\ ledger'[e].attempts = ledger[e].attempts
       /\ \/ ledger'[e].state = ledger[e].state
          \/ ledger[e].state \in {"absent", "prepared"}
             /\ ledger'[e].state \in {"prepared", "scheduled"}

Settles(d) ==
  /\ UNCHANGED turns
  /\ \E a \in 0..2, state \in Outcomes, hasResult \in BOOLEAN :
       /\ AppendEvidence(d, a, state, hasResult)
       /\ state = "turn_started" => turns[d] > 0
       /\ state = "cancelled" => ledger[d].attempts = 0
       /\ Alone /\ state \in Refused => ledger[d].attempts = 0

Begins(d) == \E w \in Worker : d \in batch[w] /\ BeginAttempt(w, d)

Takes(d) ==
  /\ UNCHANGED ledgerVars
  /\ ledger[d].attempts > 0 /\ turns[d] = 0
  /\ TakeTurn(d)

StepKind == Calm \/ \E d \in Delivery : Settles(d) \/ Begins(d) \/ Takes(d)

LEMMA QuietIsCalm ==
  ASSUME UNCHANGED <<ledgerVars, turns>>
  PROVE  Calm
  BY DEF ledgerVars, Calm

LEMMA ClaimIsCalm ==
  ASSUME SInv, NEW d \in Delivery, NEW w \in Worker, NEW t \in CallTimes, NEW id \in Nat,
         Acquire(d, w, t) \/ Renew(d, w, id, t) \/ Release(d, w, id, t), UNCHANGED turns
  PROVE  Calm
  BY SInvTypes, ClaimEffect DEF Calm, NoReturn

\* Before its attempt a lone worker finds none on record.
LEMMA WriteKind ==
  ASSUME SInv, NEW w \in Worker, NEW d \in batch[w], d = Current(w),
         NEW a \in 0..2, NEW state \in {"unknown", "expired"}, Write(w, d, a, state),
         state = "expired" => ~UnderWay(w)
  PROVE  StepKind
  <1>1. d \in Delivery /\ UNCHANGED turns
    BY SInvTypes DEF Write, history
  <1>2. CASE UNCHANGED ledgerVars
    BY <1>1, <1>2, QuietIsCalm DEF StepKind
  <1>3. CASE AppendEvidence(d, a, state, state = "turn_started")
    <2>1. Alone /\ state \in Refused => ledger[d].attempts = 0
      BY DEF SInv, LoneSound, Refused
    <2>2. (state = "turn_started") \in BOOLEAN /\ state \in Outcomes
      BY DEF Outcomes
    <2>3. QED
      BY <1>1, <1>3, <2>1, <2>2 DEF StepKind, Settles
  <1>4. QED
    BY <1>2, <1>3 DEF Write

LEMMA ReleaseKind ==
  ASSUME SInv, NEW w \in Worker, NEW d \in batch[w], ReleaseClaim(w, d)
  PROVE  StepKind
  <1>1. d \in Delivery /\ UNCHANGED turns /\ claimId[w] \in Nat
    BY SInvTypes, SInvWorkerTypes DEF ReleaseClaim, history, WorkerTypes
  <1>2. PICK t \in CallTimes : Release(d, w, claimId[w], t) \/ UNCHANGED ledgerVars
    BY DEF ReleaseClaim, OwnTimes
  <1>3. QED
    BY <1>1, <1>2, QuietIsCalm, ClaimIsCalm DEF StepKind

LEMMA DispatchKind ==
  ASSUME SInv, NEW w \in Worker, NEW d \in batch[w], Dispatch(w, d)
  PROVE  StepKind
  <1>1. d \in Delivery /\ claimId[w] \in Nat /\ 0 \in 0..2 /\ 1 \in 0..2
    BY SInvTypes, SInvWorkerTypes DEF WorkerTypes
  <1>2. CASE \/ Skip(w, d) \/ Eligible(w, d) \/ ClaimRefused(w, d) \/ Recheck(w, d)
             \/ ClaimLost(w, d) \/ Allow(w, d) \/ BeginRefused(w, d)
    <2>1. UNCHANGED <<ledgerVars, turns>>
      BY <1>2 DEF Skip, Eligible, ClaimRefused, Recheck, ClaimLost, Allow, BeginRefused, history
    <2>2. QED
      BY <2>1, QuietIsCalm DEF StepKind
  <1>3. CASE Expire(w, d)
    BY <1>1, <1>3, WriteKind DEF Expire, At, UnderWay
  <1>4. CASE TargetGone(w, d)
    <2>1. UNCHANGED <<ledgerVars, turns>> \/ Write(w, d, 0, "unknown")
      BY <1>4 DEF TargetGone, history
    <2>2. d = Current(w)
      BY <1>4 DEF TargetGone, At
    <2>3. QED
      BY <1>1, <2>1, <2>2, QuietIsCalm, WriteKind DEF StepKind
  <1>5. CASE AcquireClaim(w, d)
    <2>1. PICK t \in CallTimes : Acquire(d, w, t)
      BY <1>5 DEF AcquireClaim
    <2>2. 0 \in Nat /\ UNCHANGED turns
      BY <1>5 DEF AcquireClaim, history
    <2>3. QED
      BY <1>1, <2>1, <2>2, ClaimIsCalm DEF StepKind
  <1>6. CASE RenewClaim(w, d)
    <2>1. PICK t \in CallTimes : Renew(d, w, claimId[w], t)
      BY <1>6 DEF RenewClaim, OwnTimes
    <2>2. QED
      BY <1>1, <1>6, <2>1, ClaimIsCalm DEF StepKind, RenewClaim, history
  <1>7. CASE Deny(w, d)
    <2>1. UNCHANGED turns
      BY <1>7 DEF Deny, history
    <2>2. CASE AppendEvidence(d, 0, "policy_denied", FALSE)
      <3>1. ledger[d].attempts = 0
        BY <1>1, <2>2, EarlyEvidence DEF AppendEvidence
      <3>2. "policy_denied" \in Outcomes
        BY DEF Outcomes
      <3>3. QED
        BY <1>1, <2>1, <2>2, <3>1, <3>2 DEF StepKind, Settles
    <2>3. CASE UNCHANGED ledgerVars
      BY <2>1, <2>3, QuietIsCalm DEF StepKind
    <2>4. QED
      BY <1>7, <2>2, <2>3 DEF Deny
  <1>8. CASE BeginAttempt(w, d)
    BY <1>1, <1>8 DEF StepKind, Begins
  <1>9. CASE StartTurn(w, d)
    <2>1. UNCHANGED ledgerVars /\ (UNCHANGED turns \/ TakeTurn(d))
      BY <1>9 DEF StartTurn
    <2>2. ledger[d].attempts > 0 /\ turns[d] = 0
      BY <1>1, <1>9, SInvTypes DEF StartTurn, At, UnderWay, SInv, WorkersSound
    <2>3. QED
      BY <1>1, <2>1, <2>2, QuietIsCalm DEF StepKind, Takes
  <1>10. CASE RecordStarted(w, d)
    <2>1. UNCHANGED turns /\ turns[d] > 0
      BY <1>10 DEF RecordStarted, At, history, SInv, WorkersSound
    <2>2. CASE AppendEvidence(d, 1, "turn_started", TRUE)
      <3>1. "turn_started" \in Outcomes /\ "turn_started" \notin Refused
        BY DEF Outcomes, Refused
      <3>2. QED
        BY <1>1, <2>1, <2>2, <3>1 DEF StepKind, Settles
    <2>3. CASE UNCHANGED ledgerVars
      BY <2>1, <2>3, QuietIsCalm DEF StepKind
    <2>4. QED
      BY <1>10, <2>2, <2>3 DEF RecordStarted
  <1>11. CASE RecordUncertain(w, d)
    BY <1>1, <1>11, WriteKind DEF RecordUncertain, At
  <1>12. CASE FailDispatch(w, d) \/ GiveBack(w, d)
    BY <1>1, <1>12, WriteKind, ReleaseKind DEF FailDispatch, GiveBack, At
  <1>13. QED
    BY <1>2, <1>3, <1>4, <1>5, <1>6, <1>7, <1>8, <1>9, <1>10, <1>11, <1>12 DEF Dispatch

LEMMA OperatorKind ==
  ASSUME SInv, NEW d \in Delivery, CancelCommand(d) \/ Reconcile(d)
  PROVE  StepKind
  <1>1. UNCHANGED turns
    BY DEF CancelCommand, Reconcile, history
  <1>2. CASE CancelCommand(d)
    <2>1. AppendEvidence(d, 0, "cancelled", FALSE) /\ ledger[d].attempts = 0
      BY <1>2 DEF CancelCommand, Cancel, Queued, Pending
    <2>2. "cancelled" \in Outcomes /\ 0 \in 0..2
      BY DEF Outcomes
    <2>3. QED
      BY <1>1, <2>1, <2>2 DEF StepKind, Settles
  <1>3. CASE Reconcile(d)
    <2>1. PICK state \in {"turn_started", "unknown"} :
            /\ state = "turn_started" => turns[d] > 0
            /\ AppendEvidence(d, ledger[d].attempts, state, FALSE)
      BY <1>3 DEF Reconcile
    <2>2. ledger[d].attempts \in 0..2 /\ state \in Outcomes /\ state \notin Refused
          /\ state # "cancelled"
      BY SInvTypes DEF Record, Outcomes, Refused
    <2>3. QED
      BY <1>1, <2>1, <2>2 DEF StepKind, Settles
  <1>4. QED
    BY <1>2, <1>3

\* A newcomer joins.
LEMMA JoinKind ==
  ASSUME SInv, NEW d \in Delivery, Send(d) \/ SendTeam(d)
  PROVE  StepKind
  <1>1. CASE Send(d)
    <2>1. ledger[d] = Absent /\ Put(d, Committed("admitted", "scheduled", "scheduled"))
      BY <1>1 DEF Send, Commit
    <2>2. \A e \in Delivery : ledger'[e] =
            IF e = d THEN Committed("admitted", "scheduled", "scheduled") ELSE ledger[e]
      BY <2>1, SInvTypes, PutOthers DEF IInv
    <2>3. /\ ledger[d].state = "absent" /\ ledger[d].attempts = 0
          /\ ledger'[d].state = "scheduled" /\ ledger'[d].attempts = 0
      <3>1. ledger[d] = Absent /\ ledger'[d] = Committed("admitted", "scheduled", "scheduled")
        BY <2>1, <2>2
      <3>2. QED
        BY <3>1 DEF Committed, Absent
    <2>4. \A e \in Delivery \ {d} : ledger'[e] = ledger[e]
      BY <2>2
    <2>5. QED
      BY <1>1, <2>3, <2>4 DEF Send, StepKind, Calm
  <1>2. CASE SendTeam(d)
    <2> DEFINE r == [ledger[d] EXCEPT !.wake = "scheduled", !.state = "scheduled"]
    <2>1. \A e \in Delivery : ledger'[e] = IF e = d THEN r ELSE ledger[e]
      BY <1>2, SInvTypes, PutOthers DEF IInv, SendTeam, ScheduleTeam
    <2>2. ledger[d].state = "prepared" /\ r.state = "scheduled" /\ r.attempts = ledger[d].attempts
      BY <1>2, SInvTypes DEF SendTeam, ScheduleTeam, Record
    <2> HIDE DEF r
    <2>3. QED
      BY <1>2, <2>1, <2>2 DEF SendTeam, StepKind, Calm
  <1>3. QED
    BY <1>1, <1>2

LEMMA PrepareTeamKind ==
  ASSUME SInv, PrepareTeam
  PROVE  StepKind
  <1>1. CommitTeam({}) /\ UNCHANGED turns
    BY DEF PrepareTeam, history
  <1>2. ASSUME NEW e \in Delivery
        PROVE  \/ ledger'[e] = ledger[e]
               \/ /\ ledger[e].state = "absent" /\ ledger[e].attempts = 0
                  /\ ledger'[e].state = "prepared" /\ ledger'[e].attempts = 0
    <2>1. CASE e \in TeamCast
      <3>1. ledger[e] = Absent /\ ledger'[e] = Committed("admitted", "immediate", "prepared")
        BY <1>1, <2>1 DEF CommitTeam, CommitBatch
      <3>2. QED
        BY <3>1 DEF Committed, Absent
    <2>2. CASE e \notin TeamCast
      BY <1>1, <2>2 DEF CommitTeam, CommitBatch
    <2>3. QED
      BY <2>1, <2>2
  <1>3. QED
    BY <1>1, <1>2 DEF StepKind, Calm

LEMMA NextKind == SInv /\ [Next]_vars => StepKind
  <1> SUFFICES ASSUME SInv, [Next]_vars PROVE StepKind
    OBVIOUS
  <1>1. ASSUME NEW d \in Delivery,
               Send(d) \/ SendTeam(d) \/ CancelCommand(d) \/ Reconcile(d)
        PROVE  StepKind
    BY <1>1, JoinKind, OperatorKind
  <1>2. ASSUME NEW d \in Delivery, LateTurn(d) PROVE StepKind
    BY <1>2 DEF LateTurn, SInv, TurnsSound, StepKind, Takes
  <1>3. CASE PrepareTeam
    BY <1>3, PrepareTeamKind
  <1>4. CASE PassTime
    BY <1>4 DEF PassTime, Tick, history, StepKind, Calm
  <1>5. ASSUME NEW w \in Worker, WorkerStep(w) PROVE StepKind
    <2>1. CASE Snapshot(w)
      BY <2>1, QuietIsCalm DEF Snapshot, history, StepKind
    <2>2. CASE \E d \in batch[w] : Dispatch(w, d)
      BY <2>2, DispatchKind
    <2>3. QED
      BY <1>5, <2>1, <2>2 DEF WorkerStep
  <1>6. ASSUME NEW w \in Worker, (\E d \in batch[w] : Fault(w, d)) \/ Start(w) \/ Crash(w)
        PROVE  StepKind
    <2>1. UNCHANGED <<ledgerVars, turns>>
      BY <1>6 DEF Fault, Start, Crash, history
    <2>2. QED
      BY <2>1, QuietIsCalm DEF StepKind
  <1>7. CASE UNCHANGED vars
    BY <1>7, QuietIsCalm DEF vars, history, StepKind
  <1>8. QED
    BY <1>1, <1>2, <1>3, <1>4, <1>5, <1>6, <1>7 DEF Next

\* Evidence changes no attempt, and leads from states that may change still.
LEMMA SettlesEffect ==
  ASSUME SInv, NEW d \in Delivery, NEW a \in 0..2, NEW state \in Outcomes,
         NEW hasResult \in BOOLEAN, state = "cancelled" => ledger[d].attempts = 0,
         AppendEvidence(d, a, state, hasResult)
  PROVE  /\ \A e \in Delivery : ledger'[e].attempts = ledger[e].attempts
         /\ \A e \in Delivery \ {d} : ledger'[e].state = ledger[e].state
         /\ ledger'[d].state = state
         /\ \/ ledger[d].state = state
            \/ ledger[d].state \in {"scheduled", "prepared"}
            \/ ledger[d].state = "unknown" /\ state = "turn_started"
  <1>1. \/ ledger[d].state = state
        \/ ledger[d].state \in {"scheduled", "prepared"}
        \/ ledger[d].state = "unknown" /\ state = "turn_started"
    <2>1. ledger[d].state \notin {"created", "retryable"}
      BY DEF SInv, TurnsSound, StateSound
    <2>2. ASSUME DirectEvidenceFits(d, a, state)
          PROVE  \/ ledger[d].state = state
                 \/ ledger[d].state = "scheduled"
                 \/ ledger[d].state = "unknown" /\ state = "turn_started"
      <3>1. ledger[d].state \in DOMAIN Successors /\ state \in Successors[ledger[d].state]
        BY <2>2 DEF DirectEvidenceFits
      <3>2. QED
        BY <2>1, <3>1 DEF Successors
    <2>3. QED
      BY <2>2 DEF AppendEvidence, EvidenceFits, TeamEvidenceFits, GroupEvidenceFits
  <1>2. QED
    BY <1>1, SInvTypes, EvidenceEffect DEF NoReturn

-----------------------------------------------------------------------------
(* Lanes are FIFO                                                          *)

\* An attempt begins only when everyone queued before it in its lane has left
\* the queue, on whatever snapshots the workers act.
THEOREM LanesAreFifo == Spec => LaneIsFifo
  <1> DEFINE Fifo == \A d \in Delivery :
               ledger'[d].attempts > ledger[d].attempts => \A e \in ahead[d] : ~Queued(e)
  <1>1. SInv /\ [Next]_vars => Fifo
    <2> SUFFICES ASSUME SInv, [Next]_vars, NEW d \in Delivery,
                        ledger'[d].attempts > ledger[d].attempts
                 PROVE  \A e \in ahead[d] : ~Queued(e)
      OBVIOUS
    <2>1. ledger[d].attempts \in Nat
      BY SInvTypes DEF Record
    <2>2. ledger'[d].attempts # ledger[d].attempts
      BY <2>1
    <2>3. ~Calm
      BY <2>2 DEF Calm
    <2>4. PICK c \in Delivery : Settles(c) \/ Begins(c) \/ Takes(c)
      BY <2>3, NextKind DEF StepKind
    <2>5. ~Settles(c)
      BY <2>2, SettlesEffect DEF Settles
    <2>6. ~Takes(c)
      BY <2>2 DEF Takes, ledgerVars
    <2>7. PICK w \in Worker : c \in batch[w] /\ BeginAttempt(w, c)
      BY <2>4, <2>5, <2>6 DEF Begins
    <2>8. AddAttempt(c)
      BY <2>7 DEF BeginAttempt, BeginScheduled
    <2>9. d = c
      BY <2>2, <2>8, PutOthers, SInvTypes DEF AddAttempt, IInv
    <2>10. QED
      BY <2>7, <2>9 DEF SInv, QueuesSound
  <1>2. SInv /\ [Next]_vars => [Fifo]_vars
    BY <1>1
  <1>3. QED
    BY <1>2, SchedulerInvariant, PTL DEF Spec, LaneIsFifo

-----------------------------------------------------------------------------
(* One worker keeps the promise                                            *)

\* What a step makes of one Delivery is what the promise allows.
Allowed(d) ==
  \/ report'[d] = report[d] /\ (turns'[d] > 0 <=> turns[d] > 0)
  \/ /\ turns[d] = 0 /\ turns'[d] > 0 /\ report'[d] = report[d]
     /\ report[d] \in {"open", "uncertain"}
  \/ /\ turns'[d] > 0 <=> turns[d] > 0
     /\ \/ turns[d] > 0 /\ report[d] \in {"open", "uncertain"} /\ report'[d] = "started"
        \/ ~(turns[d] > 0) /\ report[d] = "open" /\ report'[d] = "notStarted"
        \/ report[d] = "open" /\ report'[d] = "uncertain"

Untouched(d) == report'[d] = report[d] /\ (turns'[d] > 0 <=> turns[d] > 0)

PromiseStep == [Promise!Next]_(Promise!vars)

LEMMA OnePlaceDiffers ==
  ASSUME NEW S, NEW T, NEW f \in [S -> T], NEW g \in [S -> T], NEW x \in S, NEW y,
         g[x] = y, \A z \in S \ {x} : g[z] = f[z]
  PROVE  g = [f EXCEPT ![x] = y]
  OBVIOUS

LEMMA MoveKeepsPromise ==
  ASSUME NEW d \in Delivery, Allowed(d), \A e \in Delivery \ {d} : Untouched(e)
  PROVE  PromiseStep
  <1> DEFINE s == [e \in Delivery |-> turns[e] > 0]
             t == [e \in Delivery |-> turns'[e] > 0]
             Reports == {"started", "notStarted", "uncertain", "open"}
  <1>1. report \in [Delivery -> Reports] /\ report' \in [Delivery -> Reports]
    BY Zenon DEF report
  <1>2. s \in [Delivery -> BOOLEAN] /\ t \in [Delivery -> BOOLEAN]
    <2>1. \A e \in Delivery : (turns[e] > 0) \in BOOLEAN /\ (turns'[e] > 0) \in BOOLEAN
      OBVIOUS
    <2>2. QED
      BY <2>1
  <1>3. ASSUME NEW e \in Delivery, e # d PROVE t[e] = s[e] /\ report'[e] = report[e]
    <2>1. Untouched(e)
      BY <1>3
    <2>2. (turns'[e] > 0) = (turns[e] > 0) /\ report'[e] = report[e]
      BY <2>1 DEF Untouched
    <2>3. t[e] = (turns'[e] > 0) /\ s[e] = (turns[e] > 0)
      BY Zenon
    <2>4. QED
      BY <2>2, <2>3, Zenon
  <1>4. (s[d] <=> turns[d] > 0) /\ (t[d] <=> turns'[d] > 0)
    BY Zenon
  <1> HIDE DEF s, t, Reports
  <1>5. \A y : t[d] = y => t = [s EXCEPT ![d] = y]
    BY <1>2, <1>3, OnePlaceDiffers
  <1>6. \A y : report'[d] = y => report' = [report EXCEPT ![d] = y]
    BY <1>1, <1>3, OnePlaceDiffers
  <1>7. PromiseStep <=>
          \/ \E e \in Delivery :
               \/ /\ ~s[e] /\ report[e] \in {"open", "uncertain"}
                  /\ t = [s EXCEPT ![e] = TRUE] /\ report' = report
               \/ /\ s[e] /\ report[e] \in {"open", "uncertain"}
                  /\ report' = [report EXCEPT ![e] = "started"] /\ t = s
               \/ /\ ~s[e] /\ report[e] = "open"
                  /\ report' = [report EXCEPT ![e] = "notStarted"] /\ t = s
               \/ report[e] = "open" /\ report' = [report EXCEPT ![e] = "uncertain"] /\ t = s
          \/ t = s /\ report' = report
    BY Zenon DEF PromiseStep, Promise!Next, Promise!vars, Promise!StartTurn,
      Promise!ReportStarted, Promise!ReportNotStarted, Promise!ReportUncertain, s, t
  <1>8. report'[d] = report[d] => report' = report
    BY <1>1, <1>3
  <1>9. (t[d] <=> s[d]) => t = s
    <2>1. (t[d] <=> s[d]) => t[d] = s[d]
      BY <1>2
    <2>2. t[d] = s[d] => \A e \in Delivery : t[e] = s[e]
      BY <1>3
    <2>3. QED
      BY <1>2, <2>1, <2>2
  <1>10. t[d] => t = [s EXCEPT ![d] = TRUE]
    <2>1. t[d] => t[d] = TRUE
      BY <1>2
    <2>2. QED
      BY <2>1, <1>5
  <1>11. CASE report'[d] = report[d] /\ (turns'[d] > 0 <=> turns[d] > 0)
    BY <1>4, <1>7, <1>8, <1>9, <1>11
  <1>12. CASE /\ turns[d] = 0 /\ turns'[d] > 0 /\ report'[d] = report[d]
              /\ report[d] \in {"open", "uncertain"}
    <2>1. ~s[d] /\ t[d] /\ report' = report
      BY <1>4, <1>8, <1>12
    <2>2. QED
      BY <1>7, <1>10, <1>12, <2>1
  <1>13. CASE /\ turns'[d] > 0 <=> turns[d] > 0
              /\ \/ turns[d] > 0 /\ report[d] \in {"open", "uncertain"} /\ report'[d] = "started"
                 \/ ~(turns[d] > 0) /\ report[d] = "open" /\ report'[d] = "notStarted"
                 \/ report[d] = "open" /\ report'[d] = "uncertain"
    <2>1. t = s
      BY <1>4, <1>9, <1>13
    <2>2. CASE turns[d] > 0 /\ report[d] \in {"open", "uncertain"} /\ report'[d] = "started"
      BY <1>4, <1>6, <1>7, <2>1, <2>2
    <2>3. CASE ~(turns[d] > 0) /\ report[d] = "open" /\ report'[d] = "notStarted"
      BY <1>4, <1>6, <1>7, <2>1, <2>3
    <2>4. CASE report[d] = "open" /\ report'[d] = "uncertain"
      BY <1>6, <1>7, <2>1, <2>4
    <2>5. QED
      BY <1>13, <2>2, <2>3, <2>4
  <1>14. QED
    BY <1>11, <1>12, <1>13 DEF Allowed

LEMMA ReportOfState ==
  ASSUME NEW e \in Delivery
  PROVE  /\ ledger[e].state = "turn_started" => report[e] = "started"
         /\ ledger[e].state \in Refused => report[e] = "notStarted"
         /\ ledger[e].state = "unknown" => report[e] = "uncertain"
         /\ ledger[e].state \notin Refused \cup {"turn_started", "unknown"}
              => report[e] = "open"
  <1> DEFINE r == CASE ledger[e].state = "turn_started" -> "started"
                    [] ledger[e].state \in {"expired", "cancelled", "policy_denied"} -> "notStarted"
                    [] ledger[e].state = "unknown" -> "uncertain"
                    [] OTHER -> "open"
  <1>1. report[e] = r
    BY Zenon DEF report
  <1>2. QED
    BY <1>1 DEF Refused

LEMMA NextReportOfState ==
  ASSUME NEW e \in Delivery
  PROVE  /\ ledger'[e].state = "turn_started" => report'[e] = "started"
         /\ ledger'[e].state \in Refused => report'[e] = "notStarted"
         /\ ledger'[e].state = "unknown" => report'[e] = "uncertain"
         /\ ledger'[e].state \notin Refused \cup {"turn_started", "unknown"}
              => report'[e] = "open"
  <1> DEFINE r == CASE ledger'[e].state = "turn_started" -> "started"
                    [] ledger'[e].state \in {"expired", "cancelled", "policy_denied"} -> "notStarted"
                    [] ledger'[e].state = "unknown" -> "uncertain"
                    [] OTHER -> "open"
  <1>1. report'[e] = r
    BY Zenon DEF report
  <1>2. QED
    BY <1>1 DEF Refused

LEMMA SameReports ==
  ASSUME UNCHANGED turns, \A e \in Delivery : report'[e] = report[e]
  PROVE  PromiseStep
  <1>1. [e \in Delivery |-> turns'[e] > 0] = [e \in Delivery |-> turns[e] > 0]
    OBVIOUS
  <1>2. report = [e \in Delivery |-> report[e]] /\ report' = [e \in Delivery |-> report'[e]]
    BY Zenon DEF report
  <1>3. report' = report
    BY <1>2
  <1>4. QED
    BY <1>1, <1>3 DEF PromiseStep, Promise!vars

LEMMA SettlesPromise ==
  ASSUME SInv, Alone, NEW d \in Delivery, Settles(d)
  PROVE  PromiseStep
  <1>1. PICK a \in 0..2, state \in Outcomes, hasResult \in BOOLEAN :
          /\ AppendEvidence(d, a, state, hasResult)
          /\ state = "turn_started" => turns[d] > 0
          /\ state \in Refused => ledger[d].attempts = 0
    BY DEF Settles
  <1>2. /\ \A e \in Delivery \ {d} : ledger'[e].state = ledger[e].state
        /\ ledger'[d].state = state
        /\ \/ ledger[d].state = state
           \/ ledger[d].state \in {"scheduled", "prepared"}
           \/ ledger[d].state = "unknown" /\ state = "turn_started"
    BY <1>1, SettlesEffect DEF Refused
  <1>3. turns' = turns /\ state \in Refused \cup {"turn_started", "unknown"}
    BY DEF Settles, Outcomes, Refused
  <1>4. state \in Refused => ~(turns[d] > 0)
    BY <1>1 DEF SInv, TurnsSound
  <1>5. \A e \in Delivery \ {d} : Untouched(e)
    BY <1>2, <1>3, ReportOfState, NextReportOfState DEF Untouched
  <1>6. CASE ledger[d].state = state
    <2>1. report'[d] = report[d]
      BY <1>2, <1>6, ReportOfState, NextReportOfState
    <2>2. QED
      BY <1>3, <1>5, <2>1, MoveKeepsPromise DEF Allowed
  <1>7. CASE ledger[d].state \in {"scheduled", "prepared"}
    <2>1. report[d] = "open"
      BY <1>7, ReportOfState DEF Refused
    <2>2. \/ state = "turn_started" /\ report'[d] = "started"
          \/ state \in Refused /\ report'[d] = "notStarted"
          \/ state = "unknown" /\ report'[d] = "uncertain"
      BY <1>2, <1>3, NextReportOfState
    <2>3. Allowed(d)
      BY <1>1, <1>3, <1>4, <2>1, <2>2 DEF Allowed
    <2>4. QED
      BY <1>5, <2>3, MoveKeepsPromise
  <1>8. CASE ledger[d].state = "unknown" /\ state = "turn_started"
    <2>1. report[d] = "uncertain" /\ report'[d] = "started"
      BY <1>2, <1>8, ReportOfState, NextReportOfState
    <2>2. QED
      BY <1>1, <1>3, <1>5, <1>8, <2>1, MoveKeepsPromise DEF Allowed
  <1>9. QED
    BY <1>2, <1>6, <1>7, <1>8

LEMMA TakesPromise ==
  ASSUME SInv, Alone, NEW d \in Delivery, Takes(d)
  PROVE  PromiseStep
  <1>1. turns'[d] = 1 /\ \A e \in Delivery \ {d} : turns'[e] = turns[e]
    BY DEF Takes, TakeTurn, SInv, Workers
  <1>2. report' = report
    BY DEF Takes, ledgerVars, report
  <1>3. ledger[d].state # "turn_started" /\ ledger[d].state \notin Refused
    BY DEF Takes, SInv, TurnsSound, StateSound, LoneSound, Refused
  <1>4. report[d] \in {"open", "uncertain"}
    BY <1>3, ReportOfState
  <1>5. Allowed(d) /\ \A e \in Delivery \ {d} : Untouched(e)
    BY <1>1, <1>2, <1>4 DEF Allowed, Untouched, Takes
  <1>6. QED
    BY <1>5, MoveKeepsPromise

\* Commits, claims and attempts report nothing.
LEMMA OpenPromise ==
  ASSUME UNCHANGED turns,
         \A e \in Delivery :
           \/ ledger'[e].state = ledger[e].state
           \/ ledger[e].state \in {"absent", "prepared"}
              /\ ledger'[e].state \in {"prepared", "scheduled"}
  PROVE  PromiseStep
  <1>1. \A e \in Delivery : report'[e] = report[e]
    BY ReportOfState, NextReportOfState DEF Refused
  <1>2. QED
    BY <1>1, SameReports

LEMMA NextPromise == SInv /\ Alone /\ [Next]_vars => [Promise!Next]_(Promise!vars)
  <1> SUFFICES ASSUME SInv, Alone, [Next]_vars PROVE PromiseStep
    BY DEF PromiseStep
  <1>1. CASE Calm
    BY <1>1, OpenPromise DEF Calm
  <1>2. ASSUME NEW d \in Delivery, Settles(d) PROVE PromiseStep
    BY <1>2, SettlesPromise
  <1>3. ASSUME NEW d \in Delivery, Takes(d) PROVE PromiseStep
    BY <1>3, TakesPromise
  <1>4. ASSUME NEW d \in Delivery, Begins(d) PROVE PromiseStep
    <2>1. AddAttempt(d) /\ UNCHANGED turns
      BY <1>4 DEF Begins, BeginAttempt, BeginScheduled, history
    <2> DEFINE r == [ledger[d] EXCEPT !.attempts = ledger[d].attempts + 1]
    <2>2. \A e \in Delivery : ledger'[e] = IF e = d THEN r ELSE ledger[e]
      BY <2>1, SInvTypes, PutOthers DEF IInv, AddAttempt, Record
    <2>3. r.state = ledger[d].state
      BY SInvTypes DEF Record
    <2> HIDE DEF r
    <2>4. QED
      BY <2>1, <2>2, <2>3, OpenPromise
  <1>5. QED
    BY <1>1, <1>2, <1>3, <1>4, NextKind DEF StepKind

LEMMA InitPromise == Init => Promise!Init
  <1> SUFFICES ASSUME Init PROVE Promise!Init
    OBVIOUS
  <1>1. \A d \in Delivery : turns[d] = 0 /\ ledger[d].state = "absent"
    BY DEF Init, LedgerInit, Absent
  <1>2. \A d \in Delivery : report[d] = "open"
    BY <1>1, ReportOfState DEF Refused
  <1>3. report = [d \in Delivery |-> report[d]]
    BY Zenon DEF report
  <1>4. report = [d \in Delivery |-> "open"]
    BY <1>2, <1>3
  <1>5. [d \in Delivery |-> turns[d] > 0] = [d \in Delivery |-> FALSE]
    <2>1. \A d \in Delivery : (turns[d] > 0) = FALSE
      BY <1>1
    <2>2. QED
      BY <2>1, Zenon
  <1>6. QED
    BY <1>4, <1>5 DEF Promise!Init

\* With one worker the Scheduler implements DeliveryPromise: what it reports
\* of a message is true and final, however calls fail, workers die, answers
\* are lost and requests arrive late.
THEOREM LonePromiseKept ==
  ASSUME Alone
  PROVE  Spec => KeepsPromise
  <1>1. SInv /\ [Next]_vars => [Promise!Next]_(Promise!vars)
    BY NextPromise
  <1>2. QED
    BY <1>1, InitPromise, SchedulerInvariant, PTL DEF Spec, KeepsPromise, Promise!Spec
=============================================================================
