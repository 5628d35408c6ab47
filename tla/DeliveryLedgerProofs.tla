------------------------- MODULE DeliveryLedgerProofs -------------------------
(***************************************************************************)
(* Proofs about DeliveryLedger for any sets of Deliveries, batches, lanes  *)
(* and workers, and any lease, lock wait and queue limit.                  *)
(*                                                                         *)
(* Every operation replaces the record of one Delivery, so the inductive   *)
(* invariant is a predicate on one record (Consistent) and the proof shows *)
(* for each operation that the record it writes has it.                    *)
(*                                                                         *)
(* The last part is about LedgerRoom, for any quota and any length of      *)
(* records: what is kept in room is what the records to come will take.    *)
(***************************************************************************)
EXTENDS LedgerRoom, FiniteSetTheorems, TLAPS

\* What is true of the record r of Delivery d: where its state can have come
\* from, and what its attempts rest on.
Consistent(d, r) ==
  /\ r.state = "absent" => r.attempts = 0
  /\ r.state = "absent" => r.admission = "none"
  /\ r.state = "prepared" => r.admission = "admitted" /\ d \notin Group
  /\ r.state = "scheduled" /\ d \notin Direct => r.admission = "admitted"
  /\ r.state \in {"created", "retryable"} => r.wake = "immediate"
  /\ r.state = "retryable" => r.attempts > 0 /\ <<1, "retryable">> \in r.evidence
  /\ d \in Group => r.attempts = 0 /\ r.wake \notin {"immediate", "scheduled"}
  /\ r.attempts > 0 => r.admission = "admitted"
  /\ r.attempts = 2 => r.wake = "immediate" /\ <<1, "retryable">> \in r.evidence
  /\ r.state \in {"cancelled", "policy_denied", "denied"} =>
       r.attempts = 0 \/ (r.attempts = 1 /\ <<1, "retryable">> \in r.evidence)

IInv ==
  /\ LedgerTypeOK
  /\ \A d \in Delivery : Consistent(d, ledger[d])

-----------------------------------------------------------------------------
(* Types of what the operations write                                      *)

LEMMA AbsentRecord == Absent \in Record
  BY DEF Absent, Record, States, Claim, NoClaim

LEMMA CallTimesAreNat ==
  ASSUME LedgerTypeOK, NEW t \in CallTimes
  PROVE  t \in Nat /\ t <= clock
  BY DEF LedgerTypeOK, CallTimes

LEMMA RecordFields ==
  ASSUME LedgerTypeOK, NEW d \in Delivery
  PROVE  ledger[d] \in Record
  BY DEF LedgerTypeOK

\* It is enough to look at the one record an operation replaces.
LEMMA PutKeeps ==
  ASSUME IInv, NEW d \in Delivery, NEW r \in Record,
         Consistent(d, r), Put(d, r), UNCHANGED clock
  PROVE  IInv'
  <1>1. LedgerTypeOK'
    BY DEF IInv, LedgerTypeOK, Put
  <1>2. ASSUME NEW e \in Delivery PROVE Consistent(e, ledger'[e])
    <2>1. CASE e = d
      BY <2>1 DEF IInv, LedgerTypeOK, Put
    <2>2. CASE e # d
      BY <2>2 DEF IInv, LedgerTypeOK, Put
    <2>3. QED
      BY <2>1, <2>2
  <1>3. QED
    BY <1>1, <1>2 DEF IInv, Consistent

-----------------------------------------------------------------------------

LEMMA InitIInv == LedgerInit => IInv
  <1> SUFFICES ASSUME LedgerInit PROVE IInv
    OBVIOUS
  <1>1. LedgerTypeOK
    BY AbsentRecord DEF LedgerInit, LedgerTypeOK
  <1>2. \A d \in Delivery : Consistent(d, ledger[d])
    BY DEF LedgerInit, Absent, Consistent
  <1>3. QED
    BY <1>1, <1>2 DEF IInv

LEMMA CommitIInv ==
  ASSUME IInv, NEW d \in Delivery, CommitSome(d)
  PROVE  IInv'
  <1>1. PICK admission \in {"admitted", "quarantined", "denied"},
             wake \in {"immediate", "scheduled"} : Commit(d, admission, wake)
    BY DEF CommitSome
  <1> DEFINE r == Committed(admission, wake,
                            IF wake = "immediate" THEN "created" ELSE "scheduled")
  <1>2. r \in Record
    BY AbsentRecord DEF Committed, Record, States, Absent
  <1>3. Consistent(d, r)
    BY <1>1 DEF Commit, Committed, Absent, Consistent, Direct
  <1>4. QED
    BY <1>1, <1>2, <1>3, PutKeeps DEF Commit

LEMMA BatchIInv ==
  ASSUME IInv, NEW batch \in SUBSET Delivery, NEW refused,
         NEW wake \in {"immediate", "store-only"}, NEW state \in {"prepared", "scheduled"},
         wake = "immediate" \/ state = "prepared" => batch \cap Group = {},
         CommitBatch(batch, refused, wake, state)
  PROVE  IInv'
  <1> DEFINE r(d) == Committed(IF d \in refused THEN "denied" ELSE "admitted", wake, state)
  <1>1. ASSUME NEW d \in batch PROVE r(d) \in Record /\ Consistent(d, r(d))
    <2>1. r(d) \in Record
      BY AbsentRecord DEF Committed, Record, States, Absent
    <2>2. Consistent(d, r(d))
      BY DEF Committed, Absent, Consistent
    <2>3. QED
      BY <2>1, <2>2
  <1>2. LedgerTypeOK'
    BY <1>1 DEF IInv, LedgerTypeOK, CommitBatch
  <1>3. ASSUME NEW d \in Delivery PROVE Consistent(d, ledger'[d])
    BY <1>1 DEF IInv, CommitBatch
  <1>4. QED
    BY <1>2, <1>3 DEF IInv, Consistent

LEMMA CommitTeamIInv ==
  ASSUME IInv, NEW refused, CommitTeam(refused)
  PROVE  IInv'
  <1>1. TeamCast \cap Group = {} /\ TeamCast \in SUBSET Delivery
    BY LedgerAssumptions
  <1>2. QED
    BY <1>1, BatchIInv DEF CommitTeam

LEMMA CommitGroupIInv ==
  ASSUME IInv, NEW refused, CommitGroup(refused)
  PROVE  IInv'
  <1>1. Group \in SUBSET Delivery
    BY LedgerAssumptions
  <1>2. QED
    BY <1>1, BatchIInv DEF CommitGroup

LEMMA ScheduleTeamIInv ==
  ASSUME IInv, NEW d \in Delivery, ScheduleTeam(d)
  PROVE  IInv'
  <1> DEFINE r == [ledger[d] EXCEPT !.wake = "scheduled", !.state = "scheduled"]
  <1>1. d \notin Group
    BY LedgerAssumptions DEF ScheduleTeam
  <1>2. r \in Record
    BY RecordFields DEF IInv, Record, States
  <1>3. Consistent(d, r)
    BY <1>1, RecordFields DEF IInv, Consistent, ScheduleTeam, Record
  <1>4. QED
    BY <1>2, <1>3, PutKeeps DEF ScheduleTeam

-----------------------------------------------------------------------------
(* Claims                                                                  *)

LEMMA AcquireIInv ==
  ASSUME IInv, NEW d \in Delivery, NEW w \in Worker, NEW t \in CallTimes,
         Acquire(d, w, t)
  PROVE  IInv'
  <1> DEFINE n == ledger[d].claimCount + 1
             c == [worker |-> w, id |-> n, from |-> t, until |-> t + LeaseLength]
             r == [ledger[d] EXCEPT !.claim = c, !.claimCount = n]
  <1>1. ledger[d] \in Record /\ t \in Nat /\ LeaseLength \in Nat
    BY RecordFields, CallTimesAreNat, LedgerAssumptions DEF IInv
  <1>2. n \in Nat /\ c \in Claim
    BY <1>1 DEF Record, Claim
  <1>3. Put(d, r) /\ UNCHANGED clock
    <2>1. ledger[d].claimCount + 1 = n
      OBVIOUS
    <2>2. QED
      BY <1>1 DEF Acquire, Put, Record
  <1> HIDE DEF n, c
  <1>4. r \in Record
    BY <1>1, <1>2 DEF Record
  <1>5. Consistent(d, r)
    BY <1>1 DEF IInv, Consistent, Record
  <1>6. QED
    BY <1>3, <1>4, <1>5, PutKeeps

\* Changing nothing but the claim changes nothing that Consistent speaks of.
LEMMA ClaimKeeps ==
  ASSUME IInv, NEW d \in Delivery, NEW c \in Claim,
         Put(d, [ledger[d] EXCEPT !.claim = c]), UNCHANGED clock
  PROVE  IInv'
  <1> DEFINE r == [ledger[d] EXCEPT !.claim = c]
  <1>1. ledger[d] \in Record
    BY RecordFields DEF IInv
  <1>2. r \in Record
    BY <1>1 DEF Record
  <1>3. Consistent(d, r)
    BY <1>1 DEF IInv, Consistent, Record
  <1>4. QED
    BY <1>2, <1>3, PutKeeps

LEMMA RenewIInv ==
  ASSUME IInv, NEW d \in Delivery, NEW w \in Worker, NEW t \in CallTimes, NEW id \in Nat,
         Renew(d, w, id, t)
  PROVE  IInv'
  <1> DEFINE old == ledger[d].claim.until
             until == IF t + LeaseLength > old THEN t + LeaseLength ELSE old + 1
             c == [worker |-> w, id |-> id, from |-> t, until |-> until]
  <1>1. ledger[d] \in Record /\ t \in Nat /\ LeaseLength \in Nat
    BY RecordFields, CallTimesAreNat, LedgerAssumptions DEF IInv
  <1>2. until \in Nat
    BY <1>1 DEF Record, Claim
  <1>3. c \in Claim
    BY <1>1, <1>2 DEF Claim
  <1>4. Put(d, [ledger[d] EXCEPT !.claim = c]) /\ UNCHANGED clock
    BY DEF Renew
  <1>5. QED
    BY <1>3, <1>4, ClaimKeeps

LEMMA ReleaseIInv ==
  ASSUME IInv, NEW d \in Delivery, NEW w, NEW t, NEW id, Release(d, w, id, t)
  PROVE  IInv'
  <1>1. NoClaim \in Claim
    BY DEF NoClaim, Claim
  <1>2. QED
    BY <1>1, ClaimKeeps DEF Release

-----------------------------------------------------------------------------
(* Attempts and evidence                                                   *)

\* The first attempt of an admitted Delivery, or the second after evidence
\* that the first was not accepted.
LEMMA AttemptKeeps ==
  ASSUME IInv, NEW d \in Delivery, AddAttempt(d),
         d \notin Group,
         ledger[d].admission = "admitted",
         ledger[d].state \in {"created", "prepared", "scheduled", "retryable"},
         ledger[d].attempts = 0 \/ (ledger[d].attempts = 1 /\ ledger[d].state = "retryable")
  PROVE  IInv'
  <1> DEFINE r == [ledger[d] EXCEPT !.attempts = ledger[d].attempts + 1]
  <1>1. ledger[d] \in Record
    BY RecordFields DEF IInv
  <1>2. r \in Record
    BY <1>1 DEF Record
  <1>3. Consistent(d, r)
    BY <1>1 DEF IInv, Consistent, Record
  <1>4. Put(d, r)
    BY <1>1 DEF AddAttempt, Record
  <1>5. QED
    BY <1>2, <1>3, <1>4, PutKeeps DEF AddAttempt

LEMMA BeginIInv ==
  ASSUME IInv, NEW d \in Delivery, BeginCall(d)
  PROVE  IInv'
  <1>1. CASE BeginImmediate(d)
    BY <1>1, AttemptKeeps DEF BeginImmediate, Direct
  <1>2. CASE BeginRetry(d)
    BY <1>2, AttemptKeeps DEF BeginRetry, Direct
  <1>3. CASE BeginTeam(d)
    BY <1>3, AttemptKeeps, LedgerAssumptions DEF BeginTeam, IInv, Consistent
  <1>4. QED
    BY <1>1, <1>2, <1>3 DEF BeginCall

LEMMA BeginScheduledIInv ==
  ASSUME IInv, NEW d \in Delivery, NEW w, NEW t, NEW id, BeginScheduled(d, w, id, t)
  PROVE  IInv'
  <1>1. d \notin Group
    BY DEF BeginScheduled, CanBeginScheduled, Queued, Pending, IInv, Consistent
  <1>2. QED
    BY <1>1, AttemptKeeps DEF BeginScheduled, CanBeginScheduled, Queued, Pending

\* Evidence that fits leaves every conjunct of Consistent: "retryable" needs
\* an attempt of its own, and a refusal no attempt or a retryable one.
LEMMA EvidenceKeeps ==
  ASSUME IInv, NEW d \in Delivery, NEW a \in 0..2, NEW state \in States, NEW hasResult,
         EvidenceFits(d, a, state, hasResult),
         state = "cancelled" => ledger[d].attempts = 0,
         AppendEvidence(d, a, state, hasResult)
  PROVE  IInv'
  <1> DEFINE c == IF d \in TeamCast \/ state = "policy_denied" THEN NoClaim ELSE ledger[d].claim
             e == ledger[d].evidence \cup {<<a, state>>}
             r == [ledger[d] EXCEPT !.state = state, !.evidence = e, !.claim = c]
  <1>1. ledger[d] \in Record /\ Consistent(d, ledger[d])
    BY RecordFields DEF IInv
  <1>2. c \in Claim /\ e \in SUBSET ((0..2) \X States)
    BY <1>1 DEF Record, NoClaim, Claim
  <1>3. Put(d, r) /\ UNCHANGED clock
    BY <1>1 DEF AppendEvidence, Put, Record
  <1>4. state \notin {"absent", "prepared", "created", "scheduled"}
    BY DEF EvidenceFits, DirectEvidenceFits, TeamEvidenceFits, GroupEvidenceFits, Successors
  <1>5. state = "retryable" =>
          ledger[d].state = "created" /\ a = 1 /\ ledger[d].attempts = 1
    BY <1>1 DEF EvidenceFits, DirectEvidenceFits, TeamEvidenceFits, GroupEvidenceFits,
                Successors, Record
  <1>6. state \in {"cancelled", "policy_denied"} =>
          ledger[d].attempts = 0 \/ (ledger[d].attempts = 1 /\ ledger[d].state = "retryable")
    BY <1>1 DEF EvidenceFits, DirectEvidenceFits, TeamEvidenceFits, GroupEvidenceFits, Record
  <1>7. state # "denied"
    BY DEF EvidenceFits, DirectEvidenceFits, TeamEvidenceFits, GroupEvidenceFits, Successors
  <1> HIDE DEF c, e
  <1>8. r \in Record
    BY <1>1, <1>2 DEF Record
  <1>9. ledger[d].evidence \subseteq e /\ (state = "retryable" => <<1, "retryable">> \in e)
    BY <1>5 DEF e
  <1>10. Consistent(d, r)
    BY <1>1, <1>4, <1>5, <1>6, <1>7, <1>9 DEF Consistent, Record
  <1>11. QED
    BY <1>3, <1>8, <1>10, PutKeeps

LEMMA EvidenceIInv ==
  ASSUME IInv, NEW d \in Delivery, EvidenceCall(d)
  PROVE  IInv'
  <1>1. CASE \E t \in CallTimes : Cancel(d, t)
    <2>1. AppendEvidence(d, 0, "cancelled", FALSE) /\ ledger[d].attempts = 0
      BY <1>1 DEF Cancel, Queued, Pending
    <2>2. "cancelled" \in States /\ 0 \in 0..2
      BY DEF States
    <2>3. EvidenceFits(d, 0, "cancelled", FALSE)
      BY <2>1 DEF AppendEvidence
    <2>4. QED
      BY <2>1, <2>2, <2>3, EvidenceKeeps
  <1>2. ASSUME NEW a \in 0..2, NEW state \in States, NEW hasResult \in BOOLEAN,
               d \in Direct => state # "cancelled",
               AppendEvidence(d, a, state, hasResult)
        PROVE  IInv'
    <2>1. EvidenceFits(d, a, state, hasResult)
      BY <1>2 DEF AppendEvidence
    <2>2. state = "cancelled" => ledger[d].attempts = 0
      <3>1. state = "cancelled" => d \in Group
        BY <1>2, <2>1 DEF EvidenceFits, DirectEvidenceFits, TeamEvidenceFits, GroupEvidenceFits
      <3>2. QED
        BY <3>1 DEF IInv, Consistent
    <2>3. QED
      BY <1>2, <2>1, <2>2, EvidenceKeeps
  <1>3. QED
    BY <1>1, <1>2 DEF EvidenceCall

-----------------------------------------------------------------------------

LEMMA NextIInv == IInv /\ [LedgerNext]_ledgerVars => IInv'
  <1> SUFFICES ASSUME IInv, [LedgerNext]_ledgerVars PROVE IInv'
    OBVIOUS
  <1>1. ASSUME NEW d \in Delivery,
               CommitSome(d) \/ ScheduleTeam(d) \/ ClaimCall(d) \/ BeginCall(d) \/ EvidenceCall(d)
        PROVE  IInv'
    <2>1. CASE CommitSome(d)
      BY <2>1, CommitIInv
    <2>2. CASE ScheduleTeam(d)
      BY <2>2, ScheduleTeamIInv
    <2>3. CASE ClaimCall(d)
      <3>1. PICK w \in Worker, t \in CallTimes :
              \/ Acquire(d, w, t)
              \/ \E id \in 1..MaxClaims :
                   Renew(d, w, id, t) \/ Release(d, w, id, t) \/ BeginScheduled(d, w, id, t)
        BY <2>3 DEF ClaimCall
      <3>2. \A id \in 1..MaxClaims : id \in Nat
        BY LedgerAssumptions
      <3>3. QED
        BY <3>1, <3>2, AcquireIInv, RenewIInv, ReleaseIInv, BeginScheduledIInv
    <2>4. CASE BeginCall(d)
      BY <2>4, BeginIInv
    <2>5. CASE EvidenceCall(d)
      BY <2>5, EvidenceIInv
    <2>6. QED
      BY <1>1, <2>1, <2>2, <2>3, <2>4, <2>5
  <1>2. CASE \E refused \in SUBSET TeamCast : CommitTeam(refused)
    BY <1>2, CommitTeamIInv
  <1>3. CASE \E refused \in SUBSET Group : CommitGroup(refused)
    BY <1>3, CommitGroupIInv
  <1>4. CASE Tick
    BY <1>4 DEF Tick, IInv, LedgerTypeOK, Consistent
  <1>5. CASE UNCHANGED ledgerVars
    BY <1>5 DEF ledgerVars, IInv, LedgerTypeOK, Consistent
  <1>6. QED
    BY <1>1, <1>2, <1>3, <1>4, <1>5 DEF LedgerNext

\* The inductive invariant holds throughout.
THEOREM LedgerInvariant == LedgerSpec => []IInv
  BY InitIInv, NextIInv, PTL DEF LedgerSpec

\* Every record of the Ledger is well-formed, for any Deliveries and workers.
THEOREM LedgerTypes == LedgerSpec => []LedgerTypeOK
  <1>1. IInv => LedgerTypeOK
    BY DEF IInv
  <1>2. QED
    BY LedgerInvariant, <1>1, PTL

\* Only admitted Deliveries are attempted, and nothing is attempted again but
\* a direct immediate send whose first attempt was proved not accepted.
THEOREM NoReplay == LedgerSpec => []AttemptsAreJustified
  <1>1. IInv => AttemptsAreJustified
    BY DEF IInv, Consistent, AttemptsAreJustified
  <1>2. QED
    BY LedgerInvariant, <1>1, PTL

\* Behind a denial or a cancellation there is no attempt that may have been
\* accepted.
THEOREM RefusalsAreHonest == LedgerSpec => []NoAttemptBehindRefusal
  <1>1. IInv => NoAttemptBehindRefusal
    BY DEF IInv, Consistent, NoAttemptBehindRefusal
  <1>2. QED
    BY LedgerInvariant, <1>1, PTL
-----------------------------------------------------------------------------
(* What a step may never do                                                *)

\* The record of e after another record was put at d.
LEMMA PutOthers ==
  ASSUME LedgerTypeOK, NEW d \in Delivery, NEW e \in Delivery, NEW r, Put(d, r)
  PROVE  ledger'[e] = IF e = d THEN r ELSE ledger[e]
  BY DEF LedgerTypeOK, Put

\* What a step does to the outcome of one record.
KeepsOutcome(old, new) ==
  old.state \in Settled => new.state = old.state /\ new.attempts = old.attempts

LEMMA EvidenceKeepsOutcome ==
  ASSUME LedgerTypeOK, NEW d \in Delivery, NEW a, NEW state, NEW hasResult,
         AppendEvidence(d, a, state, hasResult), NEW e \in Delivery
  PROVE  KeepsOutcome(ledger[e], ledger'[e])
  <1> DEFINE c == IF d \in TeamCast \/ state = "policy_denied" THEN NoClaim ELSE ledger[d].claim
             v == ledger[d].evidence \cup {<<a, state>>}
             r == [ledger[d] EXCEPT !.state = state, !.evidence = v, !.claim = c]
  <1>1. ledger[d] \in Record
    BY RecordFields
  <1>2. Put(d, r)
    BY <1>1 DEF AppendEvidence, Put, Record
  <1>3. ledger[d].state \in Settled => ledger[d].state = state
    BY DEF AppendEvidence, EvidenceFits, DirectEvidenceFits, TeamEvidenceFits, GroupEvidenceFits,
           Successors, Settled
  <1> HIDE DEF c, v
  <1>4. r.state = state /\ r.attempts = ledger[d].attempts
    BY <1>1 DEF Record
  <1>5. KeepsOutcome(ledger[d], r)
    BY <1>3, <1>4 DEF KeepsOutcome
  <1> HIDE DEF r
  <1>6. ledger'[e] = IF e = d THEN r ELSE ledger[e]
    BY <1>2, PutOthers
  <1>7. QED
    BY <1>5, <1>6 DEF KeepsOutcome

LEMMA StepKeepsOutcome ==
  ASSUME LedgerTypeOK, [LedgerNext]_ledgerVars, NEW e \in Delivery
  PROVE  KeepsOutcome(ledger[e], ledger'[e])
  <1>1. ASSUME NEW d \in Delivery, CommitSome(d)
        PROVE  KeepsOutcome(ledger[e], ledger'[e])
    BY <1>1, PutOthers DEF CommitSome, Commit, Absent, KeepsOutcome, Settled
  <1>2. ASSUME NEW d \in Delivery, ScheduleTeam(d)
        PROVE  KeepsOutcome(ledger[e], ledger'[e])
    BY <1>2, PutOthers DEF ScheduleTeam, KeepsOutcome, Settled
  <1>3. ASSUME NEW d \in Delivery, ClaimCall(d)
        PROVE  KeepsOutcome(ledger[e], ledger'[e])
    <2>1. ledger[d] \in Record
      BY RecordFields
    <2>2. PICK w \in Worker, t \in CallTimes :
            \/ Acquire(d, w, t)
            \/ \E id \in 1..MaxClaims :
                 Renew(d, w, id, t) \/ Release(d, w, id, t) \/ BeginScheduled(d, w, id, t)
      BY <1>3 DEF ClaimCall
    <2>3. CASE Acquire(d, w, t)
      BY <2>3, PutOthers DEF Acquire, Queued, Pending, KeepsOutcome, Settled
    <2>4. ASSUME NEW id \in 1..MaxClaims, Renew(d, w, id, t)
          PROVE  KeepsOutcome(ledger[e], ledger'[e])
      BY <2>4, PutOthers DEF Renew, CanRenew, KeepsOutcome, Settled
    <2>5. ASSUME NEW id \in 1..MaxClaims, Release(d, w, id, t)
          PROVE  KeepsOutcome(ledger[e], ledger'[e])
      BY <2>1, <2>5, PutOthers DEF Release, KeepsOutcome, Record
    <2>6. ASSUME NEW id \in 1..MaxClaims, BeginScheduled(d, w, id, t)
          PROVE  KeepsOutcome(ledger[e], ledger'[e])
      BY <2>6, PutOthers DEF BeginScheduled, CanBeginScheduled, Queued, Pending, AddAttempt,
                             KeepsOutcome, Settled
    <2>7. QED
      BY <2>2, <2>3, <2>4, <2>5, <2>6
  <1>4. ASSUME NEW d \in Delivery, BeginCall(d)
        PROVE  KeepsOutcome(ledger[e], ledger'[e])
    BY <1>4, PutOthers DEF BeginCall, BeginImmediate, BeginRetry, BeginTeam, AddAttempt,
                           KeepsOutcome, Settled
  <1>5. ASSUME NEW d \in Delivery, EvidenceCall(d)
        PROVE  KeepsOutcome(ledger[e], ledger'[e])
    BY <1>5, EvidenceKeepsOutcome DEF EvidenceCall, Cancel
  <1>6. ASSUME NEW batch, NEW refused, NEW wake, NEW state,
               CommitBatch(batch, refused, wake, state)
        PROVE  KeepsOutcome(ledger[e], ledger'[e])
    BY <1>6 DEF CommitBatch, Absent, KeepsOutcome, Settled
  <1>7. CASE Tick \/ UNCHANGED ledgerVars
    BY <1>7 DEF Tick, ledgerVars, KeepsOutcome
  <1>8. QED
    BY <1>1, <1>2, <1>3, <1>4, <1>5, <1>6, <1>7 DEF LedgerNext, CommitTeam, CommitGroup

\* Once started, failed, expired, cancelled or denied, a Delivery stays so and
\* is not attempted any more.
THEOREM OutcomesAreFinal == LedgerSpec => OutcomeIsFinal
  <1>1. LedgerTypeOK /\ [LedgerNext]_ledgerVars =>
          [\A d \in Delivery :
             ledger[d].state \in Settled =>
               /\ ledger'[d].state = ledger[d].state
               /\ ledger'[d].attempts = ledger[d].attempts]_ledgerVars
    BY StepKeepsOutcome DEF KeepsOutcome
  <1>2. QED
    BY LedgerTypes, <1>1, PTL DEF LedgerSpec, OutcomeIsFinal

\* What a step does to the claim of one record.
RespectsLease(old, new) ==
  old.claim # NoClaim /\ new.claim # NoClaim /\ new.claim.id # old.claim.id
    => old.claim.until <= clock

LEMMA StepRespectsLease ==
  ASSUME LedgerTypeOK, [LedgerNext]_ledgerVars, NEW e \in Delivery
  PROVE  RespectsLease(ledger[e], ledger'[e])
  <1>1. ASSUME NEW d \in Delivery, CommitSome(d)
        PROVE  RespectsLease(ledger[e], ledger'[e])
    BY <1>1, PutOthers DEF CommitSome, Commit, Absent, RespectsLease
  <1>2. ASSUME NEW d \in Delivery, ScheduleTeam(d)
        PROVE  RespectsLease(ledger[e], ledger'[e])
    <2>1. ledger[d] \in Record
      BY RecordFields
    <2> DEFINE r == [ledger[d] EXCEPT !.wake = "scheduled", !.state = "scheduled"]
    <2>2. Put(d, r)
      BY <1>2 DEF ScheduleTeam
    <2>3. r.claim = ledger[d].claim
      BY <2>1 DEF Record
    <2> HIDE DEF r
    <2>4. QED
      BY <2>2, <2>3, PutOthers DEF RespectsLease
  <1>3. ASSUME NEW d \in Delivery, ClaimCall(d)
        PROVE  RespectsLease(ledger[e], ledger'[e])
    <2>1. ledger[d] \in Record
      BY RecordFields
    <2>2. PICK w \in Worker, t \in CallTimes :
            \/ Acquire(d, w, t)
            \/ \E id \in 1..MaxClaims :
                 Renew(d, w, id, t) \/ Release(d, w, id, t) \/ BeginScheduled(d, w, id, t)
      BY <1>3 DEF ClaimCall
    <2>3. CASE Acquire(d, w, t)
      <3>1. ledger[d].claim = NoClaim \/ ledger[d].claim.until <= clock
        BY <2>1, <2>3, CallTimesAreNat DEF Acquire, HasLiveClaim, Record, Claim, LedgerTypeOK
      <3>2. QED
        BY <2>3, <3>1, PutOthers DEF Acquire, RespectsLease
    <2>4. ASSUME NEW id \in 1..MaxClaims, Renew(d, w, id, t)
          PROVE  RespectsLease(ledger[e], ledger'[e])
      <3> DEFINE old == ledger[d].claim.until
                 until == IF t + LeaseLength > old THEN t + LeaseLength ELSE old + 1
                 c == [worker |-> w, id |-> id, from |-> t, until |-> until]
                 r == [ledger[d] EXCEPT !.claim = c]
      <3>1. Put(d, r) /\ ledger[d].claim.id = id
        BY <2>4 DEF Renew, CanRenew, HoldsClaim
      <3>2. r.claim.id = id
        BY <2>1 DEF Record
      <3> HIDE DEF r
      <3>3. QED
        BY <3>1, <3>2, PutOthers DEF RespectsLease
    <2>5. ASSUME NEW id \in 1..MaxClaims, Release(d, w, id, t)
          PROVE  RespectsLease(ledger[e], ledger'[e])
      BY <2>1, <2>5, PutOthers DEF Release, RespectsLease, Record
    <2>6. ASSUME NEW id \in 1..MaxClaims, BeginScheduled(d, w, id, t)
          PROVE  RespectsLease(ledger[e], ledger'[e])
      BY <2>1, <2>6, PutOthers DEF BeginScheduled, AddAttempt, RespectsLease, Record
    <2>7. QED
      BY <2>2, <2>3, <2>4, <2>5, <2>6
  <1>4. ASSUME NEW d \in Delivery, BeginCall(d)
        PROVE  RespectsLease(ledger[e], ledger'[e])
    <2>1. ledger[d] \in Record
      BY RecordFields
    <2>2. QED
      BY <1>4, <2>1, PutOthers DEF BeginCall, BeginImmediate, BeginRetry, BeginTeam, AddAttempt,
                                   RespectsLease, Record
  <1>5. ASSUME NEW d \in Delivery, EvidenceCall(d)
        PROVE  RespectsLease(ledger[e], ledger'[e])
    <2>1. ledger[d] \in Record
      BY RecordFields
    <2>2. PICK a, state, hasResult : AppendEvidence(d, a, state, hasResult)
      BY <1>5 DEF EvidenceCall, Cancel
    <2> DEFINE c == IF d \in TeamCast \/ state = "policy_denied" THEN NoClaim
                                                                ELSE ledger[d].claim
               v == ledger[d].evidence \cup {<<a, state>>}
               r == [ledger[d] EXCEPT !.state = state, !.evidence = v, !.claim = c]
    <2>3. Put(d, r)
      BY <2>1, <2>2 DEF AppendEvidence, Put, Record
    <2>4. c \in {ledger[d].claim, NoClaim}
      OBVIOUS
    <2> HIDE DEF c, v
    <2>5. r.claim = c
      BY <2>1 DEF Record
    <2> HIDE DEF r
    <2>6. ledger'[e].claim \in {ledger[e].claim, NoClaim}
      BY <2>3, <2>4, <2>5, PutOthers
    <2>7. QED
      BY <2>6 DEF RespectsLease
  <1>6. ASSUME NEW batch, NEW refused, NEW wake, NEW state,
               CommitBatch(batch, refused, wake, state)
        PROVE  RespectsLease(ledger[e], ledger'[e])
    BY <1>6 DEF CommitBatch, Absent, RespectsLease
  <1>7. CASE Tick \/ UNCHANGED ledgerVars
    BY <1>7 DEF Tick, ledgerVars, RespectsLease
  <1>8. QED
    BY <1>1, <1>2, <1>3, <1>4, <1>5, <1>6, <1>7 DEF LedgerNext, CommitTeam, CommitGroup

\* No claim is replaced before its lease has run out, with any lag between
\* the time an operation uses and the clock.
THEOREM ClaimsAreExclusive == LedgerSpec => LeaseIsExclusive
  <1>1. LedgerTypeOK /\ [LedgerNext]_ledgerVars =>
          [\A d \in Delivery :
             LET held == ledger[d].claim
                 next == ledger'[d].claim
             IN  held # NoClaim /\ next # NoClaim /\ next.id # held.id
                   => held.until <= clock]_ledgerVars
    BY StepRespectsLease DEF RespectsLease
  <1>2. QED
    BY LedgerTypes, <1>1, PTL DEF LedgerSpec, LeaseIsExclusive
-----------------------------------------------------------------------------
(* The room that is kept (LedgerRoom)                                      *)

\* What is on record and what is kept fit together, but for partial records.
RoomInv ==
  /\ RoomTypeOK
  /\ bytes + EventBytes * Reserved(ledger) <= Quota + torn

\* The set that Reserved counts.
Kept(records) == {p \in Delivery \X (1..5) : p[2] <= Reserve(p[1], records[p[1]])}

LEMMA KeptIsFinite ==
  ASSUME NEW records
  PROVE  IsFiniteSet(Kept(records)) /\ Reserved(records) = Cardinality(Kept(records))
         /\ Reserved(records) \in Nat
  <1>1. IsFiniteSet(1..5)
    <2>1. 1 \in Int /\ 5 \in Int
      OBVIOUS
    <2>2. QED
      BY <2>1, FS_Interval, Zenon
  <1>2. IsFiniteSet(Delivery \X (1..5))
    BY <1>1, LedgerAssumptions, FS_Product
  <1>3. Kept(records) \subseteq Delivery \X (1..5)
    BY DEF Kept
  <1>4. IsFiniteSet(Kept(records))
    BY <1>2, <1>3, FS_Subset
  <1>5. Reserved(records) = Cardinality(Kept(records))
    BY DEF Reserved, Kept
  <1>6. QED
    BY <1>4, <1>5, FS_CardinalityType

\* A record for which less is kept than for the one it replaces gives back room.
LEMMA LessIsKept ==
  ASSUME LedgerTypeOK, NEW d \in Delivery, NEW r,
         Reserve(d, r) \in 0..5, Reserve(d, ledger[d]) \in 0..5,
         Reserve(d, r) < Reserve(d, ledger[d])
  PROVE  Reserved([ledger EXCEPT ![d] = r]) + 1 <= Reserved(ledger)
  <1> PICK after : after = [ledger EXCEPT ![d] = r]
    OBVIOUS
  <1> PICK top : top = <<d, Reserve(d, ledger[d])>>
    OBVIOUS
  <1>1. after[d] = r /\ \A e \in Delivery : e # d => after[e] = ledger[e]
    BY DEF LedgerTypeOK
  <1>2. Kept(after) \subseteq Kept(ledger) \ {top}
    <2>1. SUFFICES ASSUME NEW p \in Kept(after) PROVE p \in Kept(ledger) /\ p # top
      OBVIOUS
    <2>2. p \in Delivery \X (1..5) /\ p[2] <= Reserve(p[1], after[p[1]])
      BY DEF Kept
    <2>3. CASE p[1] = d
      <3>1. p[2] \in 1..5 /\ p[2] <= Reserve(d, r)
        BY <1>1, <2>2, <2>3
      <3>2. p[2] < Reserve(d, ledger[d])
        BY <3>1
      <3>3. p # top
        BY <3>2
      <3>4. p \in Kept(ledger)
        BY <2>2, <2>3, <3>2 DEF Kept
      <3>5. QED
        BY <3>3, <3>4
    <2>4. CASE p[1] # d
      <3>1. after[p[1]] = ledger[p[1]]
        BY <1>1, <2>2, <2>4
      <3>2. p \in Kept(ledger)
        BY <2>2, <3>1 DEF Kept
      <3>3. QED
        BY <2>4, <3>2
    <2>5. QED
      BY <2>3, <2>4
  <1>3. top \in Kept(ledger)
    <2>1. Reserve(d, ledger[d]) \in 1..5
      OBVIOUS
    <2>2. QED
      BY <2>1 DEF Kept
  <1>4. IsFiniteSet(Kept(ledger) \ {top})
        /\ Cardinality(Kept(ledger) \ {top}) = Cardinality(Kept(ledger)) - 1
    BY <1>3, KeptIsFinite, FS_RemoveElement
  <1>5. Cardinality(Kept(after)) <= Cardinality(Kept(ledger) \ {top})
    BY <1>2, <1>4, FS_Subset
  <1>6. Reserved(after) = Cardinality(Kept(after)) /\ Reserved(after) \in Nat
    BY KeptIsFinite
  <1>7. Reserved(ledger) = Cardinality(Kept(ledger)) /\ Reserved(ledger) \in Nat
    BY KeptIsFinite
  <1>8. QED
    BY <1>4, <1>5, <1>6, <1>7

LEMMA OneMoreFits ==
  ASSUME NEW e \in Nat, NEW a \in Nat, NEW b \in Nat, a + 1 <= b
  PROVE  e + e * a <= e * b
  <1>1. PICK k \in Nat : b = a + 1 + k
    <2>1. b - a - 1 \in Nat /\ b = a + 1 + (b - a - 1)
      OBVIOUS
    <2>2. QED
      BY <2>1
  <1>2. e * b = e * a + e + e * k
    BY <1>1
  <1>3. e * k \in Nat /\ e * a \in Nat
    OBVIOUS
  <1>4. QED
    BY <1>2, <1>3

\* So it has room for the event that brings it.
LEMMA LessHasRoom ==
  ASSUME IInv, RoomInv, NEW d \in Delivery, NEW r,
         Reserve(d, r) \in 0..5, Reserve(d, ledger[d]) \in 0..5,
         Reserve(d, r) < Reserve(d, ledger[d])
  PROVE  HasRoom(d, r)
  <1> PICK before, after, before_, after_ :
        /\ before = Reserved(ledger) /\ before_ = EventBytes * before
        /\ after = Reserved([ledger EXCEPT ![d] = r]) /\ after_ = EventBytes * after
    OBVIOUS
  <1>1. before \in Nat /\ after \in Nat /\ EventBytes \in Nat
    BY KeptIsFinite, RoomAssumptions
  <1>2. after + 1 <= before
    BY LessIsKept DEF IInv
  <1>3. EventBytes + after_ <= before_
    BY <1>1, <1>2, OneMoreFits
  <1>4. before_ \in Nat /\ after_ \in Nat
    BY <1>1
  <1>5. bytes \in Nat /\ torn \in Nat /\ Quota \in Nat /\ bytes + before_ <= Quota + torn
    BY RoomAssumptions DEF RoomInv, RoomTypeOK
  <1>6. bytes + EventBytes + after_ <= Quota + torn
    BY <1>1, <1>3, <1>4, <1>5
  <1>7. QED
    BY <1>6 DEF HasRoom

LEMMA ReserveBounds ==
  ASSUME NEW d \in Delivery, NEW r \in Record, Consistent(d, r)
  PROVE  Reserve(d, r) \in 0..5
  BY DEF Reserve, Record, States, Settled, Consistent

LEMMA InitRoomInv == RoomInit => RoomInv
  <1> SUFFICES ASSUME RoomInit PROVE RoomInv
    OBVIOUS
  <1>1. \A d \in Delivery : ledger[d] = Absent
    BY DEF RoomInit, LedgerInit
  <1>2. Kept(ledger) = {}
    <2>1. SUFFICES ASSUME NEW p \in Kept(ledger) PROVE FALSE
      OBVIOUS
    <2>2. p \in Delivery \X (1..5) /\ p[2] <= Reserve(p[1], Absent)
      BY <1>1 DEF Kept
    <2>3. Reserve(p[1], Absent) = 0
      BY DEF Reserve, Absent
    <2>4. QED
      BY <2>2, <2>3
  <1>3. Reserved(ledger) = 0
    BY <1>2, KeptIsFinite, FS_EmptySet
  <1>4. EventBytes * 0 = 0
    BY RoomAssumptions
  <1>5. QED
    BY <1>3, <1>4, RoomAssumptions DEF RoomInv, RoomTypeOK, RoomInit

LEMMA NextRoomInv == RoomInv /\ [RoomNext]_roomVars => RoomInv'
  <1> SUFFICES ASSUME RoomInv, [RoomNext]_roomVars PROVE RoomInv'
    OBVIOUS
  <1> PICK next, next_ : next = Reserved(ledger') /\ next_ = EventBytes * next
    OBVIOUS
  <1>1. next \in Nat /\ next_ \in Nat
    <2>1. next \in Nat
      BY KeptIsFinite
    <2>2. QED
      BY <2>1, RoomAssumptions
  <1>2. bytes \in Nat /\ torn \in 0..bytes /\ Quota \in Nat /\ BatchBytes \in Nat
        /\ EventBytes \in Nat
    BY RoomAssumptions DEF RoomInv, RoomTypeOK
  <1>3. RoomInv' <=> bytes' \in Nat /\ torn' \in 0..bytes' /\ bytes' + next_ <= Quota + torn'
    BY DEF RoomInv, RoomTypeOK
  <1>4. ASSUME NEW longest \in Nat, AppendRecord(longest) PROVE RoomInv'
    <2>1. PICK length \in 1..longest :
            /\ bytes + length + next_ <= Quota
            /\ bytes' = bytes + length /\ torn' = torn
      BY <1>4 DEF AppendRecord
    <2>2. QED
      BY <1>1, <1>2, <1>3, <2>1
  <1>5. ASSUME ledger' = ledger PROVE bytes + next_ <= Quota + torn
    BY <1>5 DEF RoomInv
  <1>6. CASE AppendPart
    <2>1. ledger' = ledger
      BY <1>6 DEF AppendPart, ledgerVars
    <2>2. PICK part \in 1..(BatchBytes - 1) :
            bytes + part < Quota /\ bytes' = bytes + part /\ torn' = torn + part
      BY <1>6 DEF AppendPart
    <2>3. QED
      BY <1>1, <1>2, <1>3, <1>5, <2>1, <2>2
  <1>7. CASE RoomTick \/ UNCHANGED roomVars
    <2>1. ledger' = ledger /\ bytes' = bytes /\ torn' = torn
      BY <1>7 DEF RoomTick, Tick, roomVars, ledgerVars
    <2>2. QED
      BY <1>2, <1>3, <1>5, <2>1
  <1>8. QED
    BY <1>2, <1>4, <1>6, <1>7
       DEF RoomNext, CommitDirect, CommitRecipients, ScheduleRecipient, RecordClaim,
           RecordAttempt, RecordEvidence

\* Every operation of LedgerRoom is one of DeliveryLedger.
LEMMA RoomStepsAreLedgerSteps == [RoomNext]_roomVars => [LedgerNext]_ledgerVars
  BY DEF RoomNext, CommitDirect, CommitRecipients, ScheduleRecipient, RecordClaim,
         RecordAttempt, RecordEvidence, AppendPart, RoomTick, roomVars, LedgerNext

LEMMA EvidenceIsKeptRoomFor ==
  ASSUME IInv, NEW d \in Delivery, NEW a \in 0..2, NEW state \in States, NEW hasResult,
         EvidenceFits(d, a, state, hasResult), state # ledger[d].state,
         ~Uncounted(d, state)
  PROVE  LET r == [ledger[d] EXCEPT !.state = state]
         IN  Reserve(d, r) \in 0..5 /\ Reserve(d, r) < Reserve(d, ledger[d])
  <1> PICK old : old = ledger[d]
    OBVIOUS
  <1> PICK r : r = [old EXCEPT !.state = state]
    OBVIOUS
  <1>1. old \in Record /\ Consistent(d, old)
    BY RecordFields DEF IInv
  <1>2. r.state = state /\ r.attempts = old.attempts /\ r.admission = old.admission
        /\ r.claim = old.claim
    BY <1>1 DEF Record
  <1>3. CASE DirectEvidenceFits(d, a, state)
    <2>1. d \notin Group /\ old.admission = "admitted"
      BY <1>3 DEF DirectEvidenceFits, Direct
    <2>2. CASE old.state = "created"
      <3>1. state \in {"turn_started", "retryable", "unknown"}
            /\ (state = "retryable" => old.attempts = 1)
        BY <1>3, <2>2 DEF DirectEvidenceFits, Successors
      <3>2. QED
        BY <1>1, <1>2, <2>1, <2>2, <3>1 DEF Reserve, Settled, Record
    <2>3. CASE old.state = "scheduled"
      <3>1. state \in {"turn_started", "unknown", "expired", "cancelled", "policy_denied"}
        BY <1>3, <2>3 DEF DirectEvidenceFits, Successors
      <3>2. QED
        BY <1>1, <1>2, <2>1, <2>3, <3>1 DEF Reserve, Settled, Record
    <2>4. CASE old.state = "retryable"
      <3>1. state \in {"turn_started", "failed", "unknown", "expired", "policy_denied"}
        BY <1>3, <2>4 DEF DirectEvidenceFits, Successors
      <3>2. state = "unknown" => old.attempts = 1
        BY <1>1, <2>4 DEF Uncounted, Consistent, Record
      <3>3. QED
        BY <1>1, <1>2, <2>1, <2>4, <3>1, <3>2 DEF Reserve, Settled, Record
    <2>5. CASE old.state = "unknown"
      <3>1. state = "turn_started"
        BY <1>3, <2>5 DEF DirectEvidenceFits, Successors
      <3>2. QED
        BY <1>1, <1>2, <2>1, <2>5, <3>1 DEF Reserve, Settled, Record
    <2>6. QED
      BY <1>3, <2>2, <2>3, <2>4, <2>5 DEF DirectEvidenceFits, Successors
  <1>4. CASE TeamEvidenceFits(d, a, state, hasResult)
    <2>1. d \notin Group /\ d \notin Direct /\ old.state \in {"prepared", "scheduled"}
      BY <1>4, LedgerAssumptions DEF TeamEvidenceFits, Direct
    <2>2. old.admission = "admitted"
      BY <1>1, <2>1 DEF Consistent
    <2>3. CASE state \in Settled
      BY <1>1, <1>2, <2>1, <2>2, <2>3 DEF Reserve, Settled, Record
    <2>4. CASE state = "unknown"
      <3>1. old.state = "scheduled" /\ old.attempts = 1
        BY <1>4, <2>1, <2>4 DEF TeamEvidenceFits, Uncounted
      <3>2. QED
        BY <1>1, <1>2, <2>1, <2>2, <2>4, <3>1 DEF Reserve, Settled, Record
    <2>5. QED
      BY <1>4, <2>3, <2>4 DEF TeamEvidenceFits, Settled
  <1>5. CASE GroupEvidenceFits(d, a, state)
    <2>1. d \in Group /\ d \notin Direct /\ old.state = "scheduled" /\ state \in Settled
      BY <1>5 DEF GroupEvidenceFits, Direct, Settled
    <2>2. old.admission = "admitted"
      BY <1>1, <2>1 DEF Consistent
    <2>3. QED
      BY <1>1, <1>2, <2>1, <2>2 DEF Reserve, Settled, Record
  <1>6. QED
    BY <1>3, <1>4, <1>5 DEF EvidenceFits

LEMMA AttemptsAreKeptRoomFor == IInv /\ RoomInv => AttemptsHaveRoom
  <1> SUFFICES ASSUME IInv, RoomInv, NEW d \in Delivery,
                      ledger[d].admission = "admitted"
               PROVE  LET r == ledger[d]
                          attempted == [r EXCEPT !.attempts = @ + 1] IN
                      /\ r.state \in {"created", "prepared"} /\ r.attempts = 0 => HasRoom(d, attempted)
                      /\ r.state = "retryable" /\ r.attempts = 1 => HasRoom(d, attempted)
                      /\ r.state = "prepared" /\ r.attempts = 0 =>
                           HasRoom(d, [r EXCEPT !.state = "scheduled"])
                      /\ Queued(d) =>
                           /\ r.claim = NoClaim => HasRoom(d, [r EXCEPT !.claim = SomeClaim])
                           /\ r.claim # NoClaim => HasRoom(d, attempted)
    BY DEF AttemptsHaveRoom
  <1> DEFINE r == ledger[d]
             attempted == [r EXCEPT !.attempts = r.attempts + 1]
             joined == [r EXCEPT !.state = "scheduled"]
             claimed == [r EXCEPT !.claim = SomeClaim]
  <1>1. r \in Record /\ Consistent(d, r) /\ r.admission = "admitted"
    BY RecordFields DEF IInv
  <1>2. Reserve(d, r) \in 0..5
    BY <1>1, ReserveBounds
  <1>3. SomeClaim # NoClaim
    BY DEF SomeClaim, NoClaim
  <1>4. /\ attempted.state = r.state /\ attempted.attempts = r.attempts + 1
        /\ attempted.admission = r.admission /\ attempted.claim = r.claim
    BY <1>1 DEF Record
  <1>5. /\ joined.state = "scheduled" /\ joined.attempts = r.attempts
        /\ joined.admission = r.admission /\ joined.claim = r.claim
    BY <1>1 DEF Record
  <1>6. /\ claimed.state = r.state /\ claimed.attempts = r.attempts
        /\ claimed.admission = r.admission /\ claimed.claim = SomeClaim
    BY <1>1 DEF Record
  <1> HIDE DEF r, attempted, joined, claimed
  <1>7. r.state \in {"created", "prepared"} /\ r.attempts = 0 => HasRoom(d, attempted)
    <2>1. SUFFICES ASSUME r.state \in {"created", "prepared"}, r.attempts = 0
                   PROVE  HasRoom(d, attempted)
      OBVIOUS
    <2>2. d \notin Group
      BY <1>1, <2>1 DEF Consistent
    <2>3. Reserve(d, attempted) \in 0..5 /\ Reserve(d, attempted) < Reserve(d, r)
      BY <1>1, <1>4, <2>1, <2>2 DEF Reserve, Settled
    <2>4. QED
      BY <1>2, <2>3, LessHasRoom DEF r
  <1>8. r.state = "retryable" /\ r.attempts = 1 => HasRoom(d, attempted)
    <2>1. SUFFICES ASSUME r.state = "retryable", r.attempts = 1
                   PROVE  HasRoom(d, attempted)
      OBVIOUS
    <2>2. d \notin Group
      BY <1>1, <2>1 DEF Consistent
    <2>3. Reserve(d, attempted) \in 0..5 /\ Reserve(d, attempted) < Reserve(d, r)
      BY <1>1, <1>4, <2>1, <2>2 DEF Reserve, Settled
    <2>4. QED
      BY <1>2, <2>3, LessHasRoom DEF r
  <1>9. r.state = "prepared" /\ r.attempts = 0 => HasRoom(d, joined)
    <2>1. SUFFICES ASSUME r.state = "prepared", r.attempts = 0
                   PROVE  HasRoom(d, joined)
      OBVIOUS
    <2>2. d \notin Group
      BY <1>1, <2>1 DEF Consistent
    <2>3. Reserve(d, joined) \in 0..5 /\ Reserve(d, joined) < Reserve(d, r)
      BY <1>1, <1>5, <2>1, <2>2 DEF Reserve, Settled
    <2>4. QED
      BY <1>2, <2>3, LessHasRoom DEF r
  <1>10. ASSUME Queued(d)
         PROVE  /\ r.claim = NoClaim => HasRoom(d, claimed)
                /\ r.claim # NoClaim => HasRoom(d, attempted)
    <2>1. r.state = "scheduled" /\ r.attempts = 0 /\ r.wake = "scheduled"
      BY <1>10 DEF Queued, Pending, r
    <2>2. d \notin Group
      BY <1>1, <2>1 DEF Consistent
    <2>3. r.claim = NoClaim =>
            Reserve(d, claimed) \in 0..5 /\ Reserve(d, claimed) < Reserve(d, r)
      BY <1>1, <1>3, <1>6, <2>1, <2>2 DEF Reserve, Settled
    <2>4. r.claim # NoClaim =>
            Reserve(d, attempted) \in 0..5 /\ Reserve(d, attempted) < Reserve(d, r)
      BY <1>1, <1>4, <2>1, <2>2 DEF Reserve, Settled
    <2>5. QED
      BY <1>2, <2>3, <2>4, LessHasRoom DEF r
  <1>11. QED
    BY <1>7, <1>8, <1>9, <1>10 DEF r, attempted, joined, claimed

LEMMA RoomInvIsEnough == IInv /\ RoomInv => RoomIsKept
  <1> SUFFICES ASSUME IInv, RoomInv PROVE RoomIsKept
    OBVIOUS
  <1>1. EvidenceHasRoom
    <2>1. SUFFICES ASSUME NEW d \in Delivery, NEW a \in 0..2, NEW state \in States,
                          NEW hasResult \in BOOLEAN,
                          EvidenceFits(d, a, state, hasResult), state # ledger[d].state,
                          ~Uncounted(d, state)
                   PROVE  HasRoom(d, [ledger[d] EXCEPT !.state = state])
      BY DEF EvidenceHasRoom
    <2>2. Reserve(d, ledger[d]) \in 0..5
      BY RecordFields, ReserveBounds DEF IInv
    <2>3. QED
      BY <2>1, <2>2, EvidenceIsKeptRoomFor, LessHasRoom
  <1>2. QED
    BY <1>1, AttemptsAreKeptRoomFor DEF RoomIsKept, RoomInv

\* Whatever the quota and the length of records: every event on the way of an
\* admitted Delivery to its attempt and to its end has room, but for the two
\* uncertain outcomes that reservedEvidenceBytes does not count.
THEOREM RoomStaysKept == RoomSpec => []RoomIsKept
  <1>1. RoomInit => IInv /\ RoomInv
    BY InitIInv, InitRoomInv DEF RoomInit
  <1>2. IInv /\ RoomInv /\ [RoomNext]_roomVars => IInv' /\ RoomInv'
    BY NextIInv, NextRoomInv, RoomStepsAreLedgerSteps
  <1>3. IInv /\ RoomInv => RoomIsKept
    BY RoomInvIsEnough
  <1>4. QED
    BY <1>1, <1>2, <1>3, PTL DEF RoomSpec
=============================================================================
