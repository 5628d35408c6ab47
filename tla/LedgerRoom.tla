------------------------------- MODULE LedgerRoom -------------------------------
(***************************************************************************)
(* The quota of the Delivery Ledger and the room it keeps back for records *)
(* to come (appendLedgerRecord, reservedEvidenceBytes): every operation of *)
(* DeliveryLedger appends one record, or is refused for want of room.      *)
(*                                                                         *)
(* Time passes and operations are called as in DeliveryLedger.  An append  *)
(* may be cut short: then the part that was written takes room, and        *)
(* nothing is on record.  Which file a record goes to is in LedgerStore;   *)
(* purges, which give room back, are in RetentionTransaction.              *)
(***************************************************************************)
EXTENDS DeliveryLedger

CONSTANTS
  EventBytes,  \* longest event (DELIVERY_LEDGER_EVENT_RESERVE_BYTES)
  BatchBytes,  \* longest batch (DELIVERY_LEDGER_MAX_RECORD_BYTES)
  Quota        \* quotaBytes

ASSUME RoomAssumptions ==
  /\ EventBytes \in Nat \ {0} /\ BatchBytes \in Nat \ {0}
  /\ Quota \in Nat

VARIABLES
  bytes,  \* currentStoreBytes
  torn    \* those of them that are parts of records

roomVars == <<ledgerVars, bytes, torn>>

RoomTypeOK == bytes \in Nat /\ torn \in 0..bytes

RoomInit == LedgerInit /\ bytes = 0 /\ torn = 0

-----------------------------------------------------------------------------
(* The reserve                                                             *)

\* A bug the checks must catch: an attempt gives back the room of its outcome.
ReserveUntilAttempt(d, r) ==
  IF r.admission # "admitted" \/ r.state \in Settled \/ r.attempts > 0 THEN 0
  ELSE IF d \in Group THEN 1
  ELSE IF r.state = "prepared" THEN 5
  ELSE IF r.claim # NoClaim THEN 3 ELSE 4

\* Events that are kept room for, while the record of Delivery d is r.
Reserve(d, r) ==
  IF r.admission # "admitted" \/ r.state \in Settled THEN 0
  ELSE IF d \in Group THEN 1
  ELSE CASE r.state = "unknown"   -> 1
         [] r.state = "created"   -> IF r.attempts = 0 THEN 4 ELSE 3
         [] r.state = "retryable" -> IF r.attempts = 1 THEN 2 ELSE 1
         [] r.state = "prepared"  -> IF r.attempts = 0 THEN 5 ELSE 1
         [] r.state = "scheduled" -> IF r.attempts > 0 THEN 2
                                     ELSE IF r.claim # NoClaim THEN 3 ELSE 4

\* reservedEvidenceBytes, in events.
Reserved(records) ==
  Cardinality({p \in Delivery \X (1..5) : p[2] <= Reserve(p[1], records[p[1]])})

-----------------------------------------------------------------------------
(* Operations                                                              *)

\* appendLedgerRecord: what the record leaves must hold the reserve after it.
AppendRecord(longest) ==
  \E length \in 1..longest :
    /\ bytes + length + EventBytes * Reserved(ledger') <= Quota
    /\ bytes' = bytes + length
    /\ UNCHANGED torn

CommitDirect ==
  /\ \E d \in Delivery : CommitSome(d)
  /\ AppendRecord(BatchBytes)

CommitRecipients ==
  /\ \/ \E refused \in SUBSET TeamCast : CommitTeam(refused)
     \/ \E refused \in SUBSET Group : CommitGroup(refused)
  /\ AppendRecord(BatchBytes)

ScheduleRecipient ==
  /\ \E d \in Delivery : ScheduleTeam(d)
  /\ AppendRecord(EventBytes)

\* A release of nothing is not recorded.
RecordClaim ==
  /\ \E d \in Delivery : ClaimCall(d)
  /\ ledger' # ledger
  /\ AppendRecord(EventBytes)

RecordAttempt ==
  /\ \E d \in Delivery : BeginCall(d)
  /\ AppendRecord(EventBytes)

RecordEvidence ==
  /\ \E d \in Delivery : EvidenceCall(d)
  /\ AppendRecord(EventBytes)

\* The append fails or the process dies in it: a part of a record that had room.
AppendPart ==
  /\ \E part \in 1..(BatchBytes - 1) :
       /\ bytes + part < Quota
       /\ bytes' = bytes + part
       /\ torn' = torn + part
  /\ UNCHANGED ledgerVars

RoomTick == Tick /\ UNCHANGED <<bytes, torn>>

RoomNext ==
  \/ CommitDirect \/ CommitRecipients \/ ScheduleRecipient \/ RecordClaim
  \/ RecordAttempt \/ RecordEvidence \/ AppendPart \/ RoomTick

RoomSpec == RoomInit /\ [][RoomNext]_roomVars

-----------------------------------------------------------------------------
(* Properties                                                              *)

\* The longest event that turns the record of d into r has room, but for what
\* partial records took.
HasRoom(d, r) ==
  bytes + EventBytes + EventBytes * Reserved([ledger EXCEPT ![d] = r]) <= Quota + torn

\* Whose claim it is makes no difference to the reserve.
SomeClaim == [NoClaim EXCEPT !.id = 1]

\* An uncertain outcome the reserve does not count: of the attempt on a
\* prepared Team Cast Delivery, and of a retry.
Uncounted(d, state) ==
  /\ state = "unknown"
  /\ ledger[d].state = "prepared" \/ ledger[d].attempts = 2

\* However full the store, whatever settles a Delivery, and every outcome of an
\* attempt, can be recorded, with the two exceptions of Uncounted: a Delivery
\* never hangs because the quota refuses its evidence.  Evidence of the state
\* that is on record already is not what the room is kept for.
EvidenceHasRoom ==
  \A d \in Delivery, a \in 0..2, state \in States, hasResult \in BOOLEAN :
    EvidenceFits(d, a, state, hasResult) /\ state # ledger[d].state =>
      HasRoom(d, [ledger[d] EXCEPT !.state = state]) \/ Uncounted(d, state)

\* The way to an attempt has room as well: what has been committed is not stopped
\* half way by the quota.  Only a released or lapsed claim has its way again in
\* competition with new messages.
AttemptsHaveRoom ==
  \A d \in Delivery :
    LET r == ledger[d]
        attempted == [r EXCEPT !.attempts = @ + 1] IN
    r.admission = "admitted" =>
      /\ r.state \in {"created", "prepared"} /\ r.attempts = 0 => HasRoom(d, attempted)
      /\ r.state = "retryable" /\ r.attempts = 1 => HasRoom(d, attempted)
      /\ r.state = "prepared" /\ r.attempts = 0 =>
           HasRoom(d, [r EXCEPT !.state = "scheduled"])
      /\ Queued(d) =>
           /\ r.claim = NoClaim => HasRoom(d, [r EXCEPT !.claim = SomeClaim])
           /\ r.claim # NoClaim => HasRoom(d, attempted)

\* Both: once committed, a Delivery has room for its way and for its end.
RoomIsKept == RoomTypeOK /\ EvidenceHasRoom /\ AttemptsHaveRoom
=============================================================================
