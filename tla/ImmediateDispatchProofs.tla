------------------------ MODULE ImmediateDispatchProofs ------------------------
(***************************************************************************)
(* Proofs about ImmediateDispatch for any Deliveries, any number of        *)
(* processes and any number of failures.                                   *)
(*                                                                         *)
(* The Ledger lets one process at a time work on an attempt (OneEach), and *)
(* no other one begins while the message may have been taken: while it was *)
(* taken, is on the wire or is worked on, its record is Undecided, and an  *)
(* undecided record admits no attempt.  What leaves Undecided is evidence  *)
(* of a rejection, which only the process that was rejected has.           *)
(***************************************************************************)
EXTENDS ImmediateDispatch, DeliveryLedgerProofs

Working(p, d) == InAttempt(p) /\ d = Current(p)

\* The last attempt on d may have been accepted, or is under way.
Undecided(d) ==
  /\ ledger[d].attempts > 0
  /\ ledger[d].state \in {"created", "prepared", "retryable", "unknown", "turn_started"}
  /\ ledger[d].state = "retryable" => ledger[d].attempts = 2

RecordsSound == \A d \in Delivery :
  /\ turns[d] <= 1 /\ (d \in onWire => turns[d] = 0)
  /\ turns[d] > 0 \/ d \in onWire => Undecided(d)
  /\ ledger[d].state = "turn_started" => turns[d] > 0
  /\ ledger[d].state \in {"created", "retryable"} => d \in Direct
  /\ ledger[d].state = "prepared" => d \in TeamCast

OneEach == \A p, q \in Process : \A d \in Delivery :
  Working(p, d) /\ Working(q, d) => p = q

\* What the process that works on d knows about it.
WorkSound == \A p \in Process : InAttempt(p) =>
  /\ Current(p) \in todo[p]
  /\ Undecided(Current(p)) /\ attempt[p] = ledger[Current(p)].attempts
  /\ pc[p] \in {"request", "rejected"} => turns[Current(p)] = 0 /\ Current(p) \notin onWire
  /\ pc[p] = "accepted" => turns[Current(p)] > 0

\* What p found in a thread was accepted.
FindingsOf(p) == pc[p] \in {"inspected", "apply"} =>
  Current(p) \in todo[p] /\ (found[p] => turns[Current(p)] > 0)

Findings == \A p \in Process : FindingsOf(p)

Commands ==
  /\ routeLock \in [Direct -> Process \cup {NoProcess}]
  /\ pc \in [Process -> Steps]
  /\ todo \in [Process -> SUBSET Delivery]
  /\ attempt \in [Process -> 0..2]
  /\ found \in [Process -> BOOLEAN]
  /\ turns \in [Delivery -> Nat]
  /\ onWire \subseteq Delivery
  /\ interrupted \subseteq Delivery
  /\ failures \in Nat

Facts == RecordsSound /\ OneEach /\ WorkSound /\ Findings /\ OpenAttemptsAreOwned

DInv == IInv /\ Commands /\ Facts

-----------------------------------------------------------------------------
(* Steps that leave an attempt, or have nothing to do with one             *)

Same(q) == pc'[q] = pc[q] /\ todo'[q] = todo[q] /\ attempt'[q] = attempt[q] /\ found'[q] = found[q]

LEMMA SameWorks ==
  ASSUME NEW q \in Process, Same(q)
  PROVE  /\ InAttempt(q)' <=> InAttempt(q)
         /\ Current(q)' = Current(q)
         /\ \A d : Working(q, d)' <=> Working(q, d)
  BY DEF Same, InAttempt, Current, Working

\* No attempt begins, nothing is sent, and what is known of a record that is
\* undecided stays so.
LEMMA LeavingKeeps ==
  ASSUME DInv, UNCHANGED <<turns, onWire>>, interrupted \subseteq interrupted',
         \A q \in Process : Same(q) \/ (~InAttempt(q)' /\ FindingsOf(q)'),
         \A d \in Delivery :
           turns[d] > 0 \/ d \in onWire \/ (\E q \in Process : Same(q) /\ Working(q, d))
             => Undecided(d)' /\ ledger'[d].attempts = ledger[d].attempts,
         \A d \in Delivery :
           /\ ledger'[d].state = "turn_started" => turns[d] > 0
           /\ ledger'[d].state \in {"created", "retryable"} => d \in Direct
           /\ ledger'[d].state = "prepared" => d \in TeamCast,
         \A d \in Delivery : Open(d)' =>
           \/ d \in interrupted'
           \/ Open(d) /\ \A q \in Process : Working(q, d) => Same(q)
  PROVE  Facts'
  <1> USE DEF DInv, Facts
  <1>1. RecordsSound'
    BY DEF RecordsSound
  <1>2. ASSUME NEW q \in Process, InAttempt(q)'
        PROVE  Same(q) /\ InAttempt(q) /\ Current(q)' = Current(q)
    BY <1>2, SameWorks
  <1>3. OneEach'
    BY <1>2, SameWorks DEF OneEach, Working
  <1>4. WorkSound'
    <2>1. ASSUME NEW q \in Process, InAttempt(q)'
          PROVE  /\ Current(q)' \in todo'[q]
                 /\ Undecided(Current(q))' /\ attempt'[q] = ledger'[Current(q)'].attempts
                 /\ pc'[q] \in {"request", "rejected"} =>
                      turns'[Current(q)'] = 0 /\ Current(q)' \notin onWire'
                 /\ pc'[q] = "accepted" => turns'[Current(q)'] > 0
      <3>1. Same(q) /\ InAttempt(q) /\ Current(q)' = Current(q)
        BY <1>2, <2>1
      <3>2. Current(q) \in todo[q] /\ Current(q) \in Delivery /\ Working(q, Current(q))
        BY <3>1 DEF WorkSound, Commands, Working
      <3>3. Undecided(Current(q))' /\ ledger'[Current(q)].attempts = ledger[Current(q)].attempts
        BY <3>1, <3>2 DEF Undecided
      <3>4. QED
        BY <3>1, <3>2, <3>3 DEF WorkSound, Same
    <2>2. QED
      BY <2>1 DEF WorkSound
  <1>5. Findings'
    <2>1. ASSUME NEW q \in Process, Same(q) PROVE FindingsOf(q)'
      BY <2>1, SameWorks DEF Findings, FindingsOf, Same
    <2>2. QED
      BY <2>1 DEF Findings
  <1>6. OpenAttemptsAreOwned'
    <2>1. ASSUME NEW d \in Delivery, Open(d)', d \notin interrupted'
          PROVE  \E q \in Process : InAttempt(q)' /\ d = Current(q)'
      <3>1. Open(d) /\ \A q \in Process : Working(q, d) => Same(q)
        BY <2>1
      <3>2. PICK q \in Process : Working(q, d)
        BY <2>1, <3>1 DEF OpenAttemptsAreOwned, Working
      <3>3. Working(q, d)'
        BY <3>1, <3>2, SameWorks
      <3>4. QED
        BY <3>3 DEF Working
    <2>2. QED
      BY <2>1 DEF OpenAttemptsAreOwned
  <1>7. QED
    BY <1>1, <1>3, <1>4, <1>5, <1>6

-----------------------------------------------------------------------------
(* What a step does to the process that takes it                           *)

CommandTypes ==
  /\ routeLock \in [Direct -> Process \cup {NoProcess}]
  /\ pc \in [Process -> Steps]
  /\ todo \in [Process -> SUBSET Delivery]
  /\ attempt \in [Process -> 0..2]
  /\ found \in [Process -> BOOLEAN]

\* p is in no attempt after the step, and the others are where they were.
Leaves(p) ==
  /\ ~InAttempt(p)' /\ FindingsOf(p)'
  /\ \A q \in Process \ {p} : Same(q)

LEMMA UnlockedType ==
  ASSUME CommandTypes, NEW p \in Process
  PROVE  Unlocked(p) \in [Direct -> Process \cup {NoProcess}]
  BY DEF CommandTypes, Unlocked

LEMMA EndLeaves ==
  ASSUME CommandTypes, NEW p \in Process, End(p)
  PROVE  CommandTypes' /\ Leaves(p)
  <1>1. CommandTypes'
    BY UnlockedType DEF CommandTypes, End, Goto, Steps
  <1>2. pc'[p] = "idle" /\ \A q \in Process \ {p} : Same(q)
    BY DEF CommandTypes, End, Goto, Same
  <1>3. QED
    BY <1>1, <1>2 DEF Leaves, InAttempt, FindingsOf

LEMMA ContinueLeaves ==
  ASSUME CommandTypes, NEW p \in Process, Continue(p)
  PROVE  CommandTypes' /\ Leaves(p)
  <1>1. CASE End(p)
    BY <1>1, EndLeaves
  <1>2. CASE ~End(p)
    <2> DEFINE rest == todo[p] \ {Current(p)}
    <2>1. /\ Goto(p, "recipient")
          /\ todo' = [todo EXCEPT ![p] = rest]
          /\ attempt' = [attempt EXCEPT ![p] = 0]
          /\ UNCHANGED <<routeLock, found>>
      BY <1>2 DEF Continue
    <2>2. CommandTypes'
      BY <2>1 DEF CommandTypes, Goto, Steps
    <2>3. pc'[p] = "recipient" /\ \A q \in Process \ {p} : Same(q)
      BY <2>1 DEF CommandTypes, Goto, Same
    <2>4. QED
      BY <2>2, <2>3 DEF Leaves, InAttempt, FindingsOf
  <1>3. QED
    BY <1>1, <1>2

LEMMA TakeLockLeaves ==
  ASSUME CommandTypes, NEW p \in Process, NEW d \in Direct,
         NEW here \in {"admit", "retry"}, TakeLock(p, d, here), UNCHANGED attempt
  PROVE  CommandTypes' /\ Leaves(p)
  <1>1. CommandTypes'
    BY DEF CommandTypes, TakeLock, Goto, Steps, Direct
  <1>2. pc'[p] = here /\ \A q \in Process \ {p} : Same(q)
    BY DEF CommandTypes, TakeLock, Goto, Same
  <1>3. QED
    BY <1>1, <1>2 DEF Leaves, InAttempt, FindingsOf

-----------------------------------------------------------------------------
(* What a step does to the Ledger                                          *)

\* The record of d gets this state, and every other record stays.
Becomes(d, state) ==
  \A e \in Delivery :
    /\ ledger'[e].attempts = ledger[e].attempts
    /\ ledger'[e].state = IF e = d THEN state ELSE ledger[e].state

LEMMA EvidenceBecomes ==
  ASSUME IInv, NEW d \in Delivery, NEW a \in 0..2, NEW state \in States \ {"cancelled"},
         NEW hasResult \in BOOLEAN, AppendEvidence(d, a, state, hasResult)
  PROVE  IInv' /\ Becomes(d, state)
  <1>1. EvidenceCall(d)
    BY DEF EvidenceCall
  <1>2. IInv'
    BY <1>1, EvidenceIInv
  <1>3. \A e \in Delivery : ledger[e] \in Record
    BY RecordFields DEF IInv
  <1>4. Becomes(d, state)
    BY <1>3 DEF Becomes, AppendEvidence, Put, IInv, LedgerTypeOK, Record
  <1>5. QED
    BY <1>2, <1>4

LEMMA AttemptBecomes ==
  ASSUME IInv, NEW d \in Delivery, BeginCall(d)
  PROVE  /\ IInv'
         /\ \A e \in Delivery :
              /\ ledger'[e].state = ledger[e].state
              /\ ledger'[e].attempts = IF e = d THEN ledger[d].attempts + 1 ELSE ledger[e].attempts
  <1>1. IInv'
    BY BeginIInv
  <1>2. AddAttempt(d)
    BY DEF BeginCall, BeginImmediate, BeginRetry, BeginTeam
  <1>3. \A e \in Delivery : ledger[e] \in Record
    BY RecordFields DEF IInv
  <1>4. QED
    BY <1>1, <1>2, <1>3 DEF AddAttempt, Put, IInv, LedgerTypeOK, Record
-----------------------------------------------------------------------------
(* Steps that leave App Server alone and begin no attempt                  *)

LEMMA DInvTypes ==
  ASSUME DInv
  PROVE  /\ IInv /\ CommandTypes
         /\ \A d \in Delivery : ledger[d] \in Record /\ turns[d] \in Nat /\ d \in Nat
         /\ \A p \in Process : \A d \in todo[p] : d \in Delivery
  BY RecordFields, LedgerAssumptions DEF DInv, Commands, CommandTypes, IInv

\* Whoever works on d, and whatever App Server has of d, keeps d undecided.
LEMMA BusyIsUndecided ==
  ASSUME DInv, NEW d \in Delivery,
         turns[d] > 0 \/ d \in onWire \/ \E q \in Process : Working(q, d)
  PROVE  Undecided(d)
  BY DEF DInv, Facts, RecordsSound, WorkSound, Working

\* The step leaves the Ledger alone.
LEMMA QuietKeeps ==
  ASSUME DInv, NEW p \in Process, Leaves(p), CommandTypes',
         UNCHANGED <<ledgerVars, turns, onWire>>,
         interrupted \subseteq interrupted', interrupted' \subseteq Delivery, failures' \in Nat,
         \A d \in Delivery : Open(d) /\ Working(p, d) => d \in interrupted'
  PROVE  DInv'
  <1> USE DInvTypes
  <1>1. IInv'
    BY NextIInv DEF DInv
  <1>2. Commands'
    BY DEF DInv, Commands, CommandTypes
  <1>3. \A d : (Undecided(d)' <=> Undecided(d)) /\ (Open(d)' <=> Open(d))
    BY DEF ledgerVars, Undecided, Open, Dispatching
  <1>4. Facts'
    <2>1. \A q \in Process : Same(q) \/ (~InAttempt(q)' /\ FindingsOf(q)')
      BY DEF Leaves
    <2>2. \A d \in Delivery :
            turns[d] > 0 \/ d \in onWire \/ (\E q \in Process : Same(q) /\ Working(q, d))
              => Undecided(d)' /\ ledger'[d].attempts = ledger[d].attempts
      BY <1>3, BusyIsUndecided DEF ledgerVars
    <2>3. \A d \in Delivery :
            /\ ledger'[d].state = "turn_started" => turns[d] > 0
            /\ ledger'[d].state \in {"created", "retryable"} => d \in Direct
            /\ ledger'[d].state = "prepared" => d \in TeamCast
      BY DEF ledgerVars, DInv, Facts, RecordsSound
    <2>4. \A d \in Delivery : Open(d)' =>
            d \in interrupted' \/ (Open(d) /\ \A q \in Process : Working(q, d) => Same(q))
      BY <1>3 DEF Leaves
    <2>5. QED
      BY <2>1, <2>2, <2>3, <2>4, LeavingKeeps
  <1>5. QED
    BY <1>1, <1>2, <1>4 DEF DInv

\* The step records evidence on d, which is true, and none that ends an
\* attempt that App Server or another process is still busy with.
LEMMA EvidenceStepKeeps ==
  ASSUME DInv, NEW p \in Process, NEW d \in Delivery, Leaves(p), CommandTypes', IInv',
         NEW state \in States, Becomes(d, state),
         UNCHANGED <<turns, onWire, interrupted, failures>>,
         state = "turn_started" => turns[d] > 0,
         state = "retryable" => d \in Direct /\ ledger[d].attempts = 1,
         state \notin {"created", "prepared"},
         \A e \in Delivery : Working(p, e) => e = d,
         \/ state \in {"turn_started", "unknown"}
         \/ turns[d] = 0 /\ d \notin onWire /\ \A q \in Process \ {p} : ~Working(q, d)
  PROVE  DInv'
  <1> USE DInvTypes
  <1>1. Commands'
    BY DEF DInv, Commands, CommandTypes
  <1>2. \A e \in Delivery : ledger'[e].attempts = ledger[e].attempts
    BY DEF Becomes
  <1>3. ledger'[d].state = state /\ \A e \in Delivery \ {d} : ledger'[e].state = ledger[e].state
    BY DEF Becomes
  <1>4. \A e \in Delivery \ {d} : (Undecided(e)' <=> Undecided(e)) /\ (Open(e)' <=> Open(e))
    BY <1>2, <1>3 DEF Undecided, Open, Dispatching
  <1>5. ~Open(d)'
    BY <1>2, <1>3 DEF Open, Dispatching
  <1>6. \A q \in Process : Same(q) \/ (~InAttempt(q)' /\ FindingsOf(q)')
    BY DEF Leaves
  <1>7. \A q \in Process : \A e : Same(q) /\ Working(q, e) => Working(q, e)'
    BY SameWorks
  <1>8. ASSUME NEW e \in Delivery,
               turns[e] > 0 \/ e \in onWire \/ (\E q \in Process : Same(q) /\ Working(q, e))
        PROVE  Undecided(e)'
    <2>1. Undecided(e)
      BY <1>8, BusyIsUndecided
    <2>2. CASE e # d
      BY <2>1, <2>2, <1>4
    <2>3. CASE e = d
      <3>1. \A q \in Process : Same(q) /\ Working(q, d) => q # p
        BY <1>7 DEF Leaves, Working
      <3>2. state \in {"turn_started", "unknown"}
        BY <1>8, <2>3, <3>1
      <3>3. QED
        BY <2>1, <2>3, <3>2, <1>2, <1>3 DEF Undecided
    <2>4. QED
      BY <2>2, <2>3
  <1>9. Facts'
    <2>1. \A e \in Delivery :
            turns[e] > 0 \/ e \in onWire \/ (\E q \in Process : Same(q) /\ Working(q, e))
              => Undecided(e)' /\ ledger'[e].attempts = ledger[e].attempts
      BY <1>2, <1>8
    <2>2. \A e \in Delivery :
            /\ ledger'[e].state = "turn_started" => turns[e] > 0
            /\ ledger'[e].state \in {"created", "retryable"} => e \in Direct
            /\ ledger'[e].state = "prepared" => e \in TeamCast
      BY <1>3 DEF DInv, Facts, RecordsSound
    <2>3. ASSUME NEW e \in Delivery, Open(e)'
          PROVE  e \in interrupted' \/ (Open(e) /\ \A q \in Process : Working(q, e) => Same(q))
      <3>1. e # d /\ Open(e)
        BY <2>3, <1>4, <1>5
      <3>2. QED
        BY <3>1 DEF Leaves, DInv, Facts
    <2>4. QED
      BY <1>6, <2>1, <2>2, <2>3, LeavingKeeps
  <1>10. QED
    BY <1>1, <1>9 DEF DInv
-----------------------------------------------------------------------------
(* The commands up to their attempt                                        *)

\* A process outside an attempt works on nothing.
LEMMA QuietStepKeeps ==
  ASSUME DInv, NEW p \in Process, ~InAttempt(p), Leaves(p), CommandTypes',
         UNCHANGED <<ledgerVars, history, failures>>
  PROVE  DInv'
  <1>1. UNCHANGED <<turns, onWire>> /\ interrupted' = interrupted /\ failures' = failures
    BY DEF history
  <1>2. interrupted' \subseteq Delivery /\ failures' \in Nat
    BY <1>1 DEF DInv, Commands
  <1>3. \A d \in Delivery : ~Working(p, d)
    BY DEF Working
  <1>4. QED
    BY <1>1, <1>2, <1>3, QuietKeeps

LEMMA DirectAreDeliveries == \A d \in Direct : d \in Delivery
  BY DEF Direct

LEMMA SendKeeps ==
  ASSUME DInv, NEW p \in Process, NEW d \in Direct, Send(p, d) \/ Retry(p, d)
  PROVE  DInv'
  <1>1. /\ ~InAttempt(p) /\ UNCHANGED <<ledgerVars, history, failures>>
        /\ UNCHANGED attempt /\ \E here \in {"admit", "retry"} : TakeLock(p, d, here)
    BY DEF Send, Retry, InAttempt
  <1>2. QED
    BY <1>1, DInvTypes, TakeLockLeaves, QuietStepKeeps

LEMMA ReconcileKeeps ==
  ASSUME DInv, NEW p \in Process, NEW d \in Direct, Reconcile(p, d)
  PROVE  DInv'
  <1>1. CommandTypes'
    BY DInvTypes DEF CommandTypes, Reconcile, Goto, Steps, Direct
  <1>2. pc[p] = "idle" /\ pc'[p] = "inspect" /\ \A q \in Process \ {p} : Same(q)
    BY DInvTypes DEF CommandTypes, Reconcile, Goto, Same
  <1>3. Leaves(p) /\ ~InAttempt(p)
    BY <1>2 DEF Leaves, InAttempt, FindingsOf
  <1>4. QED
    BY <1>1, <1>3, QuietStepKeeps DEF Reconcile

LEMMA TeamDispatchKeeps ==
  ASSUME DInv, NEW p \in Process, TeamDispatch(p)
  PROVE  DInv'
  <1>1. CommandTypes'
    BY DInvTypes, LedgerAssumptions DEF CommandTypes, TeamDispatch, Goto, Steps
  <1>2. pc[p] = "idle" /\ pc'[p] = "recipient" /\ \A q \in Process \ {p} : Same(q)
    BY DInvTypes DEF CommandTypes, TeamDispatch, Goto, Same
  <1>3. Leaves(p) /\ ~InAttempt(p)
    BY <1>2 DEF Leaves, InAttempt, FindingsOf
  <1>4. QED
    BY <1>1, <1>3, QuietStepKeeps DEF TeamDispatch

LEMMA AbandonKeeps ==
  ASSUME DInv, NEW p \in Process, NEW d \in todo[p], SendAbandon(p, d) \/ RetryAbandon(p, d)
  PROVE  DInv'
  <1>1. ~InAttempt(p) /\ End(p) /\ UNCHANGED <<ledgerVars, history, failures>>
    BY DEF SendAbandon, RetryAbandon, At, InAttempt
  <1>2. QED
    BY <1>1, DInvTypes, EndLeaves, QuietStepKeeps

LEMMA InspectKeeps ==
  ASSUME DInv, NEW p \in Process, NEW d \in todo[p], Inspect(p, d)
  PROVE  DInv'
  <1>1. PICK observed \in BOOLEAN :
          (observed => turns[d] > 0) /\ found' = [found EXCEPT ![p] = observed]
    BY DEF Inspect
  <1>2. CommandTypes'
    BY <1>1, DInvTypes DEF CommandTypes, Inspect, Goto, Steps
  <1>3. /\ d = Current(p) /\ pc[p] = "inspect" /\ pc'[p] = "inspected" /\ found'[p] = observed
        /\ todo'[p] = todo[p] /\ turns' = turns
        /\ \A q \in Process \ {p} : Same(q)
    BY <1>1, DInvTypes DEF CommandTypes, Inspect, At, Goto, Same, history
  <1>4. Current(p)' = d
    BY <1>3 DEF Current
  <1>5. Leaves(p) /\ ~InAttempt(p)
    BY <1>1, <1>3, <1>4 DEF Leaves, InAttempt, FindingsOf
  <1>6. QED
    BY <1>2, <1>5, QuietStepKeeps DEF Inspect

LEMMA RereadKeeps ==
  ASSUME DInv, NEW p \in Process, NEW d \in todo[p], ReconcileReread(p, d)
  PROVE  DInv'
  <1>1. ~InAttempt(p) /\ d = Current(p) /\ pc[p] = "inspected" /\ UNCHANGED <<ledgerVars, history, failures>>
    BY DEF ReconcileReread, At, InAttempt
  <1>2. CASE End(p)
    BY <1>1, <1>2, DInvTypes, EndLeaves, QuietStepKeeps
  <1>3. CASE ~End(p)
    <2>1. TakeLock(p, d, "apply") /\ attempt' = [attempt EXCEPT ![p] = ledger[d].attempts]
      BY <1>3 DEF ReconcileReread
    <2>2. d \in Delivery /\ d \in Nat /\ ledger[d].attempts \in 0..2
      BY DInvTypes DEF Record
    <2>3. routeLock' \in [Direct -> Process \cup {NoProcess}]
      BY <2>1, DInvTypes DEF CommandTypes, TakeLock
    <2>4. CommandTypes'
      BY <2>1, <2>2, <2>3, DInvTypes DEF CommandTypes, TakeLock, Goto, Steps
    <2>5. /\ pc'[p] = "apply" /\ found'[p] = found[p] /\ todo'[p] = {d} /\ turns' = turns
          /\ \A q \in Process \ {p} : Same(q)
      BY <1>1, <2>1, <2>2, DInvTypes DEF CommandTypes, TakeLock, Goto, Same, history
    <2>6. Min({d}) = d
      BY <2>2 DEF Min
    <2>7. Current(p)' = d
      BY <2>5, <2>6 DEF Current
    <2>8. found[p] => turns[d] > 0
      BY <1>1 DEF DInv, Facts, Findings, FindingsOf
    <2>9. Leaves(p)
      BY <2>5, <2>7, <2>8 DEF Leaves, InAttempt, FindingsOf
    <2>10. QED
      BY <1>1, <2>4, <2>9, QuietStepKeeps
  <1>4. QED
    BY <1>2, <1>3
-----------------------------------------------------------------------------
(* Commits and refusals                                                    *)

\* The record of e is as it was, or still without an attempt.
Fresh(e) ==
  \/ ledger'[e].state = ledger[e].state /\ ledger'[e].attempts = ledger[e].attempts
  \/ /\ ledger[e].attempts = 0 /\ ledger'[e].attempts = 0
     /\ ledger'[e].state \notin {"turn_started", "retryable"}
     /\ ledger'[e].state = "created" => e \in Direct
     /\ ledger'[e].state = "prepared" => e \in TeamCast

LEMMA FreshStepKeeps ==
  ASSUME DInv, IInv', CommandTypes', UNCHANGED <<history, failures>>,
         \A q \in Process : Same(q) \/ (~InAttempt(q) /\ ~InAttempt(q)' /\ FindingsOf(q)'),
         \A e \in Delivery : Fresh(e)
  PROVE  DInv'
  <1> USE DInvTypes
  <1>1. Commands' /\ UNCHANGED <<turns, onWire>> /\ interrupted \subseteq interrupted'
    BY DEF DInv, Commands, CommandTypes, history
  <1>2. ASSUME NEW e \in Delivery, Undecided(e)
        PROVE  Undecided(e)' /\ ledger'[e].attempts = ledger[e].attempts
    BY <1>2 DEF Fresh, Undecided
  <1>3. ASSUME NEW e \in Delivery
        PROVE  /\ ledger'[e].state = "turn_started" => turns[e] > 0
               /\ ledger'[e].state \in {"created", "retryable"} => e \in Direct
               /\ ledger'[e].state = "prepared" => e \in TeamCast
    BY DEF Fresh, DInv, Facts, RecordsSound
  <1>4. ASSUME NEW e \in Delivery, Open(e)'
        PROVE  Open(e) /\ \A q \in Process : Working(q, e) => Same(q)
    <2>1. Open(e)
      BY <1>4 DEF Fresh, Open, Dispatching
    <2>2. QED
      BY <2>1 DEF Working
  <1>5. \A e \in Delivery :
          turns[e] > 0 \/ e \in onWire \/ (\E q \in Process : Same(q) /\ Working(q, e))
            => Undecided(e)' /\ ledger'[e].attempts = ledger[e].attempts
    BY <1>2, BusyIsUndecided
  <1>6. Facts'
    BY <1>1, <1>3, <1>4, <1>5, LeavingKeeps
  <1>7. QED
    BY <1>1, <1>6 DEF DInv

LEMMA SendCommitKeeps ==
  ASSUME DInv, NEW p \in Process, NEW d \in todo[p], SendCommit(p, d)
  PROVE  DInv'
  <1>1. PICK admission \in {"admitted", "quarantined", "denied"} :
          /\ Commit(d, admission, "immediate")
          /\ \/ /\ Goto(p, "begin")
                /\ routeLock' = Unlocked(p)
                /\ UNCHANGED <<todo, attempt, found>>
             \/ End(p)
    BY DEF SendCommit
  <1>2. d \in Delivery
    BY DInvTypes
  <1>3. IInv'
    <2>1. CommitSome(d)
      BY <1>1 DEF CommitSome
    <2>2. QED
      BY <1>2, <2>1, DInvTypes, CommitIInv
  <1>4. ASSUME NEW e \in Delivery PROVE Fresh(e)
    BY <1>1, <1>2, DInvTypes DEF Commit, Put, Committed, Absent, Fresh, IInv, LedgerTypeOK
  <1>5. CommandTypes' /\ Leaves(p)
    <2>1. CASE End(p)
      BY <2>1, DInvTypes, EndLeaves
    <2>2. CASE ~End(p)
      <3>1. CommandTypes'
        BY <1>1, <2>2, DInvTypes, UnlockedType DEF CommandTypes, Goto, Steps
      <3>2. pc'[p] = "begin" /\ \A q \in Process \ {p} : Same(q)
        BY <1>1, <2>2, DInvTypes DEF CommandTypes, Goto, Same
      <3>3. QED
        BY <3>1, <3>2 DEF Leaves, InAttempt, FindingsOf
    <2>3. QED
      BY <2>1, <2>2
  <1>6. ~InAttempt(p) /\ UNCHANGED <<history, failures>>
    BY DEF SendCommit, At, InAttempt
  <1>7. \A q \in Process : Same(q) \/ (~InAttempt(q) /\ ~InAttempt(q)' /\ FindingsOf(q)')
    BY <1>5, <1>6 DEF Leaves
  <1>8. QED
    BY <1>3, <1>4, <1>5, <1>6, <1>7, FreshStepKeeps

LEMMA PrepareTeamKeeps ==
  ASSUME DInv, PrepareTeam
  PROVE  DInv'
  <1>1. PICK refused \in SUBSET TeamCast : CommitTeam(refused)
    BY DEF PrepareTeam
  <1>2. IInv'
    BY <1>1, DInvTypes, CommitTeamIInv
  <1>3. ASSUME NEW e \in Delivery PROVE Fresh(e)
    <2>1. CASE e \in TeamCast
      <3>1. /\ ledger[e] = Absent
            /\ ledger'[e] = Committed(IF e \in refused THEN "denied" ELSE "admitted",
                                     "immediate", "prepared")
        BY <1>1, <2>1 DEF CommitTeam, CommitBatch
      <3>2. QED
        BY <2>1, <3>1 DEF Committed, Absent, Fresh
    <2>2. CASE e \notin TeamCast
      BY <1>1, <2>2 DEF CommitTeam, CommitBatch, Fresh
    <2>3. QED
      BY <2>1, <2>2
  <1>4. CommandTypes' /\ \A q \in Process : Same(q)
    BY DInvTypes DEF PrepareTeam, CommandTypes, commandVars, Same
  <1>5. QED
    BY <1>2, <1>3, <1>4, FreshStepKeeps DEF PrepareTeam

LEMMA TeamScheduleKeeps ==
  ASSUME DInv, NEW p \in Process, NEW d \in todo[p], TeamSchedule(p, d)
  PROVE  DInv'
  <1>1. d \in Delivery /\ ~InAttempt(p) /\ ScheduleTeam(d) /\ UNCHANGED <<history, failures>>
    BY DInvTypes DEF TeamSchedule, At, InAttempt
  <1>2. IInv'
    BY <1>1, DInvTypes, ScheduleTeamIInv
  <1>3. ASSUME NEW e \in Delivery PROVE Fresh(e)
    BY <1>1, DInvTypes DEF ScheduleTeam, Put, Fresh, IInv, LedgerTypeOK, Record
  <1>4. CommandTypes' /\ Leaves(p)
    BY DInvTypes, ContinueLeaves DEF TeamSchedule
  <1>5. \A q \in Process : Same(q) \/ (~InAttempt(q) /\ ~InAttempt(q)' /\ FindingsOf(q)')
    BY <1>1, <1>4 DEF Leaves
  <1>6. QED
    BY <1>1, <1>2, <1>3, <1>4, <1>5, FreshStepKeeps

LEMMA TeamScheduleFailsKeeps ==
  ASSUME DInv, NEW p \in Process, NEW d \in todo[p], TeamScheduleFails(p, d)
  PROVE  DInv'
  <1>1. ~InAttempt(p) /\ UNCHANGED <<ledgerVars, history, failures>>
    BY DEF TeamScheduleFails, At, InAttempt
  <1>2. CommandTypes' /\ Leaves(p)
    BY DInvTypes, ContinueLeaves DEF TeamScheduleFails
  <1>3. QED
    BY <1>1, <1>2, QuietStepKeeps

\* The Ledger refuses to end a Delivery without an attempt while one may have
\* been accepted.
LEMMA RefusalIsDecided ==
  ASSUME DInv, NEW d \in Delivery, NEW state \in {"expired", "policy_denied"},
         EvidenceFits(d, 0, state, FALSE)
  PROVE  turns[d] = 0 /\ d \notin onWire /\ \A q \in Process : ~Working(q, d)
  <1>1. ledger[d] \in Record /\ Consistent(d, ledger[d])
    BY DInvTypes DEF IInv
  <1>2. ASSUME DirectEvidenceFits(d, 0, state) PROVE ~Undecided(d)
    <2>1. ledger[d].state \in DOMAIN Successors /\ state \in Successors[ledger[d].state]
      BY <1>2 DEF DirectEvidenceFits
    <2>2. ledger[d].state \in {"scheduled", "retryable", "expired"}
      BY <2>1 DEF Successors
    <2>3. ledger[d].state = "retryable" => ledger[d].attempts = 1
      BY <1>1, <1>2 DEF DirectEvidenceFits, Consistent
    <2>4. QED
      BY <2>2, <2>3 DEF Undecided
  <1>3. ASSUME TeamEvidenceFits(d, 0, state, FALSE) PROVE ~Undecided(d)
    BY <1>3 DEF TeamEvidenceFits, Undecided
  <1>4. ASSUME GroupEvidenceFits(d, 0, state) PROVE ~Undecided(d)
    BY <1>4 DEF GroupEvidenceFits, Undecided
  <1>5. ~Undecided(d)
    BY <1>2, <1>3, <1>4 DEF EvidenceFits
  <1>6. ~(turns[d] > 0) /\ turns[d] \in Nat
    BY <1>5, DInvTypes, BusyIsUndecided
  <1>7. d \notin onWire /\ \A q \in Process : ~Working(q, d)
    BY <1>5, BusyIsUndecided
  <1>8. QED
    BY <1>6, <1>7

LEMMA RefuseKeeps ==
  ASSUME DInv, NEW p \in Process, ~InAttempt(p), NEW d \in todo[p],
         NEW state \in {"expired", "policy_denied"},
         AppendEvidence(d, 0, state, FALSE), Leaves(p), CommandTypes',
         UNCHANGED <<history, failures>>
  PROVE  DInv'
  <1>1. d \in Delivery /\ state \in States \ {"cancelled"} /\ 0 \in 0..2 /\ FALSE \in BOOLEAN
    BY DInvTypes DEF States
  <1>2. IInv' /\ Becomes(d, state)
    BY <1>1, DInvTypes, EvidenceBecomes
  <1>3. EvidenceFits(d, 0, state, FALSE)
    BY DEF AppendEvidence
  <1>4. turns[d] = 0 /\ d \notin onWire /\ \A q \in Process : ~Working(q, d)
    BY <1>1, <1>3, RefusalIsDecided
  <1>5. \A e \in Delivery : ~Working(p, e)
    BY DEF Working
  <1>6. UNCHANGED <<turns, onWire, interrupted, failures>>
    BY DEF history
  <1>7. QED
    BY <1>1, <1>2, <1>4, <1>5, <1>6, EvidenceStepKeeps

LEMMA RetryRefuseKeeps ==
  ASSUME DInv, NEW p \in Process, NEW d \in todo[p], RetryRefuse(p, d)
  PROVE  DInv'
  <1>1. PICK state \in {"expired", "policy_denied"} : AppendEvidence(d, 0, state, FALSE)
    BY DEF RetryRefuse
  <1>2. ~InAttempt(p) /\ UNCHANGED <<history, failures>>
    BY DEF RetryRefuse, At, InAttempt
  <1>3. CommandTypes' /\ Leaves(p)
    BY DInvTypes, EndLeaves DEF RetryRefuse
  <1>4. QED
    BY <1>1, <1>2, <1>3, RefuseKeeps

LEMMA TeamDenyKeeps ==
  ASSUME DInv, NEW p \in Process, NEW d \in todo[p], TeamDeny(p, d)
  PROVE  DInv'
  <1>1. ~InAttempt(p) /\ UNCHANGED <<history, failures>>
    BY DEF TeamDeny, At, InAttempt
  <1>2. CASE EvidenceFits(d, 0, "policy_denied", FALSE)
    <2>1. AppendEvidence(d, 0, "policy_denied", FALSE) /\ Continue(p)
      BY <1>2 DEF TeamDeny
    <2>2. CommandTypes' /\ Leaves(p)
      BY <2>1, DInvTypes, ContinueLeaves
    <2>3. QED
      BY <1>1, <2>1, <2>2, RefuseKeeps
  <1>3. CASE ~EvidenceFits(d, 0, "policy_denied", FALSE)
    <2>1. End(p) /\ UNCHANGED ledgerVars
      BY <1>3 DEF TeamDeny
    <2>2. QED
      BY <1>1, <2>1, DInvTypes, EndLeaves, QuietStepKeeps
  <1>4. QED
    BY <1>2, <1>3

LEMMA ReconcileApplyKeeps ==
  ASSUME DInv, NEW p \in Process, NEW d \in todo[p], ReconcileApply(p, d)
  PROVE  DInv'
  <1> DEFINE state == IF found[p] THEN "turn_started" ELSE "unknown"
  <1>1. /\ d \in Delivery /\ ~InAttempt(p) /\ d = Current(p) /\ pc[p] = "apply"
        /\ UNCHANGED <<history, failures>>
    BY DInvTypes DEF ReconcileApply, At, InAttempt
  <1>2. CommandTypes' /\ Leaves(p)
    BY DInvTypes, EndLeaves DEF ReconcileApply
  <1>3. CASE UNCHANGED ledgerVars
    BY <1>1, <1>2, <1>3, QuietStepKeeps
  <1>4. CASE AppendEvidence(d, attempt[p], state, found[p])
    <2>1. attempt[p] \in 0..2 /\ found[p] \in BOOLEAN /\ state \in States \ {"cancelled"}
      BY DInvTypes DEF CommandTypes, States
    <2>2. IInv' /\ Becomes(d, state)
      BY <1>1, <1>4, <2>1, DInvTypes, EvidenceBecomes
    <2>3. found[p] => turns[d] > 0
      BY <1>1 DEF DInv, Facts, Findings, FindingsOf
    <2>4. \A e \in Delivery : ~Working(p, e)
      BY <1>1 DEF Working
    <2>5. UNCHANGED <<turns, onWire, interrupted, failures>>
      BY <1>1 DEF history
    <2>6. state \in {"turn_started", "unknown"} /\ (state = "turn_started" => turns[d] > 0)
      BY <2>3
    <2> HIDE DEF state
    <2>7. state \notin {"created", "prepared", "retryable"}
      BY <2>6
    <2>8. QED
      BY <1>1, <1>2, <2>1, <2>2, <2>4, <2>5, <2>6, <2>7, EvidenceStepKeeps
  <1>5. QED
    BY <1>3, <1>4 DEF ReconcileApply
-----------------------------------------------------------------------------
(* An attempt begins                                                       *)

LEMMA BeginKeeps ==
  ASSUME DInv, NEW p \in Process, ~InAttempt(p), NEW d \in todo[p], d = Current(p),
         BeginCall(d), StartAttempt(p, ledger[d].attempts + 1),
         UNCHANGED <<history, failures>>
  PROVE  DInv'
  <1> USE DInvTypes
  <1>1. /\ ledger[d].attempts \in {0, 1}
        /\ ledger[d].state \in {"created", "prepared", "retryable"}
        /\ ledger[d].state = "retryable" <=> ledger[d].attempts = 1
    BY DEF BeginCall, BeginImmediate, BeginRetry, BeginTeam
  <1>2. ~Undecided(d)
    BY <1>1 DEF Undecided
  <1>3. ~(turns[d] > 0) /\ d \notin onWire /\ \A q \in Process : ~Working(q, d)
    BY <1>2, BusyIsUndecided
  <1>4. /\ IInv'
        /\ \A e \in Delivery :
             /\ ledger'[e].state = ledger[e].state
             /\ ledger'[e].attempts = IF e = d THEN ledger[d].attempts + 1 ELSE ledger[e].attempts
    BY AttemptBecomes
  <1>5. Undecided(d)' /\ \A e \in Delivery \ {d} : (Undecided(e)' <=> Undecided(e)) /\ (Open(e)' <=> Open(e))
    BY <1>1, <1>4 DEF Undecided, Open, Dispatching
  <1>6. CommandTypes'
    BY <1>1, UnlockedType DEF CommandTypes, StartAttempt, Goto, Steps
  <1>7. Commands' /\ UNCHANGED <<turns, onWire, interrupted>>
    BY <1>6 DEF DInv, Commands, CommandTypes, history
  <1>8. /\ pc'[p] = "request" /\ attempt'[p] = ledger'[d].attempts /\ todo'[p] = todo[p]
        /\ \A q \in Process \ {p} : Same(q)
    BY <1>4 DEF CommandTypes, StartAttempt, Goto, Same
  <1>9. Current(p)' = d /\ InAttempt(p)'
    BY <1>8 DEF Current, InAttempt
  <1>10. \A q \in Process \ {p} : (InAttempt(q)' <=> InAttempt(q)) /\ Current(q)' = Current(q)
    BY <1>8, SameWorks
  <1>11. RecordsSound'
    BY <1>3, <1>4, <1>5, <1>7 DEF DInv, Facts, RecordsSound
  <1>12. OneEach'
    BY <1>3, <1>9, <1>10 DEF DInv, Facts, OneEach, Working
  <1>13. WorkSound'
    <2>1. ASSUME NEW q \in Process, InAttempt(q)'
          PROVE  /\ Current(q)' \in todo'[q]
                 /\ Undecided(Current(q))' /\ attempt'[q] = ledger'[Current(q)'].attempts
                 /\ pc'[q] \in {"request", "rejected"} =>
                      turns'[Current(q)'] = 0 /\ Current(q)' \notin onWire'
                 /\ pc'[q] = "accepted" => turns'[Current(q)'] > 0
      <3>1. CASE q = p
        BY <3>1, <1>3, <1>5, <1>7, <1>8, <1>9 DEF Undecided
      <3>2. CASE q # p
        <4>1. Same(q) /\ InAttempt(q) /\ Current(q)' = Current(q)
          BY <2>1, <3>2, <1>8, <1>10
        <4>2. Current(q) \in todo[q] /\ Current(q) \in Delivery /\ Working(q, Current(q))
          BY <4>1 DEF DInv, Facts, WorkSound, Working
        <4>3. Current(q) # d
          BY <4>2, <1>3
        <4>4. Undecided(Current(q))' /\ ledger'[Current(q)].attempts = ledger[Current(q)].attempts
          BY <4>1, <4>2, <4>3, <1>4, <1>5 DEF Undecided, DInv, Facts, WorkSound
        <4>5. QED
          BY <4>1, <4>2, <4>4, <1>7 DEF DInv, Facts, WorkSound, Same
      <3>3. QED
        BY <3>1, <3>2
    <2>2. QED
      BY <2>1 DEF WorkSound
  <1>14. Findings'
    <2>1. ASSUME NEW q \in Process PROVE FindingsOf(q)'
      <3>1. CASE q = p
        BY <3>1, <1>8 DEF FindingsOf
      <3>2. CASE q # p
        BY <3>2, <1>7, <1>8, <1>10 DEF DInv, Facts, Findings, FindingsOf, Same
      <3>3. QED
        BY <3>1, <3>2
    <2>2. QED
      BY <2>1 DEF Findings
  <1>15. OpenAttemptsAreOwned'
    <2>1. ASSUME NEW e \in Delivery, Open(e)', e \notin interrupted'
          PROVE  \E q \in Process : InAttempt(q)' /\ e = Current(q)'
      <3>1. CASE e = d
        BY <3>1, <1>9
      <3>2. CASE e # d
        <4>1. PICK q \in Process : InAttempt(q) /\ e = Current(q)
          BY <2>1, <3>2, <1>5, <1>7 DEF DInv, Facts, OpenAttemptsAreOwned
        <4>2. QED
          BY <4>1, <1>10
      <3>3. QED
        BY <3>1, <3>2
    <2>2. QED
      BY <2>1 DEF OpenAttemptsAreOwned
  <1>16. QED
    BY <1>4, <1>7, <1>11, <1>12, <1>13, <1>14, <1>15 DEF DInv, Facts

LEMMA SendBeginKeeps ==
  ASSUME DInv, NEW p \in Process, NEW d \in todo[p], SendBegin(p, d) \/ RetryBegin(p, d)
  PROVE  DInv'
  <1>1. ~InAttempt(p) /\ d = Current(p) /\ UNCHANGED <<history, failures>>
    BY DEF SendBegin, RetryBegin, At, InAttempt
  <1>2. BeginCall(d) /\ StartAttempt(p, ledger[d].attempts + 1)
    BY DEF SendBegin, RetryBegin, BeginCall, BeginImmediate
  <1>3. QED
    BY <1>1, <1>2, BeginKeeps

LEMMA TeamBeginKeeps ==
  ASSUME DInv, NEW p \in Process, NEW d \in todo[p], TeamBegin(p, d)
  PROVE  DInv'
  <1>1. ~InAttempt(p) /\ d = Current(p) /\ UNCHANGED <<history, failures>>
    BY DEF TeamBegin, At, InAttempt
  <1>2. CASE ledger[d].state = "prepared" /\ ledger[d].attempts = 0
    <2>1. BeginTeam(d) /\ StartAttempt(p, 1)
      BY <1>2 DEF TeamBegin
    <2>2. BeginCall(d) /\ StartAttempt(p, ledger[d].attempts + 1)
      BY <1>2, <2>1 DEF BeginCall
    <2>3. QED
      BY <1>1, <2>2, BeginKeeps
  <1>3. CASE ~(ledger[d].state = "prepared" /\ ledger[d].attempts = 0)
    <2>1. (End(p) \/ Continue(p)) /\ UNCHANGED ledgerVars
      BY <1>3 DEF TeamBegin
    <2>2. CommandTypes' /\ Leaves(p)
      BY <2>1, DInvTypes, EndLeaves, ContinueLeaves
    <2>3. QED
      BY <1>1, <2>1, <2>2, QuietStepKeeps
  <1>4. QED
    BY <1>2, <1>3
-----------------------------------------------------------------------------
(* App Server takes a message, or a request for it is left on its way      *)

LEMMA TurnKeeps ==
  ASSUME DInv, NEW d \in Delivery, Undecided(d),
         UNCHANGED <<ledgerVars, todo, attempt, found, interrupted, failures>>, CommandTypes',
         turns' \in [Delivery -> Nat], onWire' \subseteq Delivery,
         \A e \in Delivery \ {d} : turns'[e] = turns[e] /\ (e \in onWire' <=> e \in onWire),
         turns'[d] <= 1, turns[d] <= turns'[d], d \in onWire' => turns'[d] = 0,
         \A q \in Process :
           \/ pc'[q] = pc[q] /\ ~Working(q, d)
           \/ /\ Working(q, d) /\ InAttempt(q)'
              /\ pc'[q] \in {"request", "rejected"} => turns'[d] = 0 /\ d \notin onWire'
              /\ pc'[q] = "accepted" => turns'[d] > 0
  PROVE  DInv'
  <1> USE DInvTypes
  <1>1. IInv'
    BY NextIInv DEF DInv
  <1>2. Commands'
    BY DEF DInv, Commands, CommandTypes
  <1>3. \A e : (Undecided(e)' <=> Undecided(e)) /\ (Open(e)' <=> Open(e))
    BY DEF ledgerVars, Undecided, Open, Dispatching
  <1>4. \A q \in Process : Current(q)' = Current(q)
    BY DEF Current
  <1>5. \A q \in Process : InAttempt(q)' <=> InAttempt(q)
    BY DEF InAttempt, Working
  <1>6. \A q \in Process : \A e : Working(q, e)' <=> Working(q, e)
    BY <1>4, <1>5 DEF Working
  <1>7. RecordsSound'
    <2>1. ASSUME NEW e \in Delivery
          PROVE  /\ turns'[e] <= 1 /\ (e \in onWire' => turns'[e] = 0)
                 /\ turns'[e] > 0 \/ e \in onWire' => Undecided(e)'
                 /\ ledger'[e].state = "turn_started" => turns'[e] > 0
                 /\ ledger'[e].state \in {"created", "retryable"} => e \in Direct
                 /\ ledger'[e].state = "prepared" => e \in TeamCast
      BY <1>3 DEF DInv, Facts, RecordsSound, ledgerVars
    <2>2. QED
      BY <2>1 DEF RecordsSound
  <1>8. OneEach'
    BY <1>6 DEF DInv, Facts, OneEach
  <1>9. WorkSound'
    <2>1. ASSUME NEW q \in Process, InAttempt(q)'
          PROVE  /\ Current(q)' \in todo'[q]
                 /\ Undecided(Current(q))' /\ attempt'[q] = ledger'[Current(q)'].attempts
                 /\ pc'[q] \in {"request", "rejected"} =>
                      turns'[Current(q)'] = 0 /\ Current(q)' \notin onWire'
                 /\ pc'[q] = "accepted" => turns'[Current(q)'] > 0
      <3>1. Current(q) \in todo[q] /\ Current(q) \in Delivery /\ Undecided(Current(q))
            /\ attempt[q] = ledger[Current(q)].attempts
        BY <1>5, <2>1 DEF DInv, Facts, WorkSound
      <3>2. Current(q)' \in todo'[q] /\ Undecided(Current(q))'
            /\ attempt'[q] = ledger'[Current(q)'].attempts
        BY <1>4, <3>1 DEF ledgerVars, Undecided
      <3>3. CASE Current(q) = d
        BY <1>4, <1>5, <2>1, <3>2, <3>3 DEF Working
      <3>4. CASE Current(q) # d
        <4>1. pc'[q] = pc[q]
          BY <3>4 DEF Working
        <4>2. turns'[Current(q)] = turns[Current(q)] /\ (Current(q) \in onWire' <=> Current(q) \in onWire)
          BY <3>1, <3>4
        <4>3. QED
          BY <1>4, <1>5, <2>1, <3>2, <4>1, <4>2 DEF DInv, Facts, WorkSound
      <3>5. QED
        BY <3>3, <3>4
    <2>2. QED
      BY <2>1 DEF WorkSound
  <1>10. Findings'
    <2>1. ASSUME NEW q \in Process, pc'[q] \in {"inspected", "apply"}
          PROVE  Current(q)' \in todo'[q] /\ (found'[q] => turns'[Current(q)'] > 0)
      <3>1. pc'[q] = pc[q]
        BY <2>1 DEF InAttempt
      <3>2. Current(q) \in todo[q] /\ (found[q] => turns[Current(q)] > 0)
        BY <2>1, <3>1 DEF DInv, Facts, Findings, FindingsOf
      <3>3. turns[Current(q)] <= turns'[Current(q)]
            /\ turns[Current(q)] \in Nat /\ turns'[Current(q)] \in Nat
        BY <3>2
      <3>4. QED
        BY <1>4, <3>2, <3>3
    <2>2. QED
      BY <2>1 DEF Findings, FindingsOf
  <1>11. OpenAttemptsAreOwned'
    BY <1>3, <1>4, <1>5 DEF DInv, Facts, OpenAttemptsAreOwned
  <1>12. QED
    BY <1>1, <1>2, <1>7, <1>8, <1>9, <1>10, <1>11 DEF DInv, Facts

LEMMA RequestKeeps ==
  ASSUME DInv, NEW p \in Process, NEW d \in todo[p], Request(p, d)
  PROVE  DInv'
  <1> USE DInvTypes
  <1>1. d \in Delivery /\ pc[p] = "request" /\ Working(p, d)
    BY DEF Request, At, InAttempt, Working
  <1>2. Undecided(d) /\ turns[d] = 0 /\ d \notin onWire
    BY <1>1 DEF DInv, Facts, WorkSound, Working
  <1>3. turns \in [Delivery -> Nat] /\ onWire \subseteq Delivery /\ pc \in [Process -> Steps]
    BY DEF DInv, Commands
  <1>4. PICK here \in {"accepted", "rejected", "uncertain"} :
          /\ Goto(p, here)
          /\ here = "accepted" => Take(d)
          /\ here = "rejected" => UNCHANGED turns
          /\ \/ Take(d) /\ UNCHANGED onWire
             \/ UNCHANGED <<turns, onWire>>
             \/ here = "uncertain" /\ UNCHANGED turns /\ onWire' = onWire \cup {d}
    BY DEF Request
  <1>5. /\ turns' \in [Delivery -> Nat] /\ onWire' \subseteq Delivery
        /\ \A e \in Delivery \ {d} : turns'[e] = turns[e] /\ (e \in onWire' <=> e \in onWire)
        /\ turns'[d] <= 1 /\ turns[d] <= turns'[d] /\ (d \in onWire' => turns'[d] = 0)
        /\ here = "accepted" => turns'[d] > 0
        /\ here = "rejected" => turns'[d] = 0 /\ d \notin onWire'
    BY <1>1, <1>2, <1>3, <1>4 DEF Take
  <1>6. pc'[p] = here /\ \A q \in Process \ {p} : pc'[q] = pc[q] /\ ~Working(q, d)
    BY <1>1, <1>3, <1>4 DEF Goto, DInv, Facts, OneEach
  <1>7. InAttempt(p)'
    BY <1>6 DEF InAttempt
  <1>8. CommandTypes'
    BY <1>4 DEF Request, CommandTypes, Goto, Steps
  <1>9. UNCHANGED <<ledgerVars, todo, attempt, found, interrupted, failures>>
    BY DEF Request
  <1>10. QED
    BY <1>1, <1>2, <1>5, <1>6, <1>7, <1>8, <1>9, TurnKeeps

LEMMA LateTurnKeeps ==
  ASSUME DInv, NEW d \in Delivery, LateTurn(d)
  PROVE  DInv'
  <1> USE DInvTypes
  <1>1. d \in onWire /\ turns[d] = 0 /\ Undecided(d)
    BY DEF LateTurn, DInv, Facts, RecordsSound
  <1>2. turns \in [Delivery -> Nat] /\ onWire \subseteq Delivery
    BY DEF DInv, Commands
  <1>3. /\ turns' \in [Delivery -> Nat] /\ onWire' \subseteq Delivery
        /\ \A e \in Delivery \ {d} : turns'[e] = turns[e] /\ (e \in onWire' <=> e \in onWire)
        /\ turns'[d] = 1 /\ d \notin onWire'
    BY <1>1, <1>2 DEF LateTurn, Take
  <1>4. CommandTypes' /\ UNCHANGED <<ledgerVars, pc, todo, attempt, found, interrupted, failures>>
    BY DEF LateTurn, CommandTypes, commandVars
  <1>5. ASSUME NEW q \in Process, Working(q, d)
        PROVE  InAttempt(q)' /\ pc'[q] \notin {"request", "rejected"}
    BY <1>1, <1>4, <1>5 DEF DInv, Facts, WorkSound, Working, InAttempt
  <1>6. QED
    BY <1>1, <1>3, <1>4, <1>5, TurnKeeps
-----------------------------------------------------------------------------
(* An attempt ends                                                         *)

\* The Ledger refuses what the answer means for the attempt only if the
\* attempt is not open any more.
LEMMA OpenTakesOutcome ==
  ASSUME DInv, NEW p \in Process, NEW d \in todo[p], Working(p, d), Open(d),
         pc[p] \in {"accepted", "rejected", "uncertain"}
  PROVE  EvidenceFits(d, attempt[p], Outcome(p, d), TRUE)
  <1> DEFINE state == Outcome(p, d)
  <1>1. d \in Delivery /\ ledger[d] \in Record /\ Consistent(d, ledger[d])
    BY DInvTypes DEF IInv
  <1>2. attempt[p] = ledger[d].attempts
    BY DEF DInv, Facts, WorkSound, Working
  <1>3. ledger[d].attempts > 0 /\ ledger[d].admission = "admitted"
    BY <1>1 DEF Open, Dispatching, Consistent
  <1>4. CASE ledger[d].state = "created" /\ ledger[d].attempts = 1
    <2>1. d \in Direct
      BY <1>1, <1>4 DEF DInv, Facts, RecordsSound
    <2>2. state \in {"turn_started", "unknown", "retryable"}
      BY <1>2, <1>4, <2>1 DEF Outcome
    <2>3. "created" \in DOMAIN Successors /\ state \in Successors["created"]
      BY <2>2 DEF Successors
    <2>4. DirectEvidenceFits(d, attempt[p], state)
      BY <1>2, <1>3, <1>4, <2>1, <2>2, <2>3 DEF DirectEvidenceFits
    <2>5. QED
      BY <2>4 DEF EvidenceFits
  <1>5. CASE ledger[d].state = "retryable" /\ ledger[d].attempts = 2
    <2>1. d \in Direct
      BY <1>1, <1>5 DEF DInv, Facts, RecordsSound
    <2>2. state \in {"turn_started", "unknown", "failed"}
      BY <1>2, <1>5, <2>1 DEF Outcome
    <2>3. "retryable" \in DOMAIN Successors /\ state \in Successors["retryable"]
      BY <2>2 DEF Successors
    <2>4. DirectEvidenceFits(d, attempt[p], state)
      BY <1>2, <1>3, <1>5, <2>1, <2>2, <2>3 DEF DirectEvidenceFits
    <2>5. QED
      BY <2>4 DEF EvidenceFits
  <1>6. CASE ledger[d].state = "prepared" /\ ledger[d].attempts = 1
    <2>1. d \in TeamCast /\ d \notin Direct
      BY <1>1, <1>6 DEF DInv, Facts, RecordsSound, Direct
    <2>2. state \in {"turn_started", "unknown", "failed"}
      BY <2>1 DEF Outcome
    <2>3. TeamEvidenceFits(d, attempt[p], state, TRUE)
      BY <1>2, <1>6, <2>1, <2>2 DEF TeamEvidenceFits
    <2>4. QED
      BY <2>3 DEF EvidenceFits
  <1>7. QED
    BY <1>4, <1>5, <1>6 DEF Open, Dispatching

LEMMA RecordOutcomeKeeps ==
  ASSUME DInv, NEW p \in Process, NEW d \in todo[p], RecordOutcome(p, d)
  PROVE  DInv'
  <1> USE DInvTypes
  <1> DEFINE state == Outcome(p, d)
  <1>1. /\ d \in Delivery /\ d = Current(p) /\ Working(p, d)
        /\ pc[p] \in {"accepted", "rejected", "uncertain"}
        /\ UNCHANGED <<turns, onWire, interrupted, failures>>
    BY DEF RecordOutcome, InAttempt, Working, history
  <1>2. \A e \in Delivery : Working(p, e) => e = d
    BY <1>1 DEF Working
  <1>3. attempt[p] = ledger[d].attempts /\ attempt[p] \in 0..2 /\ Undecided(d)
    BY <1>1 DEF DInv, Facts, WorkSound, CommandTypes, Working
  <1>4. CASE EvidenceFits(d, attempt[p], state, TRUE)
    <2>1. AppendEvidence(d, attempt[p], state, TRUE) /\ Continue(p)
      BY <1>4 DEF RecordOutcome
    <2>2. CommandTypes' /\ Leaves(p)
      BY <2>1, ContinueLeaves
    <2>3. state \in {"turn_started", "unknown", "retryable", "failed"}
      BY DEF Outcome
    <2>4. state = "turn_started" => turns[d] > 0
      BY <1>1 DEF Outcome, DInv, Facts, WorkSound, Working
    <2>5. state = "retryable" => d \in Direct /\ ledger[d].attempts = 1
      BY <1>3 DEF Outcome
    <2>6. \/ state \in {"turn_started", "unknown"}
          \/ turns[d] = 0 /\ d \notin onWire /\ \A q \in Process \ {p} : ~Working(q, d)
      <3>1. CASE pc[p] = "rejected"
        BY <1>1, <3>1 DEF DInv, Facts, WorkSound, OneEach, Working
      <3>2. CASE pc[p] # "rejected"
        BY <1>1, <3>2 DEF Outcome
      <3>3. QED
        BY <3>1, <3>2
    <2> HIDE DEF state
    <2>7. state \in States \ {"cancelled"} /\ state \notin {"created", "prepared"}
      BY <2>3 DEF States
    <2>8. IInv' /\ Becomes(d, state)
      BY <1>1, <1>3, <2>1, <2>7, EvidenceBecomes
    <2>9. QED
      BY <1>1, <1>2, <2>2, <2>4, <2>5, <2>6, <2>7, <2>8, EvidenceStepKeeps
  <1>5. CASE ~EvidenceFits(d, attempt[p], state, TRUE)
    <2>1. End(p) /\ UNCHANGED ledgerVars
      BY <1>5 DEF RecordOutcome
    <2>2. CommandTypes' /\ Leaves(p)
      BY <2>1, EndLeaves
    <2>3. ~Open(d)
      BY <1>1, <1>5, OpenTakesOutcome
    <2>4. interrupted' = interrupted /\ interrupted' \subseteq Delivery /\ failures' \in Nat
      BY <1>1 DEF DInv, Commands
    <2>5. QED
      BY <1>1, <1>2, <2>1, <2>2, <2>3, <2>4, QuietKeeps
  <1>6. QED
    BY <1>4, <1>5

LEMMA CrashKeeps ==
  ASSUME DInv, NEW p \in Process, Crash(p)
  PROVE  DInv'
  <1> USE DInvTypes
  <1>1. CommandTypes' /\ Leaves(p)
    BY EndLeaves DEF Crash
  <1>2. UNCHANGED <<ledgerVars, turns, onWire>> /\ failures' \in Nat
    BY DEF Crash, DInv, Commands
  <1>3. InAttempt(p) => Current(p) \in Delivery
    BY DEF DInv, Facts, WorkSound
  <1>4. interrupted \subseteq interrupted' /\ interrupted' \subseteq Delivery
    BY <1>3 DEF Crash, DInv, Commands
  <1>5. \A d \in Delivery : Working(p, d) => d \in interrupted'
    BY DEF Crash, Working
  <1>6. QED
    BY <1>1, <1>2, <1>4, <1>5, QuietKeeps

LEMMA FaultKeeps ==
  ASSUME DInv, NEW p \in Process, NEW d \in todo[p], Fault(p, d)
  PROVE  DInv'
  <1> USE DInvTypes
  <1>1. d \in Delivery /\ d = Current(p) /\ failures' \in Nat /\ UNCHANGED <<ledgerVars, turns, onWire>>
    BY DEF Fault, DInv, Commands
  <1>2. CASE pc[p] = "accepted" /\ d \in Direct
    <2>1. /\ Goto(p, "uncertain")
          /\ UNCHANGED <<routeLock, todo, attempt, found, interrupted>>
      BY <1>2 DEF Fault
    <2>2. pc'[p] = "uncertain" /\ \A q \in Process \ {p} : pc'[q] = pc[q]
      BY <2>1 DEF Goto, CommandTypes
    <2>3. CommandTypes'
      BY <2>1 DEF Goto, CommandTypes, Steps
    <2>4. Working(p, d) /\ Undecided(d)
      BY <1>1, <1>2 DEF Working, InAttempt, DInv, Facts, WorkSound
    <2>5. IInv'
      BY <1>1, NextIInv
    <2>6. Commands'
      BY <1>1, <2>1, <2>3 DEF DInv, Commands, CommandTypes
    <2>7. \A e : (Undecided(e)' <=> Undecided(e)) /\ (Open(e)' <=> Open(e))
      BY <1>1 DEF ledgerVars, Undecided, Open, Dispatching
    <2>8. \A q \in Process : (InAttempt(q)' <=> InAttempt(q)) /\ Current(q)' = Current(q)
      BY <1>2, <2>1, <2>2 DEF InAttempt, Current
    <2>9. Facts'
      BY <1>1, <1>2, <2>1, <2>2, <2>7, <2>8
         DEF DInv, Facts, RecordsSound, OneEach, WorkSound, Findings, FindingsOf,
             OpenAttemptsAreOwned, Working, ledgerVars, Undecided
    <2>10. QED
      BY <2>5, <2>6, <2>9 DEF DInv
  <1>3. CASE ~(pc[p] = "accepted" /\ d \in Direct)
    <2>1. /\ End(p)
          /\ interrupted' = IF InAttempt(p) THEN interrupted \cup {d} ELSE interrupted
      BY <1>3 DEF Fault
    <2>2. CommandTypes' /\ Leaves(p)
      BY <2>1, EndLeaves
    <2>3. interrupted \subseteq interrupted' /\ interrupted' \subseteq Delivery
      BY <1>1, <2>1 DEF DInv, Commands
    <2>4. \A e \in Delivery : Working(p, e) => e \in interrupted'
      BY <1>1, <2>1 DEF Working
    <2>5. QED
      BY <1>1, <2>2, <2>3, <2>4, QuietKeeps
  <1>4. QED
    BY <1>2, <1>3
-----------------------------------------------------------------------------
(* The invariant                                                           *)

LEMMA InitDInv == Init => DInv
  <1> SUFFICES ASSUME Init PROVE DInv
    OBVIOUS
  <1>1. IInv
    BY InitIInv DEF Init
  <1>2. Commands
    BY DEF Init, Commands, Steps
  <1>3. \A d \in Delivery : ledger[d] = Absent /\ turns[d] = 0 /\ d \notin onWire
    BY DEF Init, LedgerInit
  <1>4. \A p \in Process : ~InAttempt(p) /\ FindingsOf(p)
    BY DEF Init, InAttempt, FindingsOf
  <1>5. RecordsSound
    BY <1>3 DEF RecordsSound, Absent
  <1>6. OneEach /\ WorkSound /\ Findings
    BY <1>4 DEF OneEach, WorkSound, Findings, Working
  <1>7. OpenAttemptsAreOwned
    BY <1>3 DEF OpenAttemptsAreOwned, Open, Dispatching, Absent
  <1>8. QED
    BY <1>1, <1>2, <1>5, <1>6, <1>7 DEF DInv, Facts

LEMMA ProcessStepKeeps ==
  ASSUME DInv, NEW p \in Process, NEW d \in todo[p], Step(p, d)
  PROVE  DInv'
  <1>1. CASE SendAbandon(p, d) \/ RetryAbandon(p, d)
    BY <1>1, AbandonKeeps
  <1>2. CASE SendCommit(p, d)
    BY <1>2, SendCommitKeeps
  <1>3. CASE SendBegin(p, d) \/ RetryBegin(p, d)
    BY <1>3, SendBeginKeeps
  <1>4. CASE RetryRefuse(p, d)
    BY <1>4, RetryRefuseKeeps
  <1>5. CASE Inspect(p, d)
    BY <1>5, InspectKeeps
  <1>6. CASE ReconcileReread(p, d)
    BY <1>6, RereadKeeps
  <1>7. CASE ReconcileApply(p, d)
    BY <1>7, ReconcileApplyKeeps
  <1>8. CASE TeamDeny(p, d)
    BY <1>8, TeamDenyKeeps
  <1>9. CASE TeamSchedule(p, d)
    BY <1>9, TeamScheduleKeeps
  <1>10. CASE TeamScheduleFails(p, d)
    BY <1>10, TeamScheduleFailsKeeps
  <1>11. CASE TeamBegin(p, d)
    BY <1>11, TeamBeginKeeps
  <1>12. CASE Request(p, d)
    BY <1>12, RequestKeeps
  <1>13. CASE RecordOutcome(p, d)
    BY <1>13, RecordOutcomeKeeps
  <1>14. QED
    BY <1>1, <1>2, <1>3, <1>4, <1>5, <1>6, <1>7, <1>8, <1>9, <1>10, <1>11, <1>12, <1>13 DEF Step

LEMMA StutterKeeps ==
  ASSUME DInv, UNCHANGED vars
  PROVE  DInv'
  <1>1. UNCHANGED <<ledgerVars, commandVars, history, failures>>
    BY DEF vars
  <1>2. IInv'
    BY <1>1, NextIInv DEF DInv
  <1>3. CommandTypes' /\ \A q \in Process : Same(q)
    BY <1>1, DInvTypes DEF CommandTypes, commandVars, Same
  <1>4. \A e \in Delivery : Fresh(e)
    BY <1>1 DEF Fresh, ledgerVars
  <1>5. QED
    BY <1>1, <1>2, <1>3, <1>4, FreshStepKeeps

LEMMA NextDInv == DInv /\ [Next]_vars => DInv'
  <1> SUFFICES ASSUME DInv, [Next]_vars PROVE DInv'
    OBVIOUS
  <1>1. CASE PrepareTeam
    BY <1>1, PrepareTeamKeeps
  <1>2. CASE \E d \in Delivery : LateTurn(d)
    BY <1>2, LateTurnKeeps
  <1>3. ASSUME NEW p \in Process, Command(p) PROVE DInv'
    BY <1>3, SendKeeps, ReconcileKeeps, TeamDispatchKeeps DEF Command
  <1>4. ASSUME NEW p \in Process, ProcessStep(p) PROVE DInv'
    BY <1>4, ProcessStepKeeps DEF ProcessStep
  <1>5. ASSUME NEW p \in Process, \E d \in todo[p] : Fault(p, d) PROVE DInv'
    BY <1>5, FaultKeeps
  <1>6. ASSUME NEW p \in Process, Crash(p) PROVE DInv'
    BY <1>6, CrashKeeps
  <1>7. CASE UNCHANGED vars
    BY <1>7, StutterKeeps
  <1>8. QED
    BY <1>1, <1>2, <1>3, <1>4, <1>5, <1>6, <1>7 DEF Next

\* The inductive invariant holds throughout.
THEOREM DispatchInvariant == Spec => []DInv
  BY InitDInv, NextDInv, PTL DEF Spec

\* App Server takes each message at most once, whatever commands run on it at
\* once and whatever is lost.
THEOREM TakenOnce == Spec => []AtMostOneTurn
  <1>1. DInv => AtMostOneTurn
    BY DEF DInv, Facts, RecordsSound, AtMostOneTurn
  <1>2. QED
    BY DispatchInvariant, <1>1, PTL

\* What is on record of an attempt is true, and an open one has a process that
\* works on it unless that process was interrupted.
THEOREM AttemptsTracked == Spec => []AttemptsAreTracked
  <1>1. DInv => AttemptsAreTracked
    <2> SUFFICES ASSUME DInv PROVE AttemptsAreTracked
      OBVIOUS
    <2> USE DInvTypes
    <2>1. TypeOK
      BY DEF DInv, Commands, TypeOK, IInv
    <2>2. ASSUME NEW d \in Delivery, ~Undecided(d)
          PROVE  turns[d] = 0 /\ d \notin onWire /\ \A p \in Process : ~At(p, d, "request")
      <3>1. ~(turns[d] > 0) /\ d \notin onWire /\ \A p \in Process : ~Working(p, d)
        BY <2>2, BusyIsUndecided
      <3>2. QED
        BY <3>1 DEF At, Working, InAttempt
    <2>3. ReportsAreTrue
      BY <2>2 DEF ReportsAreTrue, Undecided, DInv, Facts, RecordsSound
    <2>4. QED
      BY <2>1, <2>3 DEF AttemptsAreTracked, DInv, Facts
  <1>2. QED
    BY DispatchInvariant, <1>1, PTL
-----------------------------------------------------------------------------
(* The commands keep the promise                                           *)

\* What a step makes of one Delivery is what the promise allows.
Allowed(d) ==
  \/ report'[d] = report[d] /\ (turns'[d] > 0 <=> turns[d] > 0)
  \/ /\ turns[d] = 0 /\ turns'[d] > 0 /\ report'[d] = report[d]
     /\ report[d] \in {"open", "uncertain"}
  \/ /\ (turns'[d] > 0 <=> turns[d] > 0)
     /\ \/ turns[d] > 0 /\ report[d] \in {"open", "uncertain"} /\ report'[d] = "started"
        \/ ~(turns[d] > 0) /\ report[d] = "open" /\ report'[d] = "notStarted"
        \/ report[d] = "open" /\ report'[d] = "uncertain"

Untouched(d) == report'[d] = report[d] /\ (turns'[d] > 0 <=> turns[d] > 0)

PromiseStep == [Promise!Next]_(Promise!vars)

LEMMA OnePlaceDiffers ==
  ASSUME NEW S, NEW T, NEW f \in [S -> T], NEW g \in [S -> T], NEW x \in S, NEW y,
         g[x] = y, \A z \in S \ {x} : g[z] = f[z]
  PROVE  g = [f EXCEPT ![x] = y]
  OBVIOUS

LEMMA MoveKeepsPromise ==
  ASSUME NEW d \in Delivery, Allowed(d), \A e \in Delivery \ {d} : Untouched(e)
  PROVE  PromiseStep
  <1> DEFINE s == [e \in Delivery |-> turns[e] > 0]
             t == [e \in Delivery |-> turns'[e] > 0]
             Reports == {"started", "notStarted", "uncertain", "open"}
  <1>1. report \in [Delivery -> Reports] /\ report' \in [Delivery -> Reports]
    BY Zenon DEF report
  <1>2. s \in [Delivery -> BOOLEAN] /\ t \in [Delivery -> BOOLEAN]
    <2>1. \A e \in Delivery : (turns[e] > 0) \in BOOLEAN /\ (turns'[e] > 0) \in BOOLEAN
      OBVIOUS
    <2>2. QED
      BY <2>1
  <1>3. ASSUME NEW e \in Delivery, e # d PROVE t[e] = s[e] /\ report'[e] = report[e]
    <2>1. Untouched(e)
      BY <1>3
    <2>2. (turns'[e] > 0) = (turns[e] > 0) /\ report'[e] = report[e]
      BY <2>1 DEF Untouched
    <2>3. t[e] = (turns'[e] > 0) /\ s[e] = (turns[e] > 0)
      BY Zenon
    <2>4. QED
      BY <2>2, <2>3, Zenon
  <1>4. (s[d] <=> turns[d] > 0) /\ (t[d] <=> turns'[d] > 0)
    BY Zenon
  <1> HIDE DEF s, t, Reports
  <1>5. \A y : t[d] = y => t = [s EXCEPT ![d] = y]
    BY <1>2, <1>3, OnePlaceDiffers
  <1>6. \A y : report'[d] = y => report' = [report EXCEPT ![d] = y]
    BY <1>1, <1>3, OnePlaceDiffers
  <1>7. PromiseStep <=>
          \/ \E e \in Delivery :
               \/ /\ ~s[e] /\ report[e] \in {"open", "uncertain"}
                  /\ t = [s EXCEPT ![e] = TRUE] /\ report' = report
               \/ /\ s[e] /\ report[e] \in {"open", "uncertain"}
                  /\ report' = [report EXCEPT ![e] = "started"] /\ t = s
               \/ /\ ~s[e] /\ report[e] = "open"
                  /\ report' = [report EXCEPT ![e] = "notStarted"] /\ t = s
               \/ report[e] = "open" /\ report' = [report EXCEPT ![e] = "uncertain"] /\ t = s
          \/ t = s /\ report' = report
    BY Zenon DEF PromiseStep, Promise!Next, Promise!vars, Promise!StartTurn,
      Promise!ReportStarted, Promise!ReportNotStarted, Promise!ReportUncertain, s, t
  <1>8. report'[d] = report[d] => report' = report
    BY <1>1, <1>3
  <1>9. (t[d] <=> s[d]) => t = s
    <2>1. (t[d] <=> s[d]) => t[d] = s[d]
      BY <1>2
    <2>2. t[d] = s[d] => \A e \in Delivery : t[e] = s[e]
      BY <1>3
    <2>3. QED
      BY <1>2, <2>1, <2>2
  <1>10. t[d] => t = [s EXCEPT ![d] = TRUE]
    <2>1. t[d] => t[d] = TRUE
      BY <1>2
    <2>2. QED
      BY <2>1, <1>5
  <1>11. CASE report'[d] = report[d] /\ (turns'[d] > 0 <=> turns[d] > 0)
    BY <1>4, <1>7, <1>8, <1>9, <1>11
  <1>12. CASE /\ turns[d] = 0 /\ turns'[d] > 0 /\ report'[d] = report[d]
              /\ report[d] \in {"open", "uncertain"}
    <2>1. ~s[d] /\ t[d] /\ report' = report
      BY <1>4, <1>8, <1>12
    <2>2. QED
      BY <1>7, <1>10, <1>12, <2>1
  <1>13. CASE /\ turns'[d] > 0 <=> turns[d] > 0
              /\ \/ turns[d] > 0 /\ report[d] \in {"open", "uncertain"} /\ report'[d] = "started"
                 \/ ~(turns[d] > 0) /\ report[d] = "open" /\ report'[d] = "notStarted"
                 \/ report[d] = "open" /\ report'[d] = "uncertain"
    <2>1. t = s
      BY <1>4, <1>9, <1>13
    <2>2. CASE turns[d] > 0 /\ report[d] \in {"open", "uncertain"} /\ report'[d] = "started"
      BY <1>4, <1>6, <1>7, <2>1, <2>2
    <2>3. CASE ~(turns[d] > 0) /\ report[d] = "open" /\ report'[d] = "notStarted"
      BY <1>4, <1>6, <1>7, <2>1, <2>3
    <2>4. CASE report[d] = "open" /\ report'[d] = "uncertain"
      BY <1>6, <1>7, <2>1, <2>4
    <2>5. QED
      BY <1>13, <2>2, <2>3, <2>4
  <1>14. QED
    BY <1>11, <1>12, <1>13 DEF Allowed

LEMMA ReportOfState ==
  ASSUME NEW e \in Delivery
  PROVE  /\ ledger[e].state = "turn_started" => report[e] = "started"
         /\ ledger[e].state \in {"failed", "expired", "policy_denied"} => report[e] = "notStarted"
         /\ ledger[e].state = "unknown" => report[e] = "uncertain"
         /\ ledger[e].state \notin {"turn_started", "failed", "expired", "policy_denied", "unknown"}
              => report[e] = "open"
  <1> DEFINE r == CASE ledger[e].state = "turn_started" -> "started"
                    [] ledger[e].state \in {"failed", "expired", "policy_denied"} -> "notStarted"
                    [] ledger[e].state = "unknown" -> "uncertain"
                    [] OTHER -> "open"
  <1>1. report[e] = r
    BY Zenon DEF report
  <1>2. QED
    BY <1>1

LEMMA NextReportOfState ==
  ASSUME NEW e \in Delivery
  PROVE  /\ ledger'[e].state = "turn_started" => report'[e] = "started"
         /\ ledger'[e].state \in {"failed", "expired", "policy_denied"} => report'[e] = "notStarted"
         /\ ledger'[e].state = "unknown" => report'[e] = "uncertain"
         /\ ledger'[e].state \notin {"turn_started", "failed", "expired", "policy_denied", "unknown"}
              => report'[e] = "open"
  <1> DEFINE r == CASE ledger'[e].state = "turn_started" -> "started"
                    [] ledger'[e].state \in {"failed", "expired", "policy_denied"} -> "notStarted"
                    [] ledger'[e].state = "unknown" -> "uncertain"
                    [] OTHER -> "open"
  <1>1. report'[e] = r
    BY Zenon DEF report
  <1>2. QED
    BY <1>1

LEMMA SameReports ==
  ASSUME UNCHANGED turns, \A e \in Delivery : report'[e] = report[e]
  PROVE  PromiseStep
  <1>1. [e \in Delivery |-> turns'[e] > 0] = [e \in Delivery |-> turns[e] > 0]
    OBVIOUS
  <1>2. report = [e \in Delivery |-> report[e]] /\ report' = [e \in Delivery |-> report'[e]]
    BY Zenon DEF report
  <1>3. report' = report
    BY <1>2
  <1>4. QED
    BY <1>1, <1>3 DEF PromiseStep, Promise!vars

LEMMA QuietPromise ==
  ASSUME UNCHANGED <<ledgerVars, turns>>
  PROVE  PromiseStep
  <1>1. report' = report
    BY DEF ledgerVars, report
  <1>2. QED
    BY <1>1, SameReports

LEMMA EvidencePromise ==
  ASSUME DInv, NEW d \in Delivery, NEW a \in 0..2,
         NEW state \in {"turn_started", "unknown", "retryable", "failed", "expired", "policy_denied"},
         NEW hasResult \in BOOLEAN, AppendEvidence(d, a, state, hasResult), UNCHANGED turns,
         state = "turn_started" => turns[d] > 0,
         state \in {"failed", "expired", "policy_denied"} => turns[d] = 0
  PROVE  PromiseStep
  <1>1. state \in States \ {"cancelled"}
    BY DEF States
  <1>2. Becomes(d, state)
    BY <1>1, DInvTypes, EvidenceBecomes
  <1>3. \A e \in Delivery \ {d} : Untouched(e)
    BY <1>2, ReportOfState, NextReportOfState DEF Becomes, Untouched
  <1>4. \/ ledger[d].state = state
        \/ ledger[d].state \in {"created", "scheduled", "retryable", "prepared"}
        \/ ledger[d].state = "unknown" /\ state = "turn_started"
    <2>1. ASSUME DirectEvidenceFits(d, a, state)
          PROVE  \/ ledger[d].state = state
                 \/ ledger[d].state \in {"created", "scheduled", "retryable"}
                 \/ ledger[d].state = "unknown" /\ state = "turn_started"
      <3>1. ledger[d].state \in DOMAIN Successors /\ state \in Successors[ledger[d].state]
        BY <2>1 DEF DirectEvidenceFits
      <3>2. QED
        BY <3>1 DEF Successors
    <2>2. QED
      BY <2>1 DEF AppendEvidence, EvidenceFits, TeamEvidenceFits, GroupEvidenceFits
  <1>5. ledger'[d].state = state /\ turns' = turns
    BY <1>2 DEF Becomes
  <1>6. Allowed(d)
    BY <1>4, <1>5, ReportOfState, NextReportOfState DEF Allowed
  <1>7. QED
    BY <1>3, <1>6, MoveKeepsPromise

LEMMA TakePromise ==
  ASSUME DInv, NEW d \in Delivery, Take(d), turns[d] = 0, Undecided(d), UNCHANGED ledgerVars
  PROVE  PromiseStep
  <1>1. turns \in [Delivery -> Nat]
    BY DEF DInv, Commands
  <1>2. turns'[d] = 1 /\ \A e \in Delivery \ {d} : turns'[e] = turns[e]
    BY <1>1 DEF Take
  <1>3. report' = report
    BY DEF ledgerVars, report
  <1>4. ledger[d].state # "turn_started"
    BY DEF DInv, Facts, RecordsSound
  <1>5. report[d] \in {"open", "uncertain"}
    BY <1>4, ReportOfState DEF Undecided
  <1>6. Allowed(d) /\ \A e \in Delivery \ {d} : Untouched(e)
    BY <1>2, <1>3, <1>5 DEF Allowed, Untouched
  <1>7. QED
    BY <1>6, MoveKeepsPromise

\* Commits, schedules and attempts report nothing.
LEMMA OpenPromise ==
  ASSUME UNCHANGED turns,
         \A e \in Delivery :
           \/ ledger'[e].state = ledger[e].state
           \/ /\ ledger[e].state \in {"absent", "prepared"}
              /\ ledger'[e].state \in {"created", "prepared", "scheduled", "denied"}
  PROVE  PromiseStep
  <1>1. \A e \in Delivery : report'[e] = report[e]
    BY ReportOfState, NextReportOfState
  <1>2. QED
    BY <1>1, SameReports

LEMMA BeginPromise ==
  ASSUME DInv, NEW d \in Delivery, BeginCall(d), UNCHANGED turns
  PROVE  PromiseStep
  <1>1. \A e \in Delivery : ledger'[e].state = ledger[e].state
    BY DInvTypes, AttemptBecomes
  <1>2. QED
    BY <1>1, OpenPromise

LEMMA RefusePromise ==
  ASSUME DInv, NEW d \in Delivery, NEW state \in {"expired", "policy_denied"},
         AppendEvidence(d, 0, state, FALSE), UNCHANGED turns
  PROVE  PromiseStep
  <1>1. turns[d] = 0
    BY RefusalIsDecided DEF AppendEvidence
  <1>2. 0 \in 0..2 /\ FALSE \in BOOLEAN
    OBVIOUS
  <1>3. QED
    BY <1>1, <1>2, EvidencePromise

LEMMA OutcomePromise ==
  ASSUME DInv, NEW p \in Process, NEW d \in todo[p], RecordOutcome(p, d)
  PROVE  PromiseStep
  <1> DEFINE state == Outcome(p, d)
  <1>1. d \in Delivery /\ d = Current(p) /\ InAttempt(p) /\ UNCHANGED turns
        /\ pc[p] \in {"accepted", "rejected", "uncertain"} /\ attempt[p] \in 0..2
    BY DInvTypes DEF RecordOutcome, InAttempt, history, CommandTypes
  <1>2. state \in {"turn_started", "unknown", "retryable", "failed"}
    BY DEF Outcome
  <1>3. /\ state = "turn_started" => turns[d] > 0
        /\ state = "failed" => turns[d] = 0
    BY <1>1 DEF Outcome, DInv, Facts, WorkSound
  <1> HIDE DEF state
  <1>4. CASE UNCHANGED ledgerVars
    BY <1>1, <1>4, QuietPromise
  <1>5. CASE AppendEvidence(d, attempt[p], state, TRUE)
    BY <1>1, <1>2, <1>3, <1>5, EvidencePromise
  <1>6. QED
    BY <1>4, <1>5 DEF RecordOutcome, state

LEMMA ApplyPromise ==
  ASSUME DInv, NEW p \in Process, NEW d \in todo[p], ReconcileApply(p, d)
  PROVE  PromiseStep
  <1> DEFINE state == IF found[p] THEN "turn_started" ELSE "unknown"
  <1>1. /\ d \in Delivery /\ d = Current(p) /\ pc[p] = "apply" /\ UNCHANGED turns
        /\ attempt[p] \in 0..2 /\ found[p] \in BOOLEAN
    BY DInvTypes DEF ReconcileApply, At, history, CommandTypes
  <1>2. state \in {"turn_started", "unknown"} /\ (state = "turn_started" => turns[d] > 0)
    BY <1>1 DEF DInv, Facts, Findings, FindingsOf
  <1> HIDE DEF state
  <1>3. CASE UNCHANGED ledgerVars
    BY <1>1, <1>3, QuietPromise
  <1>4. CASE AppendEvidence(d, attempt[p], state, found[p])
    BY <1>1, <1>2, <1>4, EvidencePromise
  <1>5. QED
    BY <1>3, <1>4 DEF ReconcileApply, state

LEMMA ProcessStepPromise ==
  ASSUME DInv, NEW p \in Process, NEW d \in todo[p], Step(p, d)
  PROVE  PromiseStep
  <1>1. d \in Delivery
    BY DInvTypes
  <1>2. CASE SendAbandon(p, d) \/ RetryAbandon(p, d) \/ Inspect(p, d)
             \/ ReconcileReread(p, d) \/ TeamScheduleFails(p, d)
    <2>1. UNCHANGED <<ledgerVars, turns>>
      BY <1>2 DEF SendAbandon, RetryAbandon, Inspect, ReconcileReread, TeamScheduleFails, history
    <2>2. QED
      BY <2>1, QuietPromise
  <1>3. CASE SendCommit(p, d)
    <2>1. PICK admission \in {"admitted", "quarantined", "denied"} : Commit(d, admission, "immediate")
      BY <1>3 DEF SendCommit
    <2>2. \A e \in Delivery :
            \/ ledger'[e].state = ledger[e].state
            \/ ledger[e].state = "absent" /\ ledger'[e].state \in {"created", "denied"}
      BY <1>1, <2>1, DInvTypes DEF Commit, Put, Committed, Absent, IInv, LedgerTypeOK
    <2>3. QED
      BY <1>3, <2>2, OpenPromise DEF SendCommit, history
  <1>4. CASE SendBegin(p, d) \/ RetryBegin(p, d)
    <2>1. BeginCall(d) /\ UNCHANGED turns
      BY <1>4 DEF SendBegin, RetryBegin, BeginCall, history
    <2>2. QED
      BY <1>1, <2>1, BeginPromise
  <1>5. CASE RetryRefuse(p, d)
    <2>1. PICK state \in {"expired", "policy_denied"} : AppendEvidence(d, 0, state, FALSE)
      BY <1>5 DEF RetryRefuse
    <2>2. UNCHANGED turns
      BY <1>5 DEF RetryRefuse, history
    <2>3. QED
      BY <1>1, <2>1, <2>2, RefusePromise
  <1>6. CASE ReconcileApply(p, d)
    BY <1>6, ApplyPromise
  <1>7. CASE TeamDeny(p, d)
    <2>1. UNCHANGED turns
      BY <1>7 DEF TeamDeny, history
    <2>2. CASE UNCHANGED ledgerVars
      BY <2>1, <2>2, QuietPromise
    <2>3. CASE AppendEvidence(d, 0, "policy_denied", FALSE)
      BY <1>1, <2>1, <2>3, RefusePromise
    <2>4. QED
      BY <1>7, <2>2, <2>3 DEF TeamDeny
  <1>8. CASE TeamSchedule(p, d)
    <2>1. \A e \in Delivery :
            \/ ledger'[e].state = ledger[e].state
            \/ ledger[e].state = "prepared" /\ ledger'[e].state = "scheduled"
      BY <1>1, <1>8, DInvTypes DEF TeamSchedule, ScheduleTeam, Put, IInv, LedgerTypeOK, Record
    <2>2. QED
      BY <1>8, <2>1, OpenPromise DEF TeamSchedule, history
  <1>9. CASE TeamBegin(p, d)
    <2>1. UNCHANGED turns /\ (UNCHANGED ledgerVars \/ BeginTeam(d))
      BY <1>9 DEF TeamBegin, history
    <2>2. QED
      BY <1>1, <2>1, QuietPromise, BeginPromise DEF BeginCall
  <1>10. CASE Request(p, d)
    <2>1. UNCHANGED ledgerVars /\ (Take(d) \/ UNCHANGED turns)
      BY <1>10 DEF Request
    <2>2. turns[d] = 0 /\ Undecided(d)
      BY <1>10 DEF Request, At, InAttempt, DInv, Facts, WorkSound
    <2>3. QED
      BY <1>1, <2>1, <2>2, QuietPromise, TakePromise
  <1>11. CASE RecordOutcome(p, d)
    BY <1>11, OutcomePromise
  <1>12. QED
    BY <1>2, <1>3, <1>4, <1>5, <1>6, <1>7, <1>8, <1>9, <1>10, <1>11 DEF Step

LEMMA NextPromise == DInv /\ [Next]_vars => [Promise!Next]_(Promise!vars)
  <1> SUFFICES ASSUME DInv, [Next]_vars PROVE PromiseStep
    BY DEF PromiseStep
  <1>1. CASE PrepareTeam
    <2>1. PICK refused \in SUBSET TeamCast : CommitTeam(refused)
      BY <1>1 DEF PrepareTeam
    <2>2. ASSUME NEW e \in Delivery
          PROVE  \/ ledger'[e].state = ledger[e].state
                 \/ ledger[e].state = "absent" /\ ledger'[e].state \in {"prepared", "denied"}
      <3>1. CASE e \in TeamCast
        <4>1. /\ ledger[e] = Absent
              /\ ledger'[e] = Committed(IF e \in refused THEN "denied" ELSE "admitted",
                                       "immediate", "prepared")
          BY <2>1, <3>1 DEF CommitTeam, CommitBatch
        <4>2. QED
          BY <4>1 DEF Committed, Absent
      <3>2. CASE e \notin TeamCast
        BY <2>1, <3>2 DEF CommitTeam, CommitBatch
      <3>3. QED
        BY <3>1, <3>2
    <2>3. QED
      BY <1>1, <2>2, OpenPromise DEF PrepareTeam, history
  <1>2. ASSUME NEW d \in Delivery, LateTurn(d) PROVE PromiseStep
    BY <1>2, TakePromise DEF LateTurn, DInv, Facts, RecordsSound
  <1>3. ASSUME NEW p \in Process, Command(p) PROVE PromiseStep
    BY <1>3, QuietPromise DEF Command, Send, Retry, Reconcile, TeamDispatch, history
  <1>4. ASSUME NEW p \in Process, ProcessStep(p) PROVE PromiseStep
    BY <1>4, ProcessStepPromise DEF ProcessStep
  <1>5. ASSUME NEW p \in Process, (\E d \in todo[p] : Fault(p, d)) \/ Crash(p) PROVE PromiseStep
    BY <1>5, QuietPromise DEF Fault, Crash
  <1>6. CASE UNCHANGED vars
    BY <1>6, QuietPromise DEF vars, history
  <1>7. QED
    BY <1>1, <1>2, <1>3, <1>4, <1>5, <1>6 DEF Next

LEMMA InitPromise == Init => Promise!Init
  <1> SUFFICES ASSUME Init PROVE Promise!Init
    OBVIOUS
  <1>1. \A d \in Delivery : turns[d] = 0 /\ ledger[d].state = "absent"
    BY DEF Init, LedgerInit, Absent
  <1>2. \A d \in Delivery : report[d] = "open"
    BY <1>1, ReportOfState
  <1>3. report = [d \in Delivery |-> report[d]]
    BY Zenon DEF report
  <1>4. report = [d \in Delivery |-> "open"]
    BY <1>2, <1>3
  <1>5. [d \in Delivery |-> turns[d] > 0] = [d \in Delivery |-> FALSE]
    <2>1. \A d \in Delivery : (turns[d] > 0) = FALSE
      BY <1>1
    <2>2. QED
      BY <2>1, Zenon
  <1>6. QED
    BY <1>4, <1>5 DEF Promise!Init

\* The commands implement DeliveryPromise: what they report of a message is
\* true and final, however they interleave and whatever is lost.
THEOREM PromiseKept == Spec => KeepsPromise
  BY InitPromise, NextPromise, DispatchInvariant, PTL DEF Spec, KeepsPromise, Promise!Spec
=============================================================================
