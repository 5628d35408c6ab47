------------------------------ MODULE RecordProofs ------------------------------
(***************************************************************************)
(* Proofs about the records that are kept on disk: how those of Retention  *)
(* are moved and come back, and how those of Conversations agree.  The two *)
(* parts share nothing but this module.                                    *)
(*                                                                         *)
(* Retention: first its barrier (module RetentionBarrier) for any writers  *)
(* and mutators, then what runs inside it (JobArchive, and so              *)
(* RetentionTransaction) for any messages with any outcomes, any Jobs, and *)
(* any numbers of transactions, archives, deaths and exceptions.           *)
(*                                                                         *)
(* The barrier is safe because of the time between a writer's second look  *)
(* and a mutator's listing: who is past the one is met by the other, or    *)
(* has found the lock.  JobArchive takes from it that writers act only     *)
(* while no mutation runs, and mutations one at a time.                    *)
(*                                                                         *)
(* What the directories say (Disk) holds whoever is at work or nobody; what *)
(* the holder of the lock relies on between two steps (Control) ends with  *)
(* the lock, for recovery looks at the generations again.  Two facts carry *)
(* the rest: no more than one transaction is unsettled at a time, because  *)
(* every mutation first settles what it finds or gives up; and the         *)
(* committed backups form a sequence (Chain), a purge adds to its end and  *)
(* a restore takes from it.                                                *)
(*                                                                         *)
(* Conversations (modules DirectConversation, GroupConversation): for any  *)
(* Nodes, successors, messages, Group and inboxes, and any faults.  It     *)
(* carries the proof to say of each message who is to write what is not    *)
(* written yet: a record without its source has a sender that knows the    *)
(* place, or a fault is noted for the Conversation; a summary of another   *)
(* version has a sender that will refresh it.  A refresh that finds the    *)
(* source of the latest message missing may leave it, for then the sender  *)
(* of that message owes the next one.                                      *)
(***************************************************************************)
EXTENDS RetentionBarrier, JobArchive, Conversations,
        FiniteSetTheorems, NaturalsInduction, WellFoundedInduction, TLAPS

-----------------------------------------------------------------------------
(* The barrier, for any writers and mutators                               *)

\* A mutator past the lock acquisition owns mutation.lock.
LockOwned ==
  \A m \in Mutator : mpc[m] \in {"listing", "reading", "running"} => owner = m

\* Every writer that is still running is either still to be read by a
\* scanning mutator, or that scan has already met a live lease.
ScanMeetsWriters ==
  \A m \in Mutator, w \in Writer :
    mpc[m] = "reading" /\ wpc[w] = "running" => w \in unread[m] \/ live[m]

NoWriterUnderMutation ==
  \A m \in Mutator, w \in Writer : mpc[m] = "running" => wpc[w] # "running"

\* The lease of a writer between the end of its publication and its release.
LeasePublished ==
  \A w \in Writer : wpc[w] \in {"rechecking", "running"} => lease[w] = "written"

BarrierInv ==
  /\ BarrierTypeOK
  /\ LockOwned
  /\ LeasePublished
  /\ ScanMeetsWriters
  /\ NoWriterUnderMutation

-----------------------------------------------------------------------------

\* Nobody is at work at first.
LEMMA BarrierInitHolds == BarrierInit => BarrierInv
  BY DEF BarrierInit, BarrierInv, BarrierTypeOK, LockOwned, LeasePublished, ScanMeetsWriters,
         NoWriterUnderMutation, WriterSteps, MutatorSteps

\* A writer that is past its second look found no lock after its lease was there.
LEMMA WriterStepKeeps ==
  ASSUME BarrierInv, NEW w \in Writer, WriterStep(w) \/ WriterCrash(w)
  PROVE  BarrierInv'
  <1> USE NoOwnerAssumption DEF BarrierInv, BarrierTypeOK, WriterSteps, MutatorSteps
  <1>1. CASE WriterCheck(w)
    BY <1>1 DEF WriterCheck, LockOwned, LeasePublished, ScanMeetsWriters,
                NoWriterUnderMutation
  <1>2. CASE WriterCreateLease(w)
    BY <1>2 DEF WriterCreateLease, LockOwned, LeasePublished,
                ScanMeetsWriters, NoWriterUnderMutation
  <1>3. CASE WriterFillLease(w)
    BY <1>3 DEF WriterFillLease, LockOwned, LeasePublished,
                ScanMeetsWriters, NoWriterUnderMutation
  <1>4. CASE WriterEnter(w)
    <2>1. \A m \in Mutator : mpc[m] \notin {"listing", "reading", "running"}
      BY <1>4 DEF WriterEnter, LockOwned
    <2>2. QED
      BY <1>4, <2>1 DEF WriterEnter, LockOwned, LeasePublished,
                        ScanMeetsWriters, NoWriterUnderMutation
  <1>5. CASE WriterRefused(w)
    BY <1>5 DEF WriterRefused, LockOwned, LeasePublished,
                ScanMeetsWriters, NoWriterUnderMutation
  <1>6. CASE WriterRelease(w)
    BY <1>6 DEF WriterRelease, LockOwned, LeasePublished,
                ScanMeetsWriters, NoWriterUnderMutation
  <1>7. CASE WriterCrash(w)
    BY <1>7 DEF WriterCrash, LockOwned, LeasePublished, ScanMeetsWriters,
                NoWriterUnderMutation
  <1>8. QED
    BY <1>1, <1>2, <1>3, <1>4, <1>5, <1>6, <1>7 DEF WriterStep

\* A mutator that enters has met every writer that was past its second look.
LEMMA MutatorStepKeeps ==
  ASSUME BarrierInv, NEW m \in Mutator, MutatorStep(m) \/ MutatorCrash(m)
  PROVE  BarrierInv'
  <1> USE NoOwnerAssumption DEF BarrierInv, BarrierTypeOK, WriterSteps, MutatorSteps
  <1>1. CASE MutatorAcquire(m)
    BY <1>1 DEF MutatorAcquire, LockOwned, LeasePublished, ScanMeetsWriters,
                NoWriterUnderMutation
  <1>2. CASE MutatorReapLock(m)
    BY <1>2 DEF MutatorReapLock, LockOwned, LeasePublished,
                ScanMeetsWriters, NoWriterUnderMutation
  <1>3. CASE MutatorList(m)
    BY <1>3 DEF MutatorList, LockOwned, LeasePublished, ScanMeetsWriters,
                NoWriterUnderMutation
  <1>4. CASE MutatorRead(m)
    <2> PICK w \in Writer :
          \/ MutatorReadGone(m, w)
          \/ MutatorReadLive(m, w)
          \/ MutatorReadStale(m, w)
          \/ MutatorReadMalformed(m, w)
      BY <1>4 DEF MutatorRead
    <2>1. CASE MutatorReadGone(m, w)
      BY <2>1 DEF MutatorReadGone, ReadNext, LockOwned, LeasePublished,
                  ScanMeetsWriters, NoWriterUnderMutation
    <2>2. CASE MutatorReadLive(m, w)
      BY <2>2 DEF MutatorReadLive, ReadNext, LockOwned, LeasePublished,
                  ScanMeetsWriters, NoWriterUnderMutation
    <2>3. CASE MutatorReadStale(m, w)
      BY <2>3 DEF MutatorReadStale, ReadNext, LockOwned, LeasePublished,
                  ScanMeetsWriters, NoWriterUnderMutation
    <2>4. CASE MutatorReadMalformed(m, w)
      BY <2>4 DEF MutatorReadMalformed, GiveUp, LockOwned, LeasePublished,
                  ScanMeetsWriters, NoWriterUnderMutation
    <2>5. QED
      BY <2>1, <2>2, <2>3, <2>4
  <1>5. CASE MutatorRelist(m)
    BY <1>5 DEF MutatorRelist, LockOwned, LeasePublished, ScanMeetsWriters,
                NoWriterUnderMutation
  <1>6. CASE MutatorDrainTimeout(m)
    BY <1>6 DEF MutatorDrainTimeout, GiveUp, LockOwned, LeasePublished,
                ScanMeetsWriters, NoWriterUnderMutation
  <1>7. CASE MutatorEnter(m)
    <2>1. \A w \in Writer : wpc[w] # "running"
      BY <1>7 DEF MutatorEnter, ScanMeetsWriters
    <2>2. QED
      BY <1>7, <2>1 DEF MutatorEnter, LockOwned, LeasePublished,
                        ScanMeetsWriters, NoWriterUnderMutation
  <1>8. CASE MutatorRelease(m)
    BY <1>8 DEF MutatorRelease, GiveUp, LockOwned, LeasePublished,
                ScanMeetsWriters, NoWriterUnderMutation
  <1>9. CASE MutatorCrash(m)
    BY <1>9 DEF MutatorCrash, LockOwned, LeasePublished, ScanMeetsWriters,
                NoWriterUnderMutation
  <1>10. QED
    BY <1>1, <1>2, <1>3, <1>4, <1>5, <1>6, <1>7, <1>8, <1>9 DEF MutatorStep

\* What happens elsewhere changes nothing.
LEMMA BarrierStutterKeeps == BarrierInv /\ UNCHANGED barrierVars => BarrierInv'
  BY DEF BarrierInv, barrierVars, BarrierTypeOK, LockOwned, LeasePublished, ScanMeetsWriters,
         NoWriterUnderMutation

\* The inductive invariant holds throughout.
THEOREM BarrierIsInvariant == BarrierSpec => []BarrierInv
  <1>1. BarrierInv /\ [BarrierNext]_barrierVars => BarrierInv'
    BY WriterStepKeeps, MutatorStepKeeps, BarrierStutterKeeps DEF BarrierNext, ProcessDies
  <1>2. QED
    BY BarrierInitHolds, <1>1, PTL DEF BarrierSpec

\* Type correctness of the barrier for any writers and mutators.
THEOREM BarrierTypes == BarrierSpec => []BarrierTypeOK
  <1>1. BarrierInv => BarrierTypeOK
    BY DEF BarrierInv
  <1>2. QED
    BY BarrierIsInvariant, <1>1, PTL

\* No writer callback and no second mutation callback ever runs beside a
\* mutation callback, whatever crashes and however the scans interleave.
THEOREM BarrierExclusion == BarrierSpec => []Exclusion
  <1>1. BarrierInv => Exclusion
    BY DEF BarrierInv, LockOwned, NoWriterUnderMutation, Exclusion
  <1>2. QED
    BY BarrierIsInvariant, <1>1, PTL

\* The lease of a running writer is never reaped.
THEOREM BarrierLeases == BarrierSpec => []RunningWritersAreLeased
  <1>1. BarrierInv => RunningWritersAreLeased
    BY DEF BarrierInv, LeasePublished, RunningWritersAreLeased
  <1>2. QED
    BY BarrierIsInvariant, <1>1, PTL

-----------------------------------------------------------------------------
(* Types                                                                   *)

Status == {"staging", "prepared", "tombstoning", "swapping", "indexing",
           "committed", "abandoned"}
RestoreStatus == {"none", "swapping", "indexing", "committed"}
ManifestRecord ==
  [status : Status, tombstonesComplete : BOOLEAN, receipt : Nat,
   previousHead : Transactions \cup {NoTransaction}, restore : RestoreStatus,
   ops : UNION {[kinds -> Operation] : kinds \in SUBSET Kinds}]

PlaceRecord == [stage : Generations, backup : Generations, displaced : Generations]

AlbumRecord ==
  [status : {"archiving", "committed", "restoring", "restored"}, items : SUBSET Jobs]

FilesTyped ==
  /\ lock \in {"free", "held", "dead"}
  /\ selected \in [Kinds -> SUBSET Messages]
  /\ active \in [Kinds -> Generations]
  /\ place \in [Transactions -> [Kinds -> PlaceRecord]]
  /\ manifest \in [Transactions -> {NoDirectory, Bare} \cup ManifestRecord]
  /\ receipt \in [Transactions -> Nat]
  /\ head \in Transactions \cup {NoTransaction}
  /\ tombstones \subseteq Messages
  /\ written \in [Kinds -> SUBSET Records]

JobsTyped ==
  /\ jobAt \in [Jobs -> {"none", "active"} \cup Archives]
  /\ album \in [Archives -> {NoDirectory, Bare} \cup AlbumRecord]

Typed == FilesTyped /\ JobsTyped

-----------------------------------------------------------------------------
(* What the directories say                                                *)

Unsettled(t) == manifest[t] # NoDirectory /\ ~Settled(t)

OnlyOne(t) == \A u \in Transactions \ {t} : ~Unsettled(u)
OneUnsettled == \A t, u \in Transactions : Unsettled(t) /\ Unsettled(u) => t = u

Previous(t) == manifest[t].previousHead

\* A transaction takes something out of each store it has an operation for, and
\* nothing else.
OperationIsSound(t, k) ==
  LET o == manifest[t].ops[k] IN
  /\ o.before \subseteq written[k]
  /\ o.after = o.before \ Of(o.ids)
  /\ o.ids # {}
  /\ \A m \in o.ids : <<m, "record">> \in o.before

\* What Tombstones are made for, while none is missing.
SelectionFits(t) ==
  "ledger" \in Operations(t) =>
    \A m \in SelectedIn(t, "ledger") :
      \/ Outcome[m] \in {"denied", "claimed"}
      \/ /\ Outcome[m] = "settled"
         /\ <<m, "outcome">> \in manifest[t].ops["ledger"].before
      \/ Outcome[m] = "quarantined" /\ m \in SelectedIn(t, "quarantine")

ManifestIsSound(t) ==
  /\ ~manifest[t].tombstonesComplete => \A k \in Kinds : place[t][k].backup = Absent
  /\ manifest[t].restore # "none" => manifest[t].status = "committed"
  /\ manifest[t].restore = "none" => \A k \in Kinds : place[t][k].displaced = Absent
  /\ manifest[t].status \in {"swapping", "indexing", "committed"} => manifest[t].tombstonesComplete
  /\ manifest[t].status \in {"prepared", "tombstoning"} => manifest[t].restore = "none"
  /\ manifest[t].tombstonesComplete => SelectedIn(t, "ledger") \subseteq tombstones
  /\ manifest[t].status \in {"staging", "prepared"} => Previous(t) = head
  /\ Pending(t) => head \in {t, Previous(t)}
  /\ Held(t) => /\ manifest[t].receipt = receipt[t] /\ receipt[t] > 0
                /\ \A k \in Operations(t) : manifest[t].ops[k].state = "installed"
  /\ \A k \in Operations(t) : OperationIsSound(t, k)
  /\ SelectionFits(t)

DirectoriesAreSound ==
  \A t \in Transactions :
    IF HasManifest(t) THEN ManifestIsSound(t) ELSE \A k \in Kinds : place[t][k] = NoFiles

\* While nothing was written under it, a pending transaction finds every store
\* in one of the states of its rename loop.
PendingAreIntact ==
  \A t \in Transactions : Pending(t) /\ t \notin intruded =>
    \A k \in Operations(t) : InferredState(t, k) # "lost"

StoresAreWritten ==
  /\ \A k \in Kinds : Contents(k) \subseteq written[k]
  /\ \A m \in Messages :
       <<m, "outcome">> \in written["ledger"] => Outcome[m] \in {"settled", "claimed"}

\* A backup that nobody may abandon.
Keeps(t, k, r) ==
  /\ HasManifest(t) /\ manifest[t].status \notin {"staging", "prepared", "abandoned"}
  /\ \E g \in {place[t][k].stage, place[t][k].backup, place[t][k].displaced} : g # Absent /\ r \in g

RecordsAreKept ==
  \A k \in Kinds : \A r \in written[k] :
    r \in Contents(k) \/ \E t \in Transactions : Keeps(t, k, r)

\* What a pending transaction moves: all that was there, and what it leaves.
Moves(t, k, m) ==
  Pending(t) /\ k \in Operations(t) /\ <<m, "record">> \in manifest[t].ops[k].before
Leaves(t, k, m) ==
  Pending(t) /\ k \in Operations(t) /\ <<m, "record">> \in manifest[t].ops[k].after

GoneOrMoving ==
  \A m \in Messages : <<m, "record">> \in written["ledger"] =>
    InLedger(m) \/ m \in tombstones \/ \E t \in Transactions : Moves(t, "ledger", m)

BodiesAreSafe ==
  \A j \in Jobs : jobAt[j] # "none" =>
    /\ <<TaskBody[j], "record">> \in written["bodies"]
    /\ \/ In("bodies", TaskBody[j])
       \/ \E t \in Transactions : Leaves(t, "bodies", TaskBody[j])

\* An unfinished purge takes no body of a Job, one created since included.
Spares(t) ==
  Unsettled(t) /\ HasManifest(t) /\ manifest[t].restore = "none" =>
    \A j \in Jobs : jobAt[j] # "none" => TaskBody[j] \notin SelectedIn(t, "bodies")

PurgesSpareBodies == \A t \in Transactions : Spares(t)

\* The backups of before, which names the one before each, ordered by it: the
\* last one is last, and there is none before the first.
ChainOf(n, chain, before, last) ==
  /\ \A i \in 1..n : chain[i] \in DOMAIN before
  /\ \A t \in DOMAIN before : \E i \in 1..n : chain[i] = t
  /\ \A i, j \in 1..n : chain[i] = chain[j] => i = j
  /\ \A i \in 1..n : before[chain[i]] = IF i = 1 THEN NoTransaction ELSE chain[i-1]
  /\ last = IF n = 0 THEN NoTransaction ELSE chain[n]

Chained(before, last) ==
  \E n \in Nat : \E chain \in [1..n -> Transactions] : ChainOf(n, chain, before, last)

Backups == [t \in {u \in Transactions : Held(u)} |-> Previous(t)]

BackupsAreChained ==
  /\ (\A t \in Transactions : ~Pending(t)) => Chained(Backups, head)
  /\ \A t \in Transactions : Pending(t) => Chained(Backups, Previous(t))

Disk ==
  /\ OneUnsettled /\ DirectoriesAreSound
  /\ PendingAreIntact /\ StoresAreWritten
  /\ RecordsAreKept /\ GoneOrMoving
  /\ BodiesAreSafe /\ PurgesSpareBodies
  /\ BackupsAreChained
  /\ ArchivesAreWhole

-----------------------------------------------------------------------------
(* What the holder of the lock relies on                                   *)

Swapping == {"swap", "swappedOut", "swappedIn"}
Unswapping == {"unswap", "unswappedOut", "unswappedIn"}
Ending == {"receipt", "head", "commit"}
EndingBack == {"headBack", "commitBack"}
Purge == {"manifest", "stage", "prepared", "tombstone", "startSwap"} \cup Swapping \cup Ending
InTransaction == Purge \cup Unswapping \cup EndingBack
InArchive == {"jobManifest", "moveJobs", "returnJobs", "commitJobs"}

Recorded(k) == manifest[tx].ops[k].state

Plan ==
  /\ \A k \in Kinds : \A m \in selected[k] : In(k, m)
  /\ \A m \in selected["ledger"] :
       \/ Outcome[m] = "denied"
       \/ Finished(m)
       \/ Outcome[m] = "quarantined" /\ m \in selected["quarantine"]
  /\ \A j \in Jobs : jobAt[j] # "none" => TaskBody[j] \notin selected["bodies"]

\* The manifest of the transaction at work, by where it is.
StatusFits ==
  /\ pc = "manifest" => manifest[tx] = Bare
  /\ pc # "manifest" => HasManifest(tx)
  /\ pc = "stage" => manifest[tx].status = "staging" /\ manifest[tx].restore = "none"
       /\ Operations(tx) = {} /\ ~manifest[tx].tombstonesComplete
  /\ pc = "prepared" => manifest[tx].status = "prepared" /\ ~manifest[tx].tombstonesComplete
  /\ pc = "tombstone" => manifest[tx].status = "tombstoning" /\ ~manifest[tx].tombstonesComplete
  /\ pc = "startSwap" =>
       manifest[tx].status \in {"tombstoning", "swapping", "indexing"}
         /\ manifest[tx].tombstonesComplete
  /\ pc \in Swapping => manifest[tx].status = "swapping"
  /\ pc \in Ending => manifest[tx].status = "indexing"
  /\ pc \in Purge \ {"manifest"} => manifest[tx].restore = "none"
  /\ pc \in Unswapping => manifest[tx].restore \in {"swapping", "indexing"}
  /\ pc \in EndingBack => manifest[tx].restore = "indexing"
  /\ pc \in {"head", "commit"} => receipt[tx] > 0
  /\ pc = "commit" => head = tx
  /\ pc = "commitBack" => head = Previous(tx)

\* The manifest is one rename behind at most, and says which.
Ahead(from, to) ==
  /\ Left # {} /\ CursorState = from /\ InferredState(tx, Cursor) = to
  /\ \A k \in Operations(tx) \ {Cursor} : InferredState(tx, k) = Recorded(k)

StatesFit ==
  /\ pc \in {"prepared", "tombstone", "startSwap", "swap", "unswap"} \cup Ending \cup EndingBack =>
       \A k \in Operations(tx) : InferredState(tx, k) = Recorded(k)
  /\ pc = "swappedOut" => Ahead("staged", "backed_up")
  /\ pc = "swappedIn" => Ahead("backed_up", "installed")
  /\ pc = "unswappedOut" => Ahead("installed", "backed_up")
  /\ pc = "unswappedIn" => Ahead("backed_up", "restored")
  /\ pc \in Ending => \A k \in Operations(tx) : Recorded(k) = "installed"
  /\ pc \in EndingBack => \A k \in Operations(tx) : Recorded(k) = "restored"

InTransactionFits ==
  /\ tx \in Transactions /\ Unsettled(tx) /\ todo \subseteq {tx}
  /\ pc \in {"manifest", "stage"} => Plan
  /\ StatusFits /\ StatesFit

InArchiveFits ==
  /\ tx \in Archives
  /\ pc = "jobManifest" => album[tx] = Bare
  /\ pc # "jobManifest" => HasAlbum(tx)
  /\ pc \in {"moveJobs", "commitJobs"} => album[tx].status = "archiving"
  /\ pc = "returnJobs" => album[tx].status = "restoring"
  /\ pc = "commitJobs" => tx \in slip /\ \A j \in album[tx].items : jobAt[j] = tx

Control ==
  lock = "held" =>
    /\ pc = "visit" => todo = {t \in Transactions : Unsettled(t)}
    /\ pc \in InTransaction => InTransactionFits
    /\ pc \in InArchive => InArchiveFits

IInv == Typed /\ Disk /\ Control

-----------------------------------------------------------------------------
(* Operators                                                               *)

\* A directory that is not there is no generation.
LEMMA AbsentIsNone == Absent \notin SUBSET Records
  BY AbsentAssumption DEF Records

\* The next store of the order is one of those left.
LEMMA FirstIsOneOf ==
  ASSUME NEW S \in SUBSET Kinds, S # {}
  PROVE  First(S) \in S
  <1> Rank["ledger"] = 1 /\ Rank["bodies"] = 2 /\ Rank["quarantine"] = 3
    BY DEF Rank
  <1>1. \E k \in S : \A other \in S : Rank[k] <= Rank[other]
    <2>1. CASE "ledger" \in S
      BY <2>1 DEF Kinds
    <2>2. CASE "ledger" \notin S /\ "bodies" \in S
      BY <2>2 DEF Kinds
    <2>3. CASE S = {"quarantine"}
      BY <2>3
    <2>4. QED
      BY <2>1, <2>2, <2>3 DEF Kinds
  <1>2. QED
    BY <1>1 DEF First

\* What is known of a manifest record.
LEMMA ManifestFields ==
  ASSUME NEW m \in ManifestRecord
  PROVE  /\ m \notin {NoDirectory, Bare}
         /\ m.status \in Status /\ m.restore \in RestoreStatus
         /\ m.tombstonesComplete \in BOOLEAN /\ m.receipt \in Nat
         /\ m.previousHead \in Transactions \cup {NoTransaction}
         /\ DOMAIN m.ops \subseteq Kinds
         /\ \A k \in DOMAIN m.ops : m.ops[k] \in Operation
  <1>1. /\ m.status \in Status /\ m.restore \in RestoreStatus
        /\ m.tombstonesComplete \in BOOLEAN /\ m.receipt \in Nat
        /\ m.previousHead \in Transactions \cup {NoTransaction}
        /\ m.ops \in UNION {[kinds -> Operation] : kinds \in SUBSET Kinds}
    BY DEF ManifestRecord
  <1>2. PICK kinds \in SUBSET Kinds : m.ops \in [kinds -> Operation]
    BY <1>1
  <1>3. m # NoDirectory /\ m # Bare
    BY <1>1 DEF Status, NoDirectory, Bare
  <1>4. QED
    BY <1>1, <1>2, <1>3

\* Of a transaction there is a manifest record, an empty directory, or nothing.
LEMMA ManifestTyped ==
  ASSUME FilesTyped, NEW t \in Transactions
  PROVE  /\ HasManifest(t) <=> manifest[t] \in ManifestRecord
         /\ ~HasManifest(t) => manifest[t] \in {NoDirectory, Bare} /\ ~Pending(t) /\ ~Held(t)
         /\ Bare # NoDirectory
  <1>1. manifest[t] \in {NoDirectory, Bare} \cup ManifestRecord
    BY DEF FilesTyped
  <1>2. NoDirectory \notin ManifestRecord /\ Bare \notin ManifestRecord
    BY ManifestFields
  <1>3. Bare # NoDirectory
    BY DEF Bare, NoDirectory
  <1>4. QED
    BY <1>1, <1>2, <1>3 DEF HasManifest, Pending, Purging, Restoring, Held

\* What an unfinished status means.
LEMMA Phases ==
  ASSUME FilesTyped, NEW t \in Transactions, HasManifest(t)
  PROVE  /\ Pending(t) => Unsettled(t)
         /\ ~Unsettled(t) => manifest[t].status \in {"committed", "abandoned"} /\ ~Pending(t)
         /\ manifest[t].status \in {"staging", "prepared"} => Unsettled(t) /\ ~Held(t)
  BY ManifestTyped, ManifestFields
     DEF Unsettled, Settled, HasManifest, Pending, Purging, Status, RestoreStatus, Held

\* A new manifest record replaces the one of its transaction only.
LEMMA ManifestReplaced ==
  ASSUME FilesTyped, NEW t \in Transactions, NEW m \in {Bare} \cup ManifestRecord,
         manifest' = [manifest EXCEPT ![t] = m]
  PROVE  /\ manifest' \in [Transactions -> {NoDirectory, Bare} \cup ManifestRecord]
         /\ manifest'[t] = m
         /\ \A u \in Transactions \ {t} : manifest'[u] = manifest[u]
  BY DEF FilesTyped

-----------------------------------------------------------------------------
(* Chains of backups                                                       *)

\* A purge that is done adds itself to the end.
LEMMA ChainGrows ==
  ASSUME NEW B, NEW last, Chained(B, last), DOMAIN B \subseteq Transactions,
         NEW t \in Transactions, t \notin DOMAIN B,
         NEW C, DOMAIN C = DOMAIN B \cup {t}, C[t] = last,
         \A u \in DOMAIN B : C[u] = B[u]
  PROVE  Chained(C, t)
  <1>1. PICK n \in Nat : \E chain \in [1..n -> Transactions] : ChainOf(n, chain, B, last)
    BY DEF Chained
  <1>2. PICK chain \in [1..n -> Transactions] : ChainOf(n, chain, B, last)
    BY <1>1
  <1> USE DEF ChainOf
  <1> DEFINE longer == [i \in 1..(n+1) |-> IF i = n+1 THEN t ELSE chain[i]]
  <1>3. longer \in [1..(n+1) -> Transactions] /\ n+1 \in Nat
    BY <1>2
  <1>4. \A i \in 1..(n+1) : longer[i] = IF i = n+1 THEN t ELSE chain[i]
    BY <1>2
  <1> HIDE DEF longer
  <1>5. \A i \in 1..(n+1) : longer[i] \in DOMAIN C
    BY <1>2, <1>4
  <1>6. \A u \in DOMAIN C : \E i \in 1..(n+1) : longer[i] = u
    <2>1. n+1 \in 1..(n+1) /\ longer[n+1] = t
      BY <1>2, <1>4
    <2>2. \A u \in DOMAIN B : \E i \in 1..(n+1) : longer[i] = u
      BY <1>2, <1>4
    <2>3. QED
      BY <2>1, <2>2
  <1>7. \A i, j \in 1..(n+1) : longer[i] = longer[j] => i = j
    BY <1>2, <1>4
  <1>8. \A i \in 1..(n+1) : C[longer[i]] = IF i = 1 THEN NoTransaction ELSE longer[i-1]
    BY <1>2, <1>4
  <1>9. t = IF n+1 = 0 THEN NoTransaction ELSE longer[n+1]
    BY <1>2, <1>4
  <1>10. QED
    BY <1>3, <1>5, <1>6, <1>7, <1>8, <1>9 DEF Chained

\* A restore takes the last one away.
LEMMA ChainShrinks ==
  ASSUME NEW B, NEW t \in Transactions, Chained(B, t), DOMAIN B \subseteq Transactions,
         NEW C, DOMAIN C = DOMAIN B \ {t}, \A u \in DOMAIN C : C[u] = B[u]
  PROVE  Chained(C, B[t])
  <1>1. PICK n \in Nat : \E chain \in [1..n -> Transactions] : ChainOf(n, chain, B, t)
    BY DEF Chained
  <1>2. PICK chain \in [1..n -> Transactions] : ChainOf(n, chain, B, t)
    BY <1>1
  <1> USE DEF ChainOf
  <1>3. n > 0 /\ t = chain[n]
    BY <1>2, AbsentAssumption
  <1> DEFINE shorter == [i \in 1..(n-1) |-> chain[i]]
  <1>4. shorter \in [1..(n-1) -> Transactions] /\ n-1 \in Nat
    BY <1>2, <1>3
  <1>5. \A i \in 1..(n-1) : shorter[i] = chain[i]
    OBVIOUS
  <1> HIDE DEF shorter
  <1>6. \A i \in 1..(n-1) : shorter[i] \in DOMAIN C
    BY <1>2, <1>3, <1>5
  <1>7. \A u \in DOMAIN C : \E i \in 1..(n-1) : shorter[i] = u
    <2> TAKE u \in DOMAIN C
    <2>1. PICK i \in 1..n : chain[i] = u
      BY <1>2
    <2>2. i # n
      BY <1>3, <2>1
    <2>3. i \in 1..(n-1) /\ shorter[i] = u
      BY <1>5, <2>1, <2>2
    <2>4. QED
      BY <2>3
  <1>8. \A i, j \in 1..(n-1) : shorter[i] = shorter[j] => i = j
    BY <1>2, <1>5
  <1>9. \A i \in 1..(n-1) : C[shorter[i]] = IF i = 1 THEN NoTransaction ELSE shorter[i-1]
    BY <1>2, <1>5, <1>6
  <1>10. B[t] = IF n-1 = 0 THEN NoTransaction ELSE shorter[n-1]
    BY <1>2, <1>3, <1>5
  <1>11. QED
    BY <1>4, <1>6, <1>7, <1>8, <1>9, <1>10 DEF Chained

\* What the chain says of the head.
LEMMA ChainFacts ==
  ASSUME NEW B, NEW last, Chained(B, last)
  PROVE  /\ DOMAIN B # {} => last # NoTransaction
         /\ last # NoTransaction => last \in DOMAIN B
         /\ \A t \in DOMAIN B : t = last \/ \E u \in DOMAIN B : B[u] = t
         /\ \A t, u \in DOMAIN B : t # u => B[t] # B[u]
  <1>1. PICK n \in Nat : \E chain \in [1..n -> Transactions] : ChainOf(n, chain, B, last)
    BY DEF Chained
  <1>2. PICK chain \in [1..n -> Transactions] : ChainOf(n, chain, B, last)
    BY <1>1
  <1> USE DEF ChainOf
  <1>3. \A i \in 1..n : chain[i] # NoTransaction
    BY <1>2, AbsentAssumption
  <1>4. DOMAIN B # {} => last # NoTransaction
    BY <1>2, <1>3
  <1>5. last # NoTransaction => last \in DOMAIN B
    BY <1>2
  <1>6. \A t \in DOMAIN B : t = last \/ \E u \in DOMAIN B : B[u] = t
    <2> TAKE t \in DOMAIN B
    <2>1. PICK i \in 1..n : chain[i] = t
      BY <1>2
    <2>2. CASE i = n
      BY <1>2, <2>1, <2>2
    <2>3. CASE i # n
      <3>1. i+1 \in 1..n /\ i+1 # 1 /\ (i+1)-1 = i
        BY <2>3
      <3>2. chain[i+1] \in DOMAIN B /\ B[chain[i+1]] = t
        BY <1>2, <2>1, <3>1
      <3>3. QED
        BY <3>2
    <2>4. QED
      BY <2>2, <2>3
  <1>7. \A t, u \in DOMAIN B : t # u => B[t] # B[u]
    <2> SUFFICES ASSUME NEW t \in DOMAIN B, NEW u \in DOMAIN B, B[t] = B[u]
                 PROVE  t = u
      OBVIOUS
    <2>1. PICK i \in 1..n, j \in 1..n : chain[i] = t /\ chain[j] = u
      BY <1>2
    <2>2. i # 1 => i-1 \in 1..n
      OBVIOUS
    <2>3. j # 1 => j-1 \in 1..n
      OBVIOUS
    <2>4. i = j
      BY <1>2, <1>3, <2>1, <2>2, <2>3
    <2>5. QED
      BY <2>1, <2>4
  <1>8. QED
    BY <1>4, <1>5, <1>6, <1>7

-----------------------------------------------------------------------------
(* Frames                                                                  *)

\* Steps on Jobs, once created, and on their archives leave the stores alone.
LEMMA JobsFrame ==
  ASSUME Disk, UNCHANGED <<files, written, intruded>>, ArchivesAreWhole',
         \A j \in Jobs : jobAt'[j] # "none" => jobAt[j] # "none"
  PROVE  Disk'
  <1> USE DEF files
  <1>1. \A t \in Transactions :
          /\ HasManifest(t)' <=> HasManifest(t)
          /\ Unsettled(t)' <=> Unsettled(t)
          /\ Pending(t)' <=> Pending(t)
          /\ Held(t)' <=> Held(t)
          /\ \A k \in Kinds : InferredState(t, k)' = InferredState(t, k)
    BY DEF HasManifest, Unsettled, Settled, Pending, Purging, Restoring, Held,
           InferredState, PurgeState, RestoreState
  <1>2. OneUnsettled'
    BY <1>1 DEF Disk, OneUnsettled
  <1>3. DirectoriesAreSound'
    <2>1. \A t \in Transactions : HasManifest(t) /\ ManifestIsSound(t) => ManifestIsSound(t)'
      BY <1>1 DEF ManifestIsSound, OperationIsSound, SelectionFits, SelectedIn, Operations, Previous
    <2>2. QED
      BY <1>1, <2>1 DEF Disk, DirectoriesAreSound
  <1>4. PendingAreIntact'
    BY <1>1 DEF Disk, PendingAreIntact, Operations, InferredState, PurgeState, RestoreState,
                Restoring, HasManifest
  <1>5. StoresAreWritten' /\ RecordsAreKept'
    BY <1>1 DEF Disk, StoresAreWritten, RecordsAreKept, Contents, Keeps, HasManifest
  <1>6. GoneOrMoving'
    BY <1>1 DEF Disk, GoneOrMoving, InLedger, Moves, Operations
  <1>7. BodiesAreSafe' /\ PurgesSpareBodies'
    BY <1>1 DEF Disk, BodiesAreSafe, PurgesSpareBodies, Spares, In, Leaves, Operations, SelectedIn
  <1>8. BackupsAreChained'
    BY <1>1 DEF Disk, BackupsAreChained, Backups, Previous
  <1>9. QED
    BY <1>2, <1>3, <1>4, <1>5, <1>6, <1>7, <1>8 DEF Disk

\* Steps of the holder of the lock, and its death, leave the disk alone.
LEMMA DiskFrame ==
  ASSUME Disk, UNCHANGED <<files, written, intruded, jobVars>>
  PROVE  Disk'
  <1>1. ArchivesAreWhole'
    BY DEF Disk, ArchivesAreWhole, Archived, HasAlbum, jobVars
  <1>2. \A j \in Jobs : jobAt'[j] # "none" => jobAt[j] # "none"
    BY DEF jobVars
  <1>3. QED
    BY <1>1, <1>2, JobsFrame

\* A transaction that a step does not touch stays sound.
LEMMA SoundFrame ==
  ASSUME NEW t \in Transactions, ManifestIsSound(t),
         manifest'[t] = manifest[t], place'[t] = place[t], receipt'[t] = receipt[t],
         tombstones \subseteq tombstones', \A k \in Operations(t) : written[k] \subseteq written'[k],
         head' = head \/ (manifest[t].status \notin {"staging", "prepared"} /\ ~Pending(t))
  PROVE  ManifestIsSound(t)'
  <1>1. /\ Pending(t)' <=> Pending(t)
        /\ Held(t)' <=> Held(t)
    BY DEF HasManifest, Pending, Purging, Restoring, Held
  <1>2. QED
    BY <1>1 DEF ManifestIsSound, OperationIsSound, SelectionFits, SelectedIn, Operations, Previous

\* All others, while no other is unsettled.
LEMMA OthersFrame ==
  ASSUME FilesTyped, DirectoriesAreSound, NEW t \in Transactions, OnlyOne(t),
         \A u \in Transactions \ {t} :
           manifest'[u] = manifest[u] /\ place'[u] = place[u] /\ receipt'[u] = receipt[u],
         tombstones \subseteq tombstones', \A k \in Kinds : written[k] \subseteq written'[k]
  PROVE  \A u \in Transactions \ {t} :
           /\ IF HasManifest(u)' THEN ManifestIsSound(u)' ELSE \A k \in Kinds : place'[u][k] = NoFiles
           /\ ~Unsettled(u) /\ ~Pending(u) /\ ~Unsettled(u)' /\ ~Pending(u)'
           /\ Held(u)' <=> Held(u)
           /\ HasManifest(u)' <=> HasManifest(u)
  <1> TAKE u \in Transactions \ {t}
  <1>1. ~Unsettled(u)
    BY DEF OnlyOne
  <1>2. /\ HasManifest(u)' <=> HasManifest(u)
        /\ Unsettled(u)' <=> Unsettled(u)
        /\ Pending(u)' <=> Pending(u)
        /\ Held(u)' <=> Held(u)
    BY DEF HasManifest, Unsettled, Settled, Pending, Purging, Restoring, Held
  <1>3. ~Pending(u)
    BY <1>1, ManifestTyped, Phases
  <1>4. CASE HasManifest(u)
    <2>1. ManifestIsSound(u)
      BY <1>4 DEF DirectoriesAreSound
    <2>2. manifest[u].status \notin {"staging", "prepared"}
      BY <1>1, <1>4, Phases
    <2>3. \A k \in Operations(u) : written[k] \subseteq written'[k]
      BY <1>4, ManifestTyped, ManifestFields DEF Operations
    <2>4. ManifestIsSound(u)'
      BY <1>3, <2>1, <2>2, <2>3, SoundFrame
    <2>5. QED
      BY <1>1, <1>2, <1>3, <1>4, <2>4
  <1>5. CASE ~HasManifest(u)
    <2>1. \A k \in Kinds : place[u][k] = NoFiles
      BY <1>5 DEF DirectoriesAreSound
    <2>2. QED
      BY <1>1, <1>2, <1>3, <1>5, <2>1
  <1>6. QED
    BY <1>4, <1>5

\* Backups that neither come nor go.
LEMMA BackupsFrame ==
  ASSUME \A t \in Transactions :
           /\ Held(t)' <=> Held(t)
           /\ Held(t) => manifest'[t].previousHead = manifest[t].previousHead
  PROVE  Backups' = Backups
  BY DEF Backups, Previous

-----------------------------------------------------------------------------
(* Steps on one transaction                                                *)

\* A step that leaves the stores alone and changes one directory, its receipt,
\* the head or the Tombstones, has only that transaction to think of.
LEMMA EditKeepsDisk ==
  ASSUME FilesTyped, Disk, NEW t \in Transactions, OnlyOne(t),
         \A u \in Transactions \ {t} :
           manifest'[u] = manifest[u] /\ place'[u] = place[u] /\ receipt'[u] = receipt[u],
         UNCHANGED <<active, written, intruded, jobVars>>, tombstones \subseteq tombstones',
         IF HasManifest(t)' THEN ManifestIsSound(t)' ELSE \A k \in Kinds : place'[t][k] = NoFiles,
         Pending(t)' /\ t \notin intruded =>
           \A k \in Operations(t)' : InferredState(t, k)' # "lost",
         \A k \in Kinds : \A r \in written[k] : Keeps(t, k, r) => Keeps(t, k, r)',
         \A m \in Messages :
           Moves(t, "ledger", m) => InLedger(m) \/ m \in tombstones' \/ Moves(t, "ledger", m)',
         \A m \in Messages :
           Leaves(t, "bodies", m) => In("bodies", m) \/ Leaves(t, "bodies", m)',
         Spares(t)',
         BackupsAreChained'
  PROVE  Disk'
  <1>1. \A u \in Transactions \ {t} :
          /\ IF HasManifest(u)' THEN ManifestIsSound(u)' ELSE \A k \in Kinds : place'[u][k] = NoFiles
          /\ ~Unsettled(u)' /\ ~Pending(u)' /\ ~Pending(u)
          /\ HasManifest(u)' <=> HasManifest(u)
    BY OthersFrame DEF Disk
  <1>2. OneUnsettled' /\ DirectoriesAreSound' /\ PendingAreIntact'
    BY <1>1 DEF OneUnsettled, DirectoriesAreSound, PendingAreIntact
  <1>3. StoresAreWritten'
    BY DEF Disk, StoresAreWritten, Contents
  <1>4. RecordsAreKept'
    <2>1. \A u \in Transactions : \A k \in Kinds : \A r \in written[k] :
            Keeps(u, k, r) => Keeps(u, k, r)'
      BY <1>1 DEF Keeps
    <2>2. QED
      BY <2>1 DEF Disk, RecordsAreKept, Contents
  <1>5. GoneOrMoving'
    <2>1. SUFFICES ASSUME NEW m \in Messages, <<m, "record">> \in written["ledger"]
                   PROVE  \/ InLedger(m) \/ m \in tombstones'
                          \/ \E u \in Transactions : Moves(u, "ledger", m)'
      BY DEF GoneOrMoving, InLedger
    <2>2. \A u \in Transactions \ {t} : ~Moves(u, "ledger", m)
      BY <1>1 DEF Moves
    <2>3. QED
      BY <2>1, <2>2 DEF Disk, GoneOrMoving
  <1>6. BodiesAreSafe'
    <2>1. SUFFICES ASSUME NEW j \in Jobs, jobAt[j] # "none"
                   PROVE  /\ <<TaskBody[j], "record">> \in written["bodies"]
                          /\ \/ In("bodies", TaskBody[j])
                             \/ \E u \in Transactions : Leaves(u, "bodies", TaskBody[j])'
      BY DEF BodiesAreSafe, In, jobVars
    <2>2. \A u \in Transactions \ {t} : ~Leaves(u, "bodies", TaskBody[j])
      BY <1>1 DEF Leaves
    <2>3. TaskBody[j] \in Messages
      BY JobAssumption
    <2>4. QED
      BY <2>1, <2>2, <2>3 DEF Disk, BodiesAreSafe
  <1>7. PurgesSpareBodies'
    BY <1>1 DEF PurgesSpareBodies, Spares
  <1>8. ArchivesAreWhole'
    BY DEF Disk, ArchivesAreWhole, Archived, HasAlbum, jobVars
  <1>9. QED
    BY <1>2, <1>3, <1>4, <1>5, <1>6, <1>7, <1>8 DEF Disk

\* A step on the manifest of a pending transaction that leaves it pending, in
\* the same direction, with the same generations.
SameOperations(t) ==
  /\ Operations(t)' = Operations(t)
  /\ \A k \in Operations(t) :
       /\ manifest'[t].ops[k].ids = manifest[t].ops[k].ids
       /\ manifest'[t].ops[k].before = manifest[t].ops[k].before
       /\ manifest'[t].ops[k].after = manifest[t].ops[k].after

OnlyManifest(t) ==
  /\ \A u \in Transactions \ {t} : manifest'[u] = manifest[u]
  /\ UNCHANGED <<active, place, receipt, head, tombstones, written, intruded, jobVars>>

\* With the same generations a transaction moves and leaves the same.
LEMMA SameGenerations ==
  ASSUME NEW t \in Transactions, SameOperations(t),
         UNCHANGED <<active, place>>, Restoring(t)' <=> Restoring(t)
  PROVE  /\ \A k \in Operations(t) : InferredState(t, k)' = InferredState(t, k)
         /\ \A k \in Kinds : SelectedIn(t, k)' = SelectedIn(t, k)
         /\ Pending(t)' /\ Pending(t) => \A k \in Kinds, m \in Messages :
              (Moves(t, k, m)' <=> Moves(t, k, m)) /\ (Leaves(t, k, m)' <=> Leaves(t, k, m))
         /\ (written' = written /\ \A k \in Operations(t) : OperationIsSound(t, k)) =>
              \A k \in Operations(t)' : OperationIsSound(t, k)'
         /\ SelectionFits(t) => SelectionFits(t)'
  <1> USE DEF SameOperations
  <1>1. \A k \in Operations(t) : InferredState(t, k)' = InferredState(t, k)
    BY DEF InferredState, PurgeState, RestoreState
  <1>2. \A k \in Kinds : SelectedIn(t, k)' = SelectedIn(t, k)
    BY DEF SelectedIn
  <1>3. Pending(t)' /\ Pending(t) => \A k \in Kinds, m \in Messages :
              (Moves(t, k, m)' <=> Moves(t, k, m)) /\ (Leaves(t, k, m)' <=> Leaves(t, k, m))
    BY DEF Moves, Leaves
  <1>4. (written' = written /\ \A k \in Operations(t) : OperationIsSound(t, k)) =>
              \A k \in Operations(t)' : OperationIsSound(t, k)'
    BY DEF OperationIsSound
  <1>5. SelectionFits(t) => SelectionFits(t)'
    BY <1>2 DEF SelectionFits, Kinds
  <1>6. QED
    BY <1>1, <1>2, <1>3, <1>4, <1>5

\* It keeps the disk in order.
LEMMA PendingEdit ==
  ASSUME FilesTyped, Disk, NEW t \in Transactions, OnlyOne(t), Pending(t),
         OnlyManifest(t), manifest'[t] \in ManifestRecord, SameOperations(t),
         Pending(t)', Restoring(t)' <=> Restoring(t),
         \/ manifest'[t].status = manifest[t].status
         \/ manifest[t].tombstonesComplete /\ ~Restoring(t),
         manifest'[t].restore = manifest[t].restore \/ Restoring(t),
         manifest'[t].tombstonesComplete = manifest[t].tombstonesComplete,
         manifest'[t].previousHead = manifest[t].previousHead
  PROVE  Disk'
  <1> USE DEF OnlyManifest
  <1>1. HasManifest(t) /\ HasManifest(t)' /\ ManifestIsSound(t)
    BY ManifestTyped, ManifestFields DEF Disk, DirectoriesAreSound, HasManifest
  <1>2. ~Held(t) /\ ~Held(t)'
    BY <1>1 DEF Pending, Purging, Restoring, Held
  <1>3. /\ \A k \in Operations(t) : InferredState(t, k)' = InferredState(t, k)
        /\ \A k \in Kinds : SelectedIn(t, k)' = SelectedIn(t, k)
        /\ \A k \in Kinds, m \in Messages :
             (Moves(t, k, m)' <=> Moves(t, k, m)) /\ (Leaves(t, k, m)' <=> Leaves(t, k, m))
        /\ \A k \in Operations(t)' : OperationIsSound(t, k)'
        /\ SelectionFits(t)'
    BY <1>1, SameGenerations DEF ManifestIsSound
  <1>4. ManifestIsSound(t)'
    <2>1. manifest'[t].status \notin {"staging", "prepared"}
      BY <1>1 DEF Pending, Purging, Restoring, ManifestIsSound
    <2>2. QED
      BY <1>1, <1>2, <1>3, <2>1
         DEF ManifestIsSound, Pending, Purging, Restoring, Kinds, Previous
  <1>5. Spares(t)'
    BY <1>1, <1>3, Phases
       DEF Disk, PurgesSpareBodies, Spares, Kinds, jobVars, Restoring, ManifestIsSound
  <1>6. \A k \in Kinds : \A r \in written[k] : Keeps(t, k, r) => Keeps(t, k, r)'
    <2>1. manifest'[t].status \notin {"staging", "prepared", "abandoned"}
      BY <1>1 DEF Pending, Purging, Restoring, ManifestIsSound
    <2>2. QED
      BY <1>1, <2>1 DEF Keeps
  <1>7. BackupsAreChained'
    <2>1. \A u \in Transactions \ {t} : (Held(u)' <=> Held(u)) /\ (Pending(u)' <=> Pending(u))
      BY DEF Held, Pending, Purging, Restoring, HasManifest
    <2>2. Backups' = Backups
      BY <1>2, <2>1, BackupsFrame
    <2>3. QED
      BY <2>1, <2>2 DEF Disk, BackupsAreChained, Previous
  <1>8. \A u \in Transactions \ {t} :
          manifest'[u] = manifest[u] /\ place'[u] = place[u] /\ receipt'[u] = receipt[u]
    OBVIOUS
  <1>9. Pending(t)' /\ t \notin intruded => \A k \in Operations(t)' : InferredState(t, k)' # "lost"
    BY <1>3 DEF Disk, PendingAreIntact, SameOperations
  <1>10. QED
    BY <1>1, <1>3, <1>4, <1>5, <1>6, <1>7, <1>8, <1>9, EditKeepsDisk DEF Kinds

-----------------------------------------------------------------------------
(* Manifest records with a field replaced                                  *)

\* A manifest with another status.
LEMMA WithStatus ==
  ASSUME NEW m \in ManifestRecord, NEW s \in Status
  PROVE  LET n == [m EXCEPT !.status = s] IN
         /\ n \in ManifestRecord /\ n.status = s
         /\ n.restore = m.restore /\ n.tombstonesComplete = m.tombstonesComplete
         /\ n.receipt = m.receipt /\ n.previousHead = m.previousHead /\ n.ops = m.ops
  BY DEF ManifestRecord

\* A manifest that says otherwise of its restore.
LEMMA WithRestore ==
  ASSUME NEW m \in ManifestRecord, NEW s \in RestoreStatus
  PROVE  LET n == [m EXCEPT !.restore = s] IN
         /\ n \in ManifestRecord /\ n.restore = s
         /\ n.status = m.status /\ n.tombstonesComplete = m.tombstonesComplete
         /\ n.receipt = m.receipt /\ n.previousHead = m.previousHead /\ n.ops = m.ops
  BY DEF ManifestRecord

\* A manifest that says its Tombstones are complete.
LEMMA WithTombstones ==
  ASSUME NEW m \in ManifestRecord
  PROVE  LET n == [m EXCEPT !.tombstonesComplete = TRUE] IN
         /\ n \in ManifestRecord /\ n.tombstonesComplete = TRUE
         /\ n.status = m.status /\ n.restore = m.restore
         /\ n.receipt = m.receipt /\ n.previousHead = m.previousHead /\ n.ops = m.ops
  BY DEF ManifestRecord

\* A manifest with other operations.
LEMMA WithOperations ==
  ASSUME NEW m \in ManifestRecord, NEW kinds \in SUBSET Kinds, NEW o \in [kinds -> Operation]
  PROVE  LET n == [m EXCEPT !.ops = o] IN
         /\ n \in ManifestRecord /\ n.ops = o
         /\ n.status = m.status /\ n.restore = m.restore
         /\ n.tombstonesComplete = m.tombstonesComplete
         /\ n.receipt = m.receipt /\ n.previousHead = m.previousHead
  BY DEF ManifestRecord

\* The manifest of a transaction that has no operations.
LEMMA FreshManifest ==
  ASSUME NEW s \in Status, NEW p \in Transactions \cup {NoTransaction}
  PROVE  /\ NewManifest(s, p) \in ManifestRecord
         /\ NewManifest(s, p).status = s /\ NewManifest(s, p).previousHead = p
         /\ NewManifest(s, p).restore = "none"
         /\ NewManifest(s, p).tombstonesComplete = FALSE
         /\ NewManifest(s, p).receipt = 0 /\ DOMAIN NewManifest(s, p).ops = {}
  <1>1. [k \in {} |-> {}] \in [{} -> Operation] /\ {} \in SUBSET Kinds
    OBVIOUS
  <1>2. [k \in {} |-> {}] \in UNION {[kinds -> Operation] : kinds \in SUBSET Kinds}
    BY <1>1
  <1>3. QED
    BY <1>2 DEF NewManifest, ManifestRecord, RestoreStatus

-----------------------------------------------------------------------------
(* Beginnings and ends                                                     *)

\* What is known while a transaction is at work.
LEMMA AtWork ==
  ASSUME IInv, lock = "held", pc \in InTransaction
  PROVE  /\ tx \in Transactions /\ Unsettled(tx) /\ OnlyOne(tx) /\ todo \subseteq {tx}
         /\ pc \in {"manifest", "stage"} => Plan
         /\ StatusFits /\ StatesFit
         /\ HasManifest(tx) => manifest[tx] \in ManifestRecord /\ ManifestIsSound(tx)
         /\ pc # "manifest" => manifest[tx] \in ManifestRecord /\ ManifestIsSound(tx)
  <1>1. InTransactionFits
    BY DEF IInv, Control
  <1>2. tx \in Transactions /\ Unsettled(tx) /\ todo \subseteq {tx} /\ StatusFits /\ StatesFit
        /\ (pc \in {"manifest", "stage"} => Plan)
    BY <1>1 DEF InTransactionFits
  <1>3. OnlyOne(tx)
    BY <1>2 DEF IInv, Disk, OneUnsettled, OnlyOne
  <1>4. HasManifest(tx) => manifest[tx] \in ManifestRecord /\ ManifestIsSound(tx)
    BY <1>2, ManifestTyped DEF IInv, Typed, Disk, DirectoriesAreSound
  <1>5. pc # "manifest" => HasManifest(tx)
    BY <1>2 DEF StatusFits
  <1>6. QED
    BY <1>2, <1>3, <1>4, <1>5

\* The lock is left behind or released at any point.
LEMMA LeaveKeeps ==
  ASSUME IInv, NEW l \in {"free", "dead"}, Leave(l),
         UNCHANGED <<files, written, intruded, jobVars>>
  PROVE  IInv'
  <1>1. Typed'
    BY DEF IInv, Typed, FilesTyped, JobsTyped, Leave, NoPlan, files, jobVars
  <1>2. Disk'
    BY DiskFrame DEF IInv
  <1>3. Control'
    BY DEF Leave, Control
  <1>4. QED
    BY <1>1, <1>2, <1>3 DEF IInv

\* Purge, restore and recovery begin with what they find unsettled.
LEMMA BeginMutationKeeps ==
  ASSUME IInv, BeginMutation, UNCHANGED jobVars
  PROVE  IInv'
  <1> USE DEF BeginMutation, history, files
  <1>1. Typed'
    BY DEF IInv, Typed, FilesTyped, JobsTyped, jobVars
  <1>2. Disk'
    BY DiskFrame DEF IInv
  <1>3. Control'
    BY DEF Control, Unsettled, InTransaction, Purge, Swapping, Unswapping, Ending, EndingBack,
           InArchive, Settled, HasManifest, Pending, Purging, Restoring
  <1>4. QED
    BY <1>1, <1>2, <1>3 DEF IInv

\* Recovery records where it found each store, and goes on from there.
LEMMA ResumeKeeps ==
  ASSUME IInv, NEW t \in Transactions, Resume(t), UNCHANGED jobVars
  PROVE  IInv'
  <1> USE DEF Resume, At, history
  <1>1. /\ Typed /\ FilesTyped /\ Disk /\ Pending(t) /\ HasManifest(t)
        /\ manifest[t] \in ManifestRecord /\ ManifestIsSound(t)
    BY ManifestTyped DEF IInv, Typed, Disk, DirectoriesAreSound
  <1>2. Unsettled(t) /\ OnlyOne(t)
    BY <1>1, Phases DEF Disk, OneUnsettled, OnlyOne
  <1>3. /\ Operations(t) \in SUBSET Kinds /\ \A k \in Operations(t) : manifest[t].ops[k] \in Operation
    BY <1>1, ManifestFields DEF Operations
  <1> DEFINE found == [k \in Operations(t) |->
                        [manifest[t].ops[k] EXCEPT !.state = InferredState(t, k)]]
             new == [manifest[t] EXCEPT !.ops = found]
  <1>4. /\ \A k \in Operations(t) : /\ found[k] \in Operation
                                    /\ found[k].state = InferredState(t, k)
                                    /\ found[k].ids = manifest[t].ops[k].ids
                                    /\ found[k].before = manifest[t].ops[k].before
                                    /\ found[k].after = manifest[t].ops[k].after
        /\ DOMAIN found = Operations(t)
    <2>1. \A k \in Operations(t) : InferredState(t, k) \in {"staged", "backed_up", "installed", "restored"}
      BY DEF InferredState, PurgeState, RestoreState
    <2>2. QED
      BY <1>3, <2>1 DEF Operation
  <1>5. found \in [Operations(t) -> Operation]
    BY <1>4
  <1>6. manifest' = [manifest EXCEPT ![t] = new]
    OBVIOUS
  <1> HIDE DEF found
  <1>7. /\ new \in ManifestRecord /\ new.ops = found
        /\ new.status = manifest[t].status /\ new.restore = manifest[t].restore
        /\ new.tombstonesComplete = manifest[t].tombstonesComplete
        /\ new.previousHead = manifest[t].previousHead
    BY <1>1, <1>3, <1>5, WithOperations
  <1> HIDE DEF new
  <1>8. /\ manifest' \in [Transactions -> {NoDirectory, Bare} \cup ManifestRecord]
        /\ manifest'[t] = new
        /\ \A u \in Transactions \ {t} : manifest'[u] = manifest[u]
    BY <1>1, <1>6, <1>7, ManifestReplaced
  <1>9. HasManifest(t)' /\ Pending(t)' /\ (Restoring(t)' <=> Restoring(t)) /\ SameOperations(t)
    BY <1>1, <1>4, <1>7, <1>8, ManifestFields
       DEF HasManifest, Pending, Purging, Restoring, SameOperations, Operations
  <1>10. OnlyManifest(t)
    BY <1>8 DEF OnlyManifest
  <1>11. Typed'
    BY <1>1, <1>8 DEF Typed, FilesTyped, JobsTyped, jobVars
  <1>12. Disk'
    BY <1>1, <1>2, <1>7, <1>8, <1>9, <1>10, PendingEdit
  <1>13. \A k \in Operations(t)' : InferredState(t, k)' = manifest'[t].ops[k].state
    <2>1. \A k \in Operations(t) : InferredState(t, k)' = InferredState(t, k)
      BY <1>9, SameGenerations DEF OnlyManifest
    <2>2. QED
      BY <2>1, <1>4, <1>7, <1>8, <1>9 DEF SameOperations
  <1>14. Unsettled(t)'
    BY <1>9 DEF Unsettled, Settled, HasManifest
  <1>15. todo \subseteq {t}
    BY <1>2 DEF IInv, Control, OnlyOne
  <1>16. StatusFits'
    BY <1>1, <1>7, <1>8, <1>9
       DEF StatusFits, Swapping, Ending, Purge, Unswapping, EndingBack,
           Pending, Purging, Restoring, ManifestIsSound
  <1>17. StatesFit'
    BY <1>13 DEF StatesFit, Ending, EndingBack, Recorded
  <1>18. Control'
    BY <1>14, <1>15, <1>16, <1>17
       DEF Control, InTransactionFits, InTransaction, Purge, Swapping, Unswapping, Ending,
           EndingBack, InArchive
  <1>19. QED
    BY <1>11, <1>12, <1>18 DEF IInv

-----------------------------------------------------------------------------
(* Plans and stages                                                        *)

\* A step on a transaction that neither is pending nor becomes it, and that
\* nothing is kept in.
LEMMA PlanningEdit ==
  ASSUME FilesTyped, Disk, NEW t \in Transactions, OnlyOne(t),
         \A u \in Transactions \ {t} : manifest'[u] = manifest[u] /\ place'[u] = place[u],
         UNCHANGED <<active, receipt, head, tombstones, written, intruded, jobVars>>,
         HasManifest(t) => manifest[t].status \in {"staging", "prepared"},
         ~Pending(t)', ~Held(t)', Spares(t)',
         IF HasManifest(t)' THEN ManifestIsSound(t)' ELSE \A k \in Kinds : place'[t][k] = NoFiles
  PROVE  Disk'
  <1>1. ~Pending(t) /\ ~Held(t)
    BY ManifestTyped, ManifestFields
       DEF Disk, DirectoriesAreSound, ManifestIsSound, Pending, Purging, Restoring, Held
  <1>2. \A k \in Kinds : \A r \in written[k] : ~Keeps(t, k, r)
    BY DEF Keeps
  <1>3. \A m \in Messages : ~Moves(t, "ledger", m) /\ ~Leaves(t, "bodies", m)
    BY <1>1 DEF Moves, Leaves
  <1>4. BackupsAreChained'
    <2>1. \A u \in Transactions \ {t} :
            (Held(u)' <=> Held(u)) /\ ~Pending(u) /\ ~Pending(u)'
      BY OthersFrame DEF Disk
    <2>2. Backups' = Backups
      BY <1>1, <2>1, BackupsFrame
    <2>3. QED
      BY <1>1, <2>1, <2>2 DEF Disk, BackupsAreChained
  <1>5. QED
    BY <1>2, <1>3, <1>4, EditKeepsDisk

\* Recovery gives up a purge that has not begun to mark its messages.
LEMMA AbandonKeeps ==
  ASSUME IInv, NEW t \in Transactions, Abandon(t), UNCHANGED jobVars
  PROVE  IInv'
  <1> USE DEF Abandon, At, history
  <1>1. Typed /\ FilesTyped /\ Disk /\ Unsettled(t) /\ OnlyOne(t)
    BY Phases DEF IInv, Typed, Disk, OneUnsettled, OnlyOne
  <1> DEFINE new == NewManifest("abandoned", NoTransaction)
             none == [k \in Kinds |-> NoFiles]
  <1>2. /\ new \in ManifestRecord /\ new.status = "abandoned" /\ new.restore = "none"
        /\ new.tombstonesComplete = FALSE /\ DOMAIN new.ops = {}
    BY FreshManifest DEF Status
  <1>3. none \in [Kinds -> PlaceRecord] /\ \A k \in Kinds : none[k] = NoFiles
    BY DEF PlaceRecord, NoFiles, Generations
  <1>4. manifest' = [manifest EXCEPT ![t] = new] /\ place' = [place EXCEPT ![t] = none]
    OBVIOUS
  <1> HIDE DEF new, none
  <1>5. /\ manifest' \in [Transactions -> {NoDirectory, Bare} \cup ManifestRecord]
        /\ manifest'[t] = new
        /\ \A u \in Transactions \ {t} : manifest'[u] = manifest[u]
    BY <1>1, <1>2, <1>4, ManifestReplaced
  <1>6. /\ place' \in [Transactions -> [Kinds -> PlaceRecord]] /\ place'[t] = none
        /\ \A u \in Transactions \ {t} : place'[u] = place[u]
    BY <1>1, <1>3, <1>4 DEF FilesTyped
  <1>7. HasManifest(t)' /\ ~Pending(t)' /\ ~Held(t)' /\ ~Unsettled(t)'
    BY <1>2, <1>5, ManifestFields
       DEF HasManifest, Pending, Purging, Restoring, Held, Unsettled, Settled
  <1>8. ManifestIsSound(t)'
    BY <1>2, <1>3, <1>5, <1>6, <1>7
       DEF ManifestIsSound, Operations, SelectedIn, SelectionFits, NoFiles
  <1>9. Typed'
    BY <1>1, <1>5, <1>6 DEF Typed, FilesTyped, JobsTyped, jobVars
  <1>10. Disk'
    BY <1>1, <1>5, <1>6, <1>7, <1>8, PlanningEdit DEF Spares
  <1>11. Control'
    <2>1. todo = {u \in Transactions : Unsettled(u)}
      BY DEF IInv, Control
    <2>2. \A u \in Transactions \ {t} : Unsettled(u)' <=> Unsettled(u)
      BY <1>5 DEF Unsettled, Settled, HasManifest, Pending, Purging, Restoring
    <2>3. todo' = {u \in Transactions : Unsettled(u)'}
      BY <1>7, <2>1, <2>2
    <2>4. QED
      BY <2>3 DEF Control, InTransaction, Purge, Swapping, Unswapping, Ending, EndingBack, InArchive
  <1>12. QED
    BY <1>9, <1>10, <1>11 DEF IInv

\* The plan of a purge selects what is there, what Tombstones can be made for,
\* and no body of a Job.
LEMMA PlanIsRight ==
  ASSUME FilesTyped, JobsTyped, NEW scope \in Scopes, NEW old \in SUBSET Messages
  PROVE  LET s == Selection(scope, old, Protected) IN
         /\ s \in [Kinds -> SUBSET Messages]
         /\ \A k \in Kinds : \A m \in s[k] : In(k, m)
         /\ \A m \in s["ledger"] :
              \/ Outcome[m] = "denied"
              \/ Finished(m)
              \/ Outcome[m] = "quarantined" /\ m \in s["quarantine"]
         /\ \A j \in Jobs : jobAt[j] # "none" => TaskBody[j] \notin s["bodies"]
  <1> DEFINE s == Selection(scope, old, Protected)
  <1>1. /\ s["ledger"] = LedgerEligible(scope, old, Protected)
        /\ s["bodies"] = BodiesEligible(scope, old, Protected)
        /\ s["quarantine"] = QuarantineEligible(scope, old, Protected)
        /\ s = [k \in Kinds |-> s[k]]
    BY DEF Selection, Kinds
  <1> HIDE DEF s
  <1>2. \A k \in Kinds : s[k] \subseteq Messages
    BY <1>1 DEF Kinds, LedgerEligible, BodiesEligible, QuarantineEligible
  <1>3. s \in [Kinds -> SUBSET Messages]
    BY <1>1, <1>2
  <1>4. \A k \in Kinds : \A m \in s[k] : In(k, m)
    BY <1>1 DEF Kinds, LedgerEligible, BodiesEligible, QuarantineEligible, InLedger, In
  <1>5. \A m \in s["ledger"] :
           Outcome[m] = "denied" \/ Finished(m) \/ (Outcome[m] = "quarantined" /\ m \in s["quarantine"])
    BY <1>1 DEF LedgerEligible, QuarantineEligible
  <1>6. \A j \in Jobs : jobAt[j] # "none" => TaskBody[j] \in Protected
    BY DEF Protected, Archived, JobsTyped
  <1>7. \A j \in Jobs : jobAt[j] # "none" => TaskBody[j] \notin s["bodies"]
    BY <1>1, <1>6 DEF BodiesEligible
  <1>8. QED
    BY <1>3, <1>4, <1>5, <1>7 DEF s

\* A purge makes its directory when it has a plan.
LEMMA OpenPurgeKeeps ==
  ASSUME IInv, NEW t \in Transactions, OpenPurge(t), UNCHANGED jobVars
  PROVE  IInv'
  <1>1. PICK scope \in Scopes, old \in SUBSET Messages :
          OpenTransaction(t, scope, old, Protected)
    BY DEF OpenPurge
  <1> DEFINE s == Selection(scope, old, Protected)
  <1>2. /\ lock = "held" /\ pc = "visit" /\ todo = {} /\ manifest[t] = NoDirectory
        /\ manifest' = [manifest EXCEPT ![t] = Bare]
        /\ selected' = s /\ tx' = t /\ pc' = "manifest"
        /\ UNCHANGED <<lock, todo, active, place, receipt, head, tombstones, history, jobVars>>
    BY <1>1 DEF OpenTransaction, Recovered, At
  <1>3. /\ s \in [Kinds -> SUBSET Messages]
        /\ \A k \in Kinds : \A m \in s[k] : In(k, m)
        /\ \A m \in s["ledger"] :
             Outcome[m] = "denied" \/ Finished(m) \/ (Outcome[m] = "quarantined" /\ m \in s["quarantine"])
        /\ \A j \in Jobs : jobAt[j] # "none" => TaskBody[j] \notin s["bodies"]
    BY PlanIsRight DEF IInv, Typed
  <1> HIDE DEF s
  <1> USE DEF history
  <1>4. Typed /\ FilesTyped /\ Disk
    BY DEF IInv, Typed
  <1>5. OnlyOne(t)
    BY <1>2 DEF IInv, Control, OnlyOne
  <1>6. /\ manifest' \in [Transactions -> {NoDirectory, Bare} \cup ManifestRecord]
        /\ manifest'[t] = Bare
        /\ \A u \in Transactions \ {t} : manifest'[u] = manifest[u]
    BY <1>2, <1>4, ManifestReplaced
  <1>7. ~HasManifest(t) /\ ~HasManifest(t)' /\ ~Pending(t)' /\ ~Held(t)' /\ Unsettled(t)'
    BY <1>2, <1>6, ManifestTyped DEF HasManifest, Pending, Purging, Restoring, Held, Unsettled, Settled, Bare, NoDirectory
  <1>8. \A k \in Kinds : place'[t][k] = NoFiles
    BY <1>2, <1>4, <1>7 DEF Disk, DirectoriesAreSound
  <1>9. Typed'
    BY <1>2, <1>3, <1>4, <1>6 DEF Typed, FilesTyped, JobsTyped, jobVars
  <1>10. Disk'
    BY <1>2, <1>4, <1>5, <1>6, <1>7, <1>8, PlanningEdit DEF Spares
  <1>11. Plan'
    BY <1>2, <1>3 DEF Plan, In, Finished, InLedger, jobVars
  <1>12. StatusFits' /\ StatesFit'
    BY <1>2, <1>6 DEF StatusFits, StatesFit, Swapping, Ending, Purge, Unswapping, EndingBack
  <1>13. Control'
    BY <1>2, <1>7, <1>11, <1>12
       DEF Control, InTransactionFits, InTransaction, Purge, Swapping, Unswapping, Ending,
           EndingBack, InArchive
  <1>14. QED
    BY <1>9, <1>10, <1>13 DEF IInv

\* Its first manifest remembers the head.
LEMMA WriteManifestKeeps ==
  ASSUME IInv, WriteManifest, UNCHANGED jobVars
  PROVE  IInv'
  <1> DEFINE new == NewManifest("staging", head)
  <1>1. /\ new \in ManifestRecord /\ new.status = "staging" /\ new.restore = "none"
        /\ new.tombstonesComplete = FALSE /\ DOMAIN new.ops = {} /\ new.previousHead = head
    <2>1. head \in Transactions \cup {NoTransaction}
      BY DEF IInv, Typed, FilesTyped
    <2>2. new \in ManifestRecord
      BY <2>1, FreshManifest DEF Status
    <2>3. new.status = "staging" /\ new.restore = "none" /\ new.previousHead = head
      BY DEF NewManifest
    <2>4. new.tombstonesComplete = FALSE /\ DOMAIN new.ops = {}
      BY DEF NewManifest
    <2>5. QED
      BY <2>2, <2>3, <2>4
  <1> USE DEF WriteManifest, Write, At, history
  <1>2. pc \in InTransaction
    BY DEF InTransaction, Purge
  <1>3. /\ Typed /\ FilesTyped /\ Disk
        /\ tx \in Transactions /\ OnlyOne(tx) /\ todo \subseteq {tx} /\ Plan /\ manifest[tx] = Bare
    BY <1>2, AtWork DEF IInv, Typed, StatusFits
  <1>4. manifest' = [manifest EXCEPT ![tx] = new]
    OBVIOUS
  <1> HIDE DEF new
  <1>5. /\ manifest' \in [Transactions -> {NoDirectory, Bare} \cup ManifestRecord]
        /\ manifest'[tx] = new
        /\ \A u \in Transactions \ {tx} : manifest'[u] = manifest[u]
    BY <1>3, <1>1, <1>4, ManifestReplaced
  <1>6. /\ ~HasManifest(tx) /\ HasManifest(tx)' /\ ~Pending(tx)' /\ ~Held(tx)' /\ Unsettled(tx)'
    BY <1>3, <1>1, <1>5, ManifestFields
       DEF HasManifest, Pending, Purging, Restoring, Held, Unsettled, Settled
  <1>7. \A k \in Kinds : place[tx][k] = NoFiles
    BY <1>3, <1>6 DEF Disk, DirectoriesAreSound
  <1>8. ManifestIsSound(tx)'
    BY <1>1, <1>5, <1>6, <1>7
       DEF ManifestIsSound, Operations, SelectedIn, SelectionFits, NoFiles, Previous
  <1>9. Typed'
    BY <1>3, <1>5 DEF Typed, FilesTyped, JobsTyped, jobVars
  <1>10. Spares(tx)'
    BY <1>1, <1>5 DEF Spares, SelectedIn, Operations
  <1>11. Disk'
    BY <1>3, <1>5, <1>6, <1>8, <1>10, PlanningEdit
  <1>12. Plan'
    BY <1>3 DEF Plan, In, Finished, InLedger, jobVars
  <1>13. StatusFits' /\ StatesFit'
    BY <1>1, <1>5, <1>6
       DEF StatusFits, StatesFit, Swapping, Ending, Purge, Unswapping, EndingBack, Operations
  <1>14. Control'
    BY <1>3, <1>6, <1>12, <1>13
       DEF Control, InTransactionFits, InTransaction, Purge, Swapping, Unswapping, Ending,
           EndingBack, InArchive
  <1>15. QED
    BY <1>9, <1>11, <1>14 DEF IInv

\* The stages are the stores without what the plan selects, for nobody writes under
\* the lock.
LEMMA StageKeeps ==
  ASSUME IInv, Stage, UNCHANGED jobVars
  PROVE  IInv'
  <1>1. lock = "held" /\ pc = "stage"
    BY DEF Stage, At
  <1>2. /\ Typed /\ FilesTyped /\ Disk
        /\ tx \in Transactions /\ OnlyOne(tx) /\ Unsettled(tx) /\ todo \subseteq {tx} /\ Plan
        /\ manifest[tx] \in ManifestRecord /\ HasManifest(tx) /\ ManifestIsSound(tx)
        /\ manifest[tx].status = "staging" /\ manifest[tx].restore = "none"
        /\ ~manifest[tx].tombstonesComplete
    BY <1>1, AtWork DEF IInv, Typed, StatusFits, InTransaction, Purge
  <1> DEFINE kinds == {k \in Kinds : selected[k] # {}}
             remaining == [k \in kinds |-> active[k] \ Of(selected[k])]
             o == [k \in kinds |-> [state |-> "staged", ids |-> selected[k],
                                    before |-> active[k], after |-> remaining[k]]]
             staged == [k \in Kinds |-> IF k \in kinds THEN [NoFiles EXCEPT !.stage = remaining[k]]
                                                       ELSE NoFiles]
             new == [manifest[tx] EXCEPT !.status = "prepared", !.ops = o]
  <1>3. /\ place' = [place EXCEPT ![tx] = staged]
        /\ manifest' = [manifest EXCEPT ![tx] = new]
        /\ selected' = NoPlan /\ pc' = "prepared"
        /\ UNCHANGED <<lock, tx, todo, active, receipt, head, tombstones, history, jobVars>>
    BY <1>2 DEF Stage, FilesTyped
  <1>4. \A k \in kinds :
          /\ active[k] \in SUBSET Records /\ active[k] # Absent
          /\ \A m \in selected[k] : <<m, "record">> \in active[k]
          /\ remaining[k] = active[k] \ Of(selected[k]) /\ remaining[k] \in SUBSET Records
          /\ selected[k] \in SUBSET Messages /\ selected[k] # {}
          /\ active[k] \subseteq written[k]
    BY <1>2 DEF FilesTyped, Generations, Plan, In, Disk, StoresAreWritten, Contents
  <1>5. /\ DOMAIN o = kinds
        /\ \A k \in kinds : /\ o[k] \in Operation /\ o[k].state = "staged"
                            /\ o[k].ids = selected[k] /\ o[k].before = active[k]
                            /\ o[k].after = remaining[k]
    BY <1>4 DEF Operation
  <1>6. /\ DOMAIN staged = Kinds
        /\ \A k \in Kinds : /\ staged[k] \in PlaceRecord
                            /\ staged[k].backup = Absent /\ staged[k].displaced = Absent
                            /\ k \in kinds => staged[k].stage = remaining[k]
    BY <1>4 DEF PlaceRecord, NoFiles, Generations
  <1>7. o \in [kinds -> Operation] /\ kinds \in SUBSET Kinds /\ staged \in [Kinds -> PlaceRecord]
    BY <1>5, <1>6
  <1>8. \A k \in Kinds : k \notin kinds <=> selected[k] = {}
    OBVIOUS
  <1> HIDE DEF kinds, remaining, o, staged
  <1>9. /\ new \in ManifestRecord /\ new.status = "prepared" /\ new.ops = o
        /\ new.restore = "none" /\ ~new.tombstonesComplete
        /\ new.previousHead = manifest[tx].previousHead
    <2>1. "prepared" \in Status
      BY DEF Status
    <2>2. o \in UNION {[ks -> Operation] : ks \in SUBSET Kinds}
      BY <1>7
    <2>3. QED
      BY <1>2, <2>1, <2>2 DEF ManifestRecord
  <1> HIDE DEF new
  <1> USE DEF history
  <1>10. /\ manifest' \in [Transactions -> {NoDirectory, Bare} \cup ManifestRecord]
         /\ manifest'[tx] = new
         /\ \A u \in Transactions \ {tx} : manifest'[u] = manifest[u]
    BY <1>2, <1>3, <1>9, ManifestReplaced
  <1>11. /\ place' \in [Transactions -> [Kinds -> PlaceRecord]] /\ place'[tx] = staged
         /\ \A u \in Transactions \ {tx} : place'[u] = place[u]
    BY <1>2, <1>3, <1>7 DEF FilesTyped
  <1>12. HasManifest(tx)' /\ ~Pending(tx)' /\ ~Held(tx)' /\ Unsettled(tx)' /\ ~Restoring(tx)'
    BY <1>2, <1>9, <1>10, <1>3, ManifestFields
       DEF HasManifest, Pending, Purging, Restoring, Held, Unsettled, Settled
  <1>13. tx' = tx /\ manifest'[tx].ops = o /\ DOMAIN o = kinds
    BY <1>3, <1>5, <1>9, <1>10
  <1>14. \A k \in Kinds : SelectedIn(tx, k)' = selected[k]
    <2>1. SUFFICES ASSUME NEW k \in Kinds PROVE SelectedIn(tx, k)' = selected[k]
      OBVIOUS
    <2>2. CASE k \in kinds
      BY <1>5, <1>13, <2>2 DEF SelectedIn, Operations
    <2>3. CASE k \notin kinds
      BY <1>8, <1>13, <2>3 DEF SelectedIn, Operations
    <2>4. QED
      BY <2>2, <2>3
  <1>15. \A k \in Operations(tx)' : OperationIsSound(tx, k)'
    BY <1>3, <1>4, <1>5, <1>9, <1>10 DEF Operations, OperationIsSound
  <1>16. SelectionFits(tx)'
    <2>1. /\ Operations(tx)' = kinds
          /\ SelectedIn(tx, "ledger")' = selected["ledger"]
          /\ SelectedIn(tx, "quarantine")' = selected["quarantine"]
          /\ "ledger" \in kinds => manifest'[tx].ops["ledger"].before = active["ledger"]
      BY <1>5, <1>14, <1>13 DEF Operations, Kinds
    <2>2. SUFFICES ASSUME "ledger" \in kinds, NEW m \in selected["ledger"]
                   PROVE  \/ Outcome[m] \in {"denied", "claimed"}
                          \/ Outcome[m] = "settled" /\ <<m, "outcome">> \in active["ledger"]
                          \/ Outcome[m] = "quarantined" /\ m \in selected["quarantine"]
      BY <1>13, <2>1 DEF SelectionFits
    <2>3. m \in Messages
      BY <1>4, <2>2
    <2>4. Finished(m) => <<m, "outcome">> \in written["ledger"]
      BY <1>4, <2>2 DEF Finished
    <2>5. Finished(m) => Outcome[m] \in {"settled", "claimed"}
      BY <1>2, <2>3, <2>4 DEF Disk, StoresAreWritten
    <2>6. QED
      BY <1>2, <2>5 DEF Plan, Finished
  <1>17. ManifestIsSound(tx)'
    <2>1. Previous(tx)' = head'
      BY <1>2, <1>3, <1>9, <1>10 DEF Previous, ManifestIsSound
    <2>2. \A k \in Kinds : place'[tx][k].backup = Absent /\ place'[tx][k].displaced = Absent
      BY <1>6, <1>11
    <2>3. QED
      BY <1>9, <1>10, <1>12, <1>15, <1>16, <1>13, <2>1, <2>2 DEF ManifestIsSound
  <1>18. Spares(tx)'
    <2>1. \A j \in Jobs : jobAt'[j] # "none" => TaskBody[j] \notin selected["bodies"]
      BY <1>2, <1>3 DEF Plan, jobVars
    <2>2. QED
      BY <1>14, <2>1 DEF Spares, Kinds
  <1>19. Typed'
    BY <1>2, <1>3, <1>10, <1>11 DEF Typed, FilesTyped, JobsTyped, jobVars, NoPlan
  <1>20. Disk'
    BY <1>2, <1>3, <1>10, <1>11, <1>12, <1>17, <1>18, PlanningEdit
  <1>21. \A k \in Operations(tx)' : InferredState(tx, k)' = manifest'[tx].ops[k].state
    <2>1. SUFFICES ASSUME NEW k \in kinds
                   PROVE  PurgeState(tx, k)' = "staged"
      BY <1>3, <1>5, <1>9, <1>10, <1>12 DEF Operations, InferredState
    <2>2. /\ active'[k] = manifest'[tx].ops[k].before /\ active'[k] # Absent
          /\ place'[tx][k].stage = manifest'[tx].ops[k].after
          /\ place'[tx][k].backup = Absent
      BY <1>3, <1>4, <1>5, <1>6, <1>7, <1>9, <1>10, <1>11
    <2>3. QED
      BY <1>3, <2>2 DEF PurgeState
  <1>22. StatusFits' /\ StatesFit'
    BY <1>3, <1>9, <1>10, <1>12, <1>21
       DEF StatusFits, StatesFit, Swapping, Ending, Purge, Unswapping, EndingBack, Recorded
  <1>23. Control'
    BY <1>2, <1>3, <1>12, <1>22
       DEF Control, InTransactionFits, InTransaction, Purge, Swapping, Unswapping, Ending,
           EndingBack, InArchive
  <1>24. QED
    BY <1>19, <1>20, <1>23 DEF IInv

-----------------------------------------------------------------------------
(* Writes of one field of a manifest                                       *)

\* What such a write leaves as it was.
SameButStatus(t) ==
  /\ manifest'[t].restore = manifest[t].restore
  /\ manifest'[t].tombstonesComplete = manifest[t].tombstonesComplete
  /\ manifest'[t].receipt = manifest[t].receipt
  /\ manifest'[t].previousHead = manifest[t].previousHead

Written(t) ==
  /\ manifest' \in [Transactions -> {NoDirectory, Bare} \cup ManifestRecord]
  /\ manifest'[t] \in ManifestRecord
  /\ \A u \in Transactions \ {t} : manifest'[u] = manifest[u]
  /\ HasManifest(t)'
  /\ SameOperations(t)

\* What a written manifest is.
LEMMA WrittenIs ==
  ASSUME FilesTyped, NEW t \in Transactions, NEW m \in ManifestRecord,
         m.ops = manifest[t].ops, manifest' = [manifest EXCEPT ![t] = m]
  PROVE  Written(t) /\ manifest'[t] = m
  <1>1. /\ manifest' \in [Transactions -> {NoDirectory, Bare} \cup ManifestRecord]
        /\ manifest'[t] = m
        /\ \A u \in Transactions \ {t} : manifest'[u] = manifest[u]
    BY ManifestReplaced
  <1>2. HasManifest(t)'
    BY <1>1, ManifestFields DEF HasManifest
  <1>3. SameOperations(t)
    BY <1>1 DEF SameOperations, Operations
  <1>4. QED
    BY <1>1, <1>2, <1>3 DEF Written

\* The write of a status.
LEMMA StatusWritten ==
  ASSUME FilesTyped, NEW t \in Transactions, manifest[t] \in ManifestRecord, NEW s \in Status,
         manifest' = [manifest EXCEPT ![t].status = s]
  PROVE  Written(t) /\ manifest'[t].status = s /\ SameButStatus(t)
  <1> DEFINE new == [manifest[t] EXCEPT !.status = s]
  <1>1. manifest' = [manifest EXCEPT ![t] = new]
    BY DEF FilesTyped
  <1>2. /\ new \in ManifestRecord /\ new.status = s
        /\ new.restore = manifest[t].restore
        /\ new.tombstonesComplete = manifest[t].tombstonesComplete
        /\ new.receipt = manifest[t].receipt /\ new.previousHead = manifest[t].previousHead
        /\ new.ops = manifest[t].ops
    BY WithStatus
  <1> HIDE DEF new
  <1>3. QED
    BY <1>1, <1>2, WrittenIs DEF SameButStatus

\* The write of how far a restore is.
LEMMA RestoreWritten ==
  ASSUME FilesTyped, NEW t \in Transactions, manifest[t] \in ManifestRecord,
         NEW s \in RestoreStatus, manifest' = [manifest EXCEPT ![t].restore = s]
  PROVE  /\ Written(t) /\ manifest'[t].restore = s
         /\ manifest'[t].status = manifest[t].status
         /\ manifest'[t].tombstonesComplete = manifest[t].tombstonesComplete
         /\ manifest'[t].receipt = manifest[t].receipt
         /\ manifest'[t].previousHead = manifest[t].previousHead
  <1> DEFINE new == [manifest[t] EXCEPT !.restore = s]
  <1>1. manifest' = [manifest EXCEPT ![t] = new]
    BY DEF FilesTyped
  <1>2. /\ new \in ManifestRecord /\ new.restore = s /\ new.status = manifest[t].status
        /\ new.tombstonesComplete = manifest[t].tombstonesComplete
        /\ new.receipt = manifest[t].receipt /\ new.previousHead = manifest[t].previousHead
        /\ new.ops = manifest[t].ops
    BY WithRestore
  <1> HIDE DEF new
  <1>3. QED
    BY <1>1, <1>2, WrittenIs

\* A step on a pending transaction that writes no manifest and moves no store.
LEMMA NoteEdit ==
  ASSUME FilesTyped, Disk, NEW t \in Transactions, OnlyOne(t), Pending(t),
         UNCHANGED <<active, place, manifest, written, intruded, jobVars>>,
         \A u \in Transactions \ {t} : receipt'[u] = receipt[u],
         tombstones \subseteq tombstones', ManifestIsSound(t)'
  PROVE  Disk'
  <1>1. \A u \in Transactions : /\ Held(u)' <=> Held(u)
                                /\ Pending(u)' <=> Pending(u)
                                /\ HasManifest(u)' <=> HasManifest(u)
                                /\ Unsettled(u)' <=> Unsettled(u)
    BY DEF Held, Pending, Purging, Restoring, HasManifest, Unsettled, Settled
  <1>2. HasManifest(t)'
    BY <1>1, ManifestTyped
  <1>3. Pending(t)' /\ t \notin intruded =>
          \A k \in Operations(t)' : InferredState(t, k)' # "lost"
    BY <1>1 DEF Disk, PendingAreIntact, InferredState, PurgeState, RestoreState, Restoring,
                HasManifest, Operations
  <1>4. \A k \in Kinds : \A r \in written[k] : Keeps(t, k, r) => Keeps(t, k, r)'
    BY <1>1 DEF Keeps
  <1>5. \A k \in Kinds, m \in Messages :
          (Moves(t, k, m) => Moves(t, k, m)') /\ (Leaves(t, k, m) => Leaves(t, k, m)')
    BY <1>1 DEF Moves, Leaves, Operations
  <1>6. Spares(t)'
    BY <1>1 DEF Disk, PurgesSpareBodies, Spares, SelectedIn, Operations, jobVars
  <1>7. BackupsAreChained'
    <2>1. Backups' = Backups
      BY <1>1, BackupsFrame
    <2>2. QED
      BY <1>1, <2>1 DEF Disk, BackupsAreChained, Previous
  <1>8. QED
    BY <1>2, <1>3, <1>4, <1>5, <1>6, <1>7, EditKeepsDisk DEF Kinds

-----------------------------------------------------------------------------
(* Tombstones                                                              *)

\* With the first durable phase a transaction becomes pending.
LEMMA BeginTombstonesKeeps ==
  ASSUME IInv, BeginTombstones, UNCHANGED jobVars
  PROVE  IInv'
  <1>1. lock = "held" /\ pc = "prepared"
    BY DEF BeginTombstones, At
  <1>2. /\ Typed /\ FilesTyped /\ Disk
        /\ tx \in Transactions /\ OnlyOne(tx) /\ Unsettled(tx) /\ todo \subseteq {tx}
        /\ manifest[tx] \in ManifestRecord /\ HasManifest(tx) /\ ManifestIsSound(tx)
        /\ manifest[tx].status = "prepared" /\ manifest[tx].restore = "none"
        /\ ~manifest[tx].tombstonesComplete
        /\ \A k \in Operations(tx) : InferredState(tx, k) = Recorded(k)
    BY <1>1, AtWork DEF IInv, Typed, StatusFits, StatesFit, InTransaction, Purge
  <1>3. /\ manifest' = [manifest EXCEPT ![tx].status = "tombstoning"] /\ pc' = "tombstone"
        /\ UNCHANGED <<lock, tx, todo, selected, active, place, receipt, head, tombstones,
                       written, intruded, jobVars>>
    BY DEF BeginTombstones, Write, history
  <1>4. Written(tx) /\ manifest'[tx].status = "tombstoning" /\ SameButStatus(tx)
    BY <1>2, <1>3, StatusWritten DEF Status
  <1> USE DEF Written, SameButStatus
  <1>5. /\ ~Pending(tx) /\ Pending(tx)' /\ ~Restoring(tx) /\ ~Restoring(tx)'
        /\ ~Held(tx) /\ ~Held(tx)' /\ Unsettled(tx)'
    BY <1>2, <1>3, <1>4, ManifestFields
       DEF HasManifest, Pending, Purging, Restoring, Held, Unsettled, Settled
  <1>6. PICK t \in Transactions : t = tx /\ t = tx'
    BY <1>2, <1>3
  <1>7. /\ \A k \in Operations(t) : InferredState(t, k)' = InferredState(t, k)
        /\ \A k \in Kinds : SelectedIn(t, k)' = SelectedIn(t, k)
        /\ \A k \in Operations(t)' : OperationIsSound(t, k)'
        /\ SelectionFits(t)'
    BY <1>2, <1>3, <1>4, <1>5, <1>6, SameGenerations DEF ManifestIsSound
  <1>8. ManifestIsSound(t)'
    BY <1>2, <1>3, <1>4, <1>5, <1>6, <1>7 DEF ManifestIsSound, Previous, Kinds
  <1>9. \A k \in Operations(t)' : InferredState(t, k)' = manifest'[t].ops[k].state
    BY <1>3, <1>2, <1>4, <1>6, <1>7 DEF SameOperations, Recorded
  <1>10. Disk'
    <2>1. \A k \in Operations(t)' : InferredState(t, k)' # "lost"
      BY <1>4, <1>6, <1>9, ManifestFields DEF Operations, Operation
    <2>2. \A k \in Kinds : \A r \in written[k] : ~Keeps(t, k, r)
      BY <1>2, <1>6 DEF Keeps
    <2>3. \A m \in Messages : ~Moves(t, "ledger", m) /\ ~Leaves(t, "bodies", m)
      BY <1>5, <1>6 DEF Moves, Leaves
    <2>4. Spares(t)'
      BY <1>2, <1>3, <1>4, <1>6, <1>7 DEF Disk, PurgesSpareBodies, Spares, Kinds, jobVars
    <2>5. BackupsAreChained'
      <3>1. \A u \in Transactions \ {t} :
              (Held(u)' <=> Held(u)) /\ ~Pending(u) /\ ~Pending(u)'
        BY <1>2, <1>3, <1>4, <1>6, OthersFrame DEF Disk
      <3>2. Backups' = Backups
        BY <1>4, <1>5, <1>6, <3>1, BackupsFrame
      <3>3. Chained(Backups, head)
        BY <1>5, <1>6, <3>1 DEF Disk, BackupsAreChained, IInv
      <3>4. Previous(t)' = head
        BY <1>2, <1>4, <1>6 DEF ManifestIsSound, Previous
      <3>5. QED
        BY <1>5, <1>6, <3>1, <3>2, <3>3, <3>4 DEF BackupsAreChained
    <2>6. QED
      BY <1>2, <1>3, <1>4, <1>6, <1>8, <2>1, <2>2, <2>3, <2>4, <2>5, EditKeepsDisk
  <1>11. Typed'
    BY <1>2, <1>3, <1>4 DEF Typed, FilesTyped, JobsTyped, jobVars
  <1>12. StatusFits' /\ StatesFit'
    BY <1>2, <1>3, <1>4, <1>6, <1>9
       DEF StatusFits, StatesFit, Swapping, Ending, Purge, Unswapping, EndingBack, Recorded
  <1>13. Control'
    BY <1>2, <1>3, <1>5, <1>12
       DEF Control, InTransactionFits, InTransaction, Purge, Swapping, Unswapping, Ending,
           EndingBack, InArchive
  <1>14. QED
    BY <1>10, <1>11, <1>13 DEF IInv

\* From the Tombstones on the transaction at work is pending.
LEMMA PendingAtWork ==
  ASSUME IInv, lock = "held", pc \in InTransaction \ {"manifest", "stage", "prepared"}
  PROVE  /\ Pending(tx) /\ HasManifest(tx) /\ ~Held(tx)
         /\ Restoring(tx) <=> pc \in Unswapping \cup EndingBack
  <1>1. StatusFits
    BY AtWork
  <1>2. HasManifest(tx)
    BY <1>1 DEF StatusFits
  <1>3. Restoring(tx) <=> pc \in Unswapping \cup EndingBack
    BY <1>1, <1>2
       DEF StatusFits, Restoring, InTransaction, Purge, Swapping, Ending, Unswapping, EndingBack
  <1>4. Pending(tx)
    BY <1>1, <1>2, <1>3
       DEF Pending, Purging, StatusFits, InTransaction, Purge, Swapping, Ending, Unswapping, EndingBack
  <1>5. ~Held(tx)
    BY <1>4 DEF Held, Pending, Purging, Restoring
  <1>6. QED
    BY <1>2, <1>3, <1>4, <1>5

\* Where nothing moved, every store is where it was.
LEMMA Unmoved ==
  ASSUME UNCHANGED <<active, place, manifest, tx>>
  PROVE  /\ Operations(tx)' = Operations(tx)
         /\ \A k \in Operations(tx) : /\ InferredState(tx, k)' = InferredState(tx, k)
                                      /\ Recorded(k)' = Recorded(k)
         /\ HasManifest(tx)' <=> HasManifest(tx)
         /\ Unsettled(tx)' <=> Unsettled(tx)
         /\ Pending(tx)' <=> Pending(tx)
         /\ Held(tx)' <=> Held(tx)
         /\ Previous(tx)' = Previous(tx)
  BY DEF Operations, InferredState, PurgeState, RestoreState, Recorded, HasManifest, Unsettled,
         Settled, Pending, Purging, Restoring, Held, Previous

\* A Tombstone more.
LEMMA WriteTombstoneKeeps ==
  ASSUME IInv, NEW m \in Messages, WriteTombstone(m), UNCHANGED jobVars
  PROVE  IInv'
  <1>1. lock = "held" /\ pc = "tombstone" /\ m \in Messages
    BY DEF WriteTombstone, At
  <1>2. pc \in InTransaction \ {"manifest", "stage", "prepared"}
    BY <1>1 DEF InTransaction, Purge
  <1>3. /\ Typed /\ FilesTyped /\ Disk
        /\ tx \in Transactions /\ OnlyOne(tx) /\ Unsettled(tx) /\ todo \subseteq {tx}
        /\ ManifestIsSound(tx) /\ StatusFits /\ StatesFit
        /\ Pending(tx)
    BY <1>1, <1>2, AtWork, PendingAtWork DEF IInv, Typed
  <1>4. /\ tombstones' = tombstones \cup {m}
        /\ UNCHANGED <<lock, pc, tx, todo, selected, active, place, manifest, receipt, head,
                       written, intruded, jobVars>>
    BY DEF WriteTombstone, history, mutator
  <1>5. PICK t \in Transactions : t = tx /\ t = tx'
    BY <1>3, <1>4
  <1>6. ManifestIsSound(t)'
    <2>1. /\ manifest'[t] = manifest[t] /\ place'[t] = place[t] /\ receipt'[t] = receipt[t]
          /\ tombstones \subseteq tombstones' /\ \A k \in Operations(t) : written[k] \subseteq written'[k]
          /\ head' = head
      BY <1>4
    <2>2. QED
      BY <1>3, <1>5, <2>1, SoundFrame
  <1>7. Disk'
    <2>1. \A u \in Transactions \ {t} : receipt'[u] = receipt[u]
      BY <1>4
    <2>2. QED
      BY <1>3, <1>4, <1>5, <1>6, <2>1, NoteEdit
  <1>8. Typed'
    BY <1>3, <1>4 DEF Typed, FilesTyped, JobsTyped, jobVars
  <1>9. StatusFits' /\ StatesFit'
    BY <1>1, <1>3, <1>4, Unmoved
       DEF StatusFits, StatesFit, Swapping, Ending, Purge, Unswapping, EndingBack
  <1>10. Control'
    BY <1>1, <1>3, <1>4, <1>9, Unmoved
       DEF Control, InTransactionFits, InTransaction, Purge, Swapping, Unswapping, Ending,
           EndingBack, InArchive
  <1>11. QED
    BY <1>7, <1>8, <1>10 DEF IInv

\* The Tombstones of all that the Ledger loses are on disk.
LEMMA TombstonesDoneKeeps ==
  ASSUME IInv, TombstonesDone, UNCHANGED jobVars
  PROVE  IInv'
  <1>1. lock = "held" /\ pc = "tombstone"
    BY DEF TombstonesDone, At
  <1>2. pc \in InTransaction \ {"manifest", "stage", "prepared"}
    BY <1>1 DEF InTransaction, Purge
  <1>3. /\ Typed /\ FilesTyped /\ Disk
        /\ tx \in Transactions /\ OnlyOne(tx) /\ Unsettled(tx) /\ todo \subseteq {tx}
        /\ manifest[tx] \in ManifestRecord /\ HasManifest(tx) /\ ManifestIsSound(tx)
        /\ manifest[tx].status = "tombstoning" /\ manifest[tx].restore = "none"
        /\ \A k \in Operations(tx) : InferredState(tx, k) = Recorded(k)
        /\ Pending(tx) /\ ~Held(tx)
    BY <1>1, <1>2, AtWork, PendingAtWork DEF IInv, Typed, StatusFits, StatesFit, Purge
  <1>4. /\ manifest' = [manifest EXCEPT ![tx].tombstonesComplete = TRUE] /\ pc' = "startSwap"
        /\ SelectedIn(tx, "ledger") \subseteq tombstones
        /\ UNCHANGED <<lock, tx, todo, selected, active, place, receipt, head, tombstones,
                       written, intruded, jobVars>>
    BY DEF TombstonesDone, Write, history
  <1>5. Written(tx) /\ manifest'[tx].tombstonesComplete = TRUE
        /\ manifest'[tx].status = manifest[tx].status /\ manifest'[tx].restore = manifest[tx].restore
        /\ manifest'[tx].previousHead = manifest[tx].previousHead
    <2> DEFINE new == [manifest[tx] EXCEPT !.tombstonesComplete = TRUE]
    <2>1. manifest' = [manifest EXCEPT ![tx] = new]
      BY <1>3, <1>4 DEF FilesTyped
    <2>2. /\ new \in ManifestRecord /\ new.tombstonesComplete = TRUE
          /\ new.status = manifest[tx].status /\ new.restore = manifest[tx].restore
          /\ new.previousHead = manifest[tx].previousHead /\ new.ops = manifest[tx].ops
      BY <1>3, WithTombstones
    <2> HIDE DEF new
    <2>3. QED
      BY <1>3, <2>1, <2>2, WrittenIs
  <1> USE DEF Written
  <1>6. /\ Pending(tx)' /\ ~Restoring(tx) /\ ~Restoring(tx)' /\ ~Held(tx)' /\ Unsettled(tx)'
    BY <1>3, <1>4, <1>5, ManifestFields
       DEF HasManifest, Pending, Purging, Restoring, Held, Unsettled, Settled
  <1>7. PICK t \in Transactions : t = tx /\ t = tx'
    BY <1>3, <1>4
  <1>8. /\ \A k \in Operations(t) : InferredState(t, k)' = InferredState(t, k)
        /\ \A k \in Kinds : SelectedIn(t, k)' = SelectedIn(t, k)
        /\ \A k \in Kinds, m \in Messages :
              (Moves(t, k, m)' <=> Moves(t, k, m)) /\ (Leaves(t, k, m)' <=> Leaves(t, k, m))
        /\ \A k \in Operations(t)' : OperationIsSound(t, k)'
        /\ SelectionFits(t)'
    BY <1>3, <1>4, <1>5, <1>6, <1>7, SameGenerations DEF ManifestIsSound
  <1>9. ManifestIsSound(t)'
    BY <1>3, <1>4, <1>5, <1>6, <1>7, <1>8 DEF ManifestIsSound, Previous, Kinds
  <1>10. \A k \in Operations(t)' : InferredState(t, k)' = manifest'[t].ops[k].state
    BY <1>3, <1>4, <1>5, <1>7, <1>8, Unmoved DEF SameOperations, Recorded
  <1>11. Disk'
    <2>1. Pending(t)' /\ t \notin intruded => \A k \in Operations(t)' : InferredState(t, k)' # "lost"
      BY <1>3, <1>5, <1>7, <1>8 DEF Disk, PendingAreIntact, SameOperations
    <2>2. \A k \in Kinds : \A r \in written[k] : Keeps(t, k, r) => Keeps(t, k, r)'
      BY <1>4, <1>5, <1>7 DEF Keeps
    <2>3. Spares(t)'
      BY <1>3, <1>4, <1>5, <1>7, <1>8 DEF Disk, PurgesSpareBodies, Spares, Kinds, jobVars
    <2>4. BackupsAreChained'
      <3>1. \A u \in Transactions \ {t} : (Held(u)' <=> Held(u)) /\ (Pending(u)' <=> Pending(u))
        BY <1>3, <1>4, <1>5, <1>7, OthersFrame DEF Disk
      <3>2. Backups' = Backups
        BY <1>3, <1>5, <1>6, <1>7, <3>1, BackupsFrame
      <3>3. QED
        BY <1>3, <1>5, <1>6, <1>7, <3>1, <3>2 DEF Disk, BackupsAreChained, Previous
    <2>5. QED
      BY <1>3, <1>4, <1>5, <1>7, <1>8, <1>9, <2>1, <2>2, <2>3, <2>4, EditKeepsDisk DEF Kinds
  <1>12. Typed'
    BY <1>3, <1>4, <1>5 DEF Typed, FilesTyped, JobsTyped, jobVars
  <1>13. StatusFits' /\ StatesFit'
    BY <1>3, <1>4, <1>5, <1>7, <1>10
       DEF StatusFits, StatesFit, Swapping, Ending, Purge, Unswapping, EndingBack, Recorded
  <1>14. Control'
    BY <1>3, <1>4, <1>6, <1>13
       DEF Control, InTransactionFits, InTransaction, Purge, Swapping, Unswapping, Ending,
           EndingBack, InArchive
  <1>15. QED
    BY <1>11, <1>12, <1>14 DEF IInv

-----------------------------------------------------------------------------
(* Writes of the manifest of a pending transaction                         *)

\* A write that neither settles the transaction nor turns it around has only
\* the place of the holder of the lock to account for.
LEMMA WriteKeeps ==
  ASSUME IInv, lock = "held", pc \in InTransaction \ {"manifest", "stage", "prepared"},
         Written(tx), manifest'[tx].tombstonesComplete = manifest[tx].tombstonesComplete,
         manifest'[tx].previousHead = manifest[tx].previousHead,
         \/ manifest'[tx].status = manifest[tx].status
         \/ /\ manifest[tx].tombstonesComplete /\ ~Restoring(tx)
            /\ manifest'[tx].status \in {"swapping", "indexing"},
         \/ manifest'[tx].restore = manifest[tx].restore
         \/ Restoring(tx) /\ manifest'[tx].restore \in {"swapping", "indexing"},
         UNCHANGED <<lock, tx, todo, selected, active, place, receipt, head, tombstones,
                     written, intruded, jobVars>>,
         pc' \in InTransaction \ {"manifest", "stage", "prepared"},
         StatusFits', StatesFit'
  PROVE  IInv'
  <1>1. /\ Typed /\ FilesTyped /\ Disk
        /\ tx \in Transactions /\ OnlyOne(tx) /\ Unsettled(tx) /\ todo \subseteq {tx}
        /\ manifest[tx] \in ManifestRecord /\ HasManifest(tx) /\ ManifestIsSound(tx)
        /\ Pending(tx) /\ StatusFits
    BY AtWork, PendingAtWork DEF IInv, Typed
  <1> USE DEF Written
  <1>2. Pending(tx)' /\ (Restoring(tx)' <=> Restoring(tx)) /\ Unsettled(tx)'
    <2>1. HasManifest(tx)' /\ tx' = tx
      OBVIOUS
    <2>2. Restoring(tx)' <=> Restoring(tx)
      BY <1>1, <2>1 DEF Restoring
    <2>3. Purging(tx) /\ ~Restoring(tx) => Purging(tx)'
      BY <1>1, <2>1 DEF Purging
    <2>4. Pending(tx)'
      BY <1>1, <2>2, <2>3 DEF Pending
    <2>5. QED
      BY <2>1, <2>2, <2>4 DEF Unsettled, Settled, HasManifest
  <1>3. PICK t \in Transactions : t = tx /\ t = tx'
    BY <1>1
  <1>4. Disk'
    BY <1>1, <1>2, <1>3, PendingEdit DEF OnlyManifest
  <1>5. Typed'
    BY <1>1 DEF Typed, FilesTyped, JobsTyped, jobVars
  <1>6. Control'
    BY <1>1, <1>2
       DEF Control, InTransactionFits, InTransaction, Purge, Swapping, Unswapping, Ending,
           EndingBack, InArchive
  <1>7. QED
    BY <1>4, <1>5, <1>6 DEF IInv

\* What the loops rename is what they left, and where every store is does not
\* change with what the manifest says besides.
LEMMA StatesWritten ==
  ASSUME FilesTyped, tx \in Transactions, Written(tx), UNCHANGED <<tx, active, place>>,
         Restoring(tx)' <=> Restoring(tx)
  PROVE  /\ Operations(tx)' = Operations(tx)
         /\ \A k \in Operations(tx) : InferredState(tx, k)' = InferredState(tx, k)
         /\ manifest'[tx].ops = manifest[tx].ops =>
              \A k \in Operations(tx) : Recorded(k)' = Recorded(k)
  <1>1. PICK t \in Transactions : t = tx /\ t = tx'
    OBVIOUS
  <1>2. \A k \in Operations(t) : InferredState(t, k)' = InferredState(t, k)
    BY <1>1, SameGenerations DEF Written
  <1>3. QED
    BY <1>1, <1>2 DEF Written, SameOperations, Recorded

\* After the Tombstones the transaction begins to swap.
LEMMA StartSwapKeeps ==
  ASSUME IInv, StartSwap, UNCHANGED jobVars
  PROVE  IInv'
  <1>1. lock = "held" /\ pc = "startSwap"
    BY DEF StartSwap, At
  <1>2. pc \in InTransaction \ {"manifest", "stage", "prepared"}
    BY <1>1 DEF InTransaction, Purge
  <1>3. /\ FilesTyped /\ tx \in Transactions
        /\ manifest[tx] \in ManifestRecord /\ HasManifest(tx)
        /\ manifest[tx].tombstonesComplete /\ manifest[tx].restore = "none"
        /\ ~Restoring(tx)
        /\ \A k \in Operations(tx) : InferredState(tx, k) = Recorded(k)
    BY <1>1, <1>2, AtWork, PendingAtWork
       DEF IInv, Typed, StatusFits, StatesFit, Purge, Unswapping, EndingBack
  <1>4. /\ manifest' = [manifest EXCEPT ![tx].status = "swapping"] /\ pc' = "swap"
        /\ UNCHANGED <<lock, tx, todo, selected, active, place, receipt, head, tombstones,
                       written, intruded, jobVars>>
    BY DEF StartSwap, Write, history
  <1>5. Written(tx) /\ manifest'[tx].status = "swapping" /\ SameButStatus(tx)
    BY <1>3, <1>4, StatusWritten DEF Status
  <1>6. manifest'[tx].ops = manifest[tx].ops
    BY <1>3, <1>4, <1>5 DEF Written, FilesTyped, ManifestRecord
  <1>7. ~Restoring(tx)' /\ HasManifest(tx)'
    BY <1>3, <1>4, <1>5 DEF Restoring, SameButStatus, Written
  <1>8. StatusFits'
    BY <1>3, <1>4, <1>5, <1>7
       DEF StatusFits, SameButStatus, Swapping, Ending, Purge, Unswapping, EndingBack
  <1>9. StatesFit'
    <2>1. \A k \in Operations(tx)' : InferredState(tx, k)' = Recorded(k)'
      BY <1>3, <1>4, <1>5, <1>6, <1>7, StatesWritten
    <2>2. QED
      BY <1>4, <2>1 DEF StatesFit, Ending, EndingBack
  <1>10. pc' \in InTransaction \ {"manifest", "stage", "prepared"}
    BY <1>4 DEF InTransaction, Purge, Swapping
  <1>11. QED
    BY <1>1, <1>2, <1>3, <1>4, <1>5, <1>8, <1>9, <1>10, WriteKeeps DEF SameButStatus

\* When no store is left, all are where they should be.
LEMMA StartIndexKeeps ==
  ASSUME IInv, StartIndex, UNCHANGED jobVars
  PROVE  IInv'
  <1>1. /\ lock = "held" /\ pc \in {"swap", "unswap"} /\ Left = {}
        /\ \/ /\ pc = "swap" /\ pc' = "receipt"
              /\ manifest' = [manifest EXCEPT ![tx].status = "indexing"]
           \/ /\ pc = "unswap" /\ pc' = "headBack"
              /\ manifest' = [manifest EXCEPT ![tx].restore = "indexing"]
        /\ UNCHANGED <<lock, tx, todo, selected, active, place, receipt, head, tombstones,
                       written, intruded, jobVars>>
    BY DEF StartIndex, At, Write, history
  <1>2. pc \in InTransaction \ {"manifest", "stage", "prepared"}
    BY <1>1 DEF InTransaction, Purge, Swapping, Unswapping
  <1>3. /\ FilesTyped /\ tx \in Transactions
        /\ manifest[tx] \in ManifestRecord /\ HasManifest(tx)
        /\ StatusFits /\ (Restoring(tx) <=> pc = "unswap") /\ ManifestIsSound(tx)
        /\ \A k \in Operations(tx) : InferredState(tx, k) = Recorded(k)
    BY <1>1, <1>2, AtWork, PendingAtWork
       DEF IInv, Typed, StatesFit, Purge, Unswapping, EndingBack
  <1>4. pc = "swap" => \A k \in Operations(tx) : Recorded(k) = "installed"
    BY <1>1 DEF Left, Recorded
  <1>5. pc = "unswap" => \A k \in Operations(tx) : Recorded(k) = "restored"
    BY <1>1 DEF Left, Recorded
  <1>6. CASE pc = "swap"
    <2>1. Written(tx) /\ manifest'[tx].status = "indexing" /\ SameButStatus(tx)
      BY <1>1, <1>3, <1>6, StatusWritten DEF Status
    <2>2. manifest'[tx].ops = manifest[tx].ops
      BY <1>1, <1>3, <1>6, <2>1 DEF Written, FilesTyped, ManifestRecord
    <2>3. manifest[tx].tombstonesComplete /\ manifest[tx].restore = "none"
      BY <1>3, <1>6 DEF StatusFits, Swapping, Purge, ManifestIsSound
    <2>4. ~Restoring(tx)' /\ ~Restoring(tx) /\ HasManifest(tx)'
      BY <1>1, <1>3, <1>6, <2>1, <2>3 DEF Restoring, SameButStatus, Written
    <2>5. StatusFits'
      BY <1>1, <1>6, <2>1, <2>3, <2>4
         DEF StatusFits, SameButStatus, Swapping, Ending, Purge, Unswapping, EndingBack
    <2>6. StatesFit'
      <3>1. \A k \in Operations(tx)' :
              InferredState(tx, k)' = Recorded(k)' /\ Recorded(k)' = "installed"
        BY <1>1, <1>3, <1>4, <1>6, <2>1, <2>2, <2>4, StatesWritten
      <3>2. QED
        BY <1>1, <1>6, <3>1 DEF StatesFit, Ending, EndingBack
    <2>7. pc' \in InTransaction \ {"manifest", "stage", "prepared"}
      BY <1>1, <1>6 DEF InTransaction, Purge, Ending
    <2>8. QED
      BY <1>1, <1>2, <1>3, <2>1, <2>3, <2>4, <2>5, <2>6, <2>7, WriteKeeps DEF SameButStatus
  <1>7. CASE pc = "unswap"
    <2>1. /\ Written(tx) /\ manifest'[tx].restore = "indexing"
          /\ manifest'[tx].status = manifest[tx].status
          /\ manifest'[tx].tombstonesComplete = manifest[tx].tombstonesComplete
          /\ manifest'[tx].previousHead = manifest[tx].previousHead
      BY <1>1, <1>3, <1>7, RestoreWritten DEF RestoreStatus
    <2>2. manifest'[tx].ops = manifest[tx].ops
      BY <1>1, <1>3, <1>7, <2>1 DEF Written, FilesTyped, ManifestRecord
    <2>3. Restoring(tx)' /\ Restoring(tx) /\ HasManifest(tx)'
      BY <1>1, <1>3, <1>7, <2>1 DEF Restoring, Written
    <2>4. StatusFits'
      BY <1>1, <1>7, <2>1, <2>3
         DEF StatusFits, Swapping, Ending, Purge, Unswapping, EndingBack
    <2>5. StatesFit'
      <3>1. \A k \in Operations(tx)' :
              InferredState(tx, k)' = Recorded(k)' /\ Recorded(k)' = "restored"
        BY <1>1, <1>3, <1>5, <1>7, <2>1, <2>2, <2>3, StatesWritten
      <3>2. QED
        BY <1>1, <1>7, <3>1 DEF StatesFit, Ending, EndingBack
    <2>6. pc' \in InTransaction \ {"manifest", "stage", "prepared"}
      BY <1>1, <1>7 DEF InTransaction, EndingBack
    <2>7. QED
      BY <1>1, <1>2, <1>3, <2>1, <2>3, <2>4, <2>5, <2>6, WriteKeeps
  <1>8. QED
    BY <1>1, <1>6, <1>7

\* The loops go through the operations of the transaction.
LEMMA CursorIsOneOf ==
  ASSUME FilesTyped, tx \in Transactions, manifest[tx] \in ManifestRecord, Left # {}
  PROVE  Cursor \in Left /\ Cursor \in Operations(tx) /\ Cursor \in Kinds
  <1>1. Left \in SUBSET Kinds
    BY ManifestFields DEF Left, Operations
  <1>2. Cursor \in Left
    BY <1>1, FirstIsOneOf DEF Cursor
  <1>3. QED
    BY <1>1, <1>2 DEF Left

\* After a rename the manifest catches up.
LEMMA NoteRenameKeeps ==
  ASSUME IInv, NEW p \in {"swappedOut", "swappedIn", "unswappedOut", "unswappedIn"},
         NEW s \in {"backed_up", "installed", "restored"}, NEW next \in {"swap", "unswap"},
         p \in Swapping <=> next = "swap",
         pc = p => (\E from \in {"staged", "backed_up", "installed"} : Ahead(from, s)),
         NoteRename(p, s, next), UNCHANGED jobVars
  PROVE  IInv'
  <1>1. lock = "held" /\ pc = p
    BY DEF NoteRename, At
  <1>2. pc \in InTransaction \ {"manifest", "stage", "prepared"}
    BY <1>1 DEF InTransaction, Purge, Swapping, Unswapping
  <1>3. /\ FilesTyped /\ tx \in Transactions
        /\ manifest[tx] \in ManifestRecord /\ HasManifest(tx)
        /\ StatusFits /\ (Restoring(tx) <=> pc \in Unswapping \cup EndingBack)
    BY <1>1, <1>2, AtWork, PendingAtWork
       DEF IInv, Typed, StatusFits, StatesFit, Purge, Swapping, Unswapping, EndingBack
  <1>4. /\ Left # {} /\ InferredState(tx, Cursor) = s
        /\ \A k \in Operations(tx) \ {Cursor} : InferredState(tx, k) = Recorded(k)
    BY <1>1 DEF Ahead
  <1>5. PICK c \in Operations(tx) : c = Cursor
    BY <1>3, <1>4, CursorIsOneOf
  <1>6. /\ manifest' = [manifest EXCEPT ![tx].ops[c].state = s] /\ pc' = next
        /\ UNCHANGED <<lock, tx, todo, selected, active, place, receipt, head, tombstones,
                       written, intruded, jobVars>>
    BY <1>5 DEF NoteRename, Write, history
  <1> DEFINE noted == [manifest[tx].ops EXCEPT ![c].state = s]
             new == [manifest[tx] EXCEPT !.ops = noted]
  <1>7. manifest' = [manifest EXCEPT ![tx] = new]
    BY <1>3, <1>6 DEF FilesTyped
  <1>8. PICK kinds \in SUBSET Kinds : manifest[tx].ops \in [kinds -> Operation]
    BY <1>3 DEF ManifestRecord
  <1>9. /\ noted \in [kinds -> Operation] /\ kinds = Operations(tx)
        /\ \A k \in kinds : /\ noted[k].ids = manifest[tx].ops[k].ids
                            /\ noted[k].before = manifest[tx].ops[k].before
                            /\ noted[k].after = manifest[tx].ops[k].after
                            /\ noted[k].state = IF k = c THEN s ELSE manifest[tx].ops[k].state
    BY <1>8, <1>5 DEF Operations, Operation
  <1> HIDE DEF noted
  <1>10. /\ new \in ManifestRecord /\ new.ops = noted
         /\ new.status = manifest[tx].status /\ new.restore = manifest[tx].restore
         /\ new.tombstonesComplete = manifest[tx].tombstonesComplete
         /\ new.previousHead = manifest[tx].previousHead
    <2>1. noted \in [kinds -> Operation] /\ kinds \in SUBSET Kinds
      BY <1>8, <1>9
    <2>2. QED
      BY <1>3, <2>1, WithOperations
  <1> HIDE DEF new
  <1>11. /\ manifest' \in [Transactions -> {NoDirectory, Bare} \cup ManifestRecord]
         /\ manifest'[tx] = new
         /\ \A u \in Transactions \ {tx} : manifest'[u] = manifest[u]
    BY <1>3, <1>7, <1>10, ManifestReplaced
  <1>12. Written(tx)
    BY <1>6, <1>9, <1>10, <1>11, ManifestFields DEF Written, HasManifest, SameOperations, Operations
  <1>13. HasManifest(tx)' /\ (Restoring(tx)' <=> Restoring(tx))
    BY <1>3, <1>6, <1>10, <1>11, <1>12 DEF Written, Restoring
  <1>14. \A k \in Operations(tx)' : InferredState(tx, k)' = Recorded(k)'
    <2>1. /\ Operations(tx)' = Operations(tx)
          /\ \A k \in Operations(tx) : InferredState(tx, k)' = InferredState(tx, k)
      BY <1>3, <1>6, <1>12, <1>13, StatesWritten
    <2>2. SUFFICES ASSUME NEW k \in Operations(tx)
                   PROVE  InferredState(tx, k) = noted[k].state
      BY <1>6, <1>10, <1>11, <2>1 DEF Recorded
    <2>3. CASE k = c
      BY <1>4, <1>5, <1>9, <2>3
    <2>4. CASE k # c
      BY <1>4, <1>5, <1>9, <2>4 DEF Recorded
    <2>5. QED
      BY <2>3, <2>4
  <1>15. StatusFits'
    BY <1>1, <1>3, <1>6, <1>10, <1>11, <1>13
       DEF StatusFits, Swapping, Ending, Purge, Unswapping, EndingBack
  <1>16. StatesFit'
    BY <1>6, <1>14 DEF StatesFit, Ending, EndingBack
  <1>17. pc' \in InTransaction \ {"manifest", "stage", "prepared"}
    BY <1>6 DEF InTransaction, Purge, Swapping, Unswapping
  <1>18. QED
    BY <1>1, <1>2, <1>6, <1>10, <1>11, <1>12, <1>15, <1>16, <1>17, WriteKeeps

\* It does so in four places.
LEMMA NoteSwapKeeps ==
  ASSUME IInv, NoteSwap, UNCHANGED jobVars
  PROVE  IInv'
  <1>1. ASSUME NEW p \in {"swappedOut", "swappedIn", "unswappedOut", "unswappedIn"},
               lock = "held", pc = p
        PROVE  StatesFit
    BY <1>1, AtWork DEF InTransaction, Purge, Swapping, Unswapping
  <1>2. CASE NoteRename("swappedOut", "backed_up", "swap")
    BY <1>1, <1>2, NoteRenameKeeps DEF NoteRename, At, StatesFit, Swapping
  <1>3. CASE NoteRename("swappedIn", "installed", "swap")
    BY <1>1, <1>3, NoteRenameKeeps DEF NoteRename, At, StatesFit, Swapping
  <1>4. CASE NoteRename("unswappedOut", "backed_up", "unswap")
    BY <1>1, <1>4, NoteRenameKeeps DEF NoteRename, At, StatesFit, Swapping
  <1>5. CASE NoteRename("unswappedIn", "restored", "unswap")
    BY <1>1, <1>5, NoteRenameKeeps DEF NoteRename, At, StatesFit, Swapping
  <1>6. QED
    BY <1>2, <1>3, <1>4, <1>5 DEF NoteSwap

-----------------------------------------------------------------------------
(* Receipt and head                                                        *)

\* A write of them leaves every directory where it was.
LEMMA EndKeeps ==
  ASSUME IInv, lock = "held", pc \in InTransaction \ {"manifest", "stage", "prepared"},
         receipt' \in [Transactions -> Nat], head' \in Transactions \cup {NoTransaction},
         \A u \in Transactions \ {tx} : receipt'[u] = receipt[u],
         head' \in {head, tx, Previous(tx)},
         UNCHANGED <<lock, tx, todo, selected, active, place, manifest, tombstones,
                     written, intruded, jobVars>>,
         pc' \in InTransaction \ {"manifest", "stage", "prepared"},
         StatusFits', StatesFit'
  PROVE  IInv'
  <1>1. /\ Typed /\ FilesTyped /\ Disk
        /\ tx \in Transactions /\ OnlyOne(tx) /\ Unsettled(tx) /\ todo \subseteq {tx}
        /\ HasManifest(tx) /\ ManifestIsSound(tx) /\ Pending(tx) /\ ~Held(tx)
    BY AtWork, PendingAtWork DEF IInv, Typed
  <1>2. PICK t \in Transactions : t = tx /\ t = tx'
    BY <1>1
  <1>3. ManifestIsSound(t)'
    <2>1. manifest[t].status \notin {"staging", "prepared"}
      BY <1>1, <1>2 DEF Pending, Purging, Restoring, ManifestIsSound
    <2>2. /\ ~Held(t) /\ ~Held(t)' /\ Pending(t)' /\ Pending(t)
      BY <1>1, <1>2 DEF Held, Pending, Purging, Restoring, HasManifest
    <2>3. /\ \A k \in Operations(t) : OperationIsSound(t, k)'
          /\ SelectionFits(t)'
      BY <1>1, <1>2 DEF ManifestIsSound, OperationIsSound, SelectionFits, SelectedIn, Operations
    <2>4. SelectedIn(t, "ledger")' = SelectedIn(t, "ledger") /\ Operations(t)' = Operations(t)
          /\ Previous(t)' = Previous(t)
      BY DEF SelectedIn, Operations, Previous
    <2>5. QED
      BY <1>1, <1>2, <2>1, <2>2, <2>3, <2>4 DEF ManifestIsSound, Previous
  <1>4. Disk'
    BY <1>1, <1>2, <1>3, NoteEdit
  <1>5. Typed'
    BY <1>1 DEF Typed, FilesTyped, JobsTyped, jobVars
  <1>6. Control'
    BY <1>1, Unmoved
       DEF Control, InTransactionFits, InTransaction, Purge, Swapping, Unswapping, Ending,
           EndingBack, InArchive
  <1>7. QED
    BY <1>4, <1>5, <1>6 DEF IInv

\* The receipt of a purge.
LEMMA WriteReceiptKeeps ==
  ASSUME IInv, WriteReceipt, UNCHANGED jobVars
  PROVE  IInv'
  <1>1. /\ lock = "held" /\ pc = "receipt" /\ pc' = "head"
        /\ receipt' = [receipt EXCEPT ![tx] = receipt[tx] + 1]
        /\ UNCHANGED <<lock, tx, todo, selected, active, place, manifest, head, tombstones,
                       written, intruded, jobVars>>
    BY DEF WriteReceipt, At, history
  <1>2. pc \in InTransaction \ {"manifest", "stage", "prepared"}
        /\ pc' \in InTransaction \ {"manifest", "stage", "prepared"}
    BY <1>1 DEF InTransaction, Purge, Ending
  <1>3. FilesTyped /\ tx \in Transactions /\ StatusFits /\ StatesFit /\ HasManifest(tx)
    BY <1>1, <1>2, AtWork, PendingAtWork DEF IInv, Typed
  <1>4. /\ receipt' \in [Transactions -> Nat] /\ receipt'[tx] > 0
        /\ \A u \in Transactions \ {tx} : receipt'[u] = receipt[u]
        /\ head' \in Transactions \cup {NoTransaction}
    BY <1>1, <1>3 DEF FilesTyped
  <1>5. StatusFits'
    BY <1>1, <1>3, <1>4, Unmoved
       DEF StatusFits, Swapping, Ending, Purge, Unswapping, EndingBack
  <1>6. StatesFit'
    BY <1>1, <1>3, Unmoved DEF StatesFit, Ending, EndingBack
  <1>7. QED
    BY <1>1, <1>2, <1>4, <1>5, <1>6, EndKeeps

\* The head names the purge that is done, or the one before the purge that is
\* taken back.
LEMMA WriteHeadKeeps ==
  ASSUME IInv, WriteHead, UNCHANGED jobVars
  PROVE  IInv'
  <1>1. /\ lock = "held"
        /\ \/ pc = "head" /\ head' = tx /\ pc' = "commit"
           \/ pc = "headBack" /\ head' = Previous(tx) /\ pc' = "commitBack"
        /\ UNCHANGED <<lock, tx, todo, selected, active, place, manifest, receipt, tombstones,
                       written, intruded, jobVars>>
    BY DEF WriteHead, At, history, Previous
  <1>2. pc \in InTransaction \ {"manifest", "stage", "prepared"}
        /\ pc' \in InTransaction \ {"manifest", "stage", "prepared"}
    BY <1>1 DEF InTransaction, Purge, Ending, EndingBack
  <1>3. FilesTyped /\ tx \in Transactions /\ StatusFits /\ StatesFit /\ HasManifest(tx)
        /\ manifest[tx] \in ManifestRecord
    BY <1>1, <1>2, AtWork, PendingAtWork DEF IInv, Typed
  <1>4. /\ receipt' \in [Transactions -> Nat]
        /\ \A u \in Transactions \ {tx} : receipt'[u] = receipt[u]
        /\ head' \in Transactions \cup {NoTransaction}
        /\ head' \in {head, tx, Previous(tx)}
    BY <1>1, <1>3, ManifestFields DEF FilesTyped, Previous
  <1>5. StatusFits'
    BY <1>1, <1>3, <1>4, Unmoved
       DEF StatusFits, Swapping, Ending, Purge, Unswapping, EndingBack
  <1>6. StatesFit'
    BY <1>1, <1>3, Unmoved DEF StatesFit, Ending, EndingBack
  <1>7. QED
    BY <1>1, <1>2, <1>4, <1>5, <1>6, EndKeeps

-----------------------------------------------------------------------------
(* Renames                                                                 *)

\* The two generations of an operation are two, and are there.
LEMMA GenerationsDiffer ==
  ASSUME NEW t \in Transactions, NEW k \in Kinds, manifest[t].ops[k] \in Operation,
         OperationIsSound(t, k)
  PROVE  LET o == manifest[t].ops[k] IN
         /\ o.before \in SUBSET Records /\ o.after \in SUBSET Records
         /\ o.before # Absent /\ o.after # Absent /\ o.before # o.after
  <1> DEFINE o == manifest[t].ops[k]
  <1>1. /\ o.before \in SUBSET Records /\ o.after \in SUBSET Records
        /\ o.before # Absent /\ o.after # Absent
    BY AbsentIsNone DEF Operation
  <1>2. PICK m \in o.ids : <<m, "record">> \in o.before
    BY DEF OperationIsSound
  <1>3. <<m, "record">> \notin o.after
    BY <1>2 DEF OperationIsSound, Of
  <1>4. QED
    BY <1>1, <1>2, <1>3

\* What is known in the loops before a rename.
LEMMA AtRename ==
  ASSUME IInv, lock = "held", pc \in {"swap", "unswap"}, Left # {}
  PROVE  /\ FilesTyped /\ tx \in Transactions /\ OnlyOne(tx)
         /\ manifest[tx] \in ManifestRecord /\ HasManifest(tx) /\ ManifestIsSound(tx)
         /\ Pending(tx) /\ ~Held(tx) /\ (Restoring(tx) <=> pc = "unswap")
         /\ manifest[tx].status \in {"swapping", "committed"} /\ manifest[tx].tombstonesComplete
         /\ \A k \in Operations(tx) : InferredState(tx, k) = Recorded(k)
         /\ Cursor \in Operations(tx) /\ Cursor \in Kinds
         /\ active[Cursor] \in Generations /\ place[tx][Cursor] \in PlaceRecord
         /\ Before \in SUBSET Records /\ After \in SUBSET Records
         /\ Before # Absent /\ After # Absent /\ Before # After
  <1>1. pc \in InTransaction \ {"manifest", "stage", "prepared"}
    BY DEF InTransaction, Purge, Swapping, Unswapping
  <1>2. /\ FilesTyped /\ tx \in Transactions /\ OnlyOne(tx) /\ StatusFits /\ StatesFit
        /\ manifest[tx] \in ManifestRecord /\ HasManifest(tx) /\ ManifestIsSound(tx)
        /\ Pending(tx) /\ ~Held(tx) /\ (Restoring(tx) <=> pc = "unswap")
    BY <1>1, AtWork, PendingAtWork DEF IInv, Typed, Unswapping, EndingBack
  <1>3. manifest[tx].status \in {"swapping", "committed"} /\ manifest[tx].tombstonesComplete
    BY <1>2 DEF StatusFits, ManifestIsSound, Swapping, Unswapping
  <1>4. \A k \in Operations(tx) : InferredState(tx, k) = Recorded(k)
    BY <1>2 DEF StatesFit
  <1>5. Cursor \in Operations(tx) /\ Cursor \in Kinds
    BY <1>2, CursorIsOneOf
  <1>6. active[Cursor] \in Generations /\ place[tx][Cursor] \in PlaceRecord
    BY <1>2, <1>5 DEF FilesTyped
  <1>7. manifest[tx].ops[Cursor] \in Operation
    BY <1>2, <1>5, ManifestFields DEF Operations
  <1>8. /\ Before \in SUBSET Records /\ After \in SUBSET Records
        /\ Before # Absent /\ After # Absent /\ Before # After
    BY <1>2, <1>5, <1>7, GenerationsDiffer DEF ManifestIsSound, Before, After
  <1>9. QED
    BY <1>2, <1>3, <1>4, <1>5, <1>6, <1>8

\* A rename that loses no generation, and leaves the store in a state of the
\* loop, keeps the invariant.
LEMMA RenameKeeps ==
  ASSUME IInv, lock = "held", pc \in {"swap", "unswap"}, Left # {},
         NEW g \in {Absent, Before, After}, NEW f \in PlaceRecord,
         Rename(g, f), UNCHANGED jobVars,
         active[Cursor] \in {Absent, After} \/ (active[Cursor] = Before /\ pc = "swap"),
         pc = "swap" => f.displaced = Files.displaced,
         \A s \in {active[Cursor], Files.stage, Files.backup, Files.displaced} :
           s = Absent \/ s \in {g, f.stage, f.backup, f.displaced},
         NEW from \in {"staged", "backed_up", "installed"},
         NEW to \in {"backed_up", "installed", "restored"},
         CursorState = from, InferredState(tx, Cursor)' = to,
         \/ pc = "swap" /\ pc' = "swappedOut" /\ from = "staged" /\ to = "backed_up"
         \/ pc = "swap" /\ pc' = "swappedIn" /\ from = "backed_up" /\ to = "installed"
         \/ pc = "unswap" /\ pc' = "unswappedOut" /\ from = "installed" /\ to = "backed_up"
         \/ pc = "unswap" /\ pc' = "unswappedIn" /\ from = "backed_up" /\ to = "restored"
  PROVE  IInv'
  <1>1. /\ Typed /\ FilesTyped /\ Disk /\ tx \in Transactions /\ OnlyOne(tx) /\ StatusFits
        /\ Unsettled(tx) /\ todo \subseteq {tx}
        /\ manifest[tx] \in ManifestRecord /\ HasManifest(tx) /\ ManifestIsSound(tx)
        /\ Pending(tx) /\ ~Held(tx) /\ (Restoring(tx) <=> pc = "unswap")
        /\ manifest[tx].status \in {"swapping", "committed"} /\ manifest[tx].tombstonesComplete
        /\ \A k \in Operations(tx) : InferredState(tx, k) = Recorded(k)
        /\ Cursor \in Operations(tx) /\ Cursor \in Kinds
        /\ Before \in SUBSET Records /\ After \in SUBSET Records
        /\ Before # Absent /\ After # Absent
    <2>1. pc \in InTransaction
      BY DEF InTransaction, Purge, Swapping, Unswapping
    <2>2. QED
      BY <2>1, AtWork, AtRename DEF IInv, Typed
  <1>2. PICK t \in Transactions : t = tx /\ t = tx'
    BY <1>1 DEF Rename
  <1>3. PICK c \in Kinds : c = Cursor /\ c \in Operations(t)
    BY <1>1, <1>2
  <1>4. /\ active' = [active EXCEPT ![c] = g]
        /\ place' = [place EXCEPT ![t][c] = f]
        /\ UNCHANGED <<lock, tx, todo, selected, manifest, receipt, head, tombstones,
                       written, intruded, jobVars>>
    BY <1>2, <1>3 DEF Rename, history
  <1>5. /\ active' \in [Kinds -> Generations] /\ active'[c] = g
        /\ \A k \in Kinds \ {c} : active'[k] = active[k]
    BY <1>1, <1>4 DEF FilesTyped, Generations
  <1>6. /\ place' \in [Transactions -> [Kinds -> PlaceRecord]] /\ place'[t][c] = f
        /\ \A k \in Kinds \ {c} : place'[t][k] = place[t][k]
        /\ \A u \in Transactions \ {t} : place'[u] = place[u]
    BY <1>1, <1>4 DEF FilesTyped
  <1>7. \A u \in Transactions : /\ Held(u)' <=> Held(u)
                                /\ Pending(u)' <=> Pending(u)
                                /\ Restoring(u)' <=> Restoring(u)
                                /\ HasManifest(u)' <=> HasManifest(u)
                                /\ Unsettled(u)' <=> Unsettled(u)
                                /\ Operations(u)' = Operations(u)
                                /\ Previous(u)' = Previous(u)
                                /\ \A k \in Kinds : SelectedIn(u, k)' = SelectedIn(u, k)
    BY <1>4 DEF Held, Pending, Purging, Restoring, HasManifest, Unsettled, Settled, Operations,
                Previous, SelectedIn
  <1>8. Typed'
    BY <1>1, <1>4, <1>5, <1>6 DEF Typed, FilesTyped, JobsTyped, jobVars
  <1>9. \A k \in Operations(t) \ {c} : InferredState(t, k)' = Recorded(k)
    <2>1. \A k \in Operations(t) : k \in Kinds
      BY <1>1, <1>2, ManifestFields DEF Operations
    <2>2. SUFFICES ASSUME NEW k \in Operations(t) \ {c}
                   PROVE  InferredState(t, k)' = InferredState(t, k)
      BY <1>1, <1>2
    <2>3. active'[k] = active[k] /\ place'[t][k] = place[t][k] /\ manifest' = manifest
      BY <1>4, <1>5, <1>6, <2>1
    <2>4. QED
      BY <1>7, <2>3 DEF InferredState, PurgeState, RestoreState
  <1>10. \A k \in Operations(t) : InferredState(t, k)' # "lost"
    <2>1. \A k \in Operations(t) : Recorded(k) # "lost"
      BY <1>1, <1>2, ManifestFields DEF Operations, Recorded, Operation
    <2>2. InferredState(t, c)' = to
      <3>1. Left' = Left
        BY <1>4 DEF Left, Operations
      <3>2. Cursor' = c
        BY <1>3, <1>4, <3>1 DEF Cursor
      <3>3. QED
        BY <1>2, <3>2
    <2>3. QED
      BY <1>9, <2>1, <2>2
  <1>11. Before \subseteq written[c] /\ After \subseteq written[c]
    BY <1>1, <1>2, <1>3 DEF ManifestIsSound, OperationIsSound, Before, After
  <1>12. OneUnsettled' /\ PurgesSpareBodies' /\ ArchivesAreWhole'
    BY <1>1, <1>4, <1>7
       DEF Disk, OneUnsettled, PurgesSpareBodies, Spares, Kinds, ArchivesAreWhole, Archived,
           HasAlbum, jobVars
  <1>13. DirectoriesAreSound'
    <2>1. \A u \in Transactions \ {t} :
            IF HasManifest(u)' THEN ManifestIsSound(u)' ELSE \A k \in Kinds : place'[u][k] = NoFiles
      BY <1>1, <1>2, <1>4, <1>6, OthersFrame DEF Disk
    <2>2. ManifestIsSound(t)'
      <3>1. manifest'[t].restore = "none" => \A k \in Kinds : place'[t][k].displaced = Absent
        BY <1>1, <1>2, <1>3, <1>4, <1>6 DEF ManifestIsSound, Restoring, StatusFits, Unswapping, Files
      <3>2. /\ \A k \in Operations(t) : OperationIsSound(t, k)'
            /\ SelectionFits(t)'
        BY <1>1, <1>2, <1>4, <1>7
           DEF ManifestIsSound, OperationIsSound, SelectionFits, Kinds
      <3>3. QED
        BY <1>1, <1>2, <1>4, <1>7, <3>1, <3>2 DEF ManifestIsSound, Kinds
    <2>3. QED
      BY <1>1, <1>2, <1>7, <2>1, <2>2 DEF DirectoriesAreSound
  <1>14. PendingAreIntact'
    <2>1. \A u \in Transactions \ {t} : ~Pending(u)
      BY <1>1, <1>2, ManifestTyped, Phases DEF OnlyOne
    <2>2. QED
      BY <1>7, <1>10, <2>1 DEF PendingAreIntact
  <1>15. StoresAreWritten'
    <2>1. \A k \in Kinds : Contents(k)' \subseteq written[k]
      BY <1>1, <1>3, <1>5, <1>11 DEF Disk, StoresAreWritten, Contents
    <2>2. QED
      BY <1>1, <1>4, <2>1 DEF Disk, StoresAreWritten
  <1>16. RecordsAreKept'
    <2>1. SUFFICES ASSUME NEW k \in Kinds, NEW r \in written[k]
                   PROVE  r \in Contents(k)' \/ \E u \in Transactions : Keeps(u, k, r)'
      BY <1>4 DEF RecordsAreKept
    <2>2. \A u \in Transactions \ {t} : Keeps(u, k, r) => Keeps(u, k, r)'
      BY <1>4, <1>6, <1>7 DEF Keeps
    <2>3. manifest'[t].status \notin {"staging", "prepared", "abandoned"} /\ HasManifest(t)'
      BY <1>1, <1>2, <1>4, <1>7
    <2>4. CASE k = c
      <3>1. ASSUME NEW s \in {active[c], place[t][c].stage, place[t][c].backup, place[t][c].displaced},
                   s # Absent, r \in s
            PROVE  r \in Contents(k)' \/ Keeps(t, k, r)'
        <4>1. s \in {g, f.stage, f.backup, f.displaced}
          BY <1>2, <1>3, <3>1 DEF Files
        <4>2. QED
          BY <1>5, <1>6, <2>3, <2>4, <3>1, <4>1 DEF Contents, Keeps
      <3>2. r \in Contents(k) => r \in Contents(k)' \/ Keeps(t, k, r)'
        BY <2>4, <3>1 DEF Contents
      <3>3. Keeps(t, k, r) => r \in Contents(k)' \/ Keeps(t, k, r)'
        BY <2>4, <3>1 DEF Keeps
      <3>4. QED
        BY <1>1, <2>2, <3>2, <3>3 DEF Disk, RecordsAreKept
    <2>5. CASE k # c
      <3>1. Contents(k)' = Contents(k) /\ (Keeps(t, k, r) => Keeps(t, k, r)')
        BY <1>4, <1>5, <1>6, <1>7, <2>5 DEF Contents, Keeps
      <3>2. QED
        BY <1>1, <2>2, <3>1 DEF Disk, RecordsAreKept
    <2>6. QED
      BY <2>4, <2>5
  <1>17. GoneOrMoving'
    <2>1. SUFFICES ASSUME NEW m \in Messages, <<m, "record">> \in written["ledger"]
                   PROVE  InLedger(m)' \/ m \in tombstones \/ \E u \in Transactions : Moves(u, "ledger", m)
      BY <1>4, <1>7 DEF GoneOrMoving, Moves
    <2>2. CASE c = "ledger" /\ InLedger(m)
      BY <1>1, <1>2, <1>3, <2>2
         DEF InLedger, Moves, Before, After, ManifestIsSound, OperationIsSound
    <2>3. CASE c # "ledger"
      BY <1>1, <1>5, <2>1, <2>3 DEF Disk, GoneOrMoving, InLedger, Kinds
    <2>4. QED
      BY <1>1, <2>1, <2>2, <2>3 DEF Disk, GoneOrMoving
  <1>18. BodiesAreSafe'
    <2>1. SUFFICES ASSUME NEW j \in Jobs, jobAt[j] # "none"
                   PROVE  /\ <<TaskBody[j], "record">> \in written["bodies"]
                          /\ \/ In("bodies", TaskBody[j])'
                             \/ \E u \in Transactions : Leaves(u, "bodies", TaskBody[j])
      BY <1>4, <1>7 DEF BodiesAreSafe, Leaves, jobVars
    <2>2. CASE c = "bodies" /\ In("bodies", TaskBody[j])
      <3>1. <<TaskBody[j], "record">> \in After
        <4>1. CASE active[c] = Before /\ pc = "swap"
          <5>1. Spares(t) /\ manifest[t].restore = "none"
            BY <1>1, <1>2, <4>1 DEF Disk, PurgesSpareBodies, StatusFits, Swapping, Purge
          <5>2. TaskBody[j] \notin manifest[t].ops[c].ids
            BY <1>1, <1>2, <1>3, <2>1, <2>2, <5>1 DEF Spares, SelectedIn
          <5>3. After = Before \ (manifest[t].ops[c].ids \X {"record", "outcome"})
            BY <1>1, <1>2, <1>3 DEF Before, After, ManifestIsSound, OperationIsSound, Of
          <5>4. <<TaskBody[j], "record">> \in Before
            BY <1>3, <2>2, <4>1 DEF In
          <5>5. QED
            BY <5>2, <5>3, <5>4
        <4>2. QED
          BY <1>3, <2>2, <4>1 DEF In
      <3>2. QED
        BY <1>1, <1>2, <1>3, <2>1, <2>2, <3>1 DEF Leaves, After, Disk, BodiesAreSafe
    <2>3. CASE c # "bodies"
      BY <1>1, <1>5, <2>1, <2>3 DEF Disk, BodiesAreSafe, In, Kinds
    <2>4. QED
      BY <1>1, <2>1, <2>2, <2>3 DEF Disk, BodiesAreSafe
  <1>19. BackupsAreChained'
    <2>1. Backups' = Backups
      BY <1>4, <1>7, BackupsFrame
    <2>2. QED
      BY <1>1, <1>4, <1>7, <2>1 DEF Disk, BackupsAreChained
  <1>20. Disk'
    BY <1>12, <1>13, <1>14, <1>15, <1>16, <1>17, <1>18, <1>19 DEF Disk
  <1>21. StatusFits'
    BY <1>1, <1>2, <1>4, <1>7
       DEF StatusFits, Swapping, Ending, Purge, Unswapping, EndingBack
  <1>22. StatesFit'
    <2>1. Left' = Left
      BY <1>4 DEF Left, Operations
    <2>2. Cursor' = Cursor /\ CursorState' = CursorState
      BY <1>4, <2>1 DEF Cursor, CursorState
    <2>3. Ahead(from, to)'
      BY <1>2, <1>3, <1>4, <1>7, <1>9, <2>1, <2>2 DEF Ahead, Recorded
    <2>4. QED
      BY <2>3 DEF StatesFit, Ending, EndingBack
  <1>23. Control'
    BY <1>1, <1>2, <1>4, <1>7, <1>21, <1>22
       DEF Control, InTransactionFits, InTransaction, Purge, Swapping, Unswapping, Ending,
           EndingBack, InArchive
  <1>24. QED
    BY <1>8, <1>20, <1>23 DEF IInv

\* What the recorded state of the store at the cursor says of its directories.
LEMMA FilesAtCursor ==
  ASSUME IInv, lock = "held", pc \in {"swap", "unswap"}, Left # {}
  PROVE  /\ CursorState = "staged" /\ pc = "swap" => Files.backup = Absent
         /\ CursorState = "installed" /\ pc = "unswap" => Files.displaced = Absent
  <1>1. /\ (Restoring(tx) <=> pc = "unswap") /\ InferredState(tx, Cursor) = CursorState
        /\ Cursor \in Operations(tx) /\ Before # After
    BY AtRename DEF CursorState, Recorded
  <1>2. CursorState = "staged" /\ pc = "swap" => Files.backup = Absent
    BY <1>1 DEF InferredState, PurgeState, Files
  <1>3. CursorState = "installed" /\ pc = "unswap" => Files.displaced = Absent
    BY <1>1 DEF InferredState, RestoreState, Files
  <1>4. QED
    BY <1>2, <1>3

\* What a rename makes of a store, told by its new directories.
LEMMA StateAfterRename ==
  ASSUME FilesTyped, tx \in Transactions, Cursor \in Kinds, NEW g, NEW f, Rename(g, f),
         pc \in {"swap", "unswap"}, pc' \in Swapping <=> pc = "swap",
         pc' \in Swapping \cup Unswapping,
         Before # Absent, After # Absent, Before # After
  PROVE  /\ pc = "swap" /\ ~Restoring(tx) /\ g = Absent /\ f.stage = After
              /\ f.backup = Before => InferredState(tx, Cursor)' = "backed_up"
         /\ pc = "swap" /\ ~Restoring(tx) /\ g = After
              /\ f.backup = Before => InferredState(tx, Cursor)' = "installed"
         /\ pc = "unswap" /\ Restoring(tx) /\ g = Absent /\ f.backup = Before
              /\ f.displaced = After => InferredState(tx, Cursor)' = "backed_up"
         /\ pc = "unswap" /\ Restoring(tx) /\ g = Before
              /\ f.displaced = After => InferredState(tx, Cursor)' = "restored"
  <1>1. UNCHANGED <<tx, manifest>>
    BY DEF Rename
  <1>2. Left' = Left
    BY <1>1 DEF Left, Operations, Swapping, Unswapping
  <1>3. Cursor' = Cursor
    BY <1>2 DEF Cursor
  <1>4. PICK c \in Kinds : c = Cursor /\ c = Cursor'
    BY <1>3
  <1>5. PICK t \in Transactions : t = tx /\ t = tx'
    BY <1>1
  <1>6. active'[c] = g /\ place'[t][c] = f
    BY <1>4, <1>5 DEF Rename, FilesTyped
  <1>7. Restoring(t)' <=> Restoring(t)
    BY <1>1 DEF Restoring, HasManifest
  <1>8. /\ Before = manifest[t].ops[c].before /\ After = manifest[t].ops[c].after
    BY <1>4, <1>5 DEF Before, After
  <1>9. InferredState(t, c)' = IF Restoring(t) THEN RestoreState(t, c)' ELSE PurgeState(t, c)'
    BY <1>7 DEF InferredState
  <1>10. /\ manifest'[t].ops[c].before = Before /\ manifest'[t].ops[c].after = After
    BY <1>1, <1>8
  <1>11. /\ g = Absent /\ f.stage = After /\ f.backup = Before
             => PurgeState(t, c)' = "backed_up"
         /\ g = After /\ f.backup = Before => PurgeState(t, c)' = "installed"
    BY <1>6, <1>10 DEF PurgeState
  <1>12. /\ g = Absent /\ f.backup = Before /\ f.displaced = After
             => RestoreState(t, c)' = "backed_up"
         /\ g = Before /\ f.displaced = After => RestoreState(t, c)' = "restored"
    BY <1>6, <1>10 DEF RestoreState
  <1>13. QED
    BY <1>4, <1>5, <1>9, <1>11, <1>12

\* The active generation becomes the backup.
LEMMA SwapOutKeeps ==
  ASSUME IInv, SwapOut, UNCHANGED jobVars
  PROVE  IInv'
  <1> DEFINE f == [Files EXCEPT !.backup = active[Cursor]]
  <1>1. /\ lock = "held" /\ pc = "swap" /\ Left # {} /\ CursorState = "staged"
        /\ active[Cursor] = Before /\ Files.stage = After
        /\ Rename(Absent, f) /\ pc' = "swappedOut"
    BY DEF SwapOut, At
  <1>2. /\ FilesTyped /\ tx \in Transactions /\ Cursor \in Kinds /\ ~Restoring(tx)
        /\ Files \in PlaceRecord /\ active[Cursor] \in Generations
        /\ Before # Absent /\ After # Absent /\ Before # After /\ Files.backup = Absent
    BY <1>1, AtRename, FilesAtCursor DEF Files
  <1>3. /\ f \in PlaceRecord /\ f.stage = Files.stage /\ f.backup = active[Cursor]
        /\ f.displaced = Files.displaced
    BY <1>2 DEF PlaceRecord
  <1> HIDE DEF f
  <1>4. InferredState(tx, Cursor)' = "backed_up"
    BY <1>1, <1>2, <1>3, StateAfterRename DEF Swapping, Unswapping
  <1>5. \A s \in {active[Cursor], Files.stage, Files.backup, Files.displaced} :
           s = Absent \/ s \in {Absent, f.stage, f.backup, f.displaced}
    BY <1>2, <1>3
  <1>6. QED
    BY <1>1, <1>2, <1>3, <1>4, <1>5, RenameKeeps

\* The stage becomes the active generation.
LEMMA SwapInKeeps ==
  ASSUME IInv, SwapIn, UNCHANGED jobVars
  PROVE  IInv'
  <1> DEFINE f == [Files EXCEPT !.stage = Absent]
  <1>1. /\ lock = "held" /\ pc = "swap" /\ Left # {} /\ CursorState = "backed_up"
        /\ active[Cursor] = Absent /\ Files.stage = After /\ Files.backup = Before
        /\ Rename(After, f) /\ pc' = "swappedIn"
    BY DEF SwapIn, At
  <1>2. /\ FilesTyped /\ tx \in Transactions /\ Cursor \in Kinds /\ ~Restoring(tx)
        /\ Files \in PlaceRecord
        /\ Before # Absent /\ After # Absent /\ Before # After
    BY <1>1, AtRename DEF Files
  <1>3. /\ f \in PlaceRecord /\ f.stage = Absent /\ f.backup = Files.backup
        /\ f.displaced = Files.displaced
    BY <1>2 DEF PlaceRecord, Generations
  <1> HIDE DEF f
  <1>4. InferredState(tx, Cursor)' = "installed"
    BY <1>1, <1>2, <1>3, StateAfterRename DEF Swapping, Unswapping
  <1>5. \A s \in {active[Cursor], Files.stage, Files.backup, Files.displaced} :
           s = Absent \/ s \in {After, f.stage, f.backup, f.displaced}
    BY <1>1, <1>3
  <1>6. QED
    BY <1>1, <1>2, <1>3, <1>4, <1>5, RenameKeeps

\* A restore moves the purged generation aside.
LEMMA UnswapOutKeeps ==
  ASSUME IInv, UnswapOut, UNCHANGED jobVars
  PROVE  IInv'
  <1> DEFINE f == [Files EXCEPT !.displaced = active[Cursor]]
  <1>1. /\ lock = "held" /\ pc = "unswap" /\ Left # {} /\ CursorState = "installed"
        /\ active[Cursor] = After /\ Files.backup = Before
        /\ Rename(Absent, f) /\ pc' = "unswappedOut"
    BY DEF UnswapOut, At
  <1>2. /\ FilesTyped /\ tx \in Transactions /\ Cursor \in Kinds /\ Restoring(tx)
        /\ Files \in PlaceRecord /\ active[Cursor] \in Generations
        /\ Before # Absent /\ After # Absent /\ Before # After /\ Files.displaced = Absent
    BY <1>1, AtRename, FilesAtCursor DEF Files
  <1>3. /\ f \in PlaceRecord /\ f.stage = Files.stage /\ f.backup = Files.backup
        /\ f.displaced = active[Cursor]
    BY <1>2 DEF PlaceRecord
  <1> HIDE DEF f
  <1>4. InferredState(tx, Cursor)' = "backed_up"
    BY <1>1, <1>2, <1>3, StateAfterRename DEF Swapping, Unswapping
  <1>5. \A s \in {active[Cursor], Files.stage, Files.backup, Files.displaced} :
           s = Absent \/ s \in {Absent, f.stage, f.backup, f.displaced}
    BY <1>2, <1>3
  <1>6. QED
    BY <1>1, <1>2, <1>3, <1>4, <1>5, RenameKeeps

\* The backup becomes the active generation again.
LEMMA UnswapInKeeps ==
  ASSUME IInv, UnswapIn, UNCHANGED jobVars
  PROVE  IInv'
  <1> DEFINE f == [Files EXCEPT !.backup = Absent]
  <1>1. /\ lock = "held" /\ pc = "unswap" /\ Left # {} /\ CursorState = "backed_up"
        /\ active[Cursor] = Absent /\ Files.backup = Before /\ Files.displaced = After
        /\ Rename(Before, f) /\ pc' = "unswappedIn"
    BY DEF UnswapIn, At
  <1>2. /\ FilesTyped /\ tx \in Transactions /\ Cursor \in Kinds /\ Restoring(tx)
        /\ Files \in PlaceRecord
        /\ Before # Absent /\ After # Absent /\ Before # After
    BY <1>1, AtRename DEF Files
  <1>3. /\ f \in PlaceRecord /\ f.stage = Files.stage /\ f.backup = Absent
        /\ f.displaced = Files.displaced
    BY <1>2 DEF PlaceRecord, Generations
  <1> HIDE DEF f
  <1>4. InferredState(tx, Cursor)' = "restored"
    BY <1>1, <1>2, <1>3, StateAfterRename DEF Swapping, Unswapping
  <1>5. \A s \in {active[Cursor], Files.stage, Files.backup, Files.displaced} :
           s = Absent \/ s \in {Before, f.stage, f.backup, f.displaced}
    BY <1>1, <1>3
  <1>6. QED
    BY <1>1, <1>2, <1>3, <1>4, <1>5, RenameKeeps

-----------------------------------------------------------------------------
(* Commits                                                                 *)

\* When the loops are done every store is where it should be.
LEMMA WhereStoresAre ==
  ASSUME IInv, lock = "held", pc \in Ending \cup EndingBack
  PROVE  \A k \in Operations(tx) :
           /\ pc \in Ending => active[k] = manifest[tx].ops[k].after
           /\ pc \in EndingBack => active[k] = manifest[tx].ops[k].before
           /\ active[k] # Absent
  <1>1. pc \in InTransaction \ {"manifest", "stage", "prepared"}
    BY DEF InTransaction, Purge, Ending, EndingBack
  <1>2. /\ StatesFit /\ (Restoring(tx) <=> pc \in EndingBack) /\ manifest[tx] \in ManifestRecord
    BY <1>1, AtWork, PendingAtWork DEF EndingBack, Ending, Unswapping
  <1> SUFFICES ASSUME NEW k \in Operations(tx)
               PROVE  /\ pc \in Ending => active[k] = manifest[tx].ops[k].after
                      /\ pc \in EndingBack => active[k] = manifest[tx].ops[k].before
                      /\ active[k] # Absent
    OBVIOUS
  <1>3. InferredState(tx, k) = IF pc \in Ending THEN "installed" ELSE "restored"
    BY <1>2 DEF StatesFit, Ending, EndingBack
  <1>4. pc \in Ending => active[k] = manifest[tx].ops[k].after
    BY <1>2, <1>3 DEF InferredState, PurgeState, Ending, EndingBack
  <1>5. pc \in EndingBack => active[k] = manifest[tx].ops[k].before
    BY <1>2, <1>3 DEF InferredState, RestoreState, Ending, EndingBack
  <1>6. manifest[tx].ops[k] \in Operation
    BY <1>2, ManifestFields DEF Operations
  <1>7. active[k] # Absent
    BY <1>4, <1>5, <1>6, AbsentIsNone DEF Operation
  <1>8. QED
    BY <1>4, <1>5, <1>7

\* A transaction that is done is nobody's work any more.
LEMMA CommitKeeps ==
  ASSUME IInv, Commit, UNCHANGED jobVars
  PROVE  IInv'
  <1>1. /\ lock = "held"
        /\ \/ /\ pc = "commit"
              /\ manifest' = [manifest EXCEPT ![tx].status = "committed",
                                              ![tx].receipt = receipt[tx]]
           \/ /\ pc = "commitBack"
              /\ manifest' = [manifest EXCEPT ![tx].restore = "committed"]
        /\ UNCHANGED <<active, place, receipt, head, tombstones, written, intruded, jobVars>>
    BY DEF Commit, At, history
  <1>2. \/ /\ tx \in todo /\ todo' = todo \ {tx} /\ tx' = NoTransaction /\ pc' = "visit"
           /\ UNCHANGED <<lock, selected>>
        \/ Leave("free")
    BY DEF Commit
  <1>3. pc \in InTransaction \ {"manifest", "stage", "prepared"} /\ pc \in Ending \cup EndingBack
    BY <1>1 DEF InTransaction, Purge, Ending, EndingBack
  <1>4. /\ Typed /\ FilesTyped /\ Disk
        /\ tx \in Transactions /\ OnlyOne(tx) /\ todo \subseteq {tx}
        /\ manifest[tx] \in ManifestRecord /\ HasManifest(tx) /\ ManifestIsSound(tx)
        /\ StatusFits /\ StatesFit /\ Pending(tx) /\ ~Held(tx)
    BY <1>1, <1>3, AtWork, PendingAtWork DEF IInv, Typed
  <1>5. PICK t \in Transactions : t = tx
    BY <1>4
  <1>6. /\ Written(t) /\ manifest'[t].ops = manifest[t].ops
        /\ manifest'[t].tombstonesComplete = manifest[t].tombstonesComplete
        /\ manifest'[t].previousHead = manifest[t].previousHead
        /\ pc = "commit" => /\ manifest'[t].status = "committed" /\ manifest'[t].restore = "none"
                            /\ manifest'[t].receipt = receipt[t]
        /\ pc = "commitBack" => /\ manifest'[t].status = "committed"
                                /\ manifest'[t].restore = "committed"
    <2>1. CASE pc = "commit"
      <3> DEFINE new == [manifest[t] EXCEPT !.status = "committed", !.receipt = receipt[t]]
      <3>1. manifest' = [manifest EXCEPT ![t] = new]
        BY <1>1, <1>4, <1>5, <2>1 DEF FilesTyped
      <3>2. /\ "committed" \in Status /\ receipt[t] \in Nat /\ manifest[t] \in ManifestRecord
        BY <1>4, <1>5 DEF Status, FilesTyped
      <3>3. /\ new \in ManifestRecord /\ new.status = "committed" /\ new.receipt = receipt[t]
            /\ new.restore = manifest[t].restore
            /\ new.tombstonesComplete = manifest[t].tombstonesComplete
            /\ new.previousHead = manifest[t].previousHead /\ new.ops = manifest[t].ops
        BY <3>2 DEF ManifestRecord
      <3> HIDE DEF new
      <3>4. manifest[t].restore = "none"
        BY <1>4, <1>5, <2>1 DEF StatusFits, Purge, Ending
      <3>5. QED
        BY <1>4, <2>1, <3>1, <3>3, <3>4, WrittenIs
    <2>2. CASE pc = "commitBack"
      <3>1. manifest' = [manifest EXCEPT ![t].restore = "committed"]
        BY <1>1, <1>5, <2>2
      <3>2. /\ Written(t) /\ manifest'[t].restore = "committed"
            /\ manifest'[t].status = manifest[t].status
            /\ manifest'[t].tombstonesComplete = manifest[t].tombstonesComplete
            /\ manifest'[t].previousHead = manifest[t].previousHead
        BY <1>4, <1>5, <3>1, RestoreWritten DEF RestoreStatus
      <3>3. manifest'[t].ops = manifest[t].ops
        BY <1>4, <1>5, <3>1, <3>2 DEF FilesTyped, ManifestRecord
      <3>4. manifest[t].status = "committed"
        BY <1>4, <1>5, <2>2 DEF StatusFits, EndingBack, ManifestIsSound
      <3>5. QED
        BY <2>2, <3>2, <3>3, <3>4
    <2>3. QED
      BY <1>1, <2>1, <2>2
  <1> USE DEF Written
  <1>7. /\ HasManifest(t)' /\ ~Pending(t)' /\ ~Unsettled(t)'
        /\ Held(t)' <=> pc = "commit"
    BY <1>1, <1>6 DEF Pending, Purging, Restoring, Unsettled, Settled, Held
  <1>8. /\ Operations(t)' = Operations(t)
        /\ SelectedIn(t, "ledger")' = SelectedIn(t, "ledger")
        /\ \A k \in Operations(t) : OperationIsSound(t, k)'
        /\ SelectionFits(t)'
    <2>1. Operations(t)' = Operations(t)
      BY <1>6 DEF Operations
    <2>2. \A k \in Kinds : SelectedIn(t, k)' = SelectedIn(t, k)
      BY <1>6, <2>1 DEF SelectedIn
    <2>3. \A k \in Operations(t) : OperationIsSound(t, k)'
      BY <1>1, <1>4, <1>5, <1>6 DEF ManifestIsSound, OperationIsSound
    <2>4. SelectionFits(t)'
      BY <1>4, <1>5, <1>6, <2>1, <2>2 DEF ManifestIsSound, SelectionFits, Kinds
    <2>5. QED
      BY <2>1, <2>2, <2>3, <2>4 DEF Kinds
  <1>9. ManifestIsSound(t)'
    <2>1. pc = "commit" => /\ receipt[t] > 0
                           /\ \A k \in Operations(t) : manifest[t].ops[k].state = "installed"
      BY <1>4, <1>5 DEF StatusFits, StatesFit, Ending, Recorded
    <2>2. manifest[t].tombstonesComplete
      BY <1>1, <1>4, <1>5 DEF ManifestIsSound, StatusFits, Ending, EndingBack
    <2>3. pc = "commit" => manifest[t].restore = "none"
      BY <1>4, <1>5 DEF StatusFits, Purge, Ending
    <2>4. QED
      BY <1>1, <1>4, <1>5, <1>6, <1>7, <1>8, <2>1, <2>2, <2>3 DEF ManifestIsSound
  <1>10. \A k \in Kinds, m \in Messages :
            Moves(t, k, m) => In(k, m) \/ m \in SelectedIn(t, k)
    <2> SUFFICES ASSUME NEW k \in Kinds, NEW m \in Messages, Moves(t, k, m),
                        m \notin SelectedIn(t, k)
                 PROVE  In(k, m)
      OBVIOUS
    <2>1. k \in Operations(t) /\ <<m, "record">> \in manifest[t].ops[k].before
          /\ m \notin manifest[t].ops[k].ids
      BY DEF Moves, SelectedIn
    <2>2. <<m, "record">> \in manifest[t].ops[k].after
      BY <1>4, <1>5, <2>1 DEF ManifestIsSound, OperationIsSound, Of
    <2>3. QED
      BY <1>1, <1>3, <1>5, <2>1, <2>2, WhereStoresAre DEF In
  <1>11. \A k \in Kinds, m \in Messages : Leaves(t, k, m) => In(k, m)
    <2> SUFFICES ASSUME NEW k \in Kinds, NEW m \in Messages, Leaves(t, k, m)
                 PROVE  In(k, m)
      OBVIOUS
    <2>1. k \in Operations(t) /\ <<m, "record">> \in manifest[t].ops[k].after
          /\ <<m, "record">> \in manifest[t].ops[k].before
      BY <1>4, <1>5 DEF Leaves, ManifestIsSound, OperationIsSound
    <2>2. QED
      BY <1>1, <1>3, <1>5, <2>1, WhereStoresAre DEF In
  <1>12. SelectedIn(t, "ledger") \subseteq tombstones
    BY <1>1, <1>4, <1>5 DEF ManifestIsSound, StatusFits, Ending, EndingBack
  <1>13. BackupsAreChained'
    <2>1. \A u \in Transactions \ {t} : (Held(u)' <=> Held(u)) /\ ~Pending(u)'
      BY <1>1, <1>4, <1>5, <1>6, OthersFrame DEF Disk
    <2>2. Chained(Backups, Previous(t))
      BY <1>4, <1>5 DEF Disk, BackupsAreChained
    <2>3. Chained(Backups', head')
      <3>1. CASE pc = "commit"
        <4>1. head' = t
          BY <1>1, <1>4, <1>5, <3>1 DEF StatusFits
        <4>2. /\ DOMAIN Backups \subseteq Transactions /\ t \notin DOMAIN Backups
              /\ DOMAIN Backups' = DOMAIN Backups \cup {t}
          BY <1>4, <1>5, <1>7, <2>1, <3>1 DEF Backups
        <4>3. Backups'[t] = Previous(t)
          BY <1>6, <1>7, <3>1 DEF Backups, Previous
        <4>4. \A u \in DOMAIN Backups : Backups'[u] = Backups[u]
          BY <1>6, <2>1, <4>2 DEF Backups, Previous
        <4>5. QED
          BY <2>2, <4>1, <4>2, <4>3, <4>4, ChainGrows
      <3>2. CASE pc = "commitBack"
        <4>1. head' = Previous(t)
          BY <1>1, <1>4, <1>5, <3>2 DEF StatusFits
        <4>2. Backups' = Backups
          BY <1>4, <1>5, <1>6, <1>7, <2>1, <3>2, BackupsFrame
        <4>3. QED
          BY <2>2, <4>1, <4>2
      <3>3. QED
        BY <1>1, <3>1, <3>2
    <2>4. QED
      BY <1>7, <2>1, <2>3 DEF BackupsAreChained
  <1>14. Disk'
    <2>1. \A k \in Kinds : \A r \in written[k] : Keeps(t, k, r) => Keeps(t, k, r)'
      BY <1>1, <1>6, <1>7 DEF Keeps
    <2>2. Spares(t)'
      BY <1>7 DEF Spares
    <2>3. \A m \in Messages : Moves(t, "ledger", m) => InLedger(m) \/ m \in tombstones'
      BY <1>1, <1>10, <1>12 DEF In, InLedger, Kinds
    <2>4. \A m \in Messages : Leaves(t, "bodies", m) => In("bodies", m)
      BY <1>11 DEF Kinds
    <2>5. QED
      BY <1>1, <1>4, <1>5, <1>6, <1>7, <1>9, <1>13, <2>1, <2>2, <2>3, <2>4, EditKeepsDisk
  <1>15. Typed'
    BY <1>1, <1>2, <1>4, <1>6 DEF Typed, FilesTyped, JobsTyped, jobVars, Leave, NoPlan
  <1>16. Control'
    <2>1. CASE tx \in todo /\ todo' = todo \ {tx} /\ pc' = "visit"
      <3>1. todo' = {}
        BY <1>4, <2>1
      <3>2. \A u \in Transactions \ {t} : ~Unsettled(u)'
        BY <1>1, <1>4, <1>5, <1>6, OthersFrame DEF Disk
      <3>3. QED
        BY <1>7, <2>1, <3>1, <3>2
           DEF Control, InTransaction, Purge, Swapping, Unswapping, Ending, EndingBack, InArchive
    <2>2. CASE Leave("free")
      BY <2>2 DEF Leave, Control
    <2>3. QED
      BY <1>2, <2>1, <2>2
  <1>17. QED
    BY <1>14, <1>15, <1>16 DEF IInv

-----------------------------------------------------------------------------
(* Restores                                                                *)

\* A restore takes back the purge that was last.
LEMMA StartRestoreKeeps ==
  ASSUME IInv, NEW t \in Transactions, StartRestore(t), UNCHANGED jobVars
  PROVE  IInv'
  <1>1. /\ lock = "held" /\ pc = "visit" /\ todo = {}
        /\ HasManifest(t) /\ Held(t) /\ head = t
        /\ \A k \in Operations(t) : active[k] = manifest[t].ops[k].after
                                 /\ place[t][k].backup = manifest[t].ops[k].before
        /\ manifest' = [manifest EXCEPT ![t].restore = "swapping"]
        /\ tx' = t /\ pc' = "unswap"
        /\ UNCHANGED <<lock, todo, selected, active, place, receipt, head, tombstones,
                       written, intruded, jobVars>>
    BY DEF StartRestore, Recovered, At, Restorable, Held, history
  <1>2. /\ Typed /\ FilesTyped /\ Disk /\ OnlyOne(t)
        /\ manifest[t] \in ManifestRecord /\ ManifestIsSound(t)
    BY <1>1, ManifestTyped
       DEF IInv, Typed, Control, OnlyOne, Disk, DirectoriesAreSound
  <1>3. /\ Written(t) /\ manifest'[t].restore = "swapping"
        /\ manifest'[t].status = manifest[t].status
        /\ manifest'[t].tombstonesComplete = manifest[t].tombstonesComplete
        /\ manifest'[t].receipt = manifest[t].receipt
        /\ manifest'[t].previousHead = manifest[t].previousHead
    BY <1>1, <1>2, RestoreWritten DEF RestoreStatus
  <1>4. manifest'[t].ops = manifest[t].ops
    BY <1>1, <1>2, <1>3 DEF FilesTyped, ManifestRecord
  <1> USE DEF Written
  <1>5. /\ HasManifest(t)' /\ Pending(t)' /\ Restoring(t)' /\ Unsettled(t)' /\ ~Held(t)' /\ ~Pending(t)
    <2>1. /\ manifest[t].status = "committed" /\ manifest[t].restore = "none"
          /\ HasManifest(t)' /\ manifest'[t] # NoDirectory
      BY <1>1, <1>3 DEF Held, HasManifest
    <2>2. Restoring(t)' /\ ~Held(t)' /\ ~Pending(t)
      BY <1>1, <1>3, <2>1 DEF Held, Pending, Purging, Restoring
    <2>3. QED
      BY <2>1, <2>2 DEF Pending, Unsettled, Settled
  <1>6. /\ Operations(t)' = Operations(t)
        /\ \A k \in Operations(t) : OperationIsSound(t, k)'
        /\ SelectedIn(t, "ledger")' = SelectedIn(t, "ledger")
        /\ SelectionFits(t)'
    <2>1. Operations(t)' = Operations(t)
      BY <1>4 DEF Operations
    <2>2. \A k \in Kinds : SelectedIn(t, k)' = SelectedIn(t, k)
      BY <1>4, <2>1 DEF SelectedIn
    <2>3. \A k \in Operations(t) : OperationIsSound(t, k)'
      BY <1>1, <1>2, <1>4 DEF ManifestIsSound, OperationIsSound
    <2>4. SelectionFits(t)'
      BY <1>2, <1>4, <2>1, <2>2 DEF ManifestIsSound, SelectionFits, Kinds
    <2>5. QED
      BY <2>1, <2>2, <2>3, <2>4 DEF Kinds
  <1>7. ManifestIsSound(t)'
    BY <1>1, <1>2, <1>3, <1>5, <1>6 DEF ManifestIsSound, Held
  <1>8. \A k \in Operations(t) : /\ InferredState(t, k)' = "installed"
                                 /\ manifest'[t].ops[k].state = "installed"
    <2> SUFFICES ASSUME NEW k \in Operations(t)
                 PROVE  /\ InferredState(t, k)' = "installed"
                        /\ manifest'[t].ops[k].state = "installed"
      OBVIOUS
    <2>1. manifest[t].ops[k] \in Operation /\ OperationIsSound(t, k) /\ k \in Kinds
      BY <1>2, ManifestFields DEF Operations, ManifestIsSound
    <2>2. /\ manifest[t].ops[k].before # manifest[t].ops[k].after
          /\ manifest[t].ops[k].after # Absent
      BY <2>1, GenerationsDiffer
    <2>3. /\ active'[k] = manifest'[t].ops[k].after
          /\ place'[t][k].backup = manifest'[t].ops[k].before
          /\ place'[t][k].displaced = Absent
      BY <1>1, <1>2, <1>4, <2>1 DEF ManifestIsSound, Held
    <2>4. RestoreState(t, k)' = "installed"
      BY <1>4, <2>2, <2>3 DEF RestoreState
    <2>5. manifest'[t].ops[k].state = "installed"
      BY <1>1, <1>2, <1>4 DEF ManifestIsSound
    <2>6. QED
      BY <1>5, <2>4, <2>5 DEF InferredState
  <1>9. BackupsAreChained'
    <2>1. \A u \in Transactions \ {t} : (Held(u)' <=> Held(u)) /\ ~Pending(u) /\ ~Pending(u)'
      BY <1>1, <1>2, <1>3, OthersFrame DEF Disk
    <2>2. Chained(Backups, t)
      BY <1>1, <1>2, <1>5, <2>1 DEF Disk, BackupsAreChained
    <2>3. /\ DOMAIN Backups \subseteq Transactions
          /\ DOMAIN Backups' = DOMAIN Backups \ {t}
      BY <1>5, <2>1 DEF Backups
    <2>4. \A u \in DOMAIN Backups' : Backups'[u] = Backups[u]
      BY <1>3, <1>5, <2>1 DEF Backups, Previous
    <2>5. Backups[t] = Previous(t)'
      BY <1>1, <1>3 DEF Backups, Previous
    <2>6. Chained(Backups', Backups[t])
      BY <2>2, <2>3, <2>4, ChainShrinks
    <2>7. QED
      BY <1>5, <2>1, <2>5, <2>6 DEF BackupsAreChained
  <1>10. Disk'
    <2>1. \A k \in Kinds : \A r \in written[k] : Keeps(t, k, r) => Keeps(t, k, r)'
      BY <1>1, <1>3 DEF Keeps
    <2>2. Spares(t)'
      BY <1>3 DEF Spares
    <2>3. \A m \in Messages : ~Moves(t, "ledger", m) /\ ~Leaves(t, "bodies", m)
      BY <1>5 DEF Moves, Leaves
    <2>4. \A k \in Operations(t)' : InferredState(t, k)' # "lost"
      BY <1>6, <1>8
    <2>5. QED
      BY <1>1, <1>2, <1>3, <1>5, <1>7, <1>9, <2>1, <2>2, <2>3, <2>4, EditKeepsDisk
  <1>11. Typed'
    BY <1>1, <1>2, <1>3 DEF Typed, FilesTyped, JobsTyped, jobVars
  <1>12. StatusFits' /\ StatesFit'
    BY <1>1, <1>3, <1>5, <1>6, <1>8
       DEF StatusFits, StatesFit, Swapping, Ending, Purge, Unswapping, EndingBack, Recorded
  <1>13. Control'
    BY <1>1, <1>5, <1>12
       DEF Control, InTransactionFits, InTransaction, Purge, Swapping, Unswapping, Ending,
           EndingBack, InArchive
  <1>14. QED
    BY <1>10, <1>11, <1>13 DEF IInv

-----------------------------------------------------------------------------
(* Writers                                                                 *)

\* A store that grows takes nothing away from anyone; a transaction that is
\* pending in it is spoiled.
LEMMA GrowKeepsDisk ==
  ASSUME FilesTyped, Disk, NEW k \in Kinds, NEW g \in SUBSET Records, Contents(k) \subseteq g,
         active'[k] = g, \A other \in Kinds \ {k} : active'[other] = active[other],
         written'[k] = written[k] \cup g,
         \A other \in Kinds \ {k} : written'[other] = written[other],
         intruded \subseteq intruded',
         \A t \in Transactions : Pending(t) /\ k \in Operations(t) =>
           t \in intruded' \/ active[k] = g,
         UNCHANGED <<manifest, place, receipt, head, tombstones>>,
         k = "ledger" => \A m \in Messages : <<m, "outcome">> \in g =>
           <<m, "outcome">> \in written[k] \/ Outcome[m] \in {"settled", "claimed"},
         \A j \in Jobs : jobAt'[j] # "none" =>
           \/ jobAt[j] # "none"
           \/ /\ k = "bodies" /\ <<TaskBody[j], "record">> \in g
              /\ <<TaskBody[j], "record">> \notin written["bodies"],
         ArchivesAreWhole'
  PROVE  Disk'
  <1>1. \A t \in Transactions : /\ Held(t)' <=> Held(t)
                                /\ Pending(t)' <=> Pending(t)
                                /\ Restoring(t)' <=> Restoring(t)
                                /\ HasManifest(t)' <=> HasManifest(t)
                                /\ Unsettled(t)' <=> Unsettled(t)
                                /\ Operations(t)' = Operations(t)
                                /\ Previous(t)' = Previous(t)
                                /\ \A other \in Kinds : SelectedIn(t, other)' = SelectedIn(t, other)
    BY DEF Held, Pending, Purging, Restoring, HasManifest, Unsettled, Settled, Operations,
           Previous, SelectedIn
  <1>2. /\ Contents(k)' = g /\ \A other \in Kinds \ {k} : Contents(other)' = Contents(other)
        /\ active'[k] # Absent
    BY AbsentIsNone DEF Contents
  <1>3. \A other \in Kinds : written[other] \subseteq written'[other]
    OBVIOUS
  <1>4. OneUnsettled'
    BY <1>1 DEF Disk, OneUnsettled
  <1>5. DirectoriesAreSound'
    <2> SUFFICES ASSUME NEW t \in Transactions
                 PROVE  IF HasManifest(t) THEN ManifestIsSound(t)'
                        ELSE \A other \in Kinds : place[t][other] = NoFiles
      BY <1>1 DEF DirectoriesAreSound
    <2>1. CASE HasManifest(t)
      <3>1. ManifestIsSound(t) /\ Operations(t) \subseteq Kinds
        BY <2>1, ManifestTyped, ManifestFields DEF Disk, DirectoriesAreSound, Operations
      <3>2. ManifestIsSound(t)'
        BY <1>3, <3>1, SoundFrame
      <3>3. QED
        BY <2>1, <3>2
    <2>2. CASE ~HasManifest(t)
      BY <2>2 DEF Disk, DirectoriesAreSound
    <2>3. QED
      BY <2>1, <2>2
  <1>6. PendingAreIntact'
    <2> SUFFICES ASSUME NEW t \in Transactions, Pending(t), t \notin intruded',
                        NEW other \in Operations(t)
                 PROVE  InferredState(t, other)' # "lost"
      BY <1>1 DEF PendingAreIntact
    <2>1. InferredState(t, other) # "lost" /\ other \in Kinds
      BY ManifestTyped, ManifestFields DEF Disk, PendingAreIntact, Operations
    <2>2. active'[other] = active[other]
      BY <2>1
    <2>3. QED
      BY <1>1, <2>1, <2>2 DEF InferredState, PurgeState, RestoreState
  <1>7. StoresAreWritten'
    <2>1. \A other \in Kinds : Contents(other)' \subseteq written'[other]
      BY <1>2 DEF Disk, StoresAreWritten
    <2>2. \A m \in Messages :
            <<m, "outcome">> \in written'["ledger"] => Outcome[m] \in {"settled", "claimed"}
      BY DEF Disk, StoresAreWritten, Kinds
    <2>3. QED
      BY <2>1, <2>2 DEF StoresAreWritten
  <1>8. RecordsAreKept'
    <2> SUFFICES ASSUME NEW other \in Kinds, NEW r \in written'[other]
                 PROVE  r \in Contents(other)' \/ \E t \in Transactions : Keeps(t, other, r)'
      BY DEF RecordsAreKept
    <2>1. \A t \in Transactions : Keeps(t, other, r)' <=> Keeps(t, other, r)
      BY <1>1 DEF Keeps
    <2>2. r \in Contents(other) => r \in Contents(other)'
      BY <1>2
    <2>3. r \in written[other] \/ r \in Contents(other)'
      BY <1>2
    <2>4. QED
      BY <2>1, <2>2, <2>3 DEF Disk, RecordsAreKept
  <1>9. \A other \in Kinds, m \in Messages : In(other, m) => In(other, m)'
    BY <1>2 DEF In, Contents
  <1>10. \A t \in Transactions, other \in Kinds, m \in Messages :
            /\ Moves(t, other, m)' <=> Moves(t, other, m)
            /\ Leaves(t, other, m)' <=> Leaves(t, other, m)
    BY <1>1 DEF Moves, Leaves
  <1>11. GoneOrMoving'
    <2> SUFFICES ASSUME NEW m \in Messages, <<m, "record">> \in written'["ledger"]
                 PROVE  In("ledger", m)' \/ m \in tombstones
                        \/ \E t \in Transactions : Moves(t, "ledger", m)
      BY <1>10 DEF GoneOrMoving, InLedger, In, Kinds
    <2>1. <<m, "record">> \in written["ledger"] \/ In("ledger", m)'
      BY <1>2 DEF In, Kinds
    <2>2. <<m, "record">> \in written["ledger"] =>
            In("ledger", m) \/ m \in tombstones \/ \E t \in Transactions : Moves(t, "ledger", m)
      BY DEF Disk, GoneOrMoving, InLedger, In
    <2>3. QED
      BY <1>9, <2>1, <2>2 DEF Kinds
  <1>12. BodiesAreSafe'
    <2> SUFFICES ASSUME NEW j \in Jobs, jobAt'[j] # "none"
                 PROVE  /\ <<TaskBody[j], "record">> \in written'["bodies"]
                        /\ \/ In("bodies", TaskBody[j])'
                           \/ \E t \in Transactions : Leaves(t, "bodies", TaskBody[j])
      BY <1>10, JobAssumption DEF BodiesAreSafe, Kinds
    <2>1. TaskBody[j] \in Messages
      BY JobAssumption
    <2>2. CASE jobAt[j] # "none"
      BY <1>3, <1>9, <2>1, <2>2 DEF Disk, BodiesAreSafe, Kinds
    <2>3. CASE jobAt[j] = "none"
      <3>1. k = "bodies" /\ <<TaskBody[j], "record">> \in g
        BY <2>3
      <3>2. QED
        BY <1>2, <3>1 DEF In
    <2>4. QED
      BY <2>2, <2>3
  <1>13. PurgesSpareBodies'
    <2> SUFFICES ASSUME NEW t \in Transactions, Unsettled(t), HasManifest(t),
                        manifest[t].restore = "none", NEW j \in Jobs, jobAt'[j] # "none",
                        TaskBody[j] \in SelectedIn(t, "bodies")
                 PROVE  FALSE
      BY <1>1 DEF PurgesSpareBodies, Spares, Kinds
    <2>1. "bodies" \in Operations(t) /\ TaskBody[j] \in manifest[t].ops["bodies"].ids
      BY DEF SelectedIn
    <2>2. OperationIsSound(t, "bodies")
      BY <2>1 DEF Disk, DirectoriesAreSound, ManifestIsSound
    <2>3. <<TaskBody[j], "record">> \in written["bodies"]
      BY <2>1, <2>2 DEF OperationIsSound
    <2>4. QED
      BY <2>3 DEF Disk, PurgesSpareBodies, Spares
  <1>14. BackupsAreChained'
    <2>1. Backups' = Backups
      BY <1>1, BackupsFrame
    <2>2. QED
      BY <1>1, <2>1 DEF Disk, BackupsAreChained
  <1>15. QED
    BY <1>4, <1>5, <1>6, <1>7, <1>8, <1>11, <1>12, <1>13, <1>14 DEF Disk

\* Nobody writes under the lock.
LEMMA SetStoreKeeps ==
  ASSUME IInv, lock = "free", NEW k \in Kinds, NEW g \in SUBSET Records, SetStore(k, g),
         Contents(k) \subseteq g,
         k = "ledger" => \A m \in Messages : <<m, "outcome">> \in g =>
           <<m, "outcome">> \in written[k] \/ Outcome[m] \in {"settled", "claimed"},
         JobsTyped',
         \A j \in Jobs : jobAt'[j] # "none" =>
           \/ jobAt[j] # "none"
           \/ /\ k = "bodies" /\ <<TaskBody[j], "record">> \in g
              /\ <<TaskBody[j], "record">> \notin written["bodies"],
         ArchivesAreWhole'
  PROVE  IInv'
  <1> USE DEF SetStore, mutator
  <1>1. FilesTyped /\ Disk
    BY DEF IInv, Typed
  <1>2. /\ active' \in [Kinds -> Generations] /\ active'[k] = g
        /\ \A other \in Kinds \ {k} : active'[other] = active[other]
    BY <1>1 DEF FilesTyped, Generations
  <1>3. /\ written' \in [Kinds -> SUBSET Records] /\ written'[k] = written[k] \cup g
        /\ \A other \in Kinds \ {k} : written'[other] = written[other]
    BY <1>1 DEF FilesTyped
  <1>4. Disk'
    BY <1>1, <1>2, <1>3, GrowKeepsDisk
  <1>5. Typed'
    BY <1>1, <1>2, <1>3 DEF Typed, FilesTyped
  <1>6. Control'
    BY DEF Control
  <1>7. QED
    BY <1>4, <1>5, <1>6 DEF IInv

\* The writers of the three stores, and the readers that make the Ledger.
LEMMA WriterKeeps ==
  ASSUME IInv, WriterNext, UNCHANGED jobVars
  PROVE  IInv'
  <1>1. JobsTyped' /\ ArchivesAreWhole' /\ (\A j \in Jobs : jobAt'[j] # "none" => jobAt[j] # "none")
    BY DEF IInv, Typed, JobsTyped, Disk, ArchivesAreWhole, Archived, HasAlbum, jobVars
  <1>2. FilesTyped /\ StoresAreWritten
    BY DEF IInv, Typed, Disk
  <1>3. \A k \in Kinds : Contents(k) \in SUBSET Records
    BY <1>2 DEF FilesTyped, Contents, Generations
  <1>4. CASE EnsureLedger
    <2>1. Contents("ledger") = {} /\ "ledger" \in Kinds
      BY <1>4 DEF EnsureLedger, Contents, Kinds
    <2>2. QED
      BY <1>1, <1>4, <2>1, SetStoreKeeps DEF EnsureLedger
  <1>5. ASSUME NEW m \in Messages, StoreBody(m)
        PROVE  IInv'
    <2> DEFINE g == Contents("bodies") \cup {<<m, "record">>}
    <2>1. lock = "free" /\ "bodies" \in Kinds /\ g \in SUBSET Records /\ SetStore("bodies", g)
      BY <1>3, <1>5 DEF StoreBody, Kinds, Records
    <2>2. Contents("bodies") \subseteq g
      OBVIOUS
    <2> HIDE DEF g
    <2>3. QED
      BY <1>1, <2>1, <2>2, SetStoreKeeps
  <1>6. ASSUME NEW m \in Messages, CommitMessage(m)
        PROVE  IInv'
    <2> DEFINE g == Contents("ledger") \cup {<<m, "record">>}
    <2>1. lock = "free" /\ "ledger" \in Kinds /\ g \in SUBSET Records /\ SetStore("ledger", g)
      BY <1>3, <1>6 DEF CommitMessage, Kinds, Records
    <2>2. Contents("ledger") \subseteq g
      OBVIOUS
    <2>3. \A n \in Messages : <<n, "outcome">> \in g => <<n, "outcome">> \in written["ledger"]
      BY <1>2, <2>1 DEF StoresAreWritten
    <2> HIDE DEF g
    <2>4. QED
      BY <1>1, <2>1, <2>2, <2>3, SetStoreKeeps
  <1>7. ASSUME NEW m \in Messages, WriteQuarantine(m)
        PROVE  IInv'
    <2> DEFINE g == Contents("quarantine") \cup {<<m, "record">>}
    <2>1. lock = "free" /\ "quarantine" \in Kinds /\ g \in SUBSET Records /\ SetStore("quarantine", g)
      BY <1>3, <1>7 DEF WriteQuarantine, Kinds, Records
    <2>2. Contents("quarantine") \subseteq g
      OBVIOUS
    <2> HIDE DEF g
    <2>3. QED
      BY <1>1, <2>1, <2>2, SetStoreKeeps
  <1>8. ASSUME NEW m \in Messages, Finish(m)
        PROVE  IInv'
    <2> DEFINE g == active["ledger"] \cup {<<m, "outcome">>}
    <2>1. /\ lock = "free" /\ "ledger" \in Kinds /\ SetStore("ledger", g)
          /\ active["ledger"] = Contents("ledger") /\ Outcome[m] \in {"settled", "claimed"}
      BY <1>8 DEF Finish, InLedger, Contents, Kinds
    <2>2. g \in SUBSET Records /\ Contents("ledger") \subseteq g
      BY <1>3, <2>1 DEF Records
    <2>3. \A n \in Messages : <<n, "outcome">> \in g =>
            <<n, "outcome">> \in written["ledger"] \/ Outcome[n] \in {"settled", "claimed"}
      BY <1>2, <2>1 DEF StoresAreWritten
    <2> HIDE DEF g
    <2>4. QED
      BY <1>1, <2>1, <2>2, <2>3, SetStoreKeeps
  <1>9. QED
    BY <1>4, <1>5, <1>6, <1>7, <1>8 DEF WriterNext

-----------------------------------------------------------------------------
(* Jobs and their archives                                                 *)

\* What is known while an archive is at work.
LEMMA AtArchive ==
  ASSUME IInv, lock = "held", pc \in InArchive
  PROVE  /\ Typed /\ Disk /\ ArchivesAreWhole /\ JobsTyped
         /\ tx \in Archives /\ InArchiveFits
         /\ pc # "jobManifest" => HasAlbum(tx) /\ album[tx] \in AlbumRecord
         /\ pc = "jobManifest" => album[tx] = Bare
  <1>1. Typed /\ Disk /\ ArchivesAreWhole /\ JobsTyped /\ InArchiveFits
    BY DEF IInv, Control, Typed, Disk
  <1>2. QED
    BY <1>1 DEF InArchiveFits, JobsTyped, HasAlbum

\* An album with another status.
LEMMA AlbumWritten ==
  ASSUME JobsTyped, NEW a \in Archives, album[a] \in AlbumRecord,
         NEW s \in {"archiving", "committed", "restoring", "restored"},
         album' = [album EXCEPT ![a].status = s]
  PROVE  /\ album' \in [Archives -> {NoDirectory, Bare} \cup AlbumRecord]
         /\ HasAlbum(a)' /\ album'[a].status = s /\ album'[a].items = album[a].items
         /\ \A b \in Archives \ {a} : album'[b] = album[b]
  <1> DEFINE new == [album[a] EXCEPT !.status = s]
  <1>1. album' = [album EXCEPT ![a] = new]
    BY DEF JobsTyped
  <1>2. new \in AlbumRecord /\ new.status = s /\ new.items = album[a].items
    BY DEF AlbumRecord
  <1> HIDE DEF new
  <1>3. new # NoDirectory /\ new # Bare
    BY <1>2 DEF NoDirectory, Bare
  <1>4. QED
    BY <1>1, <1>2, <1>3 DEF JobsTyped, HasAlbum

\* Archive, restore and recover of Jobs begin as those of purges do.
LEMMA BeginJobMutationKeeps ==
  ASSUME IInv, BeginJobMutation
  PROVE  IInv'
  <1> USE DEF BeginJobMutation, history, files
  <1>1. Typed'
    BY DEF IInv, Typed, FilesTyped, JobsTyped, jobVars
  <1>2. Disk'
    BY DiskFrame DEF IInv
  <1>3. Control'
    BY DEF Control, InTransaction, Purge, Swapping, Unswapping, Ending, EndingBack, InArchive
  <1>4. QED
    BY <1>1, <1>2, <1>3 DEF IInv

\* Recovery goes on with an archive or a restore of Jobs.
LEMMA ResumeArchiveKeeps ==
  ASSUME IInv, NEW a \in Archives, ResumeArchive(a)
  PROVE  IInv'
  <1> USE DEF ResumeArchive, At, history, files
  <1>1. Typed'
    BY DEF IInv, Typed, FilesTyped, JobsTyped, jobVars
  <1>2. Disk'
    BY DiskFrame DEF IInv
  <1>3. /\ tx' = a /\ HasAlbum(a)'
        /\ \/ pc' = "moveJobs" /\ album'[a].status = "archiving"
           \/ pc' = "returnJobs" /\ album'[a].status = "restoring"
    BY DEF Unfinished, HasAlbum, jobVars
  <1>4. Control'
    BY <1>3
       DEF Control, InTransaction, Purge, Swapping, Unswapping, Ending, EndingBack, InArchive,
           InArchiveFits, HasAlbum
  <1>5. QED
    BY <1>1, <1>2, <1>4 DEF IInv

\* The plan of an archive makes the Ledger's directory if it is missing.
LEMMA OpenArchiveKeeps ==
  ASSUME IInv, NEW a \in Archives, OpenArchive(a)
  PROVE  IInv'
  <1> USE DEF OpenArchive, ArchivesRecovered, At
  <1> DEFINE g == Contents("ledger")
  <1>1. /\ FilesTyped /\ JobsTyped /\ Disk /\ ArchivesAreWhole /\ StoresAreWritten
        /\ "ledger" \in Kinds
    BY DEF IInv, Typed, Disk, Kinds
  <1>2. g \in SUBSET Records /\ g \subseteq written["ledger"]
    BY <1>1 DEF FilesTyped, Contents, Generations, StoresAreWritten
  <1>3. /\ active' \in [Kinds -> Generations] /\ active'["ledger"] = g
        /\ \A k \in Kinds \ {"ledger"} : active'[k] = active[k]
    BY <1>1, <1>2 DEF FilesTyped, Generations
  <1>4. /\ album' \in [Archives -> {NoDirectory, Bare} \cup AlbumRecord] /\ album'[a] = Bare
        /\ \A b \in Archives \ {a} : album'[b] = album[b]
    BY <1>1 DEF JobsTyped
  <1>5. ArchivesAreWhole'
    <2>1. ~HasAlbum(a) /\ ~HasAlbum(a)'
      BY <1>4 DEF HasAlbum
    <2>2. \A b \in Archives \ {a} : HasAlbum(b)' <=> HasAlbum(b)
      BY <1>4 DEF HasAlbum
    <2>3. \A j \in Jobs : Archived(j) => jobAt[j] # a
      BY <1>1, <2>1 DEF ArchivesAreWhole
    <2>4. QED
      BY <1>1, <1>4, <2>1, <2>2, <2>3 DEF ArchivesAreWhole, Archived
  <1>6. \A t \in Transactions : Pending(t) /\ "ledger" \in Operations(t) =>
          t \in intruded' \/ active["ledger"] = g
    BY DEF Contents
  <1>7. written'["ledger"] = written["ledger"] \cup g /\ intruded \subseteq intruded'
    BY <1>2
  <1> HIDE DEF g
  <1>8. Disk'
    <2>1. \A m \in Messages : <<m, "outcome">> \in g => <<m, "outcome">> \in written["ledger"]
      BY <1>2
    <2>2. Contents("ledger") \subseteq g
      BY DEF g
    <2>3. QED
      BY <1>1, <1>2, <1>3, <1>5, <1>6, <1>7, <2>1, <2>2, GrowKeepsDisk
  <1>9. Typed'
    BY <1>1, <1>3, <1>4 DEF Typed, FilesTyped, JobsTyped
  <1>10. Control'
    BY <1>4
       DEF Control, InTransaction, Purge, Swapping, Unswapping, Ending, EndingBack, InArchive,
           InArchiveFits
  <1>11. QED
    BY <1>8, <1>9, <1>10 DEF IInv

\* The manifest of an archive lists its Jobs before any of them is moved.
LEMMA WriteAlbumKeeps ==
  ASSUME IInv, NEW items \in SUBSET Eligible, WriteAlbum(items)
  PROVE  IInv'
  <1> USE DEF WriteAlbum, At, history
  <1>1. /\ Typed /\ Disk /\ ArchivesAreWhole /\ JobsTyped /\ tx \in Archives /\ album[tx] = Bare
    BY AtArchive DEF InArchive
  <1> DEFINE new == [status |-> "archiving", items |-> items]
  <1>2. new \in AlbumRecord /\ new.status = "archiving" /\ new.items = items
    BY DEF AlbumRecord, Eligible
  <1>3. album' = [album EXCEPT ![tx] = new]
    OBVIOUS
  <1> HIDE DEF new
  <1>4. new # NoDirectory /\ new # Bare
    BY <1>2 DEF NoDirectory, Bare
  <1>5. /\ album' \in [Archives -> {NoDirectory, Bare} \cup AlbumRecord] /\ album'[tx] = new
        /\ \A b \in Archives \ {tx} : album'[b] = album[b]
    BY <1>1, <1>2, <1>3 DEF JobsTyped
  <1>6. ~HasAlbum(tx) /\ HasAlbum(tx)' /\ \A b \in Archives \ {tx} : HasAlbum(b)' <=> HasAlbum(b)
    BY <1>1, <1>4, <1>5 DEF HasAlbum
  <1>7. ArchivesAreWhole'
    <2>1. \A j \in Jobs : Archived(j) => jobAt[j] # tx
      BY <1>1, <1>6 DEF ArchivesAreWhole
    <2>2. QED
      BY <1>1, <1>2, <1>5, <1>6, <2>1 DEF ArchivesAreWhole, Archived
  <1>8. Disk'
    BY <1>1, <1>7, JobsFrame
  <1>9. Typed'
    BY <1>1, <1>5 DEF Typed, FilesTyped, JobsTyped, files
  <1>10. Control'
    BY <1>1, <1>2, <1>5, <1>6
       DEF Control, InTransaction, Purge, Swapping, Unswapping, Ending, EndingBack, InArchive,
           InArchiveFits
  <1>11. QED
    BY <1>8, <1>9, <1>10 DEF IInv

\* A Job moves between the active directory and an archive that lists it.
LEMMA MoveJobKeeps ==
  ASSUME IInv, NEW j \in Jobs, MoveJob(j)
  PROVE  IInv'
  <1>1. /\ lock = "held" /\ pc \in {"moveJobs", "returnJobs"} /\ j \in album[tx].items
        /\ \/ pc = "moveJobs" /\ jobAt[j] = "active" /\ jobAt' = [jobAt EXCEPT ![j] = tx]
           \/ pc = "returnJobs" /\ jobAt[j] = tx /\ jobAt' = [jobAt EXCEPT ![j] = "active"]
        /\ UNCHANGED <<lock, pc, tx, todo, selected, files, written, intruded, ended, album, slip>>
    BY DEF MoveJob, At, mutator, history
  <1>2. /\ Typed /\ Disk /\ ArchivesAreWhole /\ JobsTyped /\ tx \in Archives /\ InArchiveFits
        /\ HasAlbum(tx)
    BY <1>1, AtArchive DEF InArchive
  <1>3. /\ jobAt' \in [Jobs -> {"none", "active"} \cup Archives]
        /\ \A i \in Jobs \ {j} : jobAt'[i] = jobAt[i]
        /\ \/ pc = "moveJobs" /\ jobAt[j] = "active" /\ jobAt'[j] = tx
           \/ pc = "returnJobs" /\ jobAt[j] = tx /\ jobAt'[j] = "active"
        /\ "active" \notin Archives /\ tx # "none"
    BY <1>1, <1>2, JobAssumption DEF JobsTyped
  <1>4. \A a \in Archives : HasAlbum(a)' <=> HasAlbum(a)
    BY <1>1 DEF HasAlbum
  <1>5. ArchivesAreWhole'
    <2>1. \A i \in Jobs : Archived(i)' => HasAlbum(jobAt'[i]) /\ i \in album[jobAt'[i]].items
      BY <1>1, <1>2, <1>3 DEF ArchivesAreWhole, Archived
    <2>2. ASSUME NEW a \in Archives, HasAlbum(a)
          PROVE  /\ album[a].status = "committed" =>
                      a \in slip /\ \A i \in album[a].items : jobAt'[i] = a
                 /\ album[a].status = "restored" => \A i \in album[a].items : jobAt'[i] # a
      <3>1. album[a].items \subseteq Jobs
        BY <1>2, <2>2 DEF JobsTyped, HasAlbum, AlbumRecord
      <3>2. CASE pc = "moveJobs"
        <4>1. album[tx].status = "archiving"
          BY <1>2, <3>2 DEF InArchiveFits
        <4>2. QED
          BY <1>2, <1>3, <2>2, <3>1, <3>2, <4>1 DEF ArchivesAreWhole
      <3>3. CASE pc = "returnJobs"
        <4>1. album[tx].status = "restoring"
          BY <1>2, <3>3 DEF InArchiveFits
        <4>2. QED
          BY <1>2, <1>3, <2>2, <3>1, <3>3, <4>1 DEF ArchivesAreWhole
      <3>4. QED
        BY <1>1, <3>2, <3>3
    <2>3. QED
      BY <1>1, <1>3, <1>4, <2>1, <2>2 DEF ArchivesAreWhole, Archived
  <1>6. \A i \in Jobs : jobAt'[i] # "none" => jobAt[i] # "none"
    BY <1>2, <1>3
  <1>7. Disk'
    BY <1>1, <1>2, <1>5, <1>6, JobsFrame
  <1>8. Typed'
    BY <1>1, <1>2, <1>3 DEF Typed, FilesTyped, JobsTyped, files
  <1>9. Control'
    BY <1>1, <1>2, <1>4
       DEF Control, InTransaction, Purge, Swapping, Unswapping, Ending, EndingBack, InArchive,
           InArchiveFits
  <1>10. QED
    BY <1>7, <1>8, <1>9 DEF IInv

\* The terminal receipt follows the last Job.
LEMMA WriteSlipKeeps ==
  ASSUME IInv, WriteSlip
  PROVE  IInv'
  <1> USE DEF WriteSlip, At, history
  <1>1. /\ Typed /\ Disk /\ ArchivesAreWhole /\ JobsTyped /\ tx \in Archives /\ InArchiveFits
        /\ HasAlbum(tx)
    BY AtArchive DEF InArchive
  <1>2. ArchivesAreWhole'
    BY <1>1 DEF ArchivesAreWhole, Archived, HasAlbum
  <1>3. Disk'
    BY <1>1, <1>2, JobsFrame
  <1>4. Typed'
    BY <1>1 DEF Typed, FilesTyped, JobsTyped, files
  <1>5. Control'
    BY <1>1
       DEF Control, InTransaction, Purge, Swapping, Unswapping, Ending, EndingBack, InArchive,
           InArchiveFits, HasAlbum
  <1>6. QED
    BY <1>3, <1>4, <1>5 DEF IInv

\* An archive that is done holds all of its Jobs, one that is restored none.
LEMMA CommitJobsKeeps ==
  ASSUME IInv, CommitJobs
  PROVE  IInv'
  <1>1. /\ lock = "held"
        /\ \/ pc = "commitJobs" /\ album' = [album EXCEPT ![tx].status = "committed"]
           \/ /\ pc = "returnJobs" /\ \A j \in album[tx].items : jobAt[j] = "active"
              /\ album' = [album EXCEPT ![tx].status = "restored"]
        /\ UNCHANGED <<files, written, intruded, jobAt, ended, slip>>
    BY DEF CommitJobs, At, history
  <1>2. \/ pc' = "visitJobs" /\ UNCHANGED <<lock, selected>>
        \/ Leave("free")
    BY DEF CommitJobs
  <1>3. /\ Typed /\ Disk /\ ArchivesAreWhole /\ JobsTyped /\ tx \in Archives /\ InArchiveFits
        /\ HasAlbum(tx) /\ album[tx] \in AlbumRecord
    BY <1>1, AtArchive DEF InArchive
  <1>4. PICK s \in {"committed", "restored"} :
          /\ album' = [album EXCEPT ![tx].status = s]
          /\ pc = "commitJobs" <=> s = "committed"
    BY <1>1
  <1>5. PICK a \in Archives : a = tx
    BY <1>3
  <1>6. /\ album' \in [Archives -> {NoDirectory, Bare} \cup AlbumRecord]
        /\ HasAlbum(a)' /\ album'[a].status = s /\ album'[a].items = album[a].items
        /\ \A b \in Archives \ {a} : album'[b] = album[b]
    BY <1>3, <1>4, <1>5, AlbumWritten
  <1>7. \A b \in Archives : HasAlbum(b)' <=> HasAlbum(b)
    BY <1>3, <1>5, <1>6 DEF HasAlbum
  <1>8. ArchivesAreWhole'
    <2>1. \A j \in Jobs : Archived(j)' => HasAlbum(jobAt[j])' /\ j \in album'[jobAt[j]].items
      <3>1. \A b \in Archives : album'[b].items = album[b].items \/ ~HasAlbum(b)
        BY <1>5, <1>6
      <3>2. QED
        BY <1>1, <1>3, <1>7, <3>1 DEF ArchivesAreWhole, Archived, HasAlbum
    <2>2. s = "committed" => a \in slip /\ \A j \in album[a].items : jobAt[j] = a
      BY <1>3, <1>4, <1>5 DEF InArchiveFits
    <2>3. s = "restored" => \A j \in album[a].items : jobAt[j] # a
      BY <1>1, <1>4, <1>5, JobAssumption
    <2>4. ASSUME NEW b \in Archives, HasAlbum(b)
          PROVE  /\ album'[b].status = "committed" =>
                      b \in slip /\ \A j \in album'[b].items : jobAt[j] = b
                 /\ album'[b].status = "restored" => \A j \in album'[b].items : jobAt[j] # b
      BY <1>3, <1>6, <2>2, <2>3, <2>4 DEF ArchivesAreWhole
    <2>5. QED
      BY <1>1, <1>7, <2>1, <2>4 DEF ArchivesAreWhole
  <1>9. Disk'
    BY <1>1, <1>3, <1>8, JobsFrame
  <1>10. Typed'
    BY <1>1, <1>2, <1>3, <1>6 DEF Typed, FilesTyped, JobsTyped, files, Leave, NoPlan
  <1>11. Control'
    BY <1>1, <1>2
       DEF Control, InTransaction, Purge, Swapping, Unswapping, Ending, EndingBack, InArchive,
           Leave
  <1>12. QED
    BY <1>9, <1>10, <1>11 DEF IInv

\* A restore of Jobs begins with an archive that is whole.
LEMMA StartJobRestoreKeeps ==
  ASSUME IInv, NEW a \in Archives, StartJobRestore(a)
  PROVE  IInv'
  <1> USE DEF StartJobRestore, JobsRestorable, ArchivesRecovered, At, history
  <1>1. /\ Typed /\ Disk /\ ArchivesAreWhole /\ JobsTyped
        /\ HasAlbum(a) /\ album[a] \in AlbumRecord
    BY DEF IInv, Typed, Disk, JobsTyped, HasAlbum
  <1>2. /\ album' \in [Archives -> {NoDirectory, Bare} \cup AlbumRecord]
        /\ HasAlbum(a)' /\ album'[a].status = "restoring" /\ album'[a].items = album[a].items
        /\ \A b \in Archives \ {a} : album'[b] = album[b]
    BY <1>1, AlbumWritten
  <1>3. \A b \in Archives : HasAlbum(b)' <=> HasAlbum(b)
    BY <1>1, <1>2 DEF HasAlbum
  <1>4. ArchivesAreWhole'
    BY <1>1, <1>2, <1>3 DEF ArchivesAreWhole, Archived, HasAlbum
  <1>5. Disk'
    BY <1>1, <1>4, JobsFrame
  <1>6. Typed'
    BY <1>1, <1>2 DEF Typed, FilesTyped, JobsTyped, files
  <1>7. Control'
    BY <1>2
       DEF Control, InTransaction, Purge, Swapping, Unswapping, Ending, EndingBack, InArchive,
           InArchiveFits, HasAlbum
  <1>8. QED
    BY <1>5, <1>6, <1>7 DEF IInv

\* The body of a new Job is new, so that no purge under way has selected it.
LEMMA CreateJobKeeps ==
  ASSUME IInv, NEW j \in Jobs, CreateJob(j)
  PROVE  IInv'
  <1> DEFINE g == Contents("bodies") \cup {<<TaskBody[j], "record">>}
  <1>1. /\ lock = "free" /\ jobAt[j] = "none" /\ <<TaskBody[j], "record">> \notin written["bodies"]
        /\ SetStore("bodies", g) /\ jobAt' = [jobAt EXCEPT ![j] = "active"]
        /\ UNCHANGED <<ended, album, slip>>
    BY DEF CreateJob
  <1>2. FilesTyped /\ JobsTyped /\ ArchivesAreWhole
    BY DEF IInv, Typed, Disk
  <1>3. g \in SUBSET Records /\ "bodies" \in Kinds /\ Contents("bodies") \subseteq g
        /\ <<TaskBody[j], "record">> \in g
    BY <1>2, JobAssumption DEF FilesTyped, Contents, Generations, Kinds, Records
  <1> HIDE DEF g
  <1>4. /\ jobAt' \in [Jobs -> {"none", "active"} \cup Archives] /\ jobAt'[j] = "active"
        /\ \A i \in Jobs \ {j} : jobAt'[i] = jobAt[i]
        /\ "active" \notin Archives /\ "none" \notin Archives
    BY <1>1, <1>2, JobAssumption DEF JobsTyped
  <1>5. JobsTyped'
    BY <1>1, <1>2, <1>4 DEF JobsTyped
  <1>6. ArchivesAreWhole'
    <2>1. \A a \in Archives : HasAlbum(a)' <=> HasAlbum(a)
      BY <1>1 DEF HasAlbum
    <2>2. \A i \in Jobs : Archived(i)' => HasAlbum(jobAt'[i]) /\ i \in album[jobAt'[i]].items
      BY <1>2, <1>4 DEF ArchivesAreWhole, Archived
    <2>3. ASSUME NEW a \in Archives, HasAlbum(a)
          PROVE  /\ album[a].status = "committed" =>
                      a \in slip /\ \A i \in album[a].items : jobAt'[i] = a
                 /\ album[a].status = "restored" => \A i \in album[a].items : jobAt'[i] # a
      <3>1. album[a].items \subseteq Jobs
        BY <1>2, <2>3 DEF JobsTyped, HasAlbum, AlbumRecord
      <3>2. QED
        BY <1>1, <1>2, <1>4, <2>3, <3>1 DEF ArchivesAreWhole
    <2>4. QED
      BY <1>1, <1>4, <2>1, <2>2, <2>3 DEF ArchivesAreWhole, Archived
  <1>7. QED
    BY <1>1, <1>3, <1>4, <1>5, <1>6, SetStoreKeeps

\* A Job that ends stays where it is.
LEMMA EndJobKeeps ==
  ASSUME IInv, NEW j \in Jobs, EndJob(j)
  PROVE  IInv'
  <1> USE DEF EndJob, mutator, history, files
  <1>1. Typed'
    BY DEF IInv, Typed, FilesTyped, JobsTyped
  <1>2. ArchivesAreWhole'
    BY DEF IInv, Disk, ArchivesAreWhole, Archived, HasAlbum
  <1>3. Disk'
    BY <1>2, JobsFrame DEF IInv
  <1>4. Control'
    BY DEF Control
  <1>5. QED
    BY <1>1, <1>3, <1>4 DEF IInv

-----------------------------------------------------------------------------
(* The invariant                                                           *)

\* It holds of empty directories.
LEMMA InitIsFine == JobInit => IInv
  <1> SUFFICES ASSUME JobInit PROVE IInv
    OBVIOUS
  <1> USE DEF JobInit, Init
  <1>1. /\ \A t \in Transactions : manifest[t] = NoDirectory /\ ~HasManifest(t) /\ ~Unsettled(t)
        /\ \A t \in Transactions : ~Pending(t) /\ ~Held(t) /\ \A k \in Kinds : place[t][k] = NoFiles
    BY DEF HasManifest, Unsettled, Pending, Purging, Restoring, Held
  <1>2. Typed
    <2>1. NoPlan \in [Kinds -> SUBSET Messages] /\ NoFiles \in PlaceRecord
      BY DEF NoPlan, NoFiles, PlaceRecord, Generations
    <2>2. QED
      BY <2>1 DEF Typed, FilesTyped, JobsTyped, Generations
  <1>3. \A k \in Kinds : Contents(k) = {} /\ written[k] = {}
    BY DEF Contents
  <1>4. OneUnsettled /\ DirectoriesAreSound /\ PendingAreIntact /\ PurgesSpareBodies
    BY <1>1 DEF OneUnsettled, DirectoriesAreSound, PendingAreIntact, PurgesSpareBodies, Spares
  <1>5. StoresAreWritten /\ RecordsAreKept /\ GoneOrMoving /\ BodiesAreSafe
    BY <1>3 DEF StoresAreWritten, RecordsAreKept, GoneOrMoving, BodiesAreSafe, Kinds
  <1>6. BackupsAreChained
    <2>1. DOMAIN Backups = {} /\ head = NoTransaction
      BY <1>1 DEF Backups
    <2> DEFINE empty == [i \in 1..0 |-> CHOOSE t \in Transactions : TRUE]
    <2>2. empty \in [1..0 -> Transactions]
      OBVIOUS
    <2>3. ChainOf(0, empty, Backups, head)
      BY <2>1 DEF ChainOf
    <2>4. QED
      BY <1>1, <2>2, <2>3 DEF BackupsAreChained, Chained
  <1>7. ArchivesAreWhole
    <2>1. \A a \in Archives : ~HasAlbum(a)
      BY DEF HasAlbum
    <2>2. \A j \in Jobs : ~Archived(j)
      BY JobAssumption DEF Archived
    <2>3. QED
      BY <2>1, <2>2 DEF ArchivesAreWhole
  <1>8. Control
    BY DEF Control
  <1>9. QED
    BY <1>2, <1>4, <1>5, <1>6, <1>7, <1>8 DEF IInv, Disk

\* The steps that end a mutation before its time, or find nothing to do.
LEMMA EndingsKeep ==
  ASSUME IInv,
         \/ (EndRecovery \/ ReapLock \/ RefuseTombstones \/ Crash \/ Fail) /\ UNCHANGED jobVars
         \/ (\E t \in Transactions : RefuseRecovery(t)) /\ UNCHANGED jobVars
         \/ EndJobRecovery \/ \E a \in Archives : RefuseArchive(a)
  PROVE  IInv'
  <1>1. CASE Leave("free") /\ UNCHANGED <<files, written, intruded, jobVars>>
    BY <1>1, LeaveKeeps
  <1>2. CASE Leave("dead") /\ UNCHANGED <<files, written, intruded, jobVars>>
    BY <1>2, LeaveKeeps
  <1>3. QED
    BY <1>1, <1>2
       DEF EndRecovery, ReapLock, RefuseTombstones, Crash, Fail, RefuseRecovery, EndJobRecovery,
           RefuseArchive, history

\* Purges, restores and their recovery, and the writers.
LEMMA RetentionStepKeeps ==
  ASSUME IInv, RetentionStep
  PROVE  IInv'
  <1>1. UNCHANGED jobVars
    BY DEF RetentionStep
  <1>2. CASE BeginMutation
    BY <1>1, <1>2, BeginMutationKeeps
  <1>3. CASE RecoveryStep
    <2>1. ASSUME NEW t \in Transactions, Resume(t)
          PROVE  IInv'
      BY <1>1, <2>1, ResumeKeeps
    <2>2. ASSUME NEW t \in Transactions, Abandon(t)
          PROVE  IInv'
      BY <1>1, <2>2, AbandonKeeps
    <2>3. CASE EndRecovery \/ ReapLock \/ \E t \in Transactions : RefuseRecovery(t)
      BY <1>1, <2>3, EndingsKeep
    <2>4. QED
      BY <1>3, <2>1, <2>2, <2>3 DEF RecoveryStep
  <1>4. CASE PurgeStep
    <2>1. CASE WriteManifest
      BY <1>1, <2>1, WriteManifestKeeps
    <2>2. CASE Stage
      BY <1>1, <2>2, StageKeeps
    <2>3. CASE BeginTombstones
      BY <1>1, <2>3, BeginTombstonesKeeps
    <2>4. ASSUME NEW m \in Messages, WriteTombstone(m)
          PROVE  IInv'
      BY <1>1, <2>4, WriteTombstoneKeeps
    <2>5. CASE RefuseTombstones
      BY <1>1, <2>5, EndingsKeep
    <2>6. CASE TombstonesDone
      BY <1>1, <2>6, TombstonesDoneKeeps
    <2>7. QED
      BY <1>4, <2>1, <2>2, <2>3, <2>4, <2>5, <2>6 DEF PurgeStep
  <1>5. CASE SwapStep
    <2>1. CASE StartSwap
      BY <1>1, <2>1, StartSwapKeeps
    <2>2. CASE SwapOut
      BY <1>1, <2>2, SwapOutKeeps
    <2>3. CASE SwapIn
      BY <1>1, <2>3, SwapInKeeps
    <2>4. CASE UnswapOut
      BY <1>1, <2>4, UnswapOutKeeps
    <2>5. CASE UnswapIn
      BY <1>1, <2>5, UnswapInKeeps
    <2>6. CASE NoteSwap
      BY <1>1, <2>6, NoteSwapKeeps
    <2>7. CASE StartIndex
      BY <1>1, <2>7, StartIndexKeeps
    <2>8. CASE WriteReceipt
      BY <1>1, <2>8, WriteReceiptKeeps
    <2>9. CASE WriteHead
      BY <1>1, <2>9, WriteHeadKeeps
    <2>10. CASE Commit
      BY <1>1, <2>10, CommitKeeps
    <2>11. QED
      BY <1>5, <2>1, <2>2, <2>3, <2>4, <2>5, <2>6, <2>7, <2>8, <2>9, <2>10 DEF SwapStep
  <1>6. ASSUME NEW t \in Transactions, OpenPurge(t)
        PROVE  IInv'
    BY <1>1, <1>6, OpenPurgeKeeps
  <1>7. ASSUME NEW t \in Transactions, StartRestore(t)
        PROVE  IInv'
    BY <1>1, <1>7, StartRestoreKeeps
  <1>8. CASE Crash \/ Fail
    BY <1>1, <1>8, EndingsKeep
  <1>9. CASE WriterNext
    BY <1>1, <1>9, WriterKeeps
  <1>10. QED
    BY <1>2, <1>3, <1>4, <1>5, <1>6, <1>7, <1>8, <1>9 DEF RetentionStep

\* Jobs, their archives and restores.
LEMMA ArchiveStepKeeps ==
  ASSUME IInv, ArchiveStep
  PROVE  IInv'
  <1>1. CASE BeginJobMutation
    BY <1>1, BeginJobMutationKeeps
  <1>2. CASE EndJobRecovery
    BY <1>2, EndingsKeep
  <1>3. CASE WriteSlip
    BY <1>3, WriteSlipKeeps
  <1>4. CASE CommitJobs
    BY <1>4, CommitJobsKeeps
  <1>5. ASSUME NEW a \in Archives, ResumeArchive(a)
        PROVE  IInv'
    BY <1>5, ResumeArchiveKeeps
  <1>6. CASE \E a \in Archives : RefuseArchive(a)
    BY <1>6, EndingsKeep
  <1>7. ASSUME NEW a \in Archives, OpenArchive(a)
        PROVE  IInv'
    BY <1>7, OpenArchiveKeeps
  <1>8. ASSUME NEW a \in Archives, StartJobRestore(a)
        PROVE  IInv'
    BY <1>8, StartJobRestoreKeeps
  <1>9. ASSUME NEW items \in SUBSET Eligible, WriteAlbum(items)
        PROVE  IInv'
    BY <1>9, WriteAlbumKeeps
  <1>10. ASSUME NEW j \in Jobs, MoveJob(j)
         PROVE  IInv'
    BY <1>10, MoveJobKeeps
  <1>11. ASSUME NEW j \in Jobs, CreateJob(j)
         PROVE  IInv'
    BY <1>11, CreateJobKeeps
  <1>12. ASSUME NEW j \in Jobs, EndJob(j)
         PROVE  IInv'
    BY <1>12, EndJobKeeps
  <1>13. QED
    BY <1>1, <1>2, <1>3, <1>4, <1>5, <1>6, <1>7, <1>8, <1>9, <1>10, <1>11, <1>12
       DEF ArchiveStep

\* What holds whoever does nothing.
LEMMA StutterKeeps ==
  ASSUME IInv, UNCHANGED allVars
  PROVE  IInv'
  <1> USE DEF allVars, vars, mutator, files, history, jobVars
  <1>1. Typed'
    BY DEF IInv, Typed, FilesTyped, JobsTyped
  <1>2. Disk'
    BY DiskFrame DEF IInv
  <1>3. Control'
    <2> SUFFICES ASSUME lock = "held"
                 PROVE  /\ pc = "visit" => todo = {t \in Transactions : Unsettled(t)'}
                        /\ pc \in InTransaction => InTransactionFits'
                        /\ pc \in InArchive => InArchiveFits'
      BY DEF Control, InTransaction, Purge, Swapping, Unswapping, Ending, EndingBack, InArchive
    <2>1. \A t \in Transactions : Unsettled(t)' <=> Unsettled(t)
      BY DEF Unsettled, Settled, HasManifest, Pending, Purging, Restoring
    <2>2. pc \in InTransaction => InTransactionFits'
      <3> SUFFICES ASSUME pc \in InTransaction PROVE InTransactionFits'
        OBVIOUS
      <3>1. InTransactionFits
        BY DEF IInv, Control
      <3>2. StatusFits'
        BY <3>1, Unmoved
           DEF InTransactionFits, StatusFits, Swapping, Ending, Purge, Unswapping, EndingBack
      <3>3. StatesFit'
        <4>1. Left' = Left /\ Cursor' = Cursor /\ CursorState' = CursorState
          BY DEF Left, Cursor, CursorState, Operations
        <4>2. \A k : InferredState(tx, k)' = InferredState(tx, k)
          BY DEF InferredState, PurgeState, RestoreState, Restoring, HasManifest
        <4>3. \A from, to : Ahead(from, to)' <=> Ahead(from, to)
          BY <4>1, <4>2 DEF Ahead, Operations, Recorded
        <4>4. QED
          BY <3>1, <4>2, <4>3
             DEF InTransactionFits, StatesFit, Ending, EndingBack, Recorded, Operations
      <3>4. Plan' <=> Plan
        BY DEF Plan, In, Finished, InLedger
      <3>5. QED
        BY <2>1, <3>1, <3>2, <3>3, <3>4, Unmoved DEF InTransactionFits
    <2>3. pc \in InArchive => InArchiveFits'
      BY DEF IInv, Control, InArchiveFits, HasAlbum
    <2>4. QED
      BY <2>1, <2>2, <2>3 DEF IInv, Control
  <1>4. QED
    BY <1>1, <1>2, <1>3 DEF IInv

\* The invariant of the whole, from which the properties follow.
THEOREM RetentionIsInvariant == JobSpec => []IInv
  <1>1. JobInit => IInv
    BY InitIsFine
  <1>2. IInv /\ [JobNext]_allVars => IInv'
    BY RetentionStepKeeps, ArchiveStepKeeps, StutterKeeps DEF JobNext
  <1>3. QED
    BY <1>1, <1>2, PTL DEF JobSpec

-----------------------------------------------------------------------------
(* Properties                                                              *)

\* No record vanishes, however a purge, a restore or their recovery is cut
\* short: what was ever appended is in its store or in a directory of a
\* transaction, and what writers miss in the Ledger has its Tombstone.
THEOREM RetentionLosesNothing == JobSpec => []NothingVanishes
  <1>1. IInv => NothingVanishes
    <2> SUFFICES ASSUME IInv PROVE NothingVanishes
      OBVIOUS
    <2>1. FilesTyped /\ RecordsAreKept /\ GoneOrMoving
      BY DEF IInv, Typed, Disk
    <2>2. RetentionTypeOK
      <3>1. ASSUME NEW t \in Transactions
            PROVE  ManifestOK(manifest[t])
        <4>1. CASE manifest[t] \in {NoDirectory, Bare}
          BY <4>1 DEF ManifestOK
        <4>2. CASE manifest[t] \in ManifestRecord
          BY <4>2, ManifestFields DEF ManifestOK, Status, RestoreStatus
        <4>3. QED
          BY <2>1, <4>1, <4>2 DEF FilesTyped
      <3>2. QED
        BY <2>1, <3>1 DEF RetentionTypeOK, FilesTyped, PlaceRecord
    <2>3. NothingLost
      BY <2>1 DEF RecordsAreKept, NothingLost, Keeps
    <2>4. GoneIsTombstoned
      BY <2>1 DEF GoneOrMoving, Moves, GoneIsTombstoned, Quiet
    <2>5. QED
      BY <2>2, <2>3, <2>4 DEF NothingVanishes
  <1>2. QED
    BY <1>1, RetentionIsInvariant, PTL

\* Whenever nobody is at work, recovery can finish what is pending, unless a
\* store was written in between or the plan took a message that no Tombstone
\* can be made for.
THEOREM RetentionRollsForward == JobSpec => []RollsForwardUnlessSpoiled
  <1>1. IInv => RollsForwardUnlessSpoiled
    <2> SUFFICES ASSUME IInv, NEW t \in Transactions, Pending(t), t \notin intruded,
                        \A m \in SelectedIn(t, "ledger") : Outcome[m] \notin {"denied", "claimed"}
                 PROVE  Recoverable(t)
      BY DEF RollsForwardUnlessSpoiled
    <2>1. /\ manifest[t] \in ManifestRecord /\ HasManifest(t) /\ ManifestIsSound(t)
          /\ \A k \in Operations(t) : InferredState(t, k) # "lost"
      BY ManifestTyped DEF IInv, Typed, Disk, DirectoriesAreSound, PendingAreIntact
    <2>2. ASSUME ~manifest[t].tombstonesComplete, NEW m \in SelectedIn(t, "ledger")
          PROVE  TombstoneFits(t, m)
      <3>1. /\ "ledger" \in Operations(t) /\ m \in manifest[t].ops["ledger"].ids
            /\ "ledger" \in Kinds
        BY <2>2 DEF SelectedIn, Kinds
      <3>2. ~Restoring(t) /\ place[t]["ledger"].backup = Absent
        BY <2>1, <2>2, <3>1 DEF Restoring, ManifestIsSound
      <3>3. manifest[t].ops["ledger"] \in Operation /\ OperationIsSound(t, "ledger")
        BY <2>1, <3>1, ManifestFields DEF Operations, ManifestIsSound
      <3>4. manifest[t].ops["ledger"].before # Absent
        BY <3>1, <3>3, GenerationsDiffer
      <3>5. active["ledger"] = manifest[t].ops["ledger"].before
        BY <2>1, <3>1, <3>2, <3>4 DEF InferredState, PurgeState
      <3>6. InLedger(m)
        BY <3>1, <3>3, <3>4, <3>5 DEF InLedger, OperationIsSound
      <3>7. \/ Outcome[m] = "settled" /\ <<m, "outcome">> \in active["ledger"]
            \/ Outcome[m] = "quarantined" /\ m \in SelectedIn(t, "quarantine")
        BY <2>1, <2>2, <3>1, <3>5 DEF ManifestIsSound, SelectionFits
      <3>8. QED
        BY <3>6, <3>7 DEF TombstoneFits, Finished
    <2>3. QED
      BY <2>1, <2>2 DEF Recoverable, TombstonesFit
  <1>2. QED
    BY <1>1, RetentionIsInvariant, PTL

\* The backups that were not restored are in the order of a chain with the head
\* last, with their receipts, and an archive of Jobs is whole.
THEOREM RetentionBackupsAreWhole == JobSpec => []BackupsAreWhole
  <1>1. IInv => BackupsAreWhole
    <2> SUFFICES ASSUME IInv, Quiet PROVE HeadIsLast
      BY DEF BackupsAreWhole, IInv, Disk, HeadIsLast
    <2>1. Chained(Backups, head)
      BY DEF IInv, Disk, BackupsAreChained, Quiet
    <2>2. /\ DOMAIN Backups = {t \in Transactions : Held(t)}
          /\ \A t \in Transactions : Held(t) => Backups[t] = manifest[t].previousHead
      BY DEF Backups, Previous
    <2>3. /\ DOMAIN Backups # {} => head # NoTransaction
          /\ head # NoTransaction => head \in DOMAIN Backups
          /\ \A t \in DOMAIN Backups : t = head \/ \E u \in DOMAIN Backups : Backups[u] = t
          /\ \A t, u \in DOMAIN Backups : t # u => Backups[t] # Backups[u]
      BY <2>1, ChainFacts
    <2>4. \A t \in Transactions : Held(t) => manifest[t].receipt = receipt[t] /\ receipt[t] > 0
      BY DEF IInv, Disk, DirectoriesAreSound, ManifestIsSound, Held
    <2>5. QED
      BY <2>2, <2>3, <2>4 DEF HeadIsLast
  <1>2. QED
    BY <1>1, RetentionIsInvariant, PTL

\* A Job keeps the body of its task, archived or not, through all purges and
\* restores.
THEOREM RetentionKeepsTaskBodies == JobSpec => []JobsKeepTheirBodies
  <1>1. IInv => JobsKeepTheirBodies
    BY DEF IInv, Disk, BodiesAreSafe, Leaves, JobsKeepTheirBodies, Quiet
  <1>2. QED
    BY <1>1, RetentionIsInvariant, PTL

-----------------------------------------------------------------------------
(* The invariant of Direct Conversations                                   *)

SenderRecord ==
  [step : SenderSteps, sent : Nat, at : Nat, place : {Nowhere} \cup (Pairs \X Nat)]

DirectTypes ==
  /\ direct \in [Pairs -> DirectRecord \cup {None}]
  /\ source \in [DirectMessage -> {None, Nowhere} \cup (Pairs \X Nat)]
  /\ sender \in [DirectMessage -> SenderRecord]
  /\ clock \in 0..MaxTime
  /\ faults \in Nat
  /\ summary = [c \in Pairs \cup {TheGroup} |-> summary[c]]

\* The record r of the Conversation c; it names each Node that c ever had.
ValidRecord(r, c) ==
  LET ever == c \cup Range(r.migrations) IN
  /\ Once(r)
  /\ Cardinality(r.members) = 2 /\ r.members \subseteq ever
  /\ r.created <= clock
  /\ \A i \in DOMAIN r.messages :
       /\ {From[r.messages[i].id], To[r.messages[i].id]} \subseteq ever
       /\ r.messages[i].at \in r.created..clock

RecordFits(c) == ValidRecord(direct[c], c)

\* No message is in two records.
Apart ==
  \A c, d \in Conversations :
    \A i \in DOMAIN direct[c].messages, j \in DOMAIN direct[d].messages :
      direct[c].messages[i].id = direct[d].messages[j].id => c = d

\* How far the sender of m is, with what it knows.
SenderFits(m) ==
  LET s == sender[m] IN
  /\ s.at <= clock
  /\ s.place \in {Nowhere} \cup Places(m)
  /\ source[m] \in {None, Nowhere} \cup Places(m)
  /\ s.sent <= 1 /\ (s.sent = 1 => source[m] # None)
  /\ s.step = "committed" => s.sent = 0 /\ source[m] # None
  /\ s.step \in {"committed", "again"} => s.place # Nowhere
  /\ m \notin JobMessage /\ s.step \in {"begun", "recorded"} => source[m] = None

\* A message without its source is the sender's to commit, or a fault left it, or a Job
\* without a place is in its way.
PlaceFits(m) ==
  \A p \in Places(m) :
    \/ source[m] \in {p, Nowhere} \/ p[1] \in unlisted
    \/ sender[m].step = "recorded" /\ sender[m].place = p

\* The sender of m will refresh the summary of c.
Owes(m, c) ==
  /\ sender[m].place # Nowhere /\ sender[m].place[1] = c
  /\ \/ sender[m].step = "committed"
     \/ sender[m].step = "recorded" /\ source[m] = None

SummaryFits(c) ==
  \/ c \in unlisted \/ direct[c].messages = <<>>
  \/ \E m \in DirectMessage : Owes(m, c)
  \/ SummaryMatches(c, Version(direct[c])) \/ HiddenByOrphan(c)

DirectInv ==
  /\ DirectTypes /\ Apart /\ UniquePairs
  /\ \A c \in Conversations : RecordFits(c) /\ SummaryFits(c)
  /\ \A m \in DirectMessage : SenderFits(m) /\ PlaceFits(m)

-----------------------------------------------------------------------------
(* The invariant of the Group and its inboxes                              *)

GroupTypes ==
  /\ group \in GroupRecord \cup {None}
  /\ ledger \in [GroupMessage ->
                   [recipients : SUBSET Node, admitted : SUBSET Node] \cup {None}]
  /\ group # None => group.snapshots # <<>>

\* A message of the Group, at i.
MessageFits(i) ==
  LET x == group.messages[i] IN
  /\ x.hop <= MaxHops
  /\ x.version \in DOMAIN group.snapshots
  /\ x.recipients = group.snapshots[x.version] \ {GroupFrom[x.id]}
  /\ ledger[x.id] # None => ledger[x.id].recipients = x.recipients

GroupFits ==
  /\ Once(group)
  /\ \A v \in DOMAIN group.snapshots : Cardinality(group.snapshots[v]) >= MinMembers
  /\ \A i \in DOMAIN group.messages : MessageFits(i)
  /\ \A i \in DOMAIN group.messages :
       i > 1 => group.messages[i].at >= group.messages[i - 1].at

GroupSummaryFits ==
  \/ TheGroup \in unlisted
  \/ /\ SummaryMatches(TheGroup, GroupVersion(group))
     /\ group.messages # <<>> => ledger[Last(group.messages).id] # None

\* What the Ledger has is in the record.
LedgerFits == \A m \in GroupMessage : ledger[m] # None => group # None /\ IsRecorded(m)

GroupInv ==
  /\ GroupTypes /\ LedgerFits
  /\ group # None => GroupFits /\ GroupSummaryFits

Sequences == IF group = None THEN {} ELSE DOMAIN group.messages

InboxTypes ==
  /\ cursor \in [Reader -> Nat]
  /\ intent \in [Reader -> {None} \cup [limit : Limits, requested : Nat]]
  /\ turn \in [Starter -> {None} \cup
       [node : Reader, requested : Nat, digest : SUBSET Nat, accepted : BOOLEAN]]
  /\ shown \in [Reader -> SUBSET Nat]
  /\ late \in [Reader -> SUBSET Nat]
  /\ byHand \in [Reader -> Nat]
  /\ requests \in Nat

\* The digest of a turn is of messages, and was shown once the turn is accepted.
TurnFits(s) ==
  turn[s] # None =>
    /\ turn[s].digest \subseteq Sequences
    /\ turn[s].accepted => turn[s].digest \subseteq shown[turn[s].node]

InboxInv == InboxTypes /\ NothingIsSkipped /\ \A s \in Starter : TurnFits(s)

ConversationInv == DirectInv /\ GroupInv /\ InboxInv

-----------------------------------------------------------------------------
(* Records, places and times                                               *)

\* The elements of a sequence.
LEMMA Elements ==
  ASSUME NEW T, NEW q \in Seq(T)
  PROVE  /\ Len(q) \in Nat /\ DOMAIN q = 1..Len(q)
         /\ \A i \in DOMAIN q : i \in Nat /\ i >= 1 /\ q[i] \in T
  OBVIOUS

\* What a sequence has after one is appended.
LEMMA RangeOfAppend ==
  ASSUME NEW T, NEW q \in Seq(T), NEW x \in T
  PROVE  Range(Append(q, x)) = Range(q) \cup {x}
  <1>1. /\ Append(q, x) \in Seq(T) /\ Len(Append(q, x)) = Len(q) + 1
        /\ \A i \in 1..Len(q) : Append(q, x)[i] = q[i]
        /\ Append(q, x)[Len(q) + 1] = x
    OBVIOUS
  <1>2. DOMAIN Append(q, x) = 1..(Len(q) + 1) /\ DOMAIN q = 1..Len(q) /\ Len(q) \in Nat
    BY <1>1, Elements
  <1>3. \A i \in 1..(Len(q) + 1) : i \in 1..Len(q) \/ i = Len(q) + 1
    BY <1>2
  <1>4. \A y : y \in Range(Append(q, x)) => y \in Range(q) \cup {x}
    BY <1>1, <1>2, <1>3 DEF Range
  <1>5. \A y : y \in Range(q) \cup {x} => y \in Range(Append(q, x))
    BY <1>1, <1>2 DEF Range
  <1> QED
    BY <1>4, <1>5

\* What the types say of the record of a Conversation.
LEMMA RecordIsTyped ==
  ASSUME DirectTypes, NEW c \in Conversations
  PROVE  /\ c \in Pairs /\ direct[c] \in DirectRecord
         /\ direct[c].messages \in Seq([id : DirectMessage, at : Nat])
         /\ direct[c].migrations \in Seq(Node) /\ direct[c].created \in Nat
         /\ direct[c].members \in SUBSET Node
         /\ DOMAIN direct[c].messages = 1..Len(direct[c].messages)
         /\ \A i \in DOMAIN direct[c].messages :
              /\ i \in Nat
              /\ direct[c].messages[i].id \in DirectMessage
              /\ direct[c].messages[i].at \in Nat
  <1>1. c \in Pairs /\ direct[c] \in DirectRecord
    BY DEF DirectTypes, Conversations
  <1>2. /\ direct[c].messages \in Seq([id : DirectMessage, at : Nat])
        /\ direct[c].migrations \in Seq(Node) /\ direct[c].created \in Nat
        /\ direct[c].members \in SUBSET Node
    BY <1>1 DEF DirectRecord
  <1>3. /\ DOMAIN direct[c].messages = 1..Len(direct[c].messages)
        /\ \A i \in DOMAIN direct[c].messages :
             i \in Nat /\ direct[c].messages[i] \in [id : DirectMessage, at : Nat]
    BY <1>2, Elements
  <1>4. ASSUME NEW i \in DOMAIN direct[c].messages
        PROVE  direct[c].messages[i].id \in DirectMessage /\ direct[c].messages[i].at \in Nat
    <2>1. PICK x \in [id : DirectMessage, at : Nat] : direct[c].messages[i] = x
      BY <1>3
    <2>2. x.id \in DirectMessage /\ x.at \in Nat
      OBVIOUS
    <2> QED
      BY <2>1, <2>2
  <1> QED
    BY <1>1, <1>2, <1>3, <1>4

\* A place is a Conversation and the number of the message there; now and next.
LEMMA InPlaces ==
  ASSUME NEW m
  PROVE  /\ \A p : p \in Places(m) <=>
              \E c \in Conversations : \E i \in DOMAIN direct[c].messages :
                p = <<c, i>> /\ direct[c].messages[i].id = m
         /\ \A p : p \in Places(m)' <=>
              \E c \in Conversations' : \E i \in DOMAIN direct'[c].messages :
                p = <<c, i>> /\ direct'[c].messages[i].id = m
  BY DEF Places

\* A message has one place.
LEMMA OnePlace ==
  ASSUME DirectInv, NEW m, NEW p \in Places(m), NEW q \in Places(m)
  PROVE  p = q
  <1>1. PICK c \in Conversations : \E i \in DOMAIN direct[c].messages :
          p = <<c, i>> /\ direct[c].messages[i].id = m
    BY InPlaces
  <1>2. PICK d \in Conversations : \E i \in DOMAIN direct[d].messages :
          q = <<d, i>> /\ direct[d].messages[i].id = m
    BY InPlaces
  <1>3. c = d
    BY <1>1, <1>2 DEF DirectInv, Apart
  <1>4. Once(direct[c])
    BY DEF DirectInv, RecordFits, ValidRecord
  <1> QED
    BY <1>1, <1>2, <1>3, <1>4 DEF Once

\* Places are as long as the messages of the records are.
LEMMA PlacesStay ==
  ASSUME NEW m, Conversations \subseteq Conversations',
         \A c \in Conversations : direct'[c].messages = direct[c].messages,
         \A c \in Conversations' \ Conversations : direct'[c].messages = <<>>
  PROVE  Places(m)' = Places(m)
  <1>1. \A p : p \in Places(m) => p \in Places(m)'
    BY InPlaces
  <1>2. \A p : p \in Places(m)' => p \in Places(m)
    BY InPlaces
  <1> QED
    BY <1>1, <1>2

\* They are where no record is written.
LEMMA PlacesSteady ==
  ASSUME direct' = direct
  PROVE  Conversations' = Conversations /\ \A m : Places(m)' = Places(m)
  BY PlacesStay DEF Conversations

\* What a step leaves alone, part by part of the invariant.
LEMMA RecordStays ==
  ASSUME DirectTypes, NEW c \in Conversations, RecordFits(c), direct'[c] = direct[c],
         clock' \in Nat, clock <= clock'
  PROVE  RecordFits(c)'
  <1>1. direct[c].created \in Nat /\ clock \in Nat
    BY RecordIsTyped DEF DirectTypes
  <1> QED
    BY <1>1 DEF RecordFits, ValidRecord, Once

\* A message that the step is not about.
LEMMA SenderStays ==
  ASSUME NEW m \in DirectMessage, DirectTypes, SenderFits(m), PlaceFits(m),
         sender'[m] = sender[m], source'[m] = source[m], Places(m)' = Places(m),
         unlisted \subseteq unlisted', clock' \in Nat, clock <= clock'
  PROVE  SenderFits(m)' /\ PlaceFits(m)'
  <1>1. sender[m].at \in Nat /\ clock \in Nat
    BY DEF DirectTypes, SenderRecord
  <1> QED
    BY <1>1 DEF SenderFits, PlaceFits

\* A summary that the step does not write, while who owes it still does.
LEMMA SummaryStays ==
  ASSUME DirectTypes, NEW c \in Conversations, SummaryFits(c),
         direct'[c] = direct[c], summary'[c] = summary[c], unlisted \subseteq unlisted',
         \A m \in DirectMessage : source[m] = Nowhere => source'[m] = Nowhere,
         \A m \in DirectMessage : Owes(m, c) => SummaryFits(c)'
  PROVE  SummaryFits(c)'
  <1>1. ASSUME HiddenByOrphan(c) PROVE HiddenByOrphan(c)'
    <2>1. PICK i \in DOMAIN direct[c].messages :
            /\ source[direct[c].messages[i].id] = Nowhere
            /\ i = Activity(direct[c]) \/ i > summary[c][1]
      BY <1>1 DEF HiddenByOrphan
    <2>2. source'[direct[c].messages[i].id] = Nowhere
      BY <2>1, RecordIsTyped
    <2>3. Activity(direct[c])' = Activity(direct[c])
      BY DEF Activity
    <2> QED
      BY <2>1, <2>2, <2>3 DEF HiddenByOrphan
  <1> QED
    BY <1>1 DEF SummaryFits, SummaryMatches, Version

\* It is enough to look at the records, at the messages of M, and at the summaries
\* that were written or that one of M owes.
LEMMA DirectStepKeeps ==
  ASSUME DirectInv, NEW M \in SUBSET DirectMessage,
         DirectTypes', Apart', UniquePairs', \A c \in Conversations' : RecordFits(c)',
         unlisted \subseteq unlisted', clock <= clock',
         \A x \in DirectMessage \ M :
           sender'[x] = sender[x] /\ source'[x] = source[x] /\ Places(x)' = Places(x),
         \A m \in M : SenderFits(m)' /\ PlaceFits(m)',
         \A m \in M : source[m] = Nowhere => source'[m] = Nowhere,
         \A c \in Conversations' :
           \/ SummaryFits(c)'
           \/ /\ c \in Conversations /\ direct'[c] = direct[c] /\ summary'[c] = summary[c]
              /\ \A m \in M : ~Owes(m, c)
  PROVE  DirectInv'
  <1>1. clock \in Nat /\ clock' \in Nat
    BY DEF DirectInv, DirectTypes
  <1>2. ASSUME NEW c \in Conversations' PROVE SummaryFits(c)'
    <2>1. SUFFICES ASSUME c \in Conversations, direct'[c] = direct[c], summary'[c] = summary[c],
                          \A m \in M : ~Owes(m, c)
                   PROVE  SummaryFits(c)'
      OBVIOUS
    <2>2. SummaryFits(c)
      BY <2>1 DEF DirectInv
    <2>3. ASSUME NEW x \in DirectMessage, Owes(x, c) PROVE SummaryFits(c)'
      <3>1. x \notin M
        BY <2>1, <2>3
      <3>2. sender'[x] = sender[x] /\ source'[x] = source[x]
        BY <3>1
      <3>3. Owes(x, c)'
        BY <2>3, <3>2 DEF Owes
      <3> QED
        BY <3>3 DEF SummaryFits
    <2>4. DirectTypes /\ \A x \in DirectMessage : source[x] = Nowhere => source'[x] = Nowhere
      BY DEF DirectInv
    <2> QED
      BY <2>1, <2>2, <2>3, <2>4, SummaryStays
  <1>3. ASSUME NEW x \in DirectMessage \ M PROVE SenderFits(x)' /\ PlaceFits(x)'
    <2>1. DirectTypes /\ SenderFits(x) /\ PlaceFits(x)
      BY DEF DirectInv
    <2>2. sender'[x] = sender[x] /\ source'[x] = source[x] /\ Places(x)' = Places(x)
      OBVIOUS
    <2> QED
      BY <2>1, <2>2, <1>1, SenderStays
  <1> QED
    BY <1>2, <1>3 DEF DirectInv

-----------------------------------------------------------------------------
(* Steps of one sender that write no record                                *)

\* One sender goes to another step; it may commit its source.
LEMMA SenderMoves ==
  ASSUME DirectInv, NEW m \in DirectMessage, NEW s \in SenderRecord,
         UNCHANGED <<direct, clock>>,
         summary' = [c \in Pairs \cup {TheGroup} |-> summary'[c]],
         \A c \in Conversations : summary'[c] = summary[c] \/ SummaryFits(c)',
         unlisted \subseteq unlisted', faults' \in Nat,
         sender' = [sender EXCEPT ![m] = s],
         source' \in [DirectMessage -> {None, Nowhere} \cup (Pairs \X Nat)],
         \A x \in DirectMessage \ {m} : source'[x] = source[x],
         source[m] = Nowhere => source'[m] = Nowhere,
         SenderFits(m)', PlaceFits(m)',
         \A c \in Conversations : Owes(m, c) => SummaryFits(c)'
  PROVE  DirectInv'
  <1>1. Conversations' = Conversations /\ \A x : Places(x)' = Places(x)
    BY PlacesSteady
  <1>2. clock \in Nat /\ clock' \in Nat /\ clock <= clock' /\ clock' \in 0..MaxTime
    BY DirectAssumptions DEF DirectInv, DirectTypes
  <1>3. sender \in [DirectMessage -> SenderRecord] /\ sender'[m] = s
    BY DEF DirectInv, DirectTypes
  <1>4. DirectTypes'
    BY <1>2, <1>3 DEF DirectInv, DirectTypes
  <1>5. Apart' /\ UniquePairs'
    BY <1>1 DEF DirectInv, Apart, UniquePairs
  <1>6. \A c \in Conversations : RecordFits(c)'
    BY <1>2, RecordStays DEF DirectInv
  <1>7. \A x \in DirectMessage \ {m} :
          sender'[x] = sender[x] /\ source'[x] = source[x] /\ Places(x)' = Places(x)
    BY <1>1, <1>3
  <1> DEFINE M == {m}
  <1>8. /\ M \in SUBSET DirectMessage /\ \A x \in M : SenderFits(x)' /\ PlaceFits(x)'
        /\ \A x \in M : source[x] = Nowhere => source'[x] = Nowhere
    OBVIOUS
  <1>9. \A c \in Conversations' :
           \/ SummaryFits(c)'
           \/ /\ c \in Conversations /\ direct'[c] = direct[c] /\ summary'[c] = summary[c]
              /\ \A x \in M : ~Owes(x, c)
    BY <1>1
  <1>10. \A x \in DirectMessage \ M :
          sender'[x] = sender[x] /\ source'[x] = source[x] /\ Places(x)' = Places(x)
    BY <1>7
  <1> HIDE DEF M
  <1> QED
    BY <1>1, <1>2, <1>4, <1>5, <1>6, <1>8, <1>9, <1>10, DirectStepKeeps

\* A step that writes no summary either.
LEMMA SummaryShape ==
  ASSUME DirectInv, UNCHANGED summary
  PROVE  /\ summary' = [c \in Pairs \cup {TheGroup} |-> summary'[c]]
         /\ \A c \in Conversations : summary'[c] = summary[c] \/ SummaryFits(c)'
  BY DEF DirectInv, DirectTypes

\* The record of a sender, field by field, after it went to another step.
LEMMA SenderIsTyped ==
  ASSUME DirectInv, NEW m \in DirectMessage
  PROVE  /\ SenderFits(m) /\ PlaceFits(m)
         /\ sender[m] \in SenderRecord /\ sender[m].step \in SenderSteps
         /\ sender[m].sent \in Nat /\ sender[m].at \in Nat /\ clock \in Nat /\ faults \in Nat
         /\ sender[m].place \in {Nowhere} \cup (Pairs \X Nat)
         /\ source \in [DirectMessage -> {None, Nowhere} \cup (Pairs \X Nat)]
         /\ None # Nowhere
  <1>1. sender[m] \in SenderRecord /\ clock \in Nat /\ faults \in Nat
    BY DEF DirectInv, DirectTypes
  <1>2. /\ sender[m].step \in SenderSteps
        /\ sender[m].sent \in Nat /\ sender[m].at \in Nat
        /\ sender[m].place \in {Nowhere} \cup (Pairs \X Nat)
    BY <1>1 DEF SenderRecord
  <1> QED
    BY <1>1, <1>2, DirectNoneAssumption DEF DirectInv, DirectTypes

\* The sender of m after a step, and only it.
LEMMA SenderNext ==
  ASSUME DirectInv, NEW m \in DirectMessage, NEW from, NEW s \in SenderRecord,
         SenderGoes(m, from, s)
  PROVE  sender[m].step = from /\ sender'[m] = s /\ sender' = [sender EXCEPT ![m] = s]
  BY DEF SenderGoes, DirectInv, DirectTypes

\* Places are not places of None.
LEMMA PlaceIsPlace ==
  ASSUME DirectInv, NEW m, NEW p \in Places(m)
  PROVE  p # None /\ p # Nowhere /\ p \in Pairs \X Nat /\ p[1] \in Conversations
  <1>1. PICK c \in Conversations : \E i \in DOMAIN direct[c].messages : p = <<c, i>>
    BY InPlaces
  <1>2. PICK i \in DOMAIN direct[c].messages : p = <<c, i>>
    BY <1>1
  <1>3. c \in Pairs /\ i \in Nat
    BY RecordIsTyped DEF DirectInv
  <1> QED
    BY <1>2, <1>3, DirectNoneAssumption DEF Nowhere

\* A sender starts, or starts again: in the Ledger, what is there is left at once.
LEMMA BeginKeeps ==
  ASSUME DirectInv, NEW m \in DirectMessage, Begin(m)
  PROVE  DirectInv'
  <1> DEFINE step == IF source[m] # None /\ m \notin JobMessage THEN "deduplicated" ELSE "begun"
             s == [sender[m] EXCEPT !.at = clock, !.step = step]
  <1>1. PICK from \in {"none", "stopped", "sent"} : SenderGoes(m, from, s)
    BY DEF Begin
  <1>2. /\ SenderFits(m) /\ PlaceFits(m) /\ sender[m] \in SenderRecord
        /\ sender[m].place \in {Nowhere} \cup (Pairs \X Nat)
        /\ sender[m].sent \in Nat /\ clock \in Nat /\ faults \in Nat
        /\ source \in [DirectMessage -> {None, Nowhere} \cup (Pairs \X Nat)]
    BY SenderIsTyped
  <1>3. UNCHANGED <<direct, summary, clock, unlisted, faults, source>>
    BY DEF Begin, Stays
  <1>4. /\ s \in SenderRecord /\ s.step = step /\ s.at = clock
        /\ s.place = sender[m].place /\ s.sent = sender[m].sent
    BY <1>2 DEF SenderRecord, SenderSteps
  <1> HIDE DEF s
  <1>5. sender[m].step = from /\ sender'[m] = s /\ sender' = [sender EXCEPT ![m] = s]
    BY <1>1, <1>4, SenderNext
  <1>6. Places(m)' = Places(m)
    BY <1>3, PlacesSteady
  <1>7. SenderFits(m)'
    BY <1>2, <1>3, <1>4, <1>5, <1>6 DEF SenderFits
  <1>8. PlaceFits(m)'
    BY <1>2, <1>3, <1>5, <1>6 DEF PlaceFits
  <1>9. \A c \in Conversations : ~Owes(m, c)
    BY <1>5 DEF Owes
  <1> QED
    BY <1>2, <1>3, <1>4, <1>5, <1>7, <1>8, <1>9, SenderMoves, SummaryShape

\* A sender takes the place that its message has, or none without two live Nodes.
LEMMA RecordKnownKeeps ==
  ASSUME DirectInv, NEW m \in DirectMessage, RecordKnown(m)
  PROVE  DirectInv'
  <1>1. PICK p \in {Nowhere} \cup Places(m) : SenderGoes(m, "begun", Placed(m, p))
    BY DEF RecordKnown
  <1> DEFINE s == Placed(m, p)
  <1>2. /\ SenderFits(m) /\ PlaceFits(m) /\ sender[m] \in SenderRecord
        /\ sender[m].sent \in Nat /\ clock \in Nat /\ faults \in Nat
        /\ source \in [DirectMessage -> {None, Nowhere} \cup (Pairs \X Nat)]
    BY SenderIsTyped
  <1>3. UNCHANGED <<direct, summary, clock, unlisted, faults, source>>
    BY DEF RecordKnown, Stays
  <1>4. p \in {Nowhere} \cup (Pairs \X Nat)
    BY PlaceIsPlace
  <1>5. /\ s \in SenderRecord /\ s.step = "recorded" /\ s.at = sender[m].at
        /\ s.place = p /\ s.sent = sender[m].sent
    BY <1>2, <1>4 DEF SenderRecord, SenderSteps, Placed
  <1> HIDE DEF s
  <1>6. sender[m].step = "begun" /\ sender'[m] = s /\ sender' = [sender EXCEPT ![m] = s]
    BY <1>1, <1>5, SenderNext DEF s
  <1>7. Places(m)' = Places(m)
    BY <1>3, PlacesSteady
  <1>8. SenderFits(m)'
    BY <1>1, <1>2, <1>3, <1>5, <1>6, <1>7 DEF SenderFits
  <1>9. PlaceFits(m)'
    BY <1>2, <1>3, <1>6, <1>7 DEF PlaceFits
  <1>10. \A c \in Conversations : ~Owes(m, c)
    BY <1>6 DEF Owes
  <1> QED
    BY <1>2, <1>3, <1>5, <1>6, <1>8, <1>9, <1>10, SenderMoves, SummaryShape

\* A message that may not be recorded stops its sender.
LEMMA RecordRefusedKeeps ==
  ASSUME DirectInv, NEW m \in DirectMessage, RecordRefused(m)
  PROVE  DirectInv'
  <1> DEFINE s == AtStep(m, "stopped")
  <1>2. /\ SenderFits(m) /\ PlaceFits(m) /\ sender[m] \in SenderRecord
        /\ sender[m].sent \in Nat /\ clock \in Nat /\ faults \in Nat
        /\ source \in [DirectMessage -> {None, Nowhere} \cup (Pairs \X Nat)]
    BY SenderIsTyped
  <1>3. UNCHANGED <<direct, summary, clock, unlisted, faults, source>>
    BY DEF RecordRefused, Stays
  <1>5. /\ s \in SenderRecord /\ s.step = "stopped" /\ s.at = sender[m].at
        /\ s.place = sender[m].place /\ s.sent = sender[m].sent
    BY <1>2 DEF SenderRecord, SenderSteps, AtStep
  <1> HIDE DEF s
  <1>6. sender[m].step = "begun" /\ sender'[m] = s /\ sender' = [sender EXCEPT ![m] = s]
    BY <1>5, SenderNext DEF s, RecordRefused
  <1>7. Places(m)' = Places(m)
    BY <1>3, PlacesSteady
  <1>8. SenderFits(m)'
    BY <1>2, <1>3, <1>5, <1>6, <1>7 DEF SenderFits
  <1>9. PlaceFits(m)'
    BY <1>2, <1>3, <1>6, <1>7 DEF PlaceFits
  <1>10. \A c \in Conversations : ~Owes(m, c)
    BY <1>6 DEF Owes
  <1> QED
    BY <1>2, <1>3, <1>5, <1>6, <1>8, <1>9, <1>10, SenderMoves, SummaryShape

\* The record of a sender that goes on to dispatch.
LEMMA SentRecord ==
  ASSUME NEW r \in SenderRecord, NEW s, s = [r EXCEPT !.step = "sent", !.sent = @ + 1]
  PROVE  /\ s \in SenderRecord /\ s.step = "sent" /\ s.sent = r.sent + 1
         /\ s.at = r.at /\ s.place = r.place
  <1>1. "sent" \in SenderSteps
    BY DEF SenderSteps
  <1>2. r.sent \in Nat
    BY DEF SenderRecord
  <1>3. r.sent + 1 \in Nat
    BY <1>2
  <1> DEFINE t == [r EXCEPT !.step = "sent"]
  <1>4. t \in SenderRecord /\ t.step = "sent" /\ t.sent = r.sent /\ t.at = r.at /\ t.place = r.place
    BY <1>1 DEF SenderRecord
  <1>5. s = [t EXCEPT !.sent = r.sent + 1]
    BY <1>4
  <1> HIDE DEF t
  <1> QED
    BY <1>3, <1>4, <1>5 DEF SenderRecord

\* What a message that is new to its source does next, with its place there.
LEMMA CommitsKeep ==
  ASSUME DirectInv, NEW m \in DirectMessage, source[m] = None,
         SenderGoes(m, "recorded", Committed(m)),
         source' = [source EXCEPT ![m] = sender[m].place],
         UNCHANGED <<direct, summary, clock, unlisted, faults>>
  PROVE  DirectInv'
  <1> DEFINE s == Committed(m) spot == sender[m].place
  <1>2. /\ SenderFits(m) /\ PlaceFits(m) /\ sender[m] \in SenderRecord
        /\ spot \in {Nowhere} \cup (Pairs \X Nat)
        /\ sender[m].sent \in Nat /\ clock \in Nat /\ faults \in Nat
        /\ source \in [DirectMessage -> {None, Nowhere} \cup (Pairs \X Nat)]
        /\ None # Nowhere
    BY SenderIsTyped
  <1>3. spot \in {Nowhere} \cup Places(m) /\ sender[m].sent = 0
    BY <1>2 DEF SenderFits
  <1>4. spot # None
    BY <1>3, <1>2, PlaceIsPlace
  <1>5. /\ s \in SenderRecord /\ s.at = sender[m].at /\ s.place = spot
        /\ s.step = (IF spot = Nowhere THEN "sent" ELSE "committed")
        /\ s.sent = (IF spot = Nowhere THEN 1 ELSE 0)
    <2>1. CASE spot = Nowhere
      <3>1. s = [sender[m] EXCEPT !.step = "sent", !.sent = @ + 1]
        BY <2>1 DEF Committed, Sends
      <3>2. /\ s \in SenderRecord /\ s.step = "sent" /\ s.sent = sender[m].sent + 1
            /\ s.at = sender[m].at /\ s.place = spot
        BY <3>1, <1>2, SentRecord
      <3> QED
        BY <2>1, <3>2, <1>3
    <2>2. CASE spot # Nowhere
      <3>1. s = [sender[m] EXCEPT !.step = "committed"]
        BY <2>2 DEF Committed, AtStep
      <3> QED
        BY <2>2, <3>1, <1>2, <1>3 DEF SenderRecord, SenderSteps
    <2> QED
      BY <2>1, <2>2
  <1> HIDE DEF s
  <1>6. /\ sender[m].step = "recorded" /\ sender'[m] = s
        /\ sender' = [sender EXCEPT ![m] = s]
    BY <1>5, SenderNext DEF s
  <1>7. Places(m)' = Places(m)
    BY PlacesSteady
  <1>8. /\ source'[m] = spot /\ \A x \in DirectMessage \ {m} : source'[x] = source[x]
        /\ source' \in [DirectMessage -> {None, Nowhere} \cup (Pairs \X Nat)]
    BY <1>2
  <1>9. SenderFits(m)'
    <2> HIDE DEF spot
    <2>1. spot = sender[m].place
      BY DEF spot
    <2> QED
      BY <2>1, <1>2, <1>3, <1>4, <1>5, <1>6, <1>7, <1>8 DEF SenderFits
  <1>10. PlaceFits(m)'
    <2>1. SUFFICES ASSUME NEW p \in Places(m)
                   PROVE  source'[m] = p \/ p[1] \in unlisted
      BY <1>7 DEF PlaceFits
    <2>2. \/ source[m] \in {p, Nowhere} \/ p[1] \in unlisted
          \/ sender[m].step = "recorded" /\ sender[m].place = p
      BY <1>2 DEF PlaceFits
    <2>3. p # None
      BY PlaceIsPlace
    <2> QED
      BY <2>2, <2>3, <1>2, <1>8
  <1>11. ASSUME NEW c \in Conversations, Owes(m, c) PROVE SummaryFits(c)'
    <2>1. spot # Nowhere
      BY <1>11 DEF Owes
    <2>2. Owes(m, c)'
      BY <1>11, <2>1, <1>5, <1>6 DEF Owes
    <2> QED
      BY <2>2 DEF SummaryFits
  <1> HIDE DEF spot
  <1> QED
    BY <1>2, <1>5, <1>6, <1>8, <1>9, <1>10, <1>11, SenderMoves, SummaryShape

\* The Ledger takes the place that the sender knows.
LEMMA CommitToLedgerKeeps ==
  ASSUME DirectInv, NEW m \in DirectMessage, CommitToLedger(m)
  PROVE  DirectInv'
  <1>1. SenderFits(m) /\ sender[m].step = "recorded"
    BY SenderIsTyped DEF CommitToLedger, SenderGoes
  <1>2. source[m] = None
    BY <1>1 DEF SenderFits, CommitToLedger
  <1> QED
    BY <1>2, CommitsKeep DEF CommitToLedger, Stays

\* A Job takes it, or has one already, which stays.
LEMMA CommitToJobKeeps ==
  ASSUME DirectInv, NEW m \in DirectMessage, CommitToJob(m)
  PROVE  DirectInv'
  <1>1. UNCHANGED <<direct, summary, clock, unlisted, faults>>
    BY DEF CommitToJob, Stays
  <1>2. CASE source[m] = None
    <2>0. sender[m].place # None
      BY SenderIsTyped, PlaceIsPlace DEF SenderFits
    <2>1. SenderGoes(m, "recorded", Committed(m))
      BY <1>2, <2>0 DEF CommitToJob
    <2>2. source' = [source EXCEPT ![m] = sender[m].place]
      BY <1>2, SenderIsTyped DEF CommitToJob
    <2> QED
      BY <1>1, <1>2, <2>1, <2>2, CommitsKeep
  <1>3. CASE source[m] # None
    <2> DEFINE spot == sender[m].place
               step == IF spot = Nowhere THEN "deduplicated"
                       ELSE IF spot = source[m] THEN "again" ELSE "stopped"
               s == AtStep(m, step)
    <2>1. SenderGoes(m, "recorded", s)
      BY <1>3 DEF CommitToJob
    <2>2. /\ SenderFits(m) /\ PlaceFits(m) /\ sender[m] \in SenderRecord
          /\ spot \in {Nowhere} \cup (Pairs \X Nat)
          /\ sender[m].sent \in Nat /\ clock \in Nat /\ faults \in Nat
          /\ source \in [DirectMessage -> {None, Nowhere} \cup (Pairs \X Nat)]
      BY SenderIsTyped
    <2>3. UNCHANGED source
      BY <1>3, <2>2 DEF CommitToJob
    <2>4. step \in {"deduplicated", "again", "stopped"} /\ (step = "again" => spot # Nowhere)
      OBVIOUS
    <2> HIDE DEF step
    <2>5. /\ s \in SenderRecord /\ s.step = step /\ s.at = sender[m].at
          /\ s.place = spot /\ s.sent = sender[m].sent
      BY <2>2, <2>4 DEF SenderRecord, SenderSteps, AtStep
    <2> HIDE DEF s
    <2>6. /\ sender[m].step = "recorded" /\ sender'[m] = s
          /\ sender' = [sender EXCEPT ![m] = s]
      BY <2>1, <2>5, SenderNext
    <2>7. Places(m)' = Places(m)
      BY <1>1, PlacesSteady
    <2>8. SenderFits(m)'
      <3> HIDE DEF spot
      <3>1. spot = sender[m].place
        BY DEF spot
      <3> QED
        BY <3>1, <1>1, <1>3, <2>2, <2>3, <2>4, <2>5, <2>6, <2>7 DEF SenderFits
    <2>9. PlaceFits(m)'
      <3>1. SUFFICES ASSUME NEW p \in Places(m), source[m] # Nowhere
                     PROVE  source[m] = p \/ p[1] \in unlisted
        BY <2>3, <2>7, <1>1 DEF PlaceFits
      <3>2. CASE spot = p
        <4>2. source[m] \in Places(m)
          BY <1>3, <2>2, <3>1 DEF SenderFits
        <4>3. \A q \in Places(m) : q = p
          BY OnePlace
        <4> QED
          BY <4>2, <4>3
      <3>3. CASE spot # p
        BY <3>1, <3>3, <2>2 DEF PlaceFits
      <3> QED
        BY <3>2, <3>3
    <2>10. \A c \in Conversations : ~Owes(m, c)
      BY <1>3, <2>6 DEF Owes
    <2> HIDE DEF spot
    <2> QED
      BY <1>1, <2>2, <2>3, <2>5, <2>6, <2>8, <2>9, <2>10, SenderMoves, SummaryShape
  <1> QED
    BY <1>2, <1>3

\* A sender that stops leaves the Conversations of its message unlisted, or never
\* was to refresh them.
LEMMA StoppedKeeps ==
  ASSUME DirectInv, NEW m \in DirectMessage, NEW from \in SenderSteps, NEW step \in SenderSteps,
         step \notin {"begun", "recorded", "committed", "again"},
         SenderGoes(m, from, AtStep(m, step)),
         UNCHANGED <<direct, clock, source>>,
         summary' = [c \in Pairs \cup {TheGroup} |-> summary'[c]],
         \A c \in Conversations : summary'[c] = summary[c] \/ SummaryFits(c)',
         faults' \in Nat, unlisted \subseteq unlisted',
         \A p \in Places(m) : from = "recorded" => p[1] \in unlisted',
         \A c \in Conversations : Owes(m, c) => SummaryFits(c)'
  PROVE  DirectInv'
  <1> DEFINE s == AtStep(m, step)
  <1>1. /\ SenderFits(m) /\ PlaceFits(m) /\ sender[m] \in SenderRecord
        /\ sender[m].sent \in Nat /\ clock \in Nat
        /\ source \in [DirectMessage -> {None, Nowhere} \cup (Pairs \X Nat)]
    BY SenderIsTyped
  <1>2. /\ s \in SenderRecord /\ s.step = step /\ s.at = sender[m].at
        /\ s.place = sender[m].place /\ s.sent = sender[m].sent
    BY <1>1 DEF SenderRecord, AtStep
  <1> HIDE DEF s
  <1>3. sender[m].step = from /\ sender'[m] = s /\ sender' = [sender EXCEPT ![m] = s]
    BY <1>2, SenderNext DEF s
  <1>4. Places(m)' = Places(m)
    BY PlacesSteady
  <1>5. SenderFits(m)'
    BY <1>1, <1>2, <1>3, <1>4 DEF SenderFits
  <1>6. PlaceFits(m)'
    BY <1>1, <1>3, <1>4 DEF PlaceFits
  <1> QED
    BY <1>1, <1>2, <1>3, <1>5, <1>6, SenderMoves

\* A sender dies: the Conversation of its message may be left unlisted.
LEMMA SenderStopsKeeps ==
  ASSUME DirectInv, NEW m \in DirectMessage, SenderStops(m)
  PROVE  DirectInv'
  <1>1. PICK from \in {"recorded", "committed", "again"} :
          SenderGoes(m, from, AtStep(m, "stopped"))
    BY DEF SenderStops
  <1>2. /\ SenderFits(m) /\ faults \in Nat
    BY SenderIsTyped
  <1>3. /\ UNCHANGED <<direct, summary, clock, source>> /\ faults' = faults + 1
        /\ unlisted' = unlisted \cup {p[1] : p \in Places(m)}
    BY DEF SenderStops
  <1>4. ASSUME NEW c \in Conversations, Owes(m, c) PROVE SummaryFits(c)'
    <2>1. sender[m].place \in Places(m) /\ sender[m].place[1] = c
      BY <1>2, <1>4 DEF Owes, SenderFits
    <2> QED
      BY <2>1, <1>3 DEF SummaryFits
  <1>5. from \in SenderSteps /\ "stopped" \in SenderSteps
    BY DEF SenderSteps
  <1> QED
    BY <1>1, <1>2, <1>3, <1>4, <1>5, StoppedKeeps, SummaryShape

-----------------------------------------------------------------------------
(* Refresh                                                                 *)

\* A non-empty set of numbers has a least one, and a bounded one a greatest.
LEMMA LeastNat ==
  ASSUME NEW T, T \subseteq Nat, T # {}
  PROVE  \E x \in T : \A y \in T : x <= y
  <1> DEFINE R == {ss \in Nat \X Nat : ss[1] < ss[2]}
  <1>1. IsWellFoundedOn(R, Nat)
    BY NatLessThanWellFounded DEF OpToRel
  <1> HIDE DEF R
  <1>2. PICK x \in T : \A y \in T : ~(<<y, x>> \in R)
    BY <1>1, WFMin
  <1>3. \A y \in T : ~(y < x)
    BY <1>2 DEF R
  <1>4. QED
    BY <1>2, <1>3

\* The greatest, of numbers up to a bound.
LEMMA GreatestNat ==
  ASSUME NEW b \in Nat, NEW T, T \subseteq 0..b, T # {}
  PROVE  \E x \in T : \A y \in T : y <= x
  <1> DEFINE D == {b - y : y \in T}
  <1>0. PICK w \in T : TRUE
    OBVIOUS
  <1>1. D \subseteq Nat /\ b - w \in D
    OBVIOUS
  <1>2. PICK z \in D : \A y \in D : z <= y
    <2> HIDE DEF D
    <2> QED
      BY <1>1, LeastNat
  <1>3. PICK x \in T : z = b - x
    OBVIOUS
  <1>4. \A y \in T : b - x <= b - y
    BY <1>2, <1>3
  <1> QED
    BY <1>4

\* A Conversation with messages has a latest one.
LEMMA ActivityExists ==
  ASSUME DirectInv, NEW c \in Conversations, direct[c].messages # <<>>
  PROVE  Activity(direct[c]) \in DOMAIN direct[c].messages
  <1> DEFINE q == direct[c].messages
             Times == {q[i].at : i \in DOMAIN q}
  <1>1. /\ Len(q) \in Nat /\ DOMAIN q = 1..Len(q)
        /\ \A i \in DOMAIN q : i \in Nat /\ q[i].at \in Nat
    BY RecordIsTyped DEF DirectInv
  <1>2. clock \in Nat /\ \A i \in DOMAIN q : q[i].at <= clock
    <2>1. ValidRecord(direct[c], c) /\ clock \in Nat /\ direct[c].created \in Nat
      BY RecordIsTyped DEF DirectInv, RecordFits, DirectTypes
    <2> QED
      BY <2>1 DEF ValidRecord
  <1>3. Len(q) # 0
    BY RecordIsTyped DEF DirectInv
  <1>4. 1 \in DOMAIN q
    BY <1>1, <1>3
  <1>5. Times \subseteq 0..clock /\ q[1].at \in Times
    <2>1. \A i \in DOMAIN q : q[i].at \in 0..clock
      BY <1>1, <1>2
    <2> QED
      BY <2>1, <1>4
  <1> HIDE DEF q
  <1>6. PICK latest \in Times : \A y \in Times : y <= latest
    <2> HIDE DEF Times
    <2> QED
      BY <1>2, <1>5, GreatestNat
  <1> DEFINE Latest == {i \in DOMAIN q : q[i].at = latest}
  <1>7. Latest \subseteq 0..Len(q) /\ Latest # {}
    BY <1>1
  <1>8. PICK i \in Latest : \A j \in Latest : j <= i
    <2> HIDE DEF Latest
    <2> QED
      BY <1>1, <1>7, GreatestNat
  <1>9. ASSUME NEW j \in DOMAIN q
        PROVE  q[j].at < q[i].at \/ (q[j].at = q[i].at /\ j <= i)
    <2>1. q[j].at <= latest /\ q[i].at = latest
      BY <1>6
    <2> QED
      BY <2>1, <1>1, <1>8
  <1>10. i \in DOMAIN q
    OBVIOUS
  <1> QED
    BY <1>9, <1>10 DEF Activity, q

\* A message whose source does not name it is still to be committed, or never can be.
LEMMA SomeoneOwes ==
  ASSUME DirectInv, NEW c \in Conversations, c \notin unlisted, ~SourceMatches(c)
  PROVE  \/ \E m \in DirectMessage :
              sender[m].step = "recorded" /\ source[m] = None /\ Owes(m, c)
         \/ HiddenByOrphan(c)
  <1> DEFINE i == Activity(direct[c]) m == direct[c].messages[i].id
  <1>1. i \in DOMAIN direct[c].messages /\ source[m] # <<c, i>>
    BY ActivityExists DEF SourceMatches
  <1>2. m \in DirectMessage
    BY <1>1, RecordIsTyped DEF DirectInv
  <1>3. source[m] = Nowhere => HiddenByOrphan(c)
    BY <1>1 DEF HiddenByOrphan
  <1> HIDE DEF i
  <1>4. <<c, i>> \in Places(m)
    BY <1>1, InPlaces
  <1> HIDE DEF m
  <1>5. SUFFICES ASSUME source[m] # Nowhere
                 PROVE  sender[m].step = "recorded" /\ source[m] = None /\ Owes(m, c)
    BY <1>2, <1>3
  <1>6. SenderFits(m) /\ PlaceFits(m)
    BY <1>2 DEF DirectInv
  <1>7. sender[m].step = "recorded" /\ sender[m].place = <<c, i>>
    BY <1>1, <1>4, <1>5, <1>6 DEF PlaceFits
  <1>8. <<c, i>> # Nowhere
    BY <1>4, PlaceIsPlace
  <1>9. source[m] = None
    <2>1. source[m] \notin Places(m)
      BY <1>1, <1>4, OnePlace
    <2> QED
      BY <1>5, <1>6, <2>1 DEF SenderFits
  <1>10. <<c, i>>[1] = c
    OBVIOUS
  <1> QED
    BY <1>7, <1>8, <1>9, <1>10 DEF Owes

\* A record is written, and its summary unless there is a fault.
LEMMA WriteOne ==
  ASSUME NEW c, NEW r, WriteDirect(c, <<r>>, r)
  PROVE  /\ direct' = [direct EXCEPT ![c] = r]
         /\ \/ Summarize(c, Version(r)) /\ UNCHANGED <<faults, unlisted>>
            \/ /\ faults < MaxFaults /\ faults' = faults + 1
               /\ unlisted' = unlisted \cup {c} /\ UNCHANGED summary
  BY DEF WriteDirect, Last

\* The same of two records in turn.
LEMMA WriteTwo ==
  ASSUME NEW c, NEW r, NEW q, WriteDirect(c, <<r, q>>, r)
  PROVE  \/ /\ direct' = [direct EXCEPT ![c] = q]
            /\ Summarize(c, Version(r)) /\ UNCHANGED <<faults, unlisted>>
         \/ /\ faults' = faults + 1 /\ unlisted' = unlisted \cup {c} /\ UNCHANGED summary
            /\ \E x \in {r, q} : direct' = [direct EXCEPT ![c] = x]
  <1>1. /\ Last(<<r, q>>) = q /\ DOMAIN <<r, q>> = {1, 2}
        /\ <<r, q>>[1] = r /\ <<r, q>>[2] = q
    BY DEF Last
  <1> QED
    BY <1>1 DEF WriteDirect

\* A refresh from a source that is there; otherwise whoever is at the latest message
\* is still to refresh.
LEMMA RefreshKeeps ==
  ASSUME DirectInv, NEW m \in DirectMessage, Refresh(m)
  PROVE  DirectInv'
  <1>1. sender[m].step \in {"committed", "again"} /\ SenderFits(m)
    BY SenderIsTyped DEF Refresh
  <1>2. sender[m].place # Nowhere /\ sender[m].place \in Places(m)
    BY <1>1 DEF SenderFits
  <1>3. PICK c \in Conversations, from \in {"committed", "again"} :
          c = sender[m].place[1] /\ from = sender[m].step
    BY <1>1, <1>2, PlaceIsPlace
  <1> DEFINE next == IF from = "committed" THEN Sends(m) ELSE AtStep(m, "deduplicated")
  <1>4. /\ UNCHANGED <<source, clock>>
        /\ \/ /\ SourceMatches(c) /\ WriteDirect(c, <<direct[c]>>, direct[c])
              /\ SenderGoes(m, from, IF faults' > faults THEN AtStep(m, "stopped") ELSE next)
           \/ /\ ~SourceMatches(c) /\ Stays
              /\ SenderGoes(m, from, IF from = "committed" THEN AtStep(m, "stopped") ELSE next)
    BY <1>3 DEF Refresh
  <1>5. /\ SenderFits(m) /\ PlaceFits(m) /\ sender[m] \in SenderRecord
        /\ sender[m].sent \in Nat /\ clock \in Nat /\ faults \in Nat
        /\ source \in [DirectMessage -> {None, Nowhere} \cup (Pairs \X Nat)]
    BY SenderIsTyped
  <1>6. /\ {"recorded", "committed", "again", "stopped", "deduplicated"} \subseteq SenderSteps
        /\ from \in SenderSteps
        /\ \A d : Owes(m, d) => d = c
    BY <1>3 DEF SenderSteps, Owes
  <1> HIDE DEF next
  <1>7. CASE ~SourceMatches(c) /\ Stays
    <2>1. SenderGoes(m, from, AtStep(m, IF from = "committed" THEN "stopped" ELSE "deduplicated"))
      BY <1>4, <1>7 DEF next
    <2>2. UNCHANGED <<direct, summary, faults, unlisted>>
      BY <1>7 DEF Stays
    <2>3. ASSUME NEW d \in Conversations, Owes(m, d) PROVE SummaryFits(d)'
      <3>1. d = c
        BY <2>3, <1>6
      <3>2. CASE c \in unlisted
        BY <3>1, <3>2, <2>2 DEF SummaryFits
      <3>3. CASE c \notin unlisted
        <4>0. CASE HiddenByOrphan(c)
          <5>1. HiddenByOrphan(c)'
            BY <4>0, <1>4, <2>2 DEF HiddenByOrphan, Activity
          <5> QED
            BY <3>1, <5>1 DEF SummaryFits
        <4>1. SUFFICES ASSUME NEW x \in DirectMessage, sender[x].step = "recorded",
                              source[x] = None, Owes(x, c)
                       PROVE  SummaryFits(c)'
          BY <1>3, <1>7, <3>1, <3>3, <4>0, SomeoneOwes
        <4>2. x # m
          BY <4>1, <1>3
        <4>3. sender'[x] = sender[x] /\ source'[x] = source[x]
          BY <4>2, <2>1, <1>4 DEF SenderGoes, DirectInv, DirectTypes
        <4>4. Owes(x, c)'
          BY <4>1, <4>3 DEF Owes
        <4> QED
          BY <4>4 DEF SummaryFits
      <3> QED
        BY <3>2, <3>3
    <2> QED
      BY <1>4, <1>5, <1>6, <2>1, <2>2, <2>3, StoppedKeeps, SummaryShape
  <1>8. CASE /\ SourceMatches(c) /\ WriteDirect(c, <<direct[c]>>, direct[c])
             /\ SenderGoes(m, from, IF faults' > faults THEN AtStep(m, "stopped") ELSE next)
    <2>1. direct' = direct
      BY <1>3, <1>5, <1>8, WriteOne DEF DirectInv, DirectTypes
    <2>2. CASE faults' = faults + 1 /\ unlisted' = unlisted \cup {c} /\ UNCHANGED summary
      <3>1. SenderGoes(m, from, AtStep(m, "stopped"))
        BY <1>5, <1>8, <2>2
      <3>2. \A d \in Conversations : Owes(m, d) => SummaryFits(d)'
        BY <1>6, <2>2 DEF SummaryFits
      <3> QED
        BY <1>4, <1>5, <1>6, <2>1, <2>2, <3>1, <3>2, StoppedKeeps, SummaryShape
    <2>3. CASE Summarize(c, Version(direct[c])) /\ UNCHANGED <<faults, unlisted>>
      <3>1. SenderGoes(m, from, next)
        BY <1>5, <1>8, <2>3
      <3>2. /\ summary' = [d \in Pairs \cup {TheGroup} |-> summary'[d]]
            /\ SummaryMatches(c, Version(direct[c]))'
            /\ \A d \in Conversations \ {c} : summary'[d] = summary[d]
        BY <1>3, <2>1, <2>3
        DEF Summarize, SummaryMatches, Version, DirectInv, DirectTypes, Conversations
      <3>3. SummaryFits(c)'
        BY <3>2 DEF SummaryFits
      <3>4. /\ \A d \in Conversations : summary'[d] = summary[d] \/ SummaryFits(d)'
            /\ \A d \in Conversations : Owes(m, d) => SummaryFits(d)'
        BY <3>2, <3>3, <1>6
      <3>5. CASE from = "again"
        <4>1. SenderGoes(m, from, AtStep(m, "deduplicated"))
          BY <3>1, <3>5 DEF next
        <4> QED
          BY <1>4, <1>5, <1>6, <2>1, <2>3, <3>2, <3>4, <4>1, StoppedKeeps
      <3>6. CASE from = "committed"
        <4> DEFINE s == [sender[m] EXCEPT !.step = "sent", !.sent = @ + 1]
        <4>1. SenderGoes(m, from, s)
          BY <3>1, <3>6 DEF next, Sends
        <4> HIDE DEF s
        <4>2. /\ s \in SenderRecord /\ s.step = "sent" /\ s.sent = sender[m].sent + 1
              /\ s.at = sender[m].at /\ s.place = sender[m].place
          BY <1>5, SentRecord DEF s
        <4>3. sender'[m] = s /\ sender' = [sender EXCEPT ![m] = s]
          BY <4>1, <4>2, SenderNext
        <4>4. sender[m].sent = 0 /\ source[m] # None
          BY <1>3, <1>5, <3>6 DEF SenderFits
        <4>5. Places(m)' = Places(m)
          BY <2>1, PlacesSteady
        <4>6. SenderFits(m)'
          BY <1>4, <1>5, <4>2, <4>3, <4>4, <4>5 DEF SenderFits
        <4>7. PlaceFits(m)'
          BY <1>3, <1>4, <1>5, <2>3, <4>3, <4>5 DEF PlaceFits
        <4> QED
          BY <1>4, <1>5, <2>1, <2>3, <3>2, <3>4, <4>2, <4>3, <4>6, <4>7, SenderMoves
      <3> QED
        BY <1>4, <3>5, <3>6
    <2> QED
      BY <1>8, <2>2, <2>3 DEF WriteDirect
  <1> QED
    BY <1>4, <1>7, <1>8

-----------------------------------------------------------------------------
(* Steps that write a record                                               *)

\* A valid record of other members and other messages than the other records.
LEMMA RecordsWritten ==
  ASSUME DirectInv, NEW c \in Pairs, NEW r \in DirectRecord, ValidRecord(r, c),
         \A d \in Conversations \ {c} :
           /\ direct[d].members # r.members
           /\ \A i \in DOMAIN r.messages, j \in DOMAIN direct[d].messages :
                r.messages[i].id # direct[d].messages[j].id,
         direct' = [direct EXCEPT ![c] = r], clock' = clock
  PROVE  /\ direct' \in [Pairs -> DirectRecord \cup {None}]
         /\ direct'[c] = r /\ \A d \in Pairs \ {c} : direct'[d] = direct[d]
         /\ Conversations' = Conversations \cup {c} /\ Conversations \subseteq Pairs
         /\ Apart' /\ UniquePairs' /\ \A d \in Conversations' : RecordFits(d)'
  <1>1. direct \in [Pairs -> DirectRecord \cup {None}] /\ r # None
    BY DirectNoneAssumption DEF DirectInv, DirectTypes
  <1>2. /\ direct' \in [Pairs -> DirectRecord \cup {None}]
        /\ direct'[c] = r /\ \A d \in Pairs \ {c} : direct'[d] = direct[d]
    BY <1>1
  <1>3. Conversations' = Conversations \cup {c} /\ Conversations \subseteq Pairs
    BY <1>1, <1>2 DEF Conversations
  <1>4. Apart'
    <2>1. SUFFICES ASSUME NEW d \in Conversations', NEW e \in Conversations',
                          NEW i \in DOMAIN direct'[d].messages,
                          NEW j \in DOMAIN direct'[e].messages,
                          direct'[d].messages[i].id = direct'[e].messages[j].id, d # e
                   PROVE  FALSE
      BY DEF Apart
    <2>2. CASE d = c
      BY <1>2, <1>3, <2>1, <2>2
    <2>3. CASE e = c
      BY <1>2, <1>3, <2>1, <2>3
    <2>4. CASE d # c /\ e # c
      BY <1>2, <1>3, <2>1, <2>4 DEF DirectInv, Apart
    <2> QED
      BY <2>2, <2>3, <2>4
  <1>5. UniquePairs'
    <2>1. SUFFICES ASSUME NEW d \in Conversations', NEW e \in Conversations',
                          direct'[d].members = direct'[e].members, d # e
                   PROVE  FALSE
      BY DEF UniquePairs
    <2>2. CASE d = c
      BY <1>2, <1>3, <2>1, <2>2
    <2>3. CASE e = c
      BY <1>2, <1>3, <2>1, <2>3
    <2>4. CASE d # c /\ e # c
      BY <1>2, <1>3, <2>1, <2>4 DEF DirectInv, UniquePairs
    <2> QED
      BY <2>2, <2>3, <2>4
  <1>6. ASSUME NEW d \in Conversations' PROVE RecordFits(d)'
    <2>1. CASE d = c
      BY <1>2, <2>1 DEF RecordFits, ValidRecord, Once
    <2>2. CASE d # c
      <3>1. d \in Conversations /\ direct'[d] = direct[d] /\ RecordFits(d) /\ DirectTypes
        BY <1>2, <1>3, <2>2 DEF DirectInv
      <3>2. clock' \in Nat /\ clock <= clock'
        BY <3>1 DEF DirectTypes
      <3> QED
        BY <3>1, <3>2, RecordStays
    <2> QED
      BY <2>1, <2>2
  <1> QED
    BY <1>2, <1>3, <1>4, <1>5, <1>6

\* A record with the messages it had, and its summary unless there is a fault.
LEMMA WriteDirectKeeps ==
  ASSUME DirectInv, NEW c \in Pairs, NEW r \in DirectRecord, ValidRecord(r, c),
         \A d \in Conversations \ {c} : direct[d].members # r.members,
         r.messages = IF c \in Conversations THEN direct[c].messages ELSE <<>>,
         WriteDirect(c, <<r>>, r), UNCHANGED <<source, sender, clock>>
  PROVE  DirectInv'
  <1>1. /\ direct' = [direct EXCEPT ![c] = r]
        /\ \/ Summarize(c, Version(r)) /\ UNCHANGED <<faults, unlisted>>
           \/ /\ faults < MaxFaults /\ faults' = faults + 1
              /\ unlisted' = unlisted \cup {c} /\ UNCHANGED summary
    BY WriteOne
  <1>2. \A d \in Conversations \ {c} :
          \A i \in DOMAIN r.messages, j \in DOMAIN direct[d].messages :
            r.messages[i].id # direct[d].messages[j].id
    <2>1. CASE c \in Conversations
      BY <2>1 DEF DirectInv, Apart
    <2>2. CASE c \notin Conversations
      BY <2>2
    <2> QED
      BY <2>1, <2>2
  <1>3. /\ direct' \in [Pairs -> DirectRecord \cup {None}]
        /\ direct'[c] = r /\ \A d \in Pairs \ {c} : direct'[d] = direct[d]
        /\ Conversations' = Conversations \cup {c} /\ Conversations \subseteq Pairs
        /\ Apart' /\ UniquePairs' /\ \A d \in Conversations' : RecordFits(d)'
    BY <1>1, <1>2, RecordsWritten
  <1>4. \A m : Places(m)' = Places(m)
    <2>1. \A d \in Conversations : direct'[d].messages = direct[d].messages
      BY <1>3
    <2>2. \A d \in Conversations' \ Conversations : direct'[d].messages = <<>>
      BY <1>3
    <2> QED
      BY <1>3, <2>1, <2>2, PlacesStay
  <1>5. /\ summary' = [d \in Pairs \cup {TheGroup} |-> summary'[d]]
        /\ \A d \in Conversations \ {c} : summary'[d] = summary[d]
        /\ summary'[c] = Version(r) \/ c \in unlisted'
        /\ unlisted \subseteq unlisted' /\ faults' \in Nat
    <2>1. faults \in Nat /\ summary = [d \in Pairs \cup {TheGroup} |-> summary[d]]
      BY DEF DirectInv, DirectTypes
    <2>2. CASE Summarize(c, Version(r)) /\ UNCHANGED <<faults, unlisted>>
      BY <1>3, <2>1, <2>2 DEF Summarize
    <2>3. CASE faults' = faults + 1 /\ unlisted' = unlisted \cup {c} /\ UNCHANGED summary
      BY <2>1, <2>3
    <2> QED
      BY <1>1, <2>2, <2>3
  <1>6. DirectTypes'
    BY <1>3, <1>5 DEF DirectInv, DirectTypes
  <1>7. SummaryFits(c)'
    BY <1>3, <1>5 DEF SummaryFits, SummaryMatches, Version
  <1> DEFINE M == {x \in DirectMessage : FALSE}
  <1>8. /\ M \in SUBSET DirectMessage
        /\ \A x \in DirectMessage \ M :
             sender'[x] = sender[x] /\ source'[x] = source[x] /\ Places(x)' = Places(x)
        /\ \A x \in M : SenderFits(x)' /\ PlaceFits(x)'
        /\ \A x \in M : source[x] = Nowhere => source'[x] = Nowhere
        /\ \A d \in Conversations : \A x \in M : ~Owes(x, d)
    BY <1>4
  <1> HIDE DEF M
  <1>9. \A d \in Conversations' :
           \/ SummaryFits(d)'
           \/ /\ d \in Conversations /\ direct'[d] = direct[d] /\ summary'[d] = summary[d]
              /\ \A x \in M : ~Owes(x, d)
    BY <1>3, <1>5, <1>7, <1>8
  <1>10. clock <= clock'
    BY DEF DirectInv, DirectTypes
  <1> QED
    BY <1>3, <1>5, <1>6, <1>8, <1>9, <1>10, DirectStepKeeps

\* A new Conversation is a valid record.
LEMMA EmptyRecord ==
  ASSUME DirectInv, NEW pair \in Pairs
  PROVE  LET r == NewConversation(pair) IN
         /\ r \in DirectRecord /\ ValidRecord(r, pair)
         /\ r.messages = <<>> /\ r.members = pair /\ r.created = clock
  <1>1. clock \in Nat /\ pair \in SUBSET Node /\ Cardinality(pair) = 2
    BY DEF DirectInv, DirectTypes, Pairs, kSubset
  <1> QED
    BY <1>1 DEF NewConversation, DirectRecord, ValidRecord, Once

\* What ensure finds is the Conversation of the pair; what it creates is new.
LEMMA EnsuredIs ==
  ASSUME DirectInv, NEW pair \in Pairs, NEW c \in Ensured(pair)
  PROVE  /\ c \in Pairs /\ pair \subseteq liveNodes
         /\ c \in Conversations => direct[c] # None /\ direct[c].members = pair
         /\ c \notin Conversations =>
              c = pair /\ direct[c] = None /\ CurrentOf(pair) = {}
  BY DEF Ensured, CurrentOf, Conversations

\* A Conversation is found, and its summary written again, or is made.
LEMMA EnsureDirectKeeps ==
  ASSUME DirectInv, NEW pair \in Pairs, EnsureDirect(pair)
  PROVE  DirectInv'
  <1>1. PICK c \in Ensured(pair) :
          LET r == IF direct[c] = None THEN NewConversation(pair) ELSE direct[c] IN
          WriteDirect(c, <<r>>, r)
    BY DEF EnsureDirect
  <1>2. UNCHANGED <<source, sender, clock>>
    BY DEF EnsureDirect
  <1>3. CASE c \in Conversations
    <2>1. direct[c] # None /\ WriteDirect(c, <<direct[c]>>, direct[c])
      BY <1>1, <1>3 DEF Conversations
    <2>2. c \in Pairs /\ direct[c] \in DirectRecord
      BY <1>3, RecordIsTyped DEF DirectInv
    <2>3. /\ ValidRecord(direct[c], c)
          /\ \A d \in Conversations \ {c} : direct[d].members # direct[c].members
      BY <1>3 DEF DirectInv, RecordFits, UniquePairs
    <2> QED
      BY <1>2, <1>3, <2>1, <2>2, <2>3, WriteDirectKeeps
  <1>4. CASE c \notin Conversations
    <2>1. /\ c = pair /\ direct[c] = None /\ CurrentOf(pair) = {}
      BY <1>4, EnsuredIs
    <2> DEFINE r == NewConversation(pair)
    <2>2. /\ r \in DirectRecord /\ ValidRecord(r, pair)
          /\ r.messages = <<>> /\ r.members = pair
      BY EmptyRecord
    <2>3. WriteDirect(pair, <<r>>, r)
      BY <1>1, <2>1
    <2> HIDE DEF r
    <2>4. \A d \in Conversations \ {pair} : direct[d].members # r.members
      BY <2>1, <2>2 DEF CurrentOf
    <2> QED
      BY <1>2, <1>4, <2>1, <2>2, <2>3, <2>4, WriteDirectKeeps
  <1> QED
    BY <1>3, <1>4

\* A member gives way to its successor, which has no Conversation with the other.
LEMMA MigrateKeeps ==
  ASSUME DirectInv, NEW c \in Conversations, NEW n \in DOMAIN Successor, Migrate(c, n)
  PROVE  DirectInv'
  <1> DEFINE r == direct[c]
             new == [r EXCEPT !.members = (@ \ {Successor[n]}) \cup {n},
                              !.migrations = Append(@, n)]
  <1>1. UNCHANGED <<source, sender, clock>>
    BY DEF Migrate
  <1>2. /\ c \in Pairs /\ r \in DirectRecord
        /\ r.messages \in Seq([id : DirectMessage, at : Nat])
        /\ r.migrations \in Seq(Node) /\ r.created \in Nat /\ r.members \in SUBSET Node
    BY RecordIsTyped DEF DirectInv
  <1>3. ValidRecord(r, c)
    BY DEF DirectInv, RecordFits
  <1>4. CASE WriteDirect(c, <<r>>, r)
    <2>1. \A d \in Conversations \ {c} : direct[d].members # r.members
      BY DEF DirectInv, UniquePairs
    <2> QED
      BY <1>1, <1>2, <1>3, <1>4, <2>1, WriteDirectKeeps
  <1>5. CASE /\ Cardinality(new.members) = 2 /\ CurrentOf(new.members) = {}
             /\ WriteDirect(c, <<new>>, new)
    <2>1. n \in Node
      BY DirectAssumptions
    <2>2. /\ new.members = (r.members \ {Successor[n]}) \cup {n}
          /\ new.migrations = Append(r.migrations, n)
          /\ new.messages = r.messages /\ new.created = r.created
          /\ new \in DirectRecord
      <3> DEFINE S == (r.members \ {Successor[n]}) \cup {n}
                 middle == [r EXCEPT !.members = S]
      <3>1. S \in SUBSET Node /\ Append(r.migrations, n) \in Seq(Node)
        BY <1>2, <2>1
      <3> HIDE DEF S
      <3>2. /\ middle.members = S /\ middle.migrations = r.migrations
            /\ middle.messages = r.messages /\ middle.created = r.created
            /\ middle \in DirectRecord
        BY <1>2, <3>1 DEF DirectRecord
      <3>3. new = [middle EXCEPT !.migrations = Append(r.migrations, n)]
        BY <3>2 DEF S
      <3> HIDE DEF middle, new, r
      <3> QED
        BY <3>1, <3>2, <3>3 DEF DirectRecord, S
    <2> HIDE DEF new
    <2>3. Range(new.migrations) = Range(r.migrations) \cup {n}
      BY <1>2, <2>1, <2>2, RangeOfAppend
    <2>4. ValidRecord(new, c)
      BY <1>3, <1>5, <2>2, <2>3 DEF ValidRecord, Once
    <2>5. \A d \in Conversations \ {c} : direct[d].members # new.members
      BY <1>5 DEF CurrentOf
    <2> QED
      BY <1>1, <1>2, <1>5, <2>2, <2>4, <2>5, WriteDirectKeeps
  <1> QED
    BY <1>4, <1>5 DEF Migrate

-----------------------------------------------------------------------------
(* RecordMessage                                                           *)

\* A message is between two Nodes.
LEMMA PairIsPair ==
  ASSUME NEW m \in DirectMessage
  PROVE  {From[m], To[m]} \in Pairs
  <1>1. {From[m], To[m]} \in SUBSET Node /\ From[m] # To[m]
    BY DirectAssumptions
  <1>2. IsFiniteSet({From[m]}) /\ Cardinality({From[m]}) = 1
    BY FS_Singleton
  <1>3. Cardinality({From[m]} \cup {To[m]}) = Cardinality({From[m]}) + 1
    BY <1>1, <1>2, FS_AddElement
  <1>4. {From[m]} \cup {To[m]} = {From[m], To[m]}
    OBVIOUS
  <1> QED
    BY <1>1, <1>2, <1>3, <1>4 DEF Pairs, kSubset

\* A sequence with one more.
LEMMA Appended ==
  ASSUME NEW T, NEW q \in Seq(T), NEW x \in T
  PROVE  /\ Append(q, x) \in Seq(T) /\ Len(q) \in Nat
         /\ Len(Append(q, x)) = Len(q) + 1
         /\ DOMAIN q = 1..Len(q) /\ DOMAIN Append(q, x) = DOMAIN q \cup {Len(q) + 1}
         /\ Len(q) + 1 \notin DOMAIN q
         /\ \A i \in DOMAIN q : Append(q, x)[i] = q[i]
         /\ Append(q, x)[Len(q) + 1] = x
  OBVIOUS

MessagesOf(c) == IF c \in Conversations THEN direct[c].messages ELSE <<>>

\* The record of c is written with one message more.
Extends(c, last) ==
  /\ Conversations' = Conversations \cup {c}
  /\ \A d \in Conversations \ {c} : direct'[d] = direct[d]
  /\ direct'[c].messages = Append(MessagesOf(c), last)

\* The places after a message was appended to the record of c.
LEMMA PlacesGrow ==
  ASSUME NEW T, NEW c, NEW m, NEW last \in T, last.id = m, MessagesOf(c) \in Seq(T),
         Extends(c, last), Places(m) = {}
  PROVE  /\ \A x : x # m => Places(x)' = Places(x)
         /\ Places(m)' = {<<c, Len(MessagesOf(c)) + 1>>}
  <1>0. PICK q \in Seq(T) : q = MessagesOf(c)
    OBVIOUS
  <1>1. /\ last \in T /\ last.id = m
        /\ c \in Conversations => q = direct[c].messages
        /\ c \notin Conversations => q = <<>>
        /\ Conversations' = Conversations \cup {c}
        /\ \A d \in Conversations \ {c} : direct'[d] = direct[d]
        /\ direct'[c].messages = Append(q, last)
    BY <1>0 DEF MessagesOf, Extends
  <1>2. /\ DOMAIN Append(q, last) = DOMAIN q \cup {Len(q) + 1}
        /\ \A i \in DOMAIN q : Append(q, last)[i] = q[i]
        /\ Append(q, last)[Len(q) + 1] = last
    BY <1>1, Appended
  <1>3. direct'[c].messages = Append(q, last)
    BY <1>1
  <1>4. ASSUME NEW x, x # m PROVE Places(x)' = Places(x)
    <2>1. ASSUME NEW p \in Places(x) PROVE p \in Places(x)'
      <3>1. PICK d \in Conversations : \E i \in DOMAIN direct[d].messages :
              p = <<d, i>> /\ direct[d].messages[i].id = x
        BY <2>1, InPlaces
      <3>2. PICK i \in DOMAIN direct[d].messages : p = <<d, i>> /\ direct[d].messages[i].id = x
        BY <3>1
      <3>3. i \in DOMAIN direct'[d].messages /\ direct'[d].messages[i] = direct[d].messages[i]
        BY <1>1, <1>2, <1>3
      <3>4. d \in Conversations'
        BY <1>1
      <3> QED
        BY <3>2, <3>3, <3>4, InPlaces
    <2>2. ASSUME NEW p \in Places(x)' PROVE p \in Places(x)
      <3>1. PICK d \in Conversations' : \E i \in DOMAIN direct'[d].messages :
              p = <<d, i>> /\ direct'[d].messages[i].id = x
        BY <2>2, InPlaces
      <3>2. PICK i \in DOMAIN direct'[d].messages : p = <<d, i>> /\ direct'[d].messages[i].id = x
        BY <3>1
      <3>3. CASE d # c
        BY <1>1, <3>2, <3>3, InPlaces
      <3>4. CASE d = c
        <4>1. i \in DOMAIN q /\ q[i].id = x
          BY <1>1, <1>2, <1>3, <1>4, <3>2, <3>4
        <4>2. c \in Conversations
          <5>1. SUFFICES ASSUME q = <<>> PROVE FALSE
            BY <1>1
          <5>2. DOMAIN q = {}
            BY <5>1
          <5> QED
            BY <4>1, <5>2
        <4> QED
          BY <1>1, <3>2, <3>4, <4>1, <4>2, InPlaces
      <3> QED
        BY <3>3, <3>4
    <2> QED
      BY <2>1, <2>2
  <1>5. \A p \in Places(m)' : p = <<c, Len(q) + 1>>
    <2>1. SUFFICES ASSUME NEW p \in Places(m)' PROVE p = <<c, Len(q) + 1>>
      OBVIOUS
    <2>2. PICK d \in Conversations' : \E i \in DOMAIN direct'[d].messages :
            p = <<d, i>> /\ direct'[d].messages[i].id = m
      BY InPlaces
    <2>3. PICK i \in DOMAIN direct'[d].messages : p = <<d, i>> /\ direct'[d].messages[i].id = m
      BY <2>2
    <2>4. CASE d # c
      BY <1>1, <2>3, <2>4, InPlaces
    <2>5. CASE d = c /\ i \in DOMAIN q
      <3>1. q[i].id = m
        BY <1>2, <1>3, <2>3, <2>5
      <3>2. c \in Conversations
        <4>1. SUFFICES ASSUME q = <<>> PROVE FALSE
          BY <1>1
        <4>2. DOMAIN q = {}
          BY <4>1
        <4> QED
          BY <2>5, <4>2
      <3>3. i \in DOMAIN direct[c].messages /\ direct[c].messages[i].id = m
        BY <1>1, <2>5, <3>1, <3>2
      <3>4. <<c, i>> \in Places(m)
        BY <1>1, <3>2, <3>3, InPlaces
      <3> QED
        BY <3>4
    <2> QED
      BY <1>2, <1>3, <2>3, <2>4, <2>5
  <1>6. <<c, Len(q) + 1>> \in Places(m)'
    BY <1>1, <1>2, <1>3, InPlaces
  <1> QED
    BY <1>0, <1>4, <1>5, <1>6

\* The record with the message is valid where it was without, for the Conversation
\* is the pair's, and the message is no older than it.
LEMMA MessageAppended ==
  ASSUME DirectInv, NEW c \in Pairs, NEW last \in [id : DirectMessage, at : Nat], NEW new,
         NEW old \in DirectRecord, ValidRecord(old, c),
         old.members = {From[last.id], To[last.id]}, last.at \in old.created..clock,
         \A i \in DOMAIN old.messages : old.messages[i].id # last.id,
         new = [old EXCEPT !.messages = Append(@, last)]
  PROVE  /\ new \in DirectRecord /\ ValidRecord(new, c)
         /\ new.members = old.members /\ new.migrations = old.migrations
         /\ new.messages = Append(old.messages, last)
  <1> DEFINE q == Append(old.messages, last)
  <1>1. last \in [id : DirectMessage, at : Nat]
    OBVIOUS
  <1>2. /\ old.messages \in Seq([id : DirectMessage, at : Nat])
        /\ old.created \in Nat /\ clock \in Nat
    <2>1. clock \in Nat
      BY DEF DirectInv, DirectTypes
    <2> QED
      BY <2>1 DEF DirectRecord
  <1>3. /\ q \in Seq([id : DirectMessage, at : Nat])
        /\ DOMAIN q = DOMAIN old.messages \cup {Len(old.messages) + 1}
        /\ Len(old.messages) + 1 \notin DOMAIN old.messages
        /\ \A i \in DOMAIN old.messages : q[i] = old.messages[i]
        /\ q[Len(old.messages) + 1] = last
    BY <1>1, <1>2, Appended
  <1>4. new = [old EXCEPT !.messages = q]
    OBVIOUS
  <1> HIDE DEF q
  <1>5. /\ new.members = old.members /\ new.migrations = old.migrations
        /\ new.messages = q /\ new.created = old.created /\ new \in DirectRecord
    BY <1>3, <1>4 DEF DirectRecord
  <1>6. Once(new)
    <2>1. SUFFICES ASSUME NEW i \in DOMAIN new.messages, NEW j \in DOMAIN new.messages,
                          new.messages[i].id = new.messages[j].id, i # j
                   PROVE  FALSE
      BY DEF Once
    <2>2. /\ i \in DOMAIN old.messages \/ i = Len(old.messages) + 1
          /\ j \in DOMAIN old.messages \/ j = Len(old.messages) + 1
      BY <1>3, <1>5, <2>1
    <2>3. CASE i \in DOMAIN old.messages /\ j \in DOMAIN old.messages
      BY <1>3, <1>5, <2>1, <2>3 DEF Once, ValidRecord
    <2>4. CASE i \in DOMAIN old.messages /\ j = Len(old.messages) + 1
      BY <1>3, <1>5, <2>1, <2>4
    <2>5. CASE i = Len(old.messages) + 1 /\ j \in DOMAIN old.messages
      BY <1>3, <1>5, <2>1, <2>5
    <2> QED
      BY <2>1, <2>2, <2>3, <2>4, <2>5
  <1>7. ASSUME NEW i \in DOMAIN new.messages
        PROVE  /\ {From[new.messages[i].id], To[new.messages[i].id]}
                     \subseteq c \cup Range(old.migrations)
               /\ new.messages[i].at \in old.created..clock
    <2>1. CASE i \in DOMAIN old.messages
      BY <1>3, <1>5, <2>1 DEF ValidRecord
    <2>2. CASE i = Len(old.messages) + 1
      <3>1. new.messages[i] = last
        BY <1>3, <1>5, <2>2
      <3> QED
        BY <3>1 DEF ValidRecord
    <2> QED
      BY <1>3, <1>5, <1>7, <2>1, <2>2
  <1> QED
    BY <1>5, <1>6, <1>7 DEF ValidRecord, q

\* A message is recorded: the Conversation may be made first, and a fault may leave it
\* with neither the message nor the summary, or without the summary.
LEMMA RecordMessageKeeps ==
  ASSUME DirectInv, NEW m \in DirectMessage, RecordMessage(m)
  PROVE  DirectInv'
  <1> DEFINE pair == {From[m], To[m]}
  <1>1. pair \in Pairs
    BY PairIsPair
  <1> HIDE DEF pair
  <1>2. PICK c \in Ensured(pair) :
          LET old == IF direct[c] = None THEN NewConversation(pair) ELSE direct[c]
              at == IF direct[c] = None THEN old.created ELSE sender[m].at
              new == [old EXCEPT !.messages = Append(@, [id |-> m, at |-> at])] IN
          /\ ~Predates(m, c)
          /\ WriteDirect(c, <<old, new>>, old)
          /\ SenderGoes(m, "begun",
               IF faults' > faults THEN AtStep(m, "stopped")
               ELSE Placed(m, <<c, Len(new.messages)>>))
    BY DEF RecordMessage, pair
  <1>3. /\ sender[m].step = "begun" /\ Places(m) = {}
        /\ UNCHANGED <<source, clock, tries>>
    BY DEF RecordMessage
  <1>4. /\ c \in Pairs
        /\ c \in Conversations => direct[c] # None /\ direct[c].members = pair
        /\ c \notin Conversations => c = pair /\ direct[c] = None /\ CurrentOf(pair) = {}
    BY <1>1, EnsuredIs
  <1>5. /\ SenderFits(m) /\ PlaceFits(m) /\ sender[m] \in SenderRecord
        /\ sender[m].sent \in Nat /\ sender[m].at \in Nat /\ clock \in Nat /\ faults \in Nat
        /\ source \in [DirectMessage -> {None, Nowhere} \cup (Pairs \X Nat)]
    BY SenderIsTyped
  <1> DEFINE old0 == IF direct[c] = None THEN NewConversation(pair) ELSE direct[c]
             at0 == IF direct[c] = None THEN old0.created ELSE sender[m].at
             new0 == [old0 EXCEPT !.messages = Append(@, [id |-> m, at |-> at0])]
  <1>6. PICK old, at, last, new :
          old = old0 /\ at = at0 /\ last = [id |-> m, at |-> at] /\ new = new0
    OBVIOUS
  <1>7. /\ WriteDirect(c, <<old, new>>, old)
        /\ SenderGoes(m, "begun",
             IF faults' > faults THEN AtStep(m, "stopped") ELSE Placed(m, <<c, Len(new.messages)>>))
        /\ new = [old EXCEPT !.messages = Append(@, last)]
    BY <1>2, <1>6
  <1>8. /\ old \in DirectRecord /\ ValidRecord(old, c) /\ old.members = pair
        /\ at \in Nat /\ at \in old.created..clock
        /\ old.messages = IF c \in Conversations THEN direct[c].messages ELSE <<>>
    <2>1. CASE c \in Conversations
      <3>1. old = direct[c] /\ at = sender[m].at /\ direct[c].members = pair
        BY <1>4, <1>6, <2>1
      <3>2. direct[c] \in DirectRecord /\ direct[c].created \in Nat /\ ValidRecord(direct[c], c)
        BY <2>1, RecordIsTyped DEF DirectInv, RecordFits
      <3>3. ~(sender[m].at < direct[c].created)
        BY <1>2, <1>4, <2>1 DEF Predates
      <3>4. sender[m].at <= clock
        BY <1>5 DEF SenderFits
      <3> QED
        BY <1>5, <2>1, <3>1, <3>2, <3>3, <3>4
    <2>2. CASE c \notin Conversations
      <3>1. old = NewConversation(pair) /\ at = NewConversation(pair).created /\ c = pair
        BY <1>4, <1>6, <2>2
      <3> HIDE DEF old0, at0, new0
      <3>2. LET r == NewConversation(pair) IN
            /\ r \in DirectRecord /\ ValidRecord(r, pair)
            /\ r.messages = <<>> /\ r.members = pair /\ r.created = clock
        BY <1>1, EmptyRecord
      <3> QED
        BY <1>5, <2>2, <3>1, <3>2
    <2> QED
      BY <2>1, <2>2
  <1> HIDE DEF old0, at0, new0
  <1>8a. last \in [id : DirectMessage, at : Nat] /\ last.id = m /\ last.at = at
    BY <1>6, <1>8
  <1>9. \A i \in DOMAIN old.messages : old.messages[i].id # m
    <2>1. SUFFICES ASSUME NEW i \in DOMAIN old.messages, old.messages[i].id = m PROVE FALSE
      OBVIOUS
    <2>2. c \in Conversations
      <3>1. SUFFICES ASSUME old.messages = <<>> PROVE FALSE
        BY <1>8
      <3>2. DOMAIN old.messages = {}
        BY <3>1
      <3> QED
        BY <2>1, <3>2
    <2>3. <<c, i>> \in Places(m)
      BY <1>8, <2>1, <2>2, InPlaces
    <2> QED
      BY <1>3, <2>3
  <1>10. /\ new \in DirectRecord /\ ValidRecord(new, c)
         /\ new.members = old.members /\ new.migrations = old.migrations
         /\ new.messages = Append(old.messages, last)
    <2>1. /\ old.members = {From[last.id], To[last.id]}
          /\ \A i \in DOMAIN old.messages : old.messages[i].id # last.id
      BY <1>8a, <1>8, <1>9 DEF pair
    <2>2. /\ c \in Pairs /\ old \in DirectRecord /\ ValidRecord(old, c)
          /\ last \in [id : DirectMessage, at : Nat] /\ last.at \in old.created..clock
          /\ new = [old EXCEPT !.messages = Append(@, last)]
      BY <1>8a, <1>4, <1>7, <1>8
    <2> QED
      BY <2>1, <2>2, MessageAppended
  <1>11. old.messages \in Seq([id : DirectMessage, at : Nat])
    BY <1>8 DEF DirectRecord
  <1>12. \A d \in Conversations \ {c} :
           /\ direct[d].members # pair
           /\ \A i \in DOMAIN old.messages, j \in DOMAIN direct[d].messages :
                old.messages[i].id # direct[d].messages[j].id
           /\ \A j \in DOMAIN direct[d].messages : direct[d].messages[j].id # m
    <2>1. SUFFICES ASSUME NEW d \in Conversations, d # c
                   PROVE  /\ direct[d].members # pair
                          /\ \A i \in DOMAIN old.messages, j \in DOMAIN direct[d].messages :
                               old.messages[i].id # direct[d].messages[j].id
                          /\ \A j \in DOMAIN direct[d].messages : direct[d].messages[j].id # m
      OBVIOUS
    <2>2. \A j \in DOMAIN direct[d].messages : direct[d].messages[j].id # m
      BY <1>3, InPlaces
    <2>3. CASE c \in Conversations
      BY <1>4, <1>8, <2>1, <2>2, <2>3 DEF DirectInv, Apart, UniquePairs
    <2>4. CASE c \notin Conversations
      <3>1. old.messages = <<>>
        BY <1>8, <2>4
      <3>2. DOMAIN old.messages = {}
        BY <3>1
      <3> QED
        BY <1>4, <2>2, <2>4, <3>2 DEF CurrentOf
    <2> QED
      BY <2>3, <2>4
  <1>13. \A d \in Conversations \ {c} :
           /\ direct[d].members # new.members
           /\ \A i \in DOMAIN new.messages, j \in DOMAIN direct[d].messages :
                new.messages[i].id # direct[d].messages[j].id
    <2>1. last \in [id : DirectMessage, at : Nat] /\ last.id = m
      BY <1>8a
    <2>2. /\ DOMAIN new.messages = DOMAIN old.messages \cup {Len(old.messages) + 1}
          /\ \A i \in DOMAIN old.messages : new.messages[i] = old.messages[i]
          /\ new.messages[Len(old.messages) + 1] = last
      BY <1>10, <1>11, <2>1, Appended
    <2>3. new.messages[Len(old.messages) + 1].id = m
      BY <2>1, <2>2
    <2> QED
      BY <1>8, <1>10, <1>12, <2>2, <2>3
  <1>14. "recorded" \in SenderSteps /\ "stopped" \in SenderSteps
    BY DEF SenderSteps
  <1>15. \A d \in Conversations : ~Owes(m, d)
    BY <1>3 DEF Owes
  <1>16. source[m] \in {None, Nowhere}
    BY <1>3, <1>5 DEF SenderFits
  <1> DEFINE spot == <<c, Len(old.messages) + 1>>
  <1>17. /\ spot \in Pairs \X Nat /\ spot # Nowhere /\ spot[1] = c
         /\ spot = <<c, Len(new.messages)>>
    <2>1. Len(old.messages) \in Nat /\ Len(new.messages) = Len(old.messages) + 1
      BY <1>8a, <1>10, <1>11, Appended
    <2> QED
      BY <1>4, <2>1 DEF Nowhere
  <1> HIDE DEF spot
  \* What is the same whatever was written, and whether the sender goes on or stops.
  <1>18. ASSUME NEW r \in {old, new}, direct' = [direct EXCEPT ![c] = r],
                NEW s \in SenderRecord, sender' = [sender EXCEPT ![m] = s],
                s.at = sender[m].at, s.sent = sender[m].sent,
                \/ /\ s.step = "recorded" /\ s.place = spot /\ r = new
                   /\ summary'[c][1] = Len(old.messages)
                \/ s.step = "stopped" /\ s.place = sender[m].place /\ c \in unlisted',
                summary' = [d \in Pairs \cup {TheGroup} |-> summary'[d]],
                \A d \in Conversations \ {c} : summary'[d] = summary[d],
                unlisted \subseteq unlisted', faults' \in Nat
         PROVE  DirectInv'
    <2>1. r \in DirectRecord /\ ValidRecord(r, c)
      BY <1>8, <1>10
    <2>2. \A d \in Conversations \ {c} :
            /\ direct[d].members # r.members
            /\ \A i \in DOMAIN r.messages, j \in DOMAIN direct[d].messages :
                 r.messages[i].id # direct[d].messages[j].id
      BY <1>8, <1>12, <1>13
    <2>3. /\ direct' \in [Pairs -> DirectRecord \cup {None}]
          /\ direct'[c] = r /\ \A d \in Pairs \ {c} : direct'[d] = direct[d]
          /\ Conversations' = Conversations \cup {c} /\ Conversations \subseteq Pairs
          /\ Apart' /\ UniquePairs' /\ \A d \in Conversations' : RecordFits(d)'
      BY <1>3, <1>4, <1>18, <2>1, <2>2, RecordsWritten
    <2>4. /\ \A x \in DirectMessage \ {m} : Places(x)' = Places(x)
          /\ r = new => Places(m)' = {spot}
          /\ \A p \in Places(m)' : p = spot
      <3>1. CASE r = new
        <4>1. direct'[c].messages = Append(old.messages, last)
          BY <1>10, <2>3, <3>1
        <4>2. /\ \A x : x # m => Places(x)' = Places(x)
              /\ Places(m)' = {<<c, Len(old.messages) + 1>>}
          <5>1. old.messages = MessagesOf(c)
            BY <1>8 DEF MessagesOf
          <5>2. Extends(c, last) /\ Places(m) = {}
            BY <1>3, <2>3, <4>1, <5>1 DEF Extends
          <5> DEFINE T == [id : DirectMessage, at : Nat]
          <5>3. last \in T /\ last.id = m /\ MessagesOf(c) \in Seq(T)
            BY <1>8a, <1>11, <5>1
          <5> HIDE DEF T
          <5> QED
            BY <5>1, <5>2, <5>3, PlacesGrow
        <4> QED
          BY <4>2 DEF spot
      <3>2. CASE r = old /\ r # new
        <4>1. \A d \in Conversations : direct'[d].messages = direct[d].messages
          BY <1>8, <2>3, <3>2
        <4>2. \A d \in Conversations' \ Conversations : direct'[d].messages = <<>>
          BY <1>8, <2>3, <3>2
        <4>3. \A x : Places(x)' = Places(x)
          BY <2>3, <4>1, <4>2, PlacesStay
        <4> QED
          BY <1>3, <3>2, <4>3
      <3> QED
        BY <1>18, <3>1, <3>2
    <2>5. sender \in [DirectMessage -> SenderRecord] /\ sender'[m] = s
      BY <1>18 DEF DirectInv, DirectTypes
    <2>6. DirectTypes'
      BY <1>3, <1>18, <2>3, <2>5 DEF DirectInv, DirectTypes
    <2>7. SenderFits(m)'
      <3>1. s.place \in {Nowhere} \cup Places(m)'
        BY <1>3, <1>5, <1>18, <2>4 DEF SenderFits
      <3> QED
        BY <1>3, <1>5, <1>16, <1>17, <1>18, <2>5, <3>1 DEF SenderFits
    <2>8. PlaceFits(m)'
      BY <1>17, <1>18, <2>4, <2>5 DEF PlaceFits
    <2>9. SummaryFits(c)'
      <3>1. CASE /\ s.step = "recorded" /\ s.place = spot /\ r = new
                 /\ summary'[c][1] = Len(old.messages)
        <4>1. CASE source[m] = None
          <5>1. Owes(m, c)'
            BY <1>3, <1>17, <2>5, <3>1, <4>1 DEF Owes
          <5> QED
            BY <5>1 DEF SummaryFits
        <4>2. CASE source[m] = Nowhere
          <5> DEFINE i == Len(old.messages) + 1
          <5>1. /\ i \in DOMAIN direct'[c].messages /\ direct'[c].messages[i].id = m
                /\ i > summary'[c][1]
            BY <1>8a, <1>10, <1>11, <2>3, <3>1, Appended
          <5>2. source'[m] = Nowhere
            BY <1>3, <4>2
          <5> HIDE DEF i
          <5>3. HiddenByOrphan(c)'
            BY <5>1, <5>2 DEF HiddenByOrphan
          <5> QED
            BY <5>3 DEF SummaryFits
        <4> QED
          BY <1>16, <4>1, <4>2
      <3>2. CASE c \in unlisted'
        BY <3>2 DEF SummaryFits
      <3> QED
        BY <1>18, <3>1, <3>2
    <2> DEFINE M == {m}
    <2>10. /\ M \in SUBSET DirectMessage
           /\ \A x \in DirectMessage \ M :
                sender'[x] = sender[x] /\ source'[x] = source[x] /\ Places(x)' = Places(x)
           /\ \A x \in M : SenderFits(x)' /\ PlaceFits(x)'
           /\ \A d \in Conversations : \A x \in M : ~Owes(x, d)
      BY <1>3, <1>15, <1>18, <2>4, <2>5, <2>7, <2>8
    <2> HIDE DEF M
    <2>12. \A x \in M : source[x] = Nowhere => source'[x] = Nowhere
      BY <1>3
    <2>13. unlisted \subseteq unlisted' /\ clock <= clock'
      BY <1>3, <1>5, <1>18
    <2>11. \A d \in Conversations' :
             \/ SummaryFits(d)'
             \/ /\ d \in Conversations /\ direct'[d] = direct[d] /\ summary'[d] = summary[d]
                /\ \A x \in M : ~Owes(x, d)
      BY <1>18, <2>3, <2>9, <2>10
    <2> QED
      BY <2>3, <2>6, <2>10, <2>11, <2>12, <2>13, DirectStepKeeps
  <1>19. summary = [d \in Pairs \cup {TheGroup} |-> summary[d]]
    BY DEF DirectInv, DirectTypes
  <1>20. CASE /\ direct' = [direct EXCEPT ![c] = new]
              /\ Summarize(c, Version(old)) /\ UNCHANGED <<faults, unlisted>>
    <2> DEFINE s == Placed(m, spot)
    <2>1. SenderGoes(m, "begun", s)
      BY <1>5, <1>7, <1>17, <1>20
    <2>2. /\ s \in SenderRecord /\ s.step = "recorded" /\ s.place = spot
          /\ s.at = sender[m].at /\ s.sent = sender[m].sent
      BY <1>5, <1>14, <1>17 DEF SenderRecord, Placed
    <2> HIDE DEF s
    <2>3. sender' = [sender EXCEPT ![m] = s]
      BY <2>1, <2>2, SenderNext
    <2>4. /\ summary' = [d \in Pairs \cup {TheGroup} |-> summary'[d]]
          /\ \A d \in Conversations \ {c} : summary'[d] = summary[d]
          /\ summary'[c][1] = Len(old.messages)
      <3>1. Conversations \subseteq Pairs
        BY DEF Conversations
      <3>2. summary'[c] = Version(old)
        BY <1>4, <1>19, <1>20 DEF Summarize
      <3>3. Version(old)[1] = Len(old.messages)
        BY DEF Version
      <3>4. /\ summary' = [d \in Pairs \cup {TheGroup} |-> summary'[d]]
            /\ \A d \in Conversations \ {c} : summary'[d] = summary[d]
        BY <1>19, <1>20, <3>1 DEF Summarize
      <3> QED
        BY <3>2, <3>3, <3>4
    <2> QED
      BY <1>5, <1>18, <1>20, <2>2, <2>3, <2>4
  <1>21. ASSUME NEW r \in {old, new}, direct' = [direct EXCEPT ![c] = r],
                faults' = faults + 1, unlisted' = unlisted \cup {c}, UNCHANGED summary
         PROVE  DirectInv'
    <2> DEFINE s == AtStep(m, "stopped")
    <2>1. SenderGoes(m, "begun", s)
      BY <1>5, <1>7, <1>21
    <2>2. /\ s \in SenderRecord /\ s.step = "stopped" /\ s.place = sender[m].place
          /\ s.at = sender[m].at /\ s.sent = sender[m].sent
      BY <1>5, <1>14 DEF SenderRecord, AtStep
    <2> HIDE DEF s
    <2>3. sender' = [sender EXCEPT ![m] = s]
      BY <2>1, <2>2, SenderNext
    <2>4. /\ summary' = [d \in Pairs \cup {TheGroup} |-> summary'[d]]
          /\ \A d \in Conversations \ {c} : summary'[d] = summary[d]
          /\ unlisted \subseteq unlisted' /\ faults' \in Nat /\ c \in unlisted'
      BY <1>5, <1>19, <1>21
    <2> QED
      BY <1>18, <1>21, <2>2, <2>3, <2>4
  <1>22. \/ /\ direct' = [direct EXCEPT ![c] = new]
            /\ Summarize(c, Version(old)) /\ UNCHANGED <<faults, unlisted>>
         \/ /\ faults' = faults + 1 /\ unlisted' = unlisted \cup {c} /\ UNCHANGED summary
            /\ \E r \in {old, new} : direct' = [direct EXCEPT ![c] = r]
    BY <1>7, WriteTwo
  <1> QED
    BY <1>20, <1>21, <1>22

-----------------------------------------------------------------------------
(* Steps that leave the records and the senders                            *)

\* The clock goes on, Nodes are tombstoned, other summaries are written.
LEMMA OthersKeep ==
  ASSUME DirectInv, UNCHANGED <<direct, source, sender>>,
         clock' \in 0..MaxTime, clock <= clock', faults' \in Nat,
         unlisted \subseteq unlisted',
         summary' = [c \in Pairs \cup {TheGroup} |-> summary'[c]],
         \A c \in Pairs : summary'[c] = summary[c]
  PROVE  DirectInv'
  <1>1. Conversations' = Conversations /\ \A x : Places(x)' = Places(x)
    BY PlacesSteady
  <1>2. clock \in Nat /\ clock' \in Nat
    BY DirectAssumptions DEF DirectInv, DirectTypes
  <1>3. DirectTypes'
    BY DEF DirectInv, DirectTypes
  <1>4. Apart' /\ UniquePairs'
    BY <1>1 DEF DirectInv, Apart, UniquePairs
  <1>5. \A c \in Conversations' : RecordFits(c)'
    BY <1>1, <1>2, RecordStays DEF DirectInv
  <1> DEFINE M == {x \in DirectMessage : FALSE}
  <1>6. /\ M \in SUBSET DirectMessage
        /\ \A x \in DirectMessage \ M :
             sender'[x] = sender[x] /\ source'[x] = source[x] /\ Places(x)' = Places(x)
        /\ \A x \in M : SenderFits(x)' /\ PlaceFits(x)'
        /\ \A x \in M : source[x] = Nowhere => source'[x] = Nowhere
        /\ \A d \in Conversations : \A x \in M : ~Owes(x, d)
    BY <1>1
  <1> HIDE DEF M
  <1>7. \A d \in Conversations' :
           \/ SummaryFits(d)'
           \/ /\ d \in Conversations /\ direct'[d] = direct[d] /\ summary'[d] = summary[d]
              /\ \A x \in M : ~Owes(x, d)
    BY <1>1, <1>6 DEF Conversations
  <1> QED
    BY <1>3, <1>4, <1>5, <1>6, <1>7, DirectStepKeeps

\* Time passes.
LEMMA TickKeeps ==
  ASSUME DirectInv, Tick
  PROVE  DirectInv'
  <1>1. clock \in Nat /\ clock < MaxTime /\ clock' = clock + 1 /\ MaxTime \in Nat
    BY DirectAssumptions DEF Tick, DirectInv, DirectTypes
  <1>2. clock' \in 0..MaxTime /\ clock <= clock'
    BY <1>1
  <1>3. UNCHANGED <<direct, source, sender, faults, unlisted, summary>>
    BY DEF Tick, Stays
  <1> QED
    BY <1>2, <1>3, OthersKeep DEF DirectInv, DirectTypes

\* A step of senders, and the conversations they ensure or migrate.
LEMMA SendStepKeeps ==
  ASSUME DirectInv, NEW m \in DirectMessage, SendStep(m)
  PROVE  DirectInv'
  BY BeginKeeps, RecordKnownKeeps, RecordMessageKeeps, RecordRefusedKeeps,
     CommitToLedgerKeeps, CommitToJobKeeps, RefreshKeeps, SenderStopsKeeps DEF SendStep

\* All steps of Direct Conversations.
LEMMA DirectStepsKeep ==
  ASSUME DirectInv, NEW messages \in SUBSET DirectMessage, DirectStep(messages)
  PROVE  DirectInv'
  <1>1. CASE \E m \in messages : SendStep(m)
    BY <1>1, SendStepKeeps
  <1>2. CASE \E pair \in {{From[m], To[m]} : m \in messages} : EnsureDirect(pair)
    <2>1. PICK m \in messages : EnsureDirect({From[m], To[m]})
      BY <1>2
    <2> DEFINE pair == {From[m], To[m]}
    <2>2. pair \in Pairs /\ EnsureDirect(pair)
      BY <2>1, PairIsPair
    <2> HIDE DEF pair
    <2> QED
      BY <2>2, EnsureDirectKeeps
  <1>3. CASE \E c \in Conversations, n \in DOMAIN Successor : Migrate(c, n)
    BY <1>3, MigrateKeeps
  <1>4. CASE Tick
    BY <1>4, TickKeeps
  <1> QED
    BY <1>1, <1>2, <1>3, <1>4 DEF DirectStep

\* What a Direct step writes besides, for the Group.
LEMMA DirectStepsSpare ==
  ASSUME DirectInv, NEW messages \in SUBSET DirectMessage, DirectStep(messages)
  PROVE  unlisted \subseteq unlisted' /\ summary'[TheGroup] = summary[TheGroup]
  <1>1. ASSUME NEW c \in Pairs, NEW versions, NEW last, WriteDirect(c, versions, last)
        PROVE  unlisted \subseteq unlisted' /\ summary'[TheGroup] = summary[TheGroup]
    <2>1. summary = [d \in Pairs \cup {TheGroup} |-> summary[d]] /\ TheGroup # c
      BY GroupAssumptions DEF DirectInv, DirectTypes
    <2> QED
      BY <1>1, <2>1 DEF WriteDirect, Summarize
  <1>2. ASSUME Stays
        PROVE  unlisted \subseteq unlisted' /\ summary'[TheGroup] = summary[TheGroup]
    BY <1>2 DEF Stays
  <1>3. ASSUME NEW m \in messages, SendStep(m)
        PROVE  unlisted \subseteq unlisted' /\ summary'[TheGroup] = summary[TheGroup]
    <2>1. CASE \/ Begin(m) \/ RecordKnown(m) \/ RecordRefused(m)
               \/ CommitToLedger(m) \/ CommitToJob(m)
      <3>1. Stays
        BY <2>1 DEF Begin, RecordKnown, RecordRefused, CommitToLedger, CommitToJob
      <3> QED
        BY <3>1, <1>2
    <2>2. CASE RecordMessage(m)
      <3> DEFINE pair == {From[m], To[m]}
      <3>1. pair \in Pairs
        BY PairIsPair
      <3>2. PICK c \in Ensured(pair) : \E versions, last : WriteDirect(c, versions, last)
        BY <2>2 DEF RecordMessage
      <3> HIDE DEF pair
      <3>3. c \in Pairs
        BY <3>1, EnsuredIs
      <3> QED
        BY <3>2, <3>3, <1>1
    <2>3. CASE Refresh(m)
      <3>1. sender[m].step \in {"committed", "again"}
        BY <2>3 DEF Refresh
      <3>2. sender[m].place \in Places(m)
        BY <3>1, SenderIsTyped DEF SenderFits
      <3>3. sender[m].place[1] \in Pairs
        BY <3>2, PlaceIsPlace DEF Conversations
      <3>4. Stays \/ \E versions, last : WriteDirect(sender[m].place[1], versions, last)
        BY <2>3 DEF Refresh
      <3> QED
        BY <3>3, <3>4, <1>1, <1>2
    <2>4. CASE SenderStops(m)
      BY <2>4 DEF SenderStops
    <2> QED
      BY <1>3, <2>1, <2>2, <2>3, <2>4 DEF SendStep
  <1>4. ASSUME NEW m \in messages, EnsureDirect({From[m], To[m]})
        PROVE  unlisted \subseteq unlisted' /\ summary'[TheGroup] = summary[TheGroup]
    <2> DEFINE pair == {From[m], To[m]}
    <2>1. pair \in Pairs
      BY PairIsPair
    <2>2. PICK c \in Ensured(pair) : \E versions, last : WriteDirect(c, versions, last)
      BY <1>4 DEF EnsureDirect
    <2> HIDE DEF pair
    <2>3. c \in Pairs
      BY <2>1, EnsuredIs
    <2> QED
      BY <2>2, <2>3, <1>1
  <1>5. ASSUME NEW c \in Conversations, NEW n, Migrate(c, n)
        PROVE  unlisted \subseteq unlisted' /\ summary'[TheGroup] = summary[TheGroup]
    <2>1. c \in Pairs /\ \E versions, last : WriteDirect(c, versions, last)
      BY <1>5 DEF Migrate, Conversations
    <2> QED
      BY <2>1, <1>1
  <1>6. ASSUME Tick
        PROVE  unlisted \subseteq unlisted' /\ summary'[TheGroup] = summary[TheGroup]
    BY <1>2, <1>6 DEF Tick
  <1>7. CASE \E m \in messages : SendStep(m)
    BY <1>3, <1>7
  <1>8. CASE \E pair \in {{From[m], To[m]} : m \in messages} : EnsureDirect(pair)
    BY <1>4, <1>8
  <1>9. CASE \E c \in Conversations, n \in DOMAIN Successor : Migrate(c, n)
    BY <1>5, <1>9
  <1> QED
    BY <1>6, <1>7, <1>8, <1>9 DEF DirectStep

\* There is nothing at first.
LEMMA DirectInvAtFirst ==
  ASSUME ConversationInit
  PROVE  DirectInv
  <1>1. /\ direct = [c \in Pairs |-> None] /\ source = [m \in DirectMessage |-> None]
        /\ sender = [m \in DirectMessage |->
                       [step |-> "none", sent |-> 0, at |-> 0, place |-> Nowhere]]
        /\ clock = 0 /\ faults = 0 /\ summary = [c \in Pairs \cup {TheGroup} |-> None]
    BY DEF ConversationInit, DirectInit
  <1>2. Conversations = {}
    BY <1>1 DEF Conversations
  <1>3. \A m : Places(m) = {}
    BY <1>2, InPlaces
  <1>4. DirectTypes
    BY <1>1, DirectAssumptions DEF DirectTypes, SenderRecord, SenderSteps
  <1>5. \A m \in DirectMessage : SenderFits(m) /\ PlaceFits(m)
    BY <1>1, <1>3, DirectNoneAssumption DEF SenderFits, PlaceFits
  <1> QED
    BY <1>2, <1>4, <1>5 DEF DirectInv, Apart, UniquePairs

-----------------------------------------------------------------------------
(* The Group                                                               *)

\* The record of the Group, field by field.
LEMMA GroupIsTyped ==
  ASSUME NEW g \in GroupRecord
  PROVE  /\ g # None
         /\ g.snapshots \in Seq(SUBSET Node)
         /\ g.messages \in Seq([id : GroupMessage, version : Nat, hop : Nat, at : Nat,
                                recipients : SUBSET Node])
         /\ DOMAIN g.messages = 1..Len(g.messages) /\ Len(g.messages) \in Nat
         /\ DOMAIN g.snapshots = 1..Len(g.snapshots) /\ Len(g.snapshots) \in Nat
         /\ \A v \in DOMAIN g.snapshots : g.snapshots[v] \in SUBSET Node
         /\ \A i \in DOMAIN g.messages :
              /\ i \in Nat /\ i >= 1
              /\ g.messages[i].id \in GroupMessage
              /\ g.messages[i].version \in Nat /\ g.messages[i].hop \in Nat
              /\ g.messages[i].at \in Nat /\ g.messages[i].recipients \in SUBSET Node
  <1> DEFINE T == [id : GroupMessage, version : Nat, hop : Nat, at : Nat,
                   recipients : SUBSET Node]
  <1>1. g # None /\ g.snapshots \in Seq(SUBSET Node) /\ g.messages \in Seq(T)
    BY GroupNoneAssumption DEF GroupRecord
  <1>2. /\ DOMAIN g.messages = 1..Len(g.messages) /\ Len(g.messages) \in Nat
        /\ \A i \in DOMAIN g.messages : i \in Nat /\ i >= 1 /\ g.messages[i] \in T
    <2> HIDE DEF T
    <2> QED
      BY <1>1, Elements
  <1>3. /\ DOMAIN g.snapshots = 1..Len(g.snapshots) /\ Len(g.snapshots) \in Nat
        /\ \A v \in DOMAIN g.snapshots : g.snapshots[v] \in SUBSET Node
    BY <1>1, Elements
  <1>4. ASSUME NEW x \in T
        PROVE  /\ x.id \in GroupMessage /\ x.version \in Nat /\ x.hop \in Nat
               /\ x.at \in Nat /\ x.recipients \in SUBSET Node
    OBVIOUS
  <1> HIDE DEF T
  <1>5. \A i \in DOMAIN g.messages :
              /\ i \in Nat /\ i >= 1
              /\ g.messages[i].id \in GroupMessage
              /\ g.messages[i].version \in Nat /\ g.messages[i].hop \in Nat
              /\ g.messages[i].at \in Nat /\ g.messages[i].recipients \in SUBSET Node
    BY <1>2, <1>4
  <1> QED
    BY <1>1, <1>2, <1>3, <1>5 DEF T

\* A step that writes neither the Group nor its messages in the Ledger.
LEMMA GroupStays ==
  ASSUME GroupInv, UNCHANGED <<group, ledger>>, unlisted \subseteq unlisted',
         summary'[TheGroup] = summary[TheGroup]
  PROVE  GroupInv'
  <1>1. group' = group /\ ledger' = ledger
    OBVIOUS
  <1>2. GroupTypes' /\ LedgerFits'
    BY <1>1 DEF GroupInv, GroupTypes, LedgerFits, IsRecorded, SequenceOf
  <1>3. ASSUME group # None PROVE GroupFits' /\ GroupSummaryFits'
    <2>1. GroupFits /\ GroupSummaryFits
      BY <1>3 DEF GroupInv
    <2>2. GroupFits'
      BY <1>1, <2>1 DEF GroupFits, Once, MessageFits
    <2>3. GroupSummaryFits'
      BY <1>1, <2>1 DEF GroupSummaryFits, SummaryMatches, GroupVersion
    <2> QED
      BY <2>2, <2>3
  <1> QED
    BY <1>1, <1>2, <1>3 DEF GroupInv

\* The record of the Group is written: the Direct Conversations are as they were.
LEMMA GroupWritten ==
  ASSUME DirectInv, NEW new, NEW whole, WriteGroup(new, whole),
         UNCHANGED <<direct, source, sender, clock>>
  PROVE  /\ DirectInv' /\ group' = new /\ unlisted \subseteq unlisted'
         /\ \/ whole /\ summary'[TheGroup] = GroupVersion(new) /\ unlisted' = unlisted
            \/ TheGroup \in unlisted'
  <1>1. /\ summary = [c \in Pairs \cup {TheGroup} |-> summary[c]] /\ faults \in Nat
        /\ clock \in 0..MaxTime /\ clock <= clock /\ \A c \in Pairs : TheGroup # c
    BY DirectAssumptions, GroupAssumptions DEF DirectInv, DirectTypes
  <1>2. CASE /\ whole /\ Summarize(TheGroup, GroupVersion(new))
             /\ UNCHANGED <<faults, unlisted>>
    <2>1. /\ summary' = [c \in Pairs \cup {TheGroup} |-> summary'[c]]
          /\ summary'[TheGroup] = GroupVersion(new)
          /\ \A c \in Pairs : summary'[c] = summary[c]
      BY <1>1, <1>2 DEF Summarize
    <2>2. DirectInv'
      BY <1>1, <1>2, <2>1, OthersKeep
    <2> QED
      BY <1>2, <2>1, <2>2 DEF WriteGroup
  <1>3. CASE /\ faults' = faults + 1 /\ unlisted' = unlisted \cup {TheGroup}
             /\ UNCHANGED summary
    <2>1. /\ summary' = [c \in Pairs \cup {TheGroup} |-> summary'[c]]
          /\ \A c \in Pairs : summary'[c] = summary[c] /\ faults' \in Nat
          /\ unlisted \subseteq unlisted'
      BY <1>1, <1>3
    <2>2. DirectInv'
      BY <1>1, <1>3, <2>1, OthersKeep
    <2> QED
      BY <1>3, <2>1, <2>2 DEF WriteGroup
  <1> QED
    BY <1>2, <1>3 DEF WriteGroup

\* Ensuring the Group writes its first record, or its summary again.
LEMMA EnsureGroupKeeps ==
  ASSUME DirectInv, GroupInv, EnsureGroup, UNCHANGED <<direct, source, sender, clock>>
  PROVE  DirectInv' /\ GroupInv'
  <1>1. UNCHANGED ledger
    BY DEF EnsureGroup
  <1>2. CASE group # None
    <2>1. WriteGroup(group, TRUE)
      BY <1>2 DEF EnsureGroup
    <2>2. /\ DirectInv' /\ group' = group /\ unlisted \subseteq unlisted'
          /\ \/ summary'[TheGroup] = GroupVersion(group)
             \/ TheGroup \in unlisted'
      BY <1>1, <2>1, GroupWritten
    <2>3. GroupTypes' /\ LedgerFits' /\ GroupFits'
      BY <1>1, <1>2, <2>2
      DEF GroupInv, GroupTypes, LedgerFits, IsRecorded, SequenceOf, GroupFits, Once, MessageFits
    <2>4. GroupSummaryFits'
      BY <1>1, <1>2, <2>2 DEF GroupInv, GroupSummaryFits, SummaryMatches, GroupVersion
    <2> QED
      BY <2>2, <2>3, <2>4 DEF GroupInv
  <1>3. CASE group = None
    <2> DEFINE new == [snapshots |-> <<Founders>>, messages |-> <<>>]
    <2>1. WriteGroup(new, TRUE)
      BY <1>3 DEF EnsureGroup
    <2>2. new.snapshots = <<Founders>> /\ new.messages = <<>> /\ new \in GroupRecord
      BY GroupAssumptions DEF GroupRecord
    <2> HIDE DEF new
    <2>3. /\ DirectInv' /\ group' = new
          /\ summary'[TheGroup] = GroupVersion(new) \/ TheGroup \in unlisted'
      BY <1>1, <2>1, GroupWritten
    <2>4. GroupTypes' /\ LedgerFits'
      <3>1. new.snapshots # <<>>
        BY <2>2
      <3>2. \A m \in GroupMessage : ledger'[m] = None
        BY <1>1, <1>3 DEF GroupInv, LedgerFits
      <3> QED
        BY <1>1, <2>2, <2>3, <3>1, <3>2 DEF GroupInv, GroupTypes, LedgerFits
    <2>5. GroupFits'
      BY <2>2, <2>3, GroupAssumptions DEF GroupFits, Once, MessageFits
    <2>6. GroupSummaryFits'
      BY <2>2, <2>3 DEF GroupSummaryFits, SummaryMatches, GroupVersion
    <2> QED
      BY <2>3, <2>4, <2>5, <2>6 DEF GroupInv
  <1> QED
    BY <1>2, <1>3

\* Members change for the messages to come: those that are there keep their version.
LEMMA ChangeMemberKeeps ==
  ASSUME DirectInv, GroupInv, NEW n \in Joiner, ChangeMember(n),
         UNCHANGED <<direct, source, sender, clock>>
  PROVE  /\ DirectInv' /\ GroupInv'
         /\ group # None /\ group' # None /\ group'.messages = group.messages
  <1> DEFINE members == IF n \in Members(group) THEN Members(group) \ {n}
                                                ELSE Members(group) \cup {n}
             new == [group EXCEPT !.snapshots = Append(@, members)]
  <1>1. /\ group # None /\ Cardinality(members) >= MinMembers
        /\ WriteGroup(new, TRUE) /\ UNCHANGED ledger
    BY DEF ChangeMember
  <1>2. group \in GroupRecord /\ group.snapshots # <<>> /\ GroupFits /\ GroupSummaryFits
    BY <1>1 DEF GroupInv, GroupTypes
  <1>3. /\ group.snapshots \in Seq(SUBSET Node)
        /\ DOMAIN group.snapshots = 1..Len(group.snapshots) /\ Len(group.snapshots) \in Nat
        /\ \A v \in DOMAIN group.snapshots : group.snapshots[v] \in SUBSET Node
    BY <1>2, GroupIsTyped
  <1>4. members \in SUBSET Node
    <2>1. Len(group.snapshots) \in DOMAIN group.snapshots
      BY <1>2, <1>3
    <2>2. Members(group) \in SUBSET Node
      BY <1>3, <2>1 DEF Members, Last
    <2> QED
      BY <2>2, GroupAssumptions
  <1> HIDE DEF members
  <1>5. /\ new \in GroupRecord /\ new.messages = group.messages
        /\ new.snapshots = Append(group.snapshots, members)
    <2> DEFINE q == Append(group.snapshots, members)
    <2>1. q \in Seq(SUBSET Node) /\ new = [group EXCEPT !.snapshots = q]
      BY <1>3, <1>4, Appended
    <2> HIDE DEF q
    <2>2. new \in GroupRecord /\ new.messages = group.messages /\ new.snapshots = q
      BY <1>2, <2>1 DEF GroupRecord
    <2> QED
      BY <2>2 DEF q
  <1> HIDE DEF new
  <1>6. /\ DOMAIN new.snapshots = DOMAIN group.snapshots \cup {Len(group.snapshots) + 1}
        /\ \A v \in DOMAIN group.snapshots : new.snapshots[v] = group.snapshots[v]
        /\ new.snapshots[Len(group.snapshots) + 1] = members
    BY <1>3, <1>4, <1>5, Appended
  <1>7. /\ DirectInv' /\ group' = new /\ unlisted \subseteq unlisted'
        /\ summary'[TheGroup] = GroupVersion(new) \/ TheGroup \in unlisted'
    BY <1>1, GroupWritten
  <1>8. new # None /\ new.snapshots # <<>>
    <2>1. SUFFICES ASSUME new.snapshots = <<>> PROVE FALSE
      BY <1>5, GroupIsTyped
    <2>2. DOMAIN new.snapshots = {}
      BY <2>1
    <2> QED
      BY <1>6, <2>2
  <1>9. GroupTypes' /\ LedgerFits'
    BY <1>1, <1>5, <1>7, <1>8 DEF GroupInv, GroupTypes, LedgerFits, IsRecorded, SequenceOf
  <1>10. GroupFits'
    <2>1. Once(group)'
      BY <1>2, <1>5, <1>7 DEF GroupFits, Once
    <2>2. \A v \in DOMAIN new.snapshots : Cardinality(new.snapshots[v]) >= MinMembers
      BY <1>1, <1>2, <1>6 DEF GroupFits
    <2>3. \A i \in DOMAIN group.messages : MessageFits(i)'
      BY <1>1, <1>2, <1>5, <1>6, <1>7 DEF GroupFits, MessageFits
    <2> QED
      BY <1>2, <1>5, <1>7, <2>1, <2>2, <2>3 DEF GroupFits
  <1>11. GroupSummaryFits'
    BY <1>1, <1>2, <1>5, <1>7 DEF GroupSummaryFits, SummaryMatches, GroupVersion
  <1> QED
    BY <1>1, <1>5, <1>7, <1>8, <1>9, <1>10, <1>11 DEF GroupInv

-----------------------------------------------------------------------------
(* SendGroupMessage                                                        *)

\* Where a message is in a record: one place.
LEMMA SequenceIs ==
  ASSUME NEW g, Once(g), NEW m, SequenceOf(g, m) # {}
  PROVE  LET i == CHOOSE i \in SequenceOf(g, m) : TRUE IN
         /\ i \in DOMAIN g.messages /\ g.messages[i].id = m
         /\ \A j \in DOMAIN g.messages : g.messages[j].id = m => j = i
  BY DEF SequenceOf, Once

\* The Ledger after a commit; a message that is there stays as it is.
LEMMA GroupCommitted ==
  ASSUME GroupTypes, NEW g \in GroupRecord, Once(g), NEW m \in GroupMessage,
         SequenceOf(g, m) # {}, NEW denied, CommitGroup(g, m, denied)
  PROVE  /\ ledger' \in [GroupMessage ->
                           [recipients : SUBSET Node, admitted : SUBSET Node] \cup {None}]
         /\ ledger'[m] # None
         /\ \A x \in GroupMessage : x # m => ledger'[x] = ledger[x]
         /\ ledger[m] # None => ledger' = ledger /\ late' = late
         /\ ledger[m] = None => ledger'[m].recipients = Recipients(g, m)
  <1>1. ledger \in [GroupMessage ->
                      [recipients : SUBSET Node, admitted : SUBSET Node] \cup {None}]
    BY DEF GroupTypes
  <1>2. CASE ledger[m] # None
    BY <1>1, <1>2 DEF CommitGroup
  <1>3. CASE ledger[m] = None
    <2>1. Recipients(g, m) \in SUBSET Node
      BY GroupIsTyped, SequenceIs DEF Recipients, MessageOf
    <2> DEFINE l == [recipients |-> Recipients(g, m), admitted |-> Recipients(g, m) \ denied]
    <2>2. /\ l \in [recipients : SUBSET Node, admitted : SUBSET Node]
          /\ l.recipients = Recipients(g, m) /\ l # None
      BY <2>1, GroupNoneAssumption
    <2>3. ledger' = [ledger EXCEPT ![m] = l]
      BY <1>3 DEF CommitGroup
    <2> HIDE DEF l
    <2> QED
      BY <1>1, <1>3, <2>2, <2>3
  <1> QED
    BY <1>2, <1>3

\* The last message of the record, and the time that none of it is after.
LEMMA LastTimeIs ==
  ASSUME group \in GroupRecord
  PROVE  /\ LastTime \in Nat
         /\ \A i \in DOMAIN group.messages :
              i = Len(group.messages) => LastTime = group.messages[i].at
  <1>1. /\ group.messages \in Seq([id : GroupMessage, version : Nat, hop : Nat, at : Nat,
                                recipients : SUBSET Node])
        /\ DOMAIN group.messages = 1..Len(group.messages) /\ Len(group.messages) \in Nat
        /\ \A i \in DOMAIN group.messages : group.messages[i].at \in Nat
    BY GroupIsTyped
  <1>2. CASE group.messages = <<>>
    <2>1. DOMAIN group.messages = {}
      BY <1>2
    <2> QED
      BY <1>2, <2>1 DEF LastTime
  <1>3. CASE group.messages # <<>>
    <2>1. Len(group.messages) \in DOMAIN group.messages
      BY <1>1, <1>3
    <2> QED
      BY <1>1, <1>3, <2>1 DEF LastTime, Last
  <1> QED
    BY <1>2, <1>3

\* The record with a new message: after the others, for the members of now.
LEMMA WithMessageIs ==
  ASSUME GroupInv, group # None, NEW m \in GroupMessage, MaySend(m), NEW g \in WithMessage(m)
  PROVE  /\ g \in GroupRecord /\ g.snapshots = group.snapshots
         /\ DOMAIN g.messages = DOMAIN group.messages \cup {Len(group.messages) + 1}
         /\ Len(g.messages) = Len(group.messages) + 1
         /\ Len(group.messages) + 1 \notin DOMAIN group.messages
         /\ \A i \in DOMAIN group.messages : g.messages[i] = group.messages[i]
         /\ LET x == g.messages[Len(group.messages) + 1] IN
            /\ x.id = m /\ x.hop <= MaxHops /\ x.version \in DOMAIN group.snapshots
            /\ x.recipients = group.snapshots[x.version] \ {GroupFrom[m]}
            /\ x.at \in Nat /\ LastTime <= x.at
  <1> DEFINE T == [id : GroupMessage, version : Nat, hop : Nat, at : Nat,
                   recipients : SUBSET Node]
  <1>1. group \in GroupRecord /\ group.snapshots # <<>> /\ GroupFits
    BY DEF GroupInv, GroupTypes
  <1>2. /\ group.snapshots \in Seq(SUBSET Node) /\ group.messages \in Seq(T)
        /\ DOMAIN group.snapshots = 1..Len(group.snapshots) /\ Len(group.snapshots) \in Nat
        /\ \A v \in DOMAIN group.snapshots : group.snapshots[v] \in SUBSET Node
        /\ \A i \in DOMAIN group.messages : group.messages[i].hop \in Nat
    BY <1>1, GroupIsTyped
  <1>3. HopOf(m) \in Nat /\ HopOf(m) <= MaxHops
    <2>1. CASE Parent[m] = None
      BY <2>1, GroupAssumptions DEF HopOf
    <2>2. CASE Parent[m] # None
      <3>1. IsRecorded(Parent[m]) /\ HopOf(m) <= MaxHops
        BY <2>2 DEF MaySend
      <3> DEFINE i == CHOOSE i \in SequenceOf(group, Parent[m]) : TRUE
      <3>2. i \in DOMAIN group.messages
        BY <3>1 DEF IsRecorded, SequenceOf
      <3>3. HopOf(m) = group.messages[i].hop + 1
        BY <2>2 DEF HopOf
      <3> HIDE DEF i
      <3>4. \A h \in Nat : h + 1 \in Nat
        OBVIOUS
      <3>5. group.messages[i].hop \in Nat
        BY <1>1, <3>2, GroupIsTyped
      <3>6. HopOf(m) \in Nat
        BY <3>3, <3>4, <3>5
      <3> QED
        BY <3>1, <3>6
    <2> QED
      BY <2>1, <2>2
  <1>4. Len(group.snapshots) \in DOMAIN group.snapshots
    BY <1>1, <1>2
  <1>5. PICK at \in LastTime..(LastTime + 1) :
          g = [group EXCEPT !.messages = Append(@,
                 [id |-> m, version |-> Len(group.snapshots), hop |-> HopOf(m), at |-> at,
                  recipients |-> Members(group) \ {GroupFrom[m]}])]
    BY DEF WithMessage
  <1>6. at \in Nat /\ LastTime <= at
    BY <1>1, LastTimeIs
  <1> DEFINE x == [id |-> m, version |-> Len(group.snapshots), hop |-> HopOf(m), at |-> at,
                   recipients |-> Members(group) \ {GroupFrom[m]}]
             q == Append(group.messages, x)
  <1>7. Members(group) = group.snapshots[Len(group.snapshots)] /\ Members(group) \in SUBSET Node
    BY <1>2, <1>4 DEF Members, Last
  <1>8. /\ x \in T /\ x.id = m /\ x.version = Len(group.snapshots) /\ x.hop = HopOf(m)
        /\ x.at = at /\ x.recipients = Members(group) \ {GroupFrom[m]}
    BY <1>2, <1>3, <1>6, <1>7
  <1>9. g = [group EXCEPT !.messages = q]
    BY <1>5
  <1> HIDE DEF x, T
  <1>10. /\ q \in Seq(T) /\ DOMAIN q = DOMAIN group.messages \cup {Len(group.messages) + 1}
         /\ Len(q) = Len(group.messages) + 1
         /\ Len(group.messages) + 1 \notin DOMAIN group.messages
         /\ \A i \in DOMAIN group.messages : q[i] = group.messages[i]
         /\ q[Len(group.messages) + 1] = x
    BY <1>2, <1>8, Appended
  <1> HIDE DEF q
  <1>11. g \in GroupRecord /\ g.snapshots = group.snapshots /\ g.messages = q
    BY <1>1, <1>9, <1>10 DEF GroupRecord, T
  <1> QED
    BY <1>3, <1>4, <1>6, <1>7, <1>8, <1>10, <1>11

\* The record that a sender writes has its message once, and the others as they were.
LEMMA SentRecordFits ==
  ASSUME GroupInv, group # None, NEW m \in GroupMessage, NEW g,
         g \in IF MayRetry(m) THEN {group} ELSE IF MaySend(m) THEN WithMessage(m) ELSE {}
  PROVE  /\ g \in GroupRecord /\ g.snapshots = group.snapshots /\ Once(g)
         /\ SequenceOf(g, m) # {}
         /\ DOMAIN group.messages \subseteq DOMAIN g.messages
         /\ \A i \in DOMAIN group.messages : g.messages[i] = group.messages[i]
         /\ \A i \in DOMAIN g.messages \ DOMAIN group.messages : g.messages[i].id = m
         /\ \A i \in DOMAIN g.messages :
              LET x == g.messages[i] IN
              /\ x.hop <= MaxHops /\ x.version \in DOMAIN g.snapshots
              /\ x.recipients = g.snapshots[x.version] \ {GroupFrom[x.id]}
              /\ i > 1 => x.at >= g.messages[i - 1].at
         /\ \/ g = group
            \/ g.messages # <<>> /\ Last(g.messages).id = m /\ ledger[m] = None
  <1>1. group \in GroupRecord /\ GroupFits /\ LedgerFits
    BY DEF GroupInv, GroupTypes
  <1>2. CASE MayRetry(m)
    BY <1>1, <1>2 DEF MayRetry, IsRecorded, GroupFits, MessageFits
  <1>3. CASE ~MayRetry(m)
    <2>1. MaySend(m) /\ g \in WithMessage(m)
      BY <1>3
    <2> DEFINE n == Len(group.messages) + 1
    <2>2. /\ g \in GroupRecord /\ g.snapshots = group.snapshots
          /\ DOMAIN g.messages = DOMAIN group.messages \cup {n} /\ Len(g.messages) = n
          /\ n \notin DOMAIN group.messages
          /\ \A i \in DOMAIN group.messages : g.messages[i] = group.messages[i]
          /\ LET x == g.messages[n] IN
             /\ x.id = m /\ x.hop <= MaxHops /\ x.version \in DOMAIN group.snapshots
             /\ x.recipients = group.snapshots[x.version] \ {GroupFrom[m]}
             /\ x.at \in Nat /\ LastTime <= x.at
      BY <2>1, WithMessageIs
    <2>3. /\ DOMAIN group.messages = 1..Len(group.messages) /\ Len(group.messages) \in Nat
          /\ \A i \in DOMAIN group.messages : i \in Nat /\ i >= 1
      BY <1>1, GroupIsTyped
    <2>4. \A i \in DOMAIN group.messages : group.messages[i].id # m
      BY <2>1 DEF MaySend, IsRecorded, SequenceOf
    <2>5. ledger[m] = None
      BY <1>1, <2>1 DEF MaySend, LedgerFits
    <2> HIDE DEF n
    <2>6. Once(g)
      BY <1>1, <2>2, <2>4 DEF Once, GroupFits
    <2>7. ASSUME NEW i \in DOMAIN g.messages
          PROVE  LET x == g.messages[i] IN
                 /\ x.hop <= MaxHops /\ x.version \in DOMAIN g.snapshots
                 /\ x.recipients = g.snapshots[x.version] \ {GroupFrom[x.id]}
                 /\ i > 1 => x.at >= g.messages[i - 1].at
      <3>1. CASE i \in DOMAIN group.messages
        <4>1. i > 1 => i - 1 \in DOMAIN group.messages
          BY <2>3, <3>1
        <4> QED
          BY <1>1, <2>2, <3>1, <4>1 DEF GroupFits, MessageFits
      <3>2. CASE i = n
        <4>1. i > 1 => i - 1 = Len(group.messages) /\ i - 1 \in DOMAIN group.messages
          BY <2>3, <3>2 DEF n
        <4>2. i > 1 => LastTime = group.messages[i - 1].at
          BY <1>1, <4>1, LastTimeIs
        <4>3. LastTime \in Nat
          BY <1>1, LastTimeIs
        <4> QED
          BY <2>2, <3>2, <4>1, <4>2, <4>3
      <3> QED
        BY <2>2, <3>1, <3>2
    <2>8. SequenceOf(g, m) # {}
      BY <2>2 DEF SequenceOf
    <2>9. g.messages # <<>>
      <3>1. SUFFICES ASSUME g.messages = <<>> PROVE FALSE
        OBVIOUS
      <3>2. DOMAIN g.messages = {}
        BY <3>1
      <3> QED
        BY <2>2, <3>2
    <2>10. Last(g.messages).id = m
      BY <2>2 DEF Last
    <2> QED
      BY <2>2, <2>5, <2>6, <2>7, <2>8, <2>9, <2>10
  <1> QED
    BY <1>2, <1>3

\* The Group with the record g in the place of its own, and more in the Ledger.
LEMMA GroupSent ==
  ASSUME GroupInv, group # None, NEW m \in GroupMessage, NEW g,
         g \in IF MayRetry(m) THEN {group} ELSE IF MaySend(m) THEN WithMessage(m) ELSE {},
         group' = g, unlisted \subseteq unlisted',
         ledger' \in [GroupMessage ->
                        [recipients : SUBSET Node, admitted : SUBSET Node] \cup {None}],
         \A x \in GroupMessage : x # m => ledger'[x] = ledger[x],
         ledger[m] # None => ledger' = ledger,
         ledger[m] = None /\ ledger'[m] # None => ledger'[m].recipients = Recipients(g, m),
         \/ TheGroup \in unlisted'
         \/ summary'[TheGroup] = GroupVersion(g) /\ ledger'[m] # None
  PROVE  GroupInv'
  <1>1. /\ g \in GroupRecord /\ g.snapshots = group.snapshots /\ Once(g)
        /\ SequenceOf(g, m) # {}
        /\ DOMAIN group.messages \subseteq DOMAIN g.messages
        /\ \A i \in DOMAIN group.messages : g.messages[i] = group.messages[i]
        /\ \A i \in DOMAIN g.messages \ DOMAIN group.messages : g.messages[i].id = m
        /\ \A i \in DOMAIN g.messages :
             LET x == g.messages[i] IN
             /\ x.hop <= MaxHops /\ x.version \in DOMAIN g.snapshots
             /\ x.recipients = g.snapshots[x.version] \ {GroupFrom[x.id]}
             /\ i > 1 => x.at >= g.messages[i - 1].at
    BY SentRecordFits
  <1>2. \/ g = group
        \/ g.messages # <<>> /\ Last(g.messages).id = m /\ ledger[m] = None
    BY SentRecordFits
  <1>3. /\ group \in GroupRecord /\ group.snapshots # <<>>
        /\ GroupFits /\ GroupSummaryFits /\ LedgerFits
    BY DEF GroupInv, GroupTypes
  <1>4. group' # None
    BY <1>1, GroupIsTyped
  <1>5. GroupTypes'
    BY <1>1, <1>3 DEF GroupTypes
  <1>6. LedgerFits'
    <2>1. SUFFICES ASSUME NEW x \in GroupMessage, ledger'[x] # None PROVE SequenceOf(g, x) # {}
      BY <1>4 DEF LedgerFits, IsRecorded
    <2>2. CASE x # m
      <3>1. SequenceOf(group, x) # {}
        BY <1>3, <2>1, <2>2 DEF LedgerFits, IsRecorded
      <3> QED
        BY <1>1, <3>1 DEF SequenceOf
    <2> QED
      BY <1>1, <2>2
  <1>7. GroupFits'
    <2>1. ASSUME NEW i \in DOMAIN g.messages PROVE MessageFits(i)'
      <3> DEFINE x == g.messages[i]
      <3>1. x.id \in GroupMessage
        BY <1>1, GroupIsTyped
      <3>2. ASSUME ledger'[x.id] # None PROVE ledger'[x.id].recipients = x.recipients
        <4>1. CASE ledger'[x.id] = ledger[x.id]
          <5>1. i \in DOMAIN group.messages
            <6>1. SUFFICES ASSUME i \notin DOMAIN group.messages PROVE FALSE
              OBVIOUS
            <6>2. x.id = m /\ g # group
              BY <1>1, <6>1
            <6> QED
              BY <1>2, <3>2, <4>1, <6>2
          <5>2. MessageFits(i) /\ x = group.messages[i]
            BY <1>1, <1>3, <5>1 DEF GroupFits
          <5> QED
            BY <3>2, <4>1, <5>2 DEF MessageFits
        <4>2. CASE ledger'[x.id] # ledger[x.id]
          <5>1. x.id = m /\ ledger[m] = None
            BY <3>1, <4>2
          <5>2. ledger'[m].recipients = Recipients(g, m)
            BY <3>2, <5>1
          <5>3. MessageOf(g, m) = x
            <6> DEFINE at == CHOOSE j \in SequenceOf(g, m) : TRUE
            <6>1. \A j \in DOMAIN g.messages : g.messages[j].id = m => j = at
              BY <1>1, SequenceIs
            <6>2. MessageOf(g, m) = g.messages[at]
              BY DEF MessageOf
            <6> HIDE DEF at
            <6>3. i = at
              BY <5>1, <6>1
            <6> QED
              BY <6>2, <6>3
          <5> QED
            BY <5>1, <5>2, <5>3 DEF Recipients
        <4> QED
          BY <4>1, <4>2
      <3> QED
        BY <1>1, <3>2 DEF MessageFits
    <2>2. \A v \in DOMAIN g.snapshots : Cardinality(g.snapshots[v]) >= MinMembers
      BY <1>1, <1>3 DEF GroupFits
    <2>3. Once(group)'
      BY <1>1 DEF Once
    <2> QED
      BY <1>1, <2>1, <2>2, <2>3 DEF GroupFits
  <1>8. GroupSummaryFits'
    <2>1. CASE TheGroup \in unlisted'
      BY <2>1 DEF GroupSummaryFits
    <2>2. CASE TheGroup \notin unlisted'
      <3>1. summary'[TheGroup] = GroupVersion(g) /\ ledger'[m] # None
        BY <2>2
      <3>2. g.messages # <<>> => ledger'[Last(g.messages).id] # None
        <4>1. CASE g # group
          BY <1>2, <3>1, <4>1
        <4>2. CASE g = group /\ g.messages # <<>>
          <5>1. ledger[Last(g.messages).id] # None
            BY <1>3, <2>2, <4>2 DEF GroupSummaryFits
          <5>2. Last(g.messages).id \in GroupMessage
            <6>1. Len(g.messages) \in DOMAIN g.messages
              <7>1. g.messages \in Seq([id : GroupMessage, version : Nat, hop : Nat, at : Nat,
                                        recipients : SUBSET Node])
                BY <1>1, GroupIsTyped
              <7>2. DOMAIN g.messages = 1..Len(g.messages) /\ Len(g.messages) \in Nat
                BY <1>1, GroupIsTyped
              <7>3. g.messages # <<>>
                BY <4>2
              <7>4. Len(g.messages) # 0
                BY <7>1, <7>3
              <7> QED
                BY <7>2, <7>4
            <6> QED
              BY <1>1, <6>1, GroupIsTyped DEF Last
          <5> QED
            BY <3>1, <5>1, <5>2
        <4> QED
          BY <4>1, <4>2
      <3> QED
        BY <3>1, <3>2 DEF GroupSummaryFits, SummaryMatches, GroupVersion
    <2> QED
      BY <2>1, <2>2
  <1> QED
    BY <1>4, <1>5, <1>6, <1>7, <1>8 DEF GroupInv

\* A member whose cursor had passed the message is told of by late.
LEMMA InboxSent ==
  ASSUME InboxInv, GroupInv, group # None, NEW m \in GroupMessage, NEW g, UNCHANGED inboxVars,
         g \in IF MayRetry(m) THEN {group} ELSE IF MaySend(m) THEN WithMessage(m) ELSE {},
         group' = g, NEW denied,
         CommitGroup(g, m, denied) \/ UNCHANGED <<ledger, late>>
  PROVE  InboxInv'
  <1>1. /\ g \in GroupRecord /\ g # None /\ Once(g) /\ SequenceOf(g, m) # {}
        /\ DOMAIN group.messages \subseteq DOMAIN g.messages
        /\ \A i \in DOMAIN group.messages : g.messages[i] = group.messages[i]
        /\ \A i \in DOMAIN g.messages \ DOMAIN group.messages : g.messages[i].id = m
        /\ g = group \/ ledger[m] = None
        /\ \A i \in DOMAIN g.messages : i \in Nat /\ g.messages[i].id \in GroupMessage
    <2>1. g \in GroupRecord
      BY SentRecordFits
    <2> QED
      BY <2>1, SentRecordFits, GroupIsTyped
  <1>2. UNCHANGED <<cursor, intent, turn, requests, hands, shown, byHand>>
    BY DEF inboxVars
  <1>3. /\ late \in [Reader -> SUBSET Nat] /\ NothingIsSkipped /\ GroupTypes
        /\ ledger \in [GroupMessage ->
                         [recipients : SUBSET Node, admitted : SUBSET Node] \cup {None}]
    BY DEF InboxInv, InboxTypes, GroupInv, GroupTypes
  <1>4. \A s \in Starter : TurnFits(s)'
    <2>1. Sequences \subseteq Sequences'
      BY <1>1 DEF Sequences
    <2> QED
      BY <1>2, <2>1 DEF InboxInv, TurnFits
  \* What was for n before was seen, or is late.
  <1>5. ASSUME NEW n \in Reader, NEW i \in DOMAIN g.messages, i <= cursor[n],
               ledger[g.messages[i].id] # None /\ n \in ledger[g.messages[i].id].admitted
        PROVE  i \in shown[n] \cup late[n] \/ i <= byHand[n]
    <2>1. i \in DOMAIN group.messages
      BY <1>1, <1>5
    <2>2. IsFor(i, n)
      BY <1>1, <1>5, <2>1 DEF IsFor
    <2> QED
      BY <1>3, <1>5, <2>1, <2>2 DEF NothingIsSkipped
  <1>6. CASE UNCHANGED <<ledger, late>>
    <2>1. NothingIsSkipped'
      BY <1>2, <1>5, <1>6 DEF NothingIsSkipped, IsFor
    <2> QED
      BY <1>2, <1>4, <1>6, <2>1 DEF InboxInv, InboxTypes
  <1>7. CASE CommitGroup(g, m, denied) /\ ledger[m] = None
    <2> DEFINE at == CHOOSE i \in SequenceOf(g, m) : TRUE
               admitted == Recipients(g, m) \ denied
    <2>1. /\ at \in DOMAIN g.messages
          /\ \A j \in DOMAIN g.messages : g.messages[j].id = m => j = at
      BY <1>1, SequenceIs
    <2>2. /\ ledger' = [ledger EXCEPT ![m] =
                          [recipients |-> Recipients(g, m), admitted |-> admitted]]
          /\ late' = [n \in Reader |->
                        late[n] \cup (IF n \in admitted /\ cursor[n] >= at THEN {at} ELSE {})]
      BY <1>7 DEF CommitGroup
    <2> HIDE DEF at, admitted
    <2>3. /\ ledger'[m].admitted = admitted
          /\ \A x \in GroupMessage : x # m => ledger'[x] = ledger[x]
      BY <1>3, <2>2
    <2>4. late' \in [Reader -> SUBSET Nat]
      BY <1>1, <1>3, <2>1, <2>2
    <2>5. NothingIsSkipped'
      <3>1. SUFFICES ASSUME NEW n \in Reader, NEW i \in DOMAIN g.messages, i <= cursor[n],
                            n \in ledger'[g.messages[i].id].admitted,
                            ledger'[g.messages[i].id] # None
                     PROVE  i \in shown[n] \cup late'[n] \/ i <= byHand[n]
        BY <1>2 DEF NothingIsSkipped, IsFor
      <3>2. CASE g.messages[i].id # m
        BY <1>1, <1>5, <2>2, <2>3, <3>1, <3>2
      <3>3. CASE g.messages[i].id = m
        <4>1. i = at /\ n \in admitted
          BY <2>1, <2>3, <3>1, <3>3
        <4>2. cursor[n] >= at
          BY <1>1, <3>1, <4>1 DEF InboxInv, InboxTypes
        <4> QED
          BY <2>2, <4>1, <4>2
      <3> QED
        BY <3>2, <3>3
    <2> QED
      BY <1>2, <1>4, <2>4, <2>5 DEF InboxInv, InboxTypes
  <1>8. CASE CommitGroup(g, m, denied) /\ ledger[m] # None
    BY <1>6, <1>8 DEF CommitGroup
  <1> QED
    BY <1>6, <1>7, <1>8

\* The record, the Ledger and the summary of a Group message; or not all of them.
LEMMA SendGroupMessageKeeps ==
  ASSUME ConversationInv, NEW m \in GroupMessage, SendGroupMessage(m),
         UNCHANGED <<direct, source, sender, clock>>
  PROVE  ConversationInv' /\ UNCHANGED inboxVars
  <1>1. PICK g \in IF MayRetry(m) THEN {group} ELSE IF MaySend(m) THEN WithMessage(m) ELSE {} :
          \/ \E denied \in SUBSET (MayDeny \cap Recipients(g, m)) :
               CommitGroup(g, m, denied) /\ WriteGroup(g, TRUE)
          \/ WriteGroup(g, FALSE) /\ UNCHANGED <<ledger, late>>
    BY DEF SendGroupMessage
  <1>2. group # None /\ UNCHANGED inboxVars
    BY DEF SendGroupMessage
  <1>3. /\ DirectInv /\ GroupInv /\ InboxInv /\ GroupTypes
        /\ ledger \in [GroupMessage ->
                         [recipients : SUBSET Node, admitted : SUBSET Node] \cup {None}]
    BY DEF ConversationInv, GroupInv, GroupTypes
  <1>4. g \in GroupRecord /\ Once(g) /\ SequenceOf(g, m) # {}
    BY <1>2, <1>3, SentRecordFits
  <1>5. CASE \E denied \in SUBSET (MayDeny \cap Recipients(g, m)) :
               CommitGroup(g, m, denied) /\ WriteGroup(g, TRUE)
    <2>1. PICK denied : CommitGroup(g, m, denied) /\ WriteGroup(g, TRUE)
      BY <1>5
    <2>2. /\ DirectInv' /\ group' = g /\ unlisted \subseteq unlisted'
          /\ summary'[TheGroup] = GroupVersion(g) \/ TheGroup \in unlisted'
      BY <1>2, <1>3, <2>1, GroupWritten
    <2>3. /\ ledger' \in [GroupMessage ->
                            [recipients : SUBSET Node, admitted : SUBSET Node] \cup {None}]
          /\ ledger'[m] # None
          /\ \A x \in GroupMessage : x # m => ledger'[x] = ledger[x]
          /\ ledger[m] # None => ledger' = ledger
          /\ ledger[m] = None => ledger'[m].recipients = Recipients(g, m)
      BY <1>3, <1>4, <2>1, GroupCommitted
    <2>4. GroupInv'
      BY <1>2, <1>3, <2>2, <2>3, GroupSent
    <2>5. InboxInv'
      BY <1>2, <1>3, <2>1, <2>2, InboxSent
    <2> QED
      BY <1>2, <2>2, <2>4, <2>5 DEF ConversationInv
  <1>6. CASE WriteGroup(g, FALSE) /\ UNCHANGED <<ledger, late>>
    <2>1. /\ DirectInv' /\ group' = g /\ unlisted \subseteq unlisted' /\ TheGroup \in unlisted'
      BY <1>2, <1>3, <1>6, GroupWritten
    <2>2. ledger' = ledger
      BY <1>6
    <2>3. GroupInv'
      BY <1>2, <1>3, <2>1, <2>2, GroupSent
    <2>4. InboxInv'
      BY <1>2, <1>3, <1>6, <2>1, InboxSent
    <2> QED
      BY <1>2, <2>1, <2>3, <2>4 DEF ConversationInv
  <1> QED
    BY <1>1, <1>5, <1>6

-----------------------------------------------------------------------------
(* The inbox                                                               *)

\* The messages and the Ledger are as they were, and so are the inboxes.
LEMMA InboxStays ==
  ASSUME InboxInv, UNCHANGED <<ledger, inboxVars, late>>, Sequences' = Sequences,
         \A i \in Sequences : group'.messages[i] = group.messages[i]
  PROVE  InboxInv'
  <1>1. UNCHANGED <<cursor, intent, turn, requests, hands, shown, byHand>>
    BY DEF inboxVars
  <1>2. NothingIsSkipped'
    BY <1>1 DEF InboxInv, NothingIsSkipped, IsFor, Sequences
  <1> QED
    BY <1>1, <1>2 DEF InboxInv, InboxTypes, TurnFits

\* Such are the steps that make the Group or change its members.
LEMMA GroupMakersKeep ==
  ASSUME ConversationInv, EnsureGroup \/ \E n \in Joiner : ChangeMember(n),
         UNCHANGED <<direct, source, sender, clock>>
  PROVE  ConversationInv' /\ UNCHANGED inboxVars
  <1>1. UNCHANGED <<ledger, inboxVars, late>>
    BY DEF EnsureGroup, ChangeMember
  <1>2. DirectInv' /\ GroupInv'
    BY EnsureGroupKeeps, ChangeMemberKeeps DEF ConversationInv
  <1>3. CASE group = None
    <2> DEFINE new == [snapshots |-> <<Founders>>, messages |-> <<>>]
    <2>1. group' = new
      BY <1>3 DEF EnsureGroup, ChangeMember, WriteGroup
    <2>2. new.messages = <<>>
      OBVIOUS
    <2> HIDE DEF new
    <2>3. Sequences = {} /\ Sequences' = {}
      BY <1>3, <2>1, <2>2 DEF Sequences
    <2> QED
      BY <1>1, <1>2, <2>3, InboxStays DEF ConversationInv
  <1>4. CASE EnsureGroup /\ group # None
    <2>1. group' = group
      BY <1>4 DEF EnsureGroup, WriteGroup
    <2>2. Sequences' = Sequences
      BY <2>1 DEF Sequences
    <2> QED
      BY <1>1, <1>2, <2>1, <2>2, InboxStays DEF ConversationInv
  <1>5. ASSUME NEW n \in Joiner, ChangeMember(n) PROVE InboxInv'
    <2>1. group # None /\ group' # None /\ group'.messages = group.messages
      BY <1>5, ChangeMemberKeeps DEF ConversationInv
    <2>2. Sequences' = Sequences
      BY <2>1 DEF Sequences
    <2> QED
      BY <1>1, <2>1, <2>2, InboxStays DEF ConversationInv
  <1> QED
    BY <1>1, <1>2, <1>3, <1>4, <1>5 DEF ConversationInv

\* The greatest of numbers up to a bound.
LEMMA MaxIs ==
  ASSUME NEW b \in Nat, NEW S, S \subseteq 0..b, S # {}
  PROVE  Max(S) \in S /\ \A y \in S : y <= Max(S)
  <1>1. PICK x \in S : \A y \in S : y <= x
    BY GreatestNat
  <1>2. \A y \in S : x >= y
    BY <1>1
  <1>3. Max(S) \in S /\ \A y \in S : Max(S) >= y
    BY <1>2 DEF Max
  <1> QED
    BY <1>3

\* What an inbox has unread are messages.
LEMMA UnreadAreMessages ==
  ASSUME GroupInv
  PROVE  /\ Sequences \subseteq Nat
         /\ \A n : InboxUnread(n) \subseteq Sequences
         /\ \E b \in Nat : Sequences \subseteq 0..b
  <1>1. CASE group = None
    BY <1>1 DEF Sequences, InboxUnread
  <1>2. CASE group # None
    <2>1. Sequences = 1..Len(group.messages) /\ Len(group.messages) \in Nat
      BY <1>2, GroupIsTyped DEF GroupInv, GroupTypes, Sequences
    <2>2. \A n : InboxUnread(n) \subseteq Sequences
      BY <1>2 DEF InboxUnread, Unread, Sequences
    <2>3. Sequences \subseteq 0..Len(group.messages)
      BY <2>1
    <2> QED
      BY <2>1, <2>2, <2>3
  <1> QED
    BY <1>1, <1>2

\* The cursor of a digest that is consumed: not behind, and the digest omits nothing.
LEMMA AdvancedIs ==
  ASSUME GroupInv, InboxInv, NEW s \in Starter, turn[s] # None, turn[s].digest # {}
  PROVE  LET t == turn[s] IN
         /\ Advanced(t) \in Nat /\ cursor[t.node] <= Advanced(t)
         /\ \A i \in Sequences : i > cursor[t.node] /\ i <= Advanced(t) => i <= Max(t.digest)
  <1> DEFINE t == turn[s]
             c == cursor[t.node]
             D == t.digest
             S == D \cup {c}
  <1>1. /\ t \in [node : Reader, requested : Nat, digest : SUBSET Nat, accepted : BOOLEAN]
        /\ cursor \in [Reader -> Nat] /\ TurnFits(s)
    BY DEF InboxInv, InboxTypes
  <1>2. t.node \in Reader /\ c \in Nat /\ D \subseteq Sequences
    BY <1>1 DEF TurnFits
  <1>3. PICK b \in Nat : Sequences \subseteq 0..b
    BY UnreadAreMessages
  <1>4. Advanced(t) = Max(S)
    BY DEF Advanced
  <1>5. D # {} /\ Sequences \subseteq Nat
    BY UnreadAreMessages
  <1> HIDE DEF D, c, t
  <1>6. S \subseteq 0..(b + c) /\ S # {} /\ b + c \in Nat /\ D \subseteq 0..b
    BY <1>2, <1>3
  <1> DEFINE top == Max(S) last == Max(D)
  <1>7. top \in S /\ \A y \in S : y <= top
    BY <1>6, MaxIs
  <1>8. last \in D /\ \A y \in D : y <= last
    BY <1>3, <1>5, <1>6, MaxIs
  <1>9. c \in S /\ \A y \in S : y \in Nat
    BY <1>2, <1>6
  <1> HIDE DEF top, last
  <1>10. top \in Nat /\ c <= top
    BY <1>7, <1>9
  <1>11. ASSUME NEW i \in Sequences, i > c, i <= top PROVE i <= last
    <2>1. i \in Nat
      BY <1>5
    <2>2. top # c
      BY <1>2, <1>11, <2>1
    <2>3. top \in D
      BY <1>7, <2>2
    <2>4. top <= last /\ last \in Nat
      BY <1>6, <1>8, <2>3
    <2> QED
      BY <1>10, <1>11, <2>1, <2>4
  <1> QED
    BY <1>4, <1>10, <1>11 DEF top, last, D, c, t

\* The member moves its cursor, or asks for a digest, or takes its request back.
LEMMA HandsKeep ==
  ASSUME InboxInv, GroupInv, NEW n \in Reader,
         \/ \E i \in 1..Cardinality(GroupMessage) : Acknowledge(n, i)
         \/ \E limit \in Limits : RequestDigest(n, limit)
         \/ CancelDigest(n)
  PROVE  InboxInv' /\ \A r \in Reader : cursor'[r] >= cursor[r]
  <1>1. /\ cursor \in [Reader -> Nat] /\ byHand \in [Reader -> Nat] /\ requests \in Nat
        /\ intent \in [Reader -> {None} \cup [limit : Limits, requested : Nat]]
    BY DEF InboxInv, InboxTypes
  <1>2. UNCHANGED <<group, ledger, turn, shown, late>>
    BY DEF Acknowledge, RequestDigest, CancelDigest
  <1>3. \A s \in Starter : TurnFits(s)'
    BY <1>2 DEF InboxInv, TurnFits, Sequences
  <1>4. ASSUME NEW i \in 1..Cardinality(GroupMessage), Acknowledge(n, i)
        PROVE  InboxInv' /\ \A r \in Reader : cursor'[r] >= cursor[r]
    <2>1. /\ cursor' = [cursor EXCEPT ![n] = i] /\ byHand' = [byHand EXCEPT ![n] = i]
          /\ group # None /\ i \in DOMAIN group.messages /\ i > cursor[n]
          /\ UNCHANGED <<intent, requests>>
      BY <1>4 DEF Acknowledge
    <2>2. i \in Nat
      BY <2>1, UnreadAreMessages DEF Sequences
    <2>3. NothingIsSkipped'
      BY <1>1, <1>2, <2>1, <2>2 DEF InboxInv, NothingIsSkipped, IsFor
    <2>4. InboxTypes'
      BY <1>1, <1>2, <2>1, <2>2 DEF InboxInv, InboxTypes
    <2> QED
      BY <1>1, <1>3, <2>1, <2>2, <2>3, <2>4 DEF InboxInv
  <1>5. ASSUME UNCHANGED <<cursor, byHand>>, intent' \in [Reader -> {None} \cup
                 [limit : Limits, requested : Nat]], requests' \in Nat
        PROVE  InboxInv' /\ \A r \in Reader : cursor'[r] >= cursor[r]
    <2>1. NothingIsSkipped'
      BY <1>2, <1>5 DEF InboxInv, NothingIsSkipped, IsFor
    <2>2. InboxTypes'
      BY <1>2, <1>5 DEF InboxInv, InboxTypes
    <2> QED
      BY <1>1, <1>3, <1>5, <2>1, <2>2 DEF InboxInv
  <1>6. ASSUME NEW limit \in Limits, RequestDigest(n, limit)
        PROVE  InboxInv' /\ \A r \in Reader : cursor'[r] >= cursor[r]
    <2> DEFINE asked == [limit |-> limit, requested |-> requests + 1]
    <2>1. asked \in [limit : Limits, requested : Nat]
      BY <1>1
    <2>2. /\ UNCHANGED <<cursor, byHand>> /\ intent' = [intent EXCEPT ![n] = asked]
          /\ requests' = requests + 1
      BY <1>6 DEF RequestDigest
    <2> HIDE DEF asked
    <2> QED
      BY <1>1, <1>5, <2>1, <2>2
  <1>7. ASSUME CancelDigest(n)
        PROVE  InboxInv' /\ \A r \in Reader : cursor'[r] >= cursor[r]
    <2>1. /\ UNCHANGED <<cursor, byHand, requests>> /\ intent' = [intent EXCEPT ![n] = None]
      BY <1>7 DEF CancelDigest
    <2> QED
      BY <1>1, <1>5, <2>1
  <1> QED
    BY <1>4, <1>6, <1>7

\* A digest is composed from what is unread.
LEMMA ComposeKeeps ==
  ASSUME InboxInv, GroupInv, NEW n \in Reader, NEW s \in Starter, Compose(s, n)
  PROVE  InboxInv' /\ cursor' = cursor
  <1>1. PICK digest \in SUBSET InboxUnread(n) :
          turn' = [turn EXCEPT ![s] = [node |-> n, requested |-> intent[n].requested,
                                      digest |-> digest, accepted |-> FALSE]]
    BY DEF Compose
  <1>2. UNCHANGED <<group, ledger, late, cursor, intent, requests, shown, byHand>>
    BY DEF Compose
  <1>3. intent[n].requested \in Nat
    <2>1. intent[n] \in [limit : Limits, requested : Nat]
      BY DEF Compose, InboxInv, InboxTypes
    <2> QED
      BY <2>1
  <1>4. digest \subseteq Sequences /\ digest \in SUBSET Nat
    BY UnreadAreMessages
  <1> DEFINE t == [node |-> n, requested |-> intent[n].requested, digest |-> digest,
                   accepted |-> FALSE]
             T == [node : Reader, requested : Nat, digest : SUBSET Nat, accepted : BOOLEAN]
  <1>5. t \in T /\ t.digest = digest /\ t.accepted = FALSE
    BY <1>3, <1>4
  <1>6. turn' = [turn EXCEPT ![s] = t]
    BY <1>1
  <1>7. turn \in [Starter -> {None} \cup T]
    BY DEF InboxInv, InboxTypes
  <1> HIDE DEF t, T
  <1>8. /\ turn' \in [Starter -> {None} \cup T] /\ turn'[s] = t
        /\ \A x \in Starter \ {s} : turn'[x] = turn[x]
    BY <1>5, <1>6, <1>7
  <1>9. InboxTypes'
    BY <1>2, <1>8 DEF InboxInv, InboxTypes, T
  <1>10. NothingIsSkipped'
    BY <1>2 DEF InboxInv, NothingIsSkipped, IsFor
  <1>11. ASSUME NEW x \in Starter PROVE TurnFits(x)'
    <2>1. Sequences' = Sequences
      BY <1>2 DEF Sequences
    <2>2. CASE x = s
      BY <1>4, <1>5, <1>8, <2>1, <2>2 DEF TurnFits
    <2>3. CASE x # s
      <3>1. turn'[x] = turn[x] /\ TurnFits(x)
        BY <1>8, <2>3 DEF InboxInv
      <3> QED
        BY <1>2, <2>1, <3>1 DEF TurnFits
    <2> QED
      BY <2>2, <2>3
  <1> QED
    BY <1>2, <1>9, <1>10, <1>11 DEF InboxInv

\* An accepted turn shows its digest.
LEMMA StartTurnKeeps ==
  ASSUME InboxInv, NEW s \in Starter, StartTurn(s)
  PROVE  InboxInv' /\ cursor' = cursor
  <1> DEFINE T == [node : Reader, requested : Nat, digest : SUBSET Nat, accepted : BOOLEAN]
  <1>1. /\ turn \in [Starter -> {None} \cup T] /\ shown \in [Reader -> SUBSET Nat]
        /\ \A x \in Starter : TurnFits(x)
    BY DEF InboxInv, InboxTypes
  <1>2. turn[s] # None /\ UNCHANGED <<group, ledger, late, cursor, intent, requests, byHand>>
    BY DEF StartTurn
  <1>3. turn[s] \in T
    BY <1>1, <1>2
  <1>4. turn[s].node \in Reader /\ turn[s].digest \in SUBSET Nat
    BY <1>3
  <1>5. Sequences' = Sequences
    BY <1>2 DEF Sequences
  \* The turn is as it was, or gone, or accepted; what was shown still is.
  <1>6. ASSUME NEW t \in {None} \cup T, turn' = [turn EXCEPT ![s] = t],
               shown' \in [Reader -> SUBSET Nat],
               \A n \in Reader : shown[n] \subseteq shown'[n],
               t # None => /\ t.digest = turn[s].digest
                           /\ t.digest \subseteq shown'[t.node]
        PROVE  InboxInv'
    <2> HIDE DEF T
    <2>1. /\ turn' \in [Starter -> {None} \cup T] /\ turn'[s] = t
          /\ \A x \in Starter \ {s} : turn'[x] = turn[x]
      BY <1>1, <1>6
    <2>2. InboxTypes'
      BY <1>2, <1>6, <2>1 DEF InboxInv, InboxTypes, T
    <2>3. NothingIsSkipped'
      BY <1>2, <1>6 DEF InboxInv, NothingIsSkipped, IsFor
    <2>4. ASSUME NEW x \in Starter PROVE TurnFits(x)'
      <3>1. CASE x = s
        BY <1>1, <1>2, <1>5, <1>6, <2>1, <3>1 DEF TurnFits
      <3>2. CASE x # s
        <4>1. turn'[x] = turn[x] /\ TurnFits(x)
          BY <1>1, <2>1, <3>2
        <4>2. turn[x] # None => turn[x].node \in Reader
          BY <1>1 DEF T
        <4> QED
          BY <1>5, <1>6, <4>1, <4>2 DEF TurnFits
      <3> QED
        BY <3>1, <3>2
    <2> QED
      BY <2>2, <2>3, <2>4 DEF InboxInv
  <1>7. \/ shown' = shown \/ shown' = [shown EXCEPT ![turn[s].node] = @ \cup turn[s].digest]
    BY DEF StartTurn
  <1>8. shown' \in [Reader -> SUBSET Nat] /\ \A n \in Reader : shown[n] \subseteq shown'[n]
    BY <1>1, <1>4, <1>7
  <1>9. CASE turn' = [turn EXCEPT ![s] = None]
    BY <1>2, <1>6, <1>8, <1>9
  <1>10. CASE /\ turn' = [turn EXCEPT ![s].accepted = TRUE]
              /\ shown' = [shown EXCEPT ![turn[s].node] = @ \cup turn[s].digest]
    <2> DEFINE t == [turn[s] EXCEPT !.accepted = TRUE]
    <2>1. t \in T /\ t.digest = turn[s].digest /\ t.node = turn[s].node
      BY <1>3
    <2>2. turn' = [turn EXCEPT ![s] = t]
      BY <1>10
    <2>3. turn[s].digest \subseteq shown'[turn[s].node]
      BY <1>1, <1>4, <1>10
    <2> HIDE DEF t, T
    <2> QED
      BY <1>2, <1>6, <1>8, <2>1, <2>2, <2>3
  <1> QED
    BY <1>2, <1>9, <1>10 DEF StartTurn

\* A digest is consumed: the cursor goes over what it brought, and no more.
LEMMA ConsumeKeeps ==
  ASSUME InboxInv, GroupInv, NEW s \in Starter, Consume(s)
  PROVE  InboxInv' /\ \A r \in Reader : cursor'[r] >= cursor[r]
  <1> DEFINE t == turn[s]
             T == [node : Reader, requested : Nat, digest : SUBSET Nat, accepted : BOOLEAN]
             I == {None} \cup [limit : Limits, requested : Nat]
  <1>1. /\ turn \in [Starter -> {None} \cup T] /\ cursor \in [Reader -> Nat]
        /\ intent \in [Reader -> I] /\ \A x \in Starter : TurnFits(x)
    BY DEF InboxInv, InboxTypes
  <1>2. /\ t # None /\ t.accepted /\ turn' = [turn EXCEPT ![s] = None]
        /\ UNCHANGED <<group, ledger, late, requests, shown, byHand>>
    BY DEF Consume
  <1>3. t \in T
    BY <1>1, <1>2
  <1>4. t.node \in Reader /\ t.digest \subseteq Sequences /\ t.digest \subseteq shown[t.node]
    BY <1>1, <1>2, <1>3 DEF TurnFits
  <1>5. \/ UNCHANGED <<cursor, intent>>
        \/ /\ t.digest # {} => ~Omits(t)
           /\ cursor' = [cursor EXCEPT ![t.node] = IF t.digest = {} THEN @ ELSE Advanced(t)]
           /\ intent' = [intent EXCEPT ![t.node] = None] \/ UNCHANGED intent
    BY DEF Consume
  <1>6. t.digest # {} =>
          /\ Advanced(t) \in Nat /\ cursor[t.node] <= Advanced(t)
          /\ \A i \in Sequences : i > cursor[t.node] /\ i <= Advanced(t) => i <= Max(t.digest)
    BY <1>2, AdvancedIs
  <1>7. intent' \in [Reader -> I]
    <2> HIDE DEF t
    <2> QED
      BY <1>1, <1>4, <1>5
  <1> HIDE DEF T, I
  <1>8. /\ turn' \in [Starter -> {None} \cup T]
        /\ \A x \in Starter : turn'[x] # None => turn'[x] = turn[x]
    BY <1>1, <1>2
  <1>9. \A x \in Starter : TurnFits(x)'
    BY <1>1, <1>2, <1>8 DEF TurnFits, Sequences
  <1>10. /\ cursor' \in [Reader -> Nat]
         /\ \A r \in Reader : cursor'[r] >= cursor[r]
         /\ \A r \in Reader \ {t.node} : cursor'[r] = cursor[r]
         /\ \/ cursor'[t.node] = cursor[t.node]
            \/ t.digest # {} /\ ~Omits(t) /\ cursor'[t.node] = Advanced(t)
    <2> HIDE DEF t
    <2> QED
      BY <1>1, <1>4, <1>5, <1>6
  <1>11. InboxTypes'
    BY <1>2, <1>7, <1>8, <1>10 DEF InboxInv, InboxTypes, T, I
  <1>12. NothingIsSkipped'
    <2>1. SUFFICES ASSUME group # None, NEW n \in Reader, NEW i \in DOMAIN group.messages,
                          i <= cursor'[n], IsFor(i, n)
                   PROVE  i \in shown[n] \cup late[n] \/ i <= byHand[n]
      BY <1>2 DEF NothingIsSkipped, IsFor
    <2>2. CASE i <= cursor[n]
      BY <2>1, <2>2 DEF InboxInv, NothingIsSkipped
    <2>3. CASE ~(i <= cursor[n])
      <3>1. i \in Nat /\ cursor[n] \in Nat /\ i \in Sequences
        BY <1>1, <2>1, UnreadAreMessages DEF Sequences
      <3>2. i > cursor[n]
        BY <2>3, <3>1
      <3>3. n = t.node /\ t.digest # {} /\ ~Omits(t) /\ i <= Advanced(t)
        BY <1>10, <2>1, <2>3
      <3>4. i <= Max(t.digest)
        BY <1>6, <3>1, <3>2, <3>3
      <3>5. i \in t.digest
        BY <2>1, <3>2, <3>3, <3>4 DEF Omits
      <3> QED
        BY <1>4, <3>3, <3>5
    <2> QED
      BY <2>2, <2>3
  <1> QED
    BY <1>9, <1>10, <1>11, <1>12 DEF InboxInv

-----------------------------------------------------------------------------
(* The specification                                                       *)

\* The steps of the inbox leave the rest alone; a fault may be counted.
LEMMA InboxStepsSpare ==
  ASSUME DirectInv, GroupInv, UNCHANGED directVars,
         \/ \E n \in Reader :
              \/ \E i \in 1..Cardinality(GroupMessage) : Acknowledge(n, i)
              \/ \E limit \in Limits : RequestDigest(n, limit)
              \/ CancelDigest(n)
              \/ \E s \in Starter : Compose(s, n)
         \/ \E s \in Starter : StartTurn(s) \/ Consume(s)
  PROVE  DirectInv' /\ GroupInv'
  <1>1. UNCHANGED <<group, ledger, summary, unlisted>>
    BY DEF Acknowledge, RequestDigest, CancelDigest, Compose, StartTurn, Consume
  <1>2. faults' = faults \/ faults' = faults + 1
    BY DEF Acknowledge, RequestDigest, CancelDigest, Compose, StartTurn, Consume
  <1>3. GroupInv'
    BY <1>1, GroupStays
  <1>4. /\ faults' \in Nat /\ clock \in 0..MaxTime /\ clock <= clock
        /\ summary' = [c \in Pairs \cup {TheGroup} |-> summary'[c]]
        /\ UNCHANGED <<direct, source, sender, clock>>
    BY <1>1, <1>2, DirectAssumptions DEF DirectInv, DirectTypes, directVars
  <1>5. DirectInv'
    BY <1>1, <1>4, OthersKeep
  <1> QED
    BY <1>3, <1>5

\* A step keeps the invariant, and no cursor goes back.
LEMMA ConversationStepKeeps ==
  ASSUME ConversationInv, [ConversationNext]_conversationVars
  PROVE  ConversationInv' /\ \A n \in Reader : cursor'[n] >= cursor[n]
  <1>1. /\ DirectInv /\ GroupInv /\ InboxInv
        /\ \A n \in Reader : cursor[n] \in Nat
    BY DEF ConversationInv, InboxInv, InboxTypes
  \* A step that leaves the inboxes as they are.
  <1>2. ASSUME UNCHANGED inboxVars PROVE \A n \in Reader : cursor'[n] >= cursor[n]
    <2>1. cursor' = cursor
      BY <1>2 DEF inboxVars
    <2> QED
      BY <1>1, <2>1
  \* A step that leaves the Group as it is.
  <1>3. ASSUME UNCHANGED groupVars, unlisted \subseteq unlisted',
               summary'[TheGroup] = summary[TheGroup]
        PROVE  GroupInv' /\ InboxInv' /\ \A n \in Reader : cursor'[n] >= cursor[n]
    <2>1. UNCHANGED <<group, ledger, inboxVars, late>>
      BY <1>3 DEF groupVars
    <2>2. GroupInv'
      BY <1>1, <1>3, <2>1, GroupStays
    <2>3. Sequences' = Sequences
      BY <2>1 DEF Sequences
    <2>4. InboxInv'
      BY <1>1, <2>1, <2>3, InboxStays
    <2> QED
      BY <1>2, <2>1, <2>2, <2>4
  <1>4. CASE DirectStep(workload \cap DirectMessage) /\ UNCHANGED <<workload, groupVars>>
    <2> DEFINE messages == workload \cap DirectMessage
    <2>1. messages \in SUBSET DirectMessage /\ DirectStep(messages)
      BY <1>4
    <2> HIDE DEF messages
    <2>2. DirectInv' /\ unlisted \subseteq unlisted' /\ summary'[TheGroup] = summary[TheGroup]
      BY <1>1, <2>1, DirectStepsKeep, DirectStepsSpare
    <2>3. UNCHANGED groupVars
      BY <1>4
    <2> QED
      BY <1>3, <2>2, <2>3 DEF ConversationInv
  <1>5. CASE GroupStep(workload \cap GroupMessage) /\ UNCHANGED <<workload, directVars>>
    <2>1. UNCHANGED <<direct, source, sender, clock>> /\ UNCHANGED directVars
      BY <1>5 DEF directVars
    <2>2. CASE EnsureGroup \/ \E n \in Joiner : ChangeMember(n)
      BY <1>2, <2>1, <2>2, GroupMakersKeep
    <2>3. CASE \E m \in workload \cap GroupMessage : SendGroupMessage(m)
      BY <1>2, <2>1, <2>3, SendGroupMessageKeeps
    <2>4. CASE \E n \in Reader :
                 \/ \E i \in 1..Cardinality(GroupMessage) : Acknowledge(n, i)
                 \/ \E limit \in Limits : RequestDigest(n, limit)
                 \/ CancelDigest(n)
      <3>1. InboxInv' /\ \A r \in Reader : cursor'[r] >= cursor[r]
        BY <1>1, <2>4, HandsKeep
      <3> QED
        BY <1>1, <2>1, <2>4, <3>1, InboxStepsSpare DEF ConversationInv
    <2>5. CASE \E n \in Reader : \E s \in Starter : Compose(s, n)
      <3>1. InboxInv' /\ cursor' = cursor
        BY <1>1, <2>5, ComposeKeeps
      <3> QED
        BY <1>1, <2>1, <2>5, <3>1, InboxStepsSpare DEF ConversationInv
    <2>6. CASE \E s \in Starter : StartTurn(s)
      <3>1. InboxInv' /\ cursor' = cursor
        BY <1>1, <2>6, StartTurnKeeps
      <3> QED
        BY <1>1, <2>1, <2>6, <3>1, InboxStepsSpare DEF ConversationInv
    <2>7. CASE \E s \in Starter : Consume(s)
      <3>1. InboxInv' /\ \A r \in Reader : cursor'[r] >= cursor[r]
        BY <1>1, <2>7, ConsumeKeeps
      <3> QED
        BY <1>1, <2>1, <2>7, <3>1, InboxStepsSpare DEF ConversationInv
    <2> QED
      BY <1>5, <2>2, <2>3, <2>4, <2>5, <2>6, <2>7 DEF GroupStep
  <1>6. CASE (\E n \in Late : Register(n)) \/ \E n \in Mortal : Tombstone(n)
    <2>1. /\ UNCHANGED <<groupVars, summary, faults, unlisted>>
          /\ UNCHANGED <<direct, source, sender, clock>>
      BY <1>6 DEF Register, Tombstone, directVars
    <2>2. /\ faults \in Nat /\ clock \in 0..MaxTime /\ clock <= clock
          /\ summary = [c \in Pairs \cup {TheGroup} |-> summary[c]]
      BY <1>1, DirectAssumptions DEF DirectInv, DirectTypes
    <2>3. DirectInv'
      BY <1>1, <2>1, <2>2, OthersKeep
    <2> QED
      BY <1>3, <2>1, <2>3 DEF ConversationInv
  <1>7. CASE UNCHANGED conversationVars
    <2>1. /\ UNCHANGED <<groupVars, summary, faults, unlisted>>
          /\ UNCHANGED <<direct, source, sender, clock>>
      BY <1>7 DEF conversationVars, directVars
    <2>2. /\ faults \in Nat /\ clock \in 0..MaxTime /\ clock <= clock
          /\ summary = [c \in Pairs \cup {TheGroup} |-> summary[c]]
      BY <1>1, DirectAssumptions DEF DirectInv, DirectTypes
    <2>3. DirectInv'
      BY <1>1, <2>1, <2>2, OthersKeep
    <2> QED
      BY <1>3, <2>1, <2>3 DEF ConversationInv
  <1> QED
    BY <1>4, <1>5, <1>6, <1>7 DEF ConversationNext

\* Nothing is recorded at first.
LEMMA ConversationInvAtFirst ==
  ASSUME ConversationInit
  PROVE  ConversationInv
  <1>1. GroupInit
    BY DEF ConversationInit
  <1>2. GroupInv
    BY <1>1 DEF GroupInit, GroupInv, GroupTypes, LedgerFits
  <1>3. InboxInv
    BY <1>1 DEF GroupInit, InboxInv, InboxTypes, NothingIsSkipped, TurnFits
  <1> QED
    BY <1>2, <1>3, DirectInvAtFirst DEF ConversationInv

\* Records, sources, senders, summaries, the Ledger of the Group and its inboxes fit
\* each other, whatever is sent, migrated, joined, acknowledged or cut short by a fault.
THEOREM ConversationInvariant == ConversationSpec => []ConversationInv
  <1>1. ConversationInv /\ [ConversationNext]_conversationVars => ConversationInv'
    BY ConversationStepKeeps
  <1> QED
    BY <1>1, ConversationInvAtFirst, PTL DEF ConversationSpec

-----------------------------------------------------------------------------
(* The properties                                                          *)

\* A message is recorded for the members of its version, and so is it in the Ledger.
LEMMA RecipientsFit ==
  ASSUME GroupInv
  PROVE  RecipientsAreFrozen
  <1>1. SUFFICES ASSUME NEW m \in GroupMessage, ledger[m] # None
                 PROVE  ledger[m].recipients
                          = group.snapshots[MessageOf(group, m).version] \ {GroupFrom[m]}
    BY DEF RecipientsAreFrozen
  <1>2. GroupFits /\ SequenceOf(group, m) # {}
    BY <1>1 DEF GroupInv, LedgerFits, IsRecorded
  <1> DEFINE i == CHOOSE i \in SequenceOf(group, m) : TRUE
  <1>3. i \in DOMAIN group.messages /\ group.messages[i].id = m
    BY <1>2, SequenceIs DEF GroupFits
  <1>4. MessageOf(group, m) = group.messages[i]
    BY DEF MessageOf
  <1> HIDE DEF i
  <1>5. MessageFits(i)
    BY <1>2, <1>3 DEF GroupFits
  <1> QED
    BY <1>1, <1>3, <1>4, <1>5 DEF MessageFits

\* The invariant gives the properties of the records.
LEMMA InvIsConsistent ==
  ASSUME ConversationInv
  PROVE  ConversationsAreConsistent
  <1>1. DirectInv /\ GroupInv /\ DirectTypes
    BY DEF ConversationInv, DirectInv
  <1>2. ASSUME NEW c \in Conversations
        PROVE  LET r == direct[c] IN
               /\ Once(r) /\ Cardinality(r.members) = 2
               /\ \A m \in Ids(r) : {From[m], To[m]} \subseteq c \cup Range(r.migrations)
               /\ \A i \in DOMAIN r.messages : r.messages[i].at \in r.created..MaxTime
               /\ \A d \in Conversations \ {c} : Ids(r) \cap Ids(direct[d]) = {}
    <2>1. ValidRecord(direct[c], c)
      BY <1>1 DEF DirectInv, RecordFits
    <2>2. ASSUME NEW i \in DOMAIN direct[c].messages
          PROVE  direct[c].messages[i].at \in direct[c].created..MaxTime
      <3>1. /\ direct[c].messages[i].at \in direct[c].created..clock
            /\ direct[c].created \in Nat /\ clock \in 0..MaxTime
        BY <1>1, <2>1, RecordIsTyped DEF ValidRecord, DirectTypes
      <3> QED
        BY <3>1, DirectAssumptions
    <2>3. \A d \in Conversations \ {c} : Ids(direct[c]) \cap Ids(direct[d]) = {}
      BY <1>1 DEF DirectInv, Apart, Ids
    <2> QED
      BY <2>1, <2>2, <2>3 DEF ValidRecord, Ids
  <1>3. TypeOK
    BY <1>1, <1>2 DEF TypeOK, GroupInv, GroupFits, MessageFits
  <1>4. UniquePairs
    BY <1>1 DEF DirectInv
  <1>5. SourcesAgree /\ SentOnce
    BY <1>1 DEF SourcesAgree, SentOnce, DirectInv, SenderFits
  <1>6. RecipientsAreFrozen
    BY <1>1, RecipientsFit
  <1> QED
    BY <1>3, <1>4, <1>5, <1>6 DEF ConversationsAreConsistent

\* The invariant gives that what is settled is listed.
LEMMA InvIsListed ==
  ASSUME ConversationInv
  PROVE  SettledIsListed
  <1>1. DirectInv /\ GroupInv /\ DirectTypes
    BY DEF ConversationInv, DirectInv
  <1>2. ASSUME NEW c \in Conversations, direct[c].messages # <<>>, c \notin unlisted,
               ~HiddenByOrphan(c),
               ~ \E m \in DirectMessage :
                   /\ sender[m].step \in {"recorded", "committed"}
                   /\ sender[m].place \in {<<c, i>> : i \in DOMAIN direct[c].messages}
        PROVE  \A n \in direct[c].members : c \in Recent(n)
    <2>1. \A m \in DirectMessage : ~Owes(m, c)
      <3>1. SUFFICES ASSUME NEW m \in DirectMessage, Owes(m, c) PROVE FALSE
        OBVIOUS
      <3>2. /\ sender[m].step \in {"recorded", "committed"}
            /\ sender[m].place # Nowhere /\ sender[m].place[1] = c
        BY <3>1 DEF Owes
      <3>3. sender[m].place \in Places(m)
        BY <1>1, <3>2 DEF DirectInv, SenderFits
      <3>4. PICK d \in Conversations : \E i \in DOMAIN direct[d].messages :
              sender[m].place = <<d, i>>
        BY <3>3, InPlaces
      <3>5. PICK i \in DOMAIN direct[d].messages : sender[m].place = <<d, i>>
        BY <3>4
      <3>6. d = c
        BY <3>2, <3>5
      <3>7. sender[m].place \in {<<c, j>> : j \in DOMAIN direct[c].messages}
        BY <3>5, <3>6
      <3> QED
        BY <1>2, <3>2, <3>7
    <2>2. SummaryMatches(c, Version(direct[c]))
      BY <1>1, <1>2, <2>1 DEF DirectInv, SummaryFits
    <2> DEFINE i == Activity(direct[c])
               m == direct[c].messages[i].id
    <2>3. i \in DOMAIN direct[c].messages
      BY <1>1, <1>2, ActivityExists
    <2> HIDE DEF i
    <2>4. m \in DirectMessage /\ <<c, i>> \in Places(m)
      BY <1>1, <2>3, RecordIsTyped, InPlaces
    <2>5. source[m] = <<c, i>>
      <3>1. /\ PlaceFits(m) /\ <<c, i>>[1] = c
            /\ <<c, i>> \in {<<c, j>> : j \in DOMAIN direct[c].messages}
        BY <1>1, <2>3, <2>4 DEF DirectInv
      <3>2. source[m] # Nowhere
        BY <1>2, <2>3 DEF HiddenByOrphan, i, m
      <3> QED
        BY <1>2, <2>4, <3>1, <3>2 DEF PlaceFits
    <2>6. SourceMatches(c)
      BY <2>5 DEF SourceMatches, i
    <2> QED
      BY <1>2, <2>2, <2>6 DEF Recent, RecentDirect
  <1>3. ASSUME group # None, TheGroup \notin unlisted, group.messages # <<>>,
               NEW n \in Members(group)
        PROVE  TheGroup \in Recent(n)
    BY <1>1, <1>3 DEF GroupInv, GroupSummaryFits, Recent, RecentGroup
  <1> QED
    BY <1>2, <1>3 DEF SettledIsListed

\* Whatever is created, migrated and sent again at the same time: a pair has one
\* Conversation, a message one place, which its source names, and one dispatch; a
\* message of a Group goes to the members of its version.
THEOREM ConversationsHold == ConversationSpec => []ConversationsAreConsistent
  BY ConversationInvariant, InvIsConsistent, PTL

\* A Conversation that has messages is listed to its members once no sender is at it,
\* unless a writer failed there, or a Job of before its Nodes were registered hides it:
\* no refresh that came too early is the last one.
THEOREM SettledHolds == ConversationSpec => []SettledIsListed
  BY ConversationInvariant, InvIsListed, PTL

\* The cursor of an inbox goes forward only, and over nothing that was not shown,
\* acknowledged by hand, or later in the Ledger than the cursor was past it.
THEOREM CursorsHold == ConversationSpec => CursorsAreSound
  <1>1. /\ ConversationInv /\ [ConversationNext]_conversationVars
        => [(\A n \in Reader : cursor'[n] >= cursor[n]) /\ NothingIsSkipped']_conversationVars
    BY ConversationStepKeeps DEF ConversationInv, InboxInv
  <1> QED
    BY <1>1, ConversationInvariant, PTL DEF ConversationSpec, CursorsAreSound
=============================================================================
