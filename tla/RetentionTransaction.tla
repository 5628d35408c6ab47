------------------------ MODULE RetentionTransaction ------------------------
(***************************************************************************)
(* Purge, restore and recovery of src/src/retention-transaction.js, with   *)
(* the plan of retention.js, the Tombstones of delivery-ledger.js, and the *)
(* writers of the three stores they replace.                               *)
(*                                                                         *)
(* A store is a directory, and what matters of a directory is its          *)
(* generation: the set of records in it, which is what the code compares   *)
(* by digest.  A purge stages a smaller generation, moves the active one   *)
(* aside and the staged one into its place, store by store; a restore      *)
(* moves them back.  Every step is one rename or one durable write, and    *)
(* between any two the process may die (Crash) or an exception may end the *)
(* transaction (Fail).  The difference is the lock: after a crash its file *)
(* stays behind and keeps writers out until another mutation takes it      *)
(* over; after an exception it is released.                                *)
(*                                                                         *)
(* The mutation lock and the draining of writers are module                *)
(* RetentionBarrier; here a writer's operation is one step, and never      *)
(* under the lock.                                                         *)
(***************************************************************************)
EXTENDS Naturals, FiniteSets

CONSTANTS Messages,      \* Logical Messages
          Outcome,         \* how the Deliveries of each message end
          Transactions,    \* backup ids
          MaxCrashes,      \* bound: deaths of a mutating process
          MaxFailures,     \* bound: exceptions that end a mutation
          Absent,          \* the generation of a directory that is not there
          NoTransaction

(* "settled" is an outcome with no claim on record; a scheduled direct     *)
(* Delivery keeps its last claim when its turn has started ("claimed");    *)
(* "denied" and "quarantined" are decided at admission.                    *)
ASSUME OutcomeAssumption ==
  Outcome \in [Messages -> {"settled", "claimed", "denied", "quarantined"}]

ASSUME AbsentAssumption ==
  /\ \A generation \in SUBSET (Messages \X {"record", "outcome"}) : generation # Absent
  /\ NoTransaction \notin Transactions

VARIABLES
  lock,        \* mutation.lock: "free", "held", or "dead" (its owner died)
  pc,          \* where the process that holds it is
  tx,          \* the transaction it works on
  todo,        \* transaction directories recoverLocked has still to treat
  selected,    \* the plan: messages to purge, per store
  active,      \* the active generation of each store
  place,       \* the stage, backup and displaced generations of each backup
  manifest,    \* manifest.json of each transaction directory
  receipt,     \* which receipt of each transaction is on disk, 0 for none
  head,        \* head.json
  tombstones,  \* Delivery dedup Tombstones
  written,     \* history: every record ever appended, per store
  intruded,    \* history: transactions whose stores changed while pending
  crashes, failures

mutator == <<pc, tx, todo, selected>>
files == <<active, place, manifest, receipt, head, tombstones>>
history == <<written, intruded, crashes, failures>>
vars == <<lock, mutator, files, history>>

Kinds == {"ledger", "bodies", "quarantine"}
Records == Messages \X {"record", "outcome"}
Generations == {Absent} \cup SUBSET Records
Of(ids) == ids \X {"record", "outcome"}

(* The order of the operations in a manifest.                              *)
Rank == [ledger |-> 1, bodies |-> 2, quarantine |-> 3]
First(kinds) == CHOOSE k \in kinds : \A other \in kinds : Rank[k] <= Rank[other]

NoDirectory == [status |-> "none"]
Bare == [status |-> "bare"]        \* the directory without a manifest.json
HasManifest(t) == manifest[t] \notin {NoDirectory, Bare}

NewManifest(status, previous) ==
  [status |-> status, tombstonesComplete |-> FALSE, receipt |-> 0,
   previousHead |-> previous, restore |-> "none", ops |-> [k \in {} |-> {}]]

NoPlan == [k \in Kinds |-> {}]
NoFiles == [stage |-> Absent, backup |-> Absent, displaced |-> Absent]

(***************************************************************************)
(* What a manifest says, and which transactions recovery has to finish.    *)
(***************************************************************************)
Operations(t) == DOMAIN manifest[t].ops
Restoring(t) == HasManifest(t) /\ manifest[t].restore \in {"swapping", "indexing"}
Purging(t) == HasManifest(t) /\ manifest[t].status \in {"tombstoning", "swapping", "indexing"}
Pending(t) == Purging(t) \/ Restoring(t)
Settled(t) == HasManifest(t) /\ manifest[t].status \in {"committed", "abandoned"} /\ ~Pending(t)

\* A bug the checks must catch: nobody thought of a death between the renames.
PurgeStateOfTwo(t, k) ==
  LET o == manifest[t].ops[k]
      p == place[t][k]
  IN CASE active[k] = o.after /\ p.backup = o.before -> "installed"
       [] active[k] = o.before /\ p.stage = o.after /\ p.backup = Absent -> "staged"
       [] OTHER -> "lost"

(* inferAndNormalizePurgeState and inferAndNormalizeRestoreState: where    *)
(* each store is, told from the generations alone.                         *)
PurgeState(t, k) ==
  LET o == manifest[t].ops[k]
      p == place[t][k]
  IN CASE active[k] = o.after /\ p.backup = o.before -> "installed"
       [] active[k] = Absent /\ p.stage = o.after /\ p.backup = o.before -> "backed_up"
       [] active[k] = o.before /\ p.stage = o.after /\ p.backup = Absent -> "staged"
       [] OTHER -> "lost"

RestoreState(t, k) ==
  LET o == manifest[t].ops[k]
      p == place[t][k]
  IN CASE active[k] = o.before /\ p.displaced = o.after -> "restored"
       [] active[k] = Absent /\ p.backup = o.before /\ p.displaced = o.after -> "backed_up"
       [] active[k] = o.after /\ p.backup = o.before /\ p.displaced = Absent -> "installed"
       [] OTHER -> "lost"

InferredState(t, k) == IF Restoring(t) THEN RestoreState(t, k) ELSE PurgeState(t, k)

(* What createDeliveryDedupTombstones demands of every selected message.   *)
InLedger(m) == active["ledger"] # Absent /\ <<m, "record">> \in active["ledger"]
Finished(m) == InLedger(m) /\ <<m, "outcome">> \in active["ledger"]

SelectedIn(t, k) == IF k \in Operations(t) THEN manifest[t].ops[k].ids ELSE {}

TombstoneFits(t, m) ==
  IF InLedger(m)
  THEN \/ Finished(m) /\ Outcome[m] = "settled"
       \/ Outcome[m] = "quarantined" /\ m \in SelectedIn(t, "quarantine")
  ELSE m \in tombstones

TombstonesFit(t) ==
  manifest[t].tombstonesComplete \/ \A m \in SelectedIn(t, "ledger") : TombstoneFits(t, m)

(* Recovery can finish transaction t.                                      *)
Recoverable(t) ==
  /\ \A k \in Operations(t) : InferredState(t, k) # "lost"
  /\ Purging(t) => TombstonesFit(t)

(***************************************************************************)
(* buildRetentionPlan: old enough, terminal, and protected by nothing.     *)
(* old are the messages on the far side of the cutoff; protected are those *)
(* that jobs and conversations refer to.  For scope "quarantine" neither   *)
(* the Ledger nor the jobs and conversations are read.                     *)
(***************************************************************************)
Scopes == Kinds \cup {"all"}
In(k, m) == active[k] # Absent /\ <<m, "record">> \in active[k]

QuarantineEligible(scope, old, protected) ==
  {m \in old :
     /\ In("quarantine", m)
     /\ \/ scope = "quarantine"
        \/ /\ scope = "all" /\ m \notin protected
           /\ InLedger(m) => Outcome[m] = "quarantined"}

LedgerEligible(scope, old, protected) ==
  {m \in old \ protected :
     /\ scope \in {"all", "ledger"}
     /\ InLedger(m)
     /\ \/ Outcome[m] = "denied"
        \/ Finished(m)
        \/ m \in QuarantineEligible(scope, old, protected)}

BodiesEligible(scope, old, protected) ==
  {m \in old \ protected :
     /\ scope \in {"all", "bodies"}
     /\ In("bodies", m)
     /\ InLedger(m) => Finished(m)}

Selection(scope, old, protected) ==
  [ledger |-> LedgerEligible(scope, old, protected),
   bodies |-> BodiesEligible(scope, old, protected),
   quarantine |-> QuarantineEligible(scope, old, protected)]

(***************************************************************************)
(* The process that holds the lock.                                        *)
(***************************************************************************)
At(p) == lock = "held" /\ pc = p

Leave(l) ==
  /\ lock' = l /\ pc' = "idle" /\ tx' = NoTransaction /\ todo' = {} /\ selected' = NoPlan

(* A step that only writes a manifest.                                     *)
Write(newManifest, next) ==
  /\ manifest' = newManifest /\ pc' = next
  /\ UNCHANGED <<lock, tx, todo, selected, active, place, receipt, head, tombstones, history>>

(* The next mutation removes the lock of a dead one, and then tries again  *)
(* to take it, or gives up: a writer may come first.                       *)
ReapLock ==
  /\ lock = "dead"
  /\ Leave("free")
  /\ UNCHANGED <<files, history>>

(* Purge, restore and recover all begin with recoverLocked: which of them  *)
(* it is shows only when that is done.                                     *)
BeginMutation ==
  /\ lock = "free"
  /\ lock' = "held" /\ pc' = "visit"
  /\ todo' = {u \in Transactions : manifest[u] # NoDirectory /\ ~Settled(u)}
  /\ UNCHANGED <<tx, selected, files, history>>

(* recoverLocked, one directory after the other; it passes by the settled  *)
(* ones.                                                                   *)
Resume(t) ==
  /\ At("visit") /\ t \in todo /\ Pending(t)
  /\ \A k \in Operations(t) : InferredState(t, k) # "lost"
  /\ manifest' = [manifest EXCEPT ![t].ops =
       [k \in Operations(t) |-> [manifest[t].ops[k] EXCEPT !.state = InferredState(t, k)]]]
  /\ tx' = t
  /\ pc' = CASE Restoring(t) -> "unswap"
             [] ~Restoring(t) /\ manifest[t].tombstonesComplete -> "startSwap"
             [] OTHER -> "tombstone"
  /\ UNCHANGED <<lock, todo, selected, active, place, receipt, head, tombstones, history>>

\* A bug the checks must catch: what has begun to swap is abandoned too.
AbandonSwapping(t) ==
  /\ At("visit") /\ t \in todo
  /\ HasManifest(t) /\ manifest[t].status \in {"staging", "prepared", "swapping"}
  /\ manifest' = [manifest EXCEPT ![t] = NewManifest("abandoned", NoTransaction)]
  /\ place' = [place EXCEPT ![t] = [k \in Kinds |-> NoFiles]]
  /\ todo' = todo \ {t}
  /\ UNCHANGED <<lock, pc, tx, selected, active, receipt, head, tombstones, history>>

(* Nothing reads an abandoned directory again, so what it holds is         *)
(* forgotten here.                                                         *)
Abandon(t) ==
  /\ At("visit") /\ t \in todo
  /\ HasManifest(t) /\ manifest[t].status \in {"staging", "prepared"}
  /\ manifest' = [manifest EXCEPT ![t] = NewManifest("abandoned", NoTransaction)]
  /\ place' = [place EXCEPT ![t] = [k \in Kinds |-> NoFiles]]
  /\ todo' = todo \ {t}
  /\ UNCHANGED <<lock, pc, tx, selected, active, receipt, head, tombstones, history>>

(* A directory without manifest, or generations that fit no state.         *)
RefuseRecovery(t) ==
  /\ At("visit") /\ t \in todo
  /\ \/ manifest[t] = Bare
     \/ Pending(t) /\ \E k \in Operations(t) : InferredState(t, k) = "lost"
  /\ Leave("free")
  /\ UNCHANGED <<files, history>>

Recovered == At("visit") /\ todo = {}

(* The end of a recover; also of a purge whose plan is not the confirmed   *)
(* one or selects nothing, and of a restore whose backup is not the head,  *)
(* or not as it was.                                                       *)
EndRecovery ==
  /\ Recovered
  /\ Leave("free")
  /\ UNCHANGED <<files, history>>

(***************************************************************************)
(* purgeRetention after recovery: plan, stage, mark the messages, swap.    *)
(***************************************************************************)
OpenTransaction(t, scope, old, protected) ==
  LET selection == Selection(scope, old, protected) IN
  /\ Recovered /\ manifest[t] = NoDirectory
  /\ \E k \in Kinds : selection[k] # {}
  /\ manifest' = [manifest EXCEPT ![t] = Bare]
  /\ selected' = selection /\ tx' = t /\ pc' = "manifest"
  /\ UNCHANGED <<lock, todo, active, place, receipt, head, tombstones, history>>

WriteManifest ==
  /\ At("manifest")
  /\ Write([manifest EXCEPT ![tx] = NewManifest("staging", head)], "stage")

(* stageLedger, stageBodies and stageQuarantine write the generations that *)
(* remain, and the manifest comes to list one operation for each.          *)
Stage ==
  LET kinds == {k \in Kinds : selected[k] # {}}
      remaining == [k \in kinds |-> active[k] \ Of(selected[k])]
  IN
  /\ At("stage")
  /\ place' = [place EXCEPT ![tx] =
       [k \in Kinds |-> IF k \in kinds THEN [NoFiles EXCEPT !.stage = remaining[k]]
                                       ELSE NoFiles]]
  /\ manifest' = [manifest EXCEPT
       ![tx].status = "prepared",
       ![tx].ops = [k \in kinds |->
          [state |-> "staged", ids |-> selected[k],
           before |-> active[k], after |-> remaining[k]]]]
  /\ selected' = NoPlan /\ pc' = "prepared"
  /\ UNCHANGED <<lock, tx, todo, active, receipt, head, tombstones, history>>

BeginTombstones ==
  /\ At("prepared")
  /\ Write([manifest EXCEPT ![tx].status = "tombstoning"], "tombstone")

(* createDeliveryDedupTombstones checks all messages, then writes one file *)
(* after the other.                                                        *)
WriteTombstone(m) ==
  /\ At("tombstone") /\ TombstonesFit(tx)
  /\ m \in SelectedIn(tx, "ledger") \ tombstones
  /\ tombstones' = tombstones \cup {m}
  /\ UNCHANGED <<lock, mutator, active, place, manifest, receipt, head, history>>

RefuseTombstones ==
  /\ At("tombstone") /\ ~TombstonesFit(tx)
  /\ Leave("free")
  /\ UNCHANGED <<files, history>>

TombstonesDone ==
  /\ At("tombstone")
  /\ SelectedIn(tx, "ledger") \subseteq tombstones
  /\ TombstonesFit(tx)
  /\ Write([manifest EXCEPT ![tx].tombstonesComplete = TRUE], "startSwap")

StartSwap ==
  /\ At("startSwap")
  /\ Write([manifest EXCEPT ![tx].status = "swapping"], "swap")

(***************************************************************************)
(* The loops of finishPurge and finishRestore: for each store a rename     *)
(* that takes the active generation away, a rename that brings the other   *)
(* one in, and a write of the manifest after each.                         *)
(***************************************************************************)
Left == {k \in Operations(tx) :
           manifest[tx].ops[k].state # IF pc = "swap" \/ pc = "swappedIn" \/ pc = "swappedOut"
                                       THEN "installed" ELSE "restored"}
Cursor == First(Left)
CursorState == manifest[tx].ops[Cursor].state
Before == manifest[tx].ops[Cursor].before
After == manifest[tx].ops[Cursor].after
Files == place[tx][Cursor]

Rename(newActive, newFiles) ==
  /\ active' = [active EXCEPT ![Cursor] = newActive]
  /\ place' = [place EXCEPT ![tx][Cursor] = newFiles]
  /\ UNCHANGED <<lock, tx, todo, selected, manifest, receipt, head, tombstones, history>>

SwapOut ==
  /\ At("swap") /\ Left # {} /\ CursorState = "staged"
  /\ active[Cursor] = Before /\ Files.stage = After
  /\ Rename(Absent, [Files EXCEPT !.backup = active[Cursor]])
  /\ pc' = "swappedOut"

SwapIn ==
  /\ At("swap") /\ Left # {} /\ CursorState = "backed_up"
  /\ Files.backup = Before /\ active[Cursor] = Absent /\ Files.stage = After
  /\ Rename(Files.stage, [Files EXCEPT !.stage = Absent])
  /\ pc' = "swappedIn"

UnswapOut ==
  /\ At("unswap") /\ Left # {} /\ CursorState = "installed"
  /\ active[Cursor] = After /\ Files.backup = Before
  /\ Rename(Absent, [Files EXCEPT !.displaced = active[Cursor]])
  /\ pc' = "unswappedOut"

UnswapIn ==
  /\ At("unswap") /\ Left # {} /\ CursorState = "backed_up"
  /\ active[Cursor] = Absent /\ Files.backup = Before /\ Files.displaced = After
  /\ Rename(Files.backup, [Files EXCEPT !.backup = Absent])
  /\ pc' = "unswappedIn"

(* The write of the manifest after a rename.                               *)
NoteRename(p, state, next) ==
  /\ At(p)
  /\ Write([manifest EXCEPT ![tx].ops[Cursor].state = state], next)

NoteSwap ==
  \/ NoteRename("swappedOut", "backed_up", "swap")
  \/ NoteRename("swappedIn", "installed", "swap")
  \/ NoteRename("unswappedOut", "backed_up", "unswap")
  \/ NoteRename("unswappedIn", "restored", "unswap")

(***************************************************************************)
(* The ends: index, receipt, head, manifest.  The Ledger index is rebuilt  *)
(* from the active generation and so keeps no state of its own here.       *)
(***************************************************************************)
StartIndex ==
  \/ /\ At("swap") /\ Left = {}
     /\ Write([manifest EXCEPT ![tx].status = "indexing"], "receipt")
  \/ /\ At("unswap") /\ Left = {}
     /\ Write([manifest EXCEPT ![tx].restore = "indexing"], "headBack")

(* A repeated end writes a receipt with a new time, hence a new one.       *)
WriteReceipt ==
  /\ At("receipt")
  /\ receipt' = [receipt EXCEPT ![tx] = receipt[tx] + 1]
  /\ pc' = "head"
  /\ UNCHANGED <<lock, tx, todo, selected, active, place, manifest, head, tombstones, history>>

\* A bug the checks must catch: a restore leaves no backup to restore next.
WriteHeadForgetting ==
  /\ \/ At("head") /\ head' = tx /\ pc' = "commit"
     \/ At("headBack") /\ head' = NoTransaction /\ pc' = "commitBack"
  /\ UNCHANGED <<lock, tx, todo, selected, active, place, manifest, receipt, tombstones, history>>

WriteHead ==
  /\ \/ At("head") /\ head' = tx /\ pc' = "commit"
     \/ At("headBack") /\ head' = manifest[tx].previousHead /\ pc' = "commitBack"
  /\ UNCHANGED <<lock, tx, todo, selected, active, place, manifest, receipt, tombstones, history>>

(* Back to recoverLocked, or done.                                         *)
Commit ==
  /\ \/ /\ At("commit")
        /\ manifest' = [manifest EXCEPT ![tx].status = "committed",
                                        ![tx].receipt = receipt[tx]]
     \/ /\ At("commitBack")
        /\ manifest' = [manifest EXCEPT ![tx].restore = "committed"]
  /\ IF tx \in todo
     THEN /\ todo' = todo \ {tx} /\ tx' = NoTransaction /\ pc' = "visit"
          /\ UNCHANGED <<lock, selected>>
     ELSE Leave("free")
  /\ UNCHANGED <<active, place, receipt, head, tombstones, history>>

(***************************************************************************)
(* restoreRetention after recovery.                                        *)
(***************************************************************************)
Restorable(t) ==
  /\ receipt[t] > 0 /\ head = t
  /\ HasManifest(t) /\ manifest[t].receipt = receipt[t]
  /\ manifest[t].status = "committed" /\ manifest[t].restore = "none"
  /\ \A k \in Operations(t) : /\ active[k] = manifest[t].ops[k].after
                              /\ place[t][k].backup = manifest[t].ops[k].before

StartRestore(t) ==
  /\ Recovered /\ Restorable(t)
  /\ manifest' = [manifest EXCEPT ![t].restore = "swapping"]
  /\ tx' = t /\ pc' = "unswap"
  /\ UNCHANGED <<lock, todo, selected, active, place, receipt, head, tombstones, history>>

(***************************************************************************)
(* Deaths and exceptions, at any point.                                    *)
(***************************************************************************)
Crash ==
  /\ lock = "held" /\ crashes < MaxCrashes
  /\ crashes' = crashes + 1
  /\ Leave("dead")
  /\ UNCHANGED <<files, written, intruded, failures>>

Fail ==
  /\ lock = "held" /\ failures < MaxFailures
  /\ failures' = failures + 1
  /\ Leave("free")
  /\ UNCHANGED <<files, written, intruded, crashes>>

(***************************************************************************)
(* The writers, and the readers of the Ledger, which make its directory    *)
(* when it is missing (ensureStore).  They run when nobody holds the lock, *)
(* whatever is pending.  Route Admission stores the body of an admitted    *)
(* message, or the Quarantine record, before it commits the message; the   *)
(* barrier lets nothing in between, but the writer may die there.          *)
(***************************************************************************)
Contents(k) == IF active[k] = Absent THEN {} ELSE active[k]

SetStore(k, generation) ==
  /\ active' = [active EXCEPT ![k] = generation]
  /\ written' = [written EXCEPT ![k] = @ \cup generation]
  /\ intruded' = intruded \cup {t \in Transactions : Pending(t) /\ k \in Operations(t)}
  /\ UNCHANGED <<lock, mutator, place, manifest, receipt, head, tombstones, crashes, failures>>

EnsureLedger ==
  /\ lock = "free" /\ active["ledger"] = Absent
  /\ SetStore("ledger", {})

StoreBody(m) ==
  /\ lock = "free" /\ Outcome[m] \in {"settled", "claimed"}
  /\ <<m, "record">> \notin Contents("bodies")
  /\ SetStore("bodies", Contents("bodies") \cup {<<m, "record">>})

CommitMessage(m) ==
  /\ lock = "free" /\ m \notin tombstones /\ <<m, "record">> \notin Contents("ledger")
  /\ Outcome[m] \in {"settled", "claimed"} => In("bodies", m)
  /\ Outcome[m] = "quarantined" => In("quarantine", m)
  /\ SetStore("ledger", Contents("ledger") \cup {<<m, "record">>})

WriteQuarantine(m) ==
  /\ lock = "free" /\ Outcome[m] = "quarantined"
  /\ <<m, "record">> \notin Contents("quarantine")
  /\ SetStore("quarantine", Contents("quarantine") \cup {<<m, "record">>})

Finish(m) ==
  /\ lock = "free" /\ Outcome[m] \in {"settled", "claimed"}
  /\ InLedger(m) /\ ~Finished(m)
  /\ SetStore("ledger", active["ledger"] \cup {<<m, "outcome">>})

WriterNext ==
  \/ EnsureLedger
  \/ \E m \in Messages : StoreBody(m) \/ CommitMessage(m) \/ WriteQuarantine(m) \/ Finish(m)

(***************************************************************************)
(* Everything together.                                                    *)
(***************************************************************************)
Init ==
  /\ lock = "free" /\ pc = "idle" /\ tx = NoTransaction /\ todo = {} /\ selected = NoPlan
  /\ active = [k \in Kinds |-> {}]
  /\ place = [t \in Transactions |-> [k \in Kinds |-> NoFiles]]
  /\ manifest = [t \in Transactions |-> NoDirectory]
  /\ receipt = [t \in Transactions |-> 0]
  /\ head = NoTransaction /\ tombstones = {}
  /\ written = [k \in Kinds |-> {}] /\ intruded = {}
  /\ crashes = 0 /\ failures = 0

PurgeStep ==
  \/ WriteManifest \/ Stage \/ BeginTombstones
  \/ \E m \in Messages : WriteTombstone(m)
  \/ RefuseTombstones \/ TombstonesDone

SwapStep ==
  \/ StartSwap \/ SwapOut \/ SwapIn \/ UnswapOut \/ UnswapIn
  \/ NoteSwap \/ StartIndex \/ WriteReceipt \/ WriteHead \/ Commit

RecoveryStep ==
  \/ \E t \in Transactions : Resume(t) \/ Abandon(t) \/ RefuseRecovery(t)
  \/ EndRecovery \/ ReapLock

(***************************************************************************)
(* Properties.                                                             *)
(***************************************************************************)
Operation == [state : {"staged", "backed_up", "installed", "restored"},
              ids : SUBSET Messages, before : SUBSET Records, after : SUBSET Records]

ManifestOK(m) ==
  \/ m \in {NoDirectory, Bare}
  \/ /\ m.status \in {"staging", "prepared", "tombstoning", "swapping", "indexing",
                       "committed", "abandoned"}
     /\ m.restore \in {"none", "swapping", "indexing", "committed"}
     /\ m.tombstonesComplete \in BOOLEAN /\ m.receipt \in Nat
     /\ m.previousHead \in Transactions \cup {NoTransaction}
     /\ DOMAIN m.ops \subseteq Kinds
     /\ \A k \in DOMAIN m.ops : m.ops[k] \in Operation

(* The types of the stores, of the directories of a transaction, and of    *)
(* what is read back from them.                                            *)
RetentionTypeOK ==
  /\ lock \in {"free", "held", "dead"}
  /\ active \in [Kinds -> Generations]
  /\ place \in [Transactions -> [Kinds -> [stage : Generations, backup : Generations,
                                          displaced : Generations]]]
  /\ \A t \in Transactions : ManifestOK(manifest[t])
  /\ receipt \in [Transactions -> Nat]
  /\ head \in Transactions \cup {NoTransaction}
  /\ tombstones \subseteq Messages

(* Whatever dies, fails or writes in between, a record once appended is    *)
(* still on disk: in its store, or in a directory of a transaction.        *)
NothingLost ==
  \A k \in Kinds : \A r \in written[k] :
    \/ r \in Contents(k)
    \/ \E t \in Transactions : \E g \in {place[t][k].stage, place[t][k].backup, place[t][k].displaced} :
         g # Absent /\ r \in g

(* Nobody is in the middle of anything.                                    *)
Quiet == lock = "free" /\ \A t \in Transactions : ~Pending(t)

(* A message that writers do not find in the Ledger any more has a         *)
(* Tombstone, so that its id cannot wake anyone again.                     *)
GoneIsTombstoned ==
  Quiet => \A m \in Messages :
    <<m, "record">> \in written["ledger"] /\ ~InLedger(m) => m \in tombstones

(* The durable phases roll forward (docs/RETENTION_POLICY_V1.md): whenever *)
(* the holder of the lock is gone, recovery can finish what is pending,    *)
(* unless a store was written while it was pending, or it selects a        *)
(* message that the plan takes for finished and the Tombstones do not.     *)
RollsForwardUnlessSpoiled ==
  lock # "held" => \A t \in Transactions :
    Pending(t) => \/ Recoverable(t)
                  \/ t \in intruded
                  \/ \E m \in SelectedIn(t, "ledger") : Outcome[m] \in {"denied", "claimed"}

(* The committed backups that were not restored are a chain: the head, the *)
(* head before it, and so on; and a backup on it has the receipt that its  *)
(* manifest names.                                                         *)
Held(t) == HasManifest(t) /\ manifest[t].status = "committed" /\ manifest[t].restore = "none"

HeadIsLast ==
  Quiet =>
    /\ {t \in Transactions : Held(t)} # {} => head # NoTransaction
    /\ head # NoTransaction => Held(head)
    /\ \A t \in Transactions : Held(t) =>
         /\ manifest[t].receipt = receipt[t] /\ receipt[t] > 0
         /\ t = head \/ \E u \in Transactions : Held(u) /\ manifest[u].previousHead = t
    /\ \A t, u \in {x \in Transactions : Held(x)} :
         t # u => manifest[t].previousHead # manifest[u].previousHead
=============================================================================
