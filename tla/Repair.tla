--------------------------------- MODULE Repair ---------------------------------
(***************************************************************************)
(* The repairs of src/repair.js and their archive,                         *)
(* src/repair-retention.js.  Both run inside withRepairMutation, which is  *)
(* withFileLock on repairs/mutation.lock: a call of module FileLock whose  *)
(* callback is one command, apply, archive, restore or recover.  A process *)
(* may die anywhere in it; a later call reaps its lock and meets the files *)
(* it left.                                                                *)
(*                                                                         *)
(* A repair is named by the call that makes it, and so is an archive       *)
(* (randomUUID).  What is repaired, an index, a Cluster head, a Job, has   *)
(* locks of its own, and is only its version here: a digest in a plan, a   *)
(* backup or a mutation is the version it was computed from.               *)
(***************************************************************************)
EXTENDS FileLock, Naturals

CONSTANTS
  Old,         \* repairs completed more than 90 days ago, which can be archived
  MaxAtOnce,   \* bound: calls under way at a time, those of dead processes not counted
  MaxChanges,  \* bound: changes by others to what is repaired
  MaxEvents    \* bound: repairs asked for, writes and renames that throw, and deaths

ASSUME RepairAssumptions ==
  /\ Old \cap Call = {} /\ NoFile \notin Old /\ "active" \notin Call
  /\ MaxAtOnce \in Nat /\ MaxChanges \in Nat /\ MaxEvents \in Nat

VARIABLES
  job,       \* the command of each call, and where it is in it
  subject,   \* what is repaired: its version, and whether it has the finding
  manifest,  \* the manifest of each repair, and the copies beside it
  receipt,   \* the status in the receipt of each repair
  home,      \* where the transaction directory of each repair is
  slip,      \* where the receipt of each repair is
  album,     \* the manifest of each archive
  sealed,    \* archives whose receipt is on disk
  litter,    \* directories in which a temporary file was left
  replaced,  \* history: the version that the mutation of a repair replaced
  changes,   \* counted against MaxChanges
  events     \* counted against MaxEvents

repairs    == <<subject, manifest, receipt, replaced>>
archives   == <<album, sealed>>
places     == <<home, slip>>
allVars    == <<vars, job, repairs, archives, places, litter, changes, events>>

Id == Call \cup Old

Unasked == [kind |-> "none", step |-> "none", version |-> 0, backed |-> FALSE,
            items |-> {}, wanted |-> NoFile, on |-> NoFile, own |-> FALSE]

Over    == [Unasked EXCEPT !.step = "over"]

NoRepair  == [phase |-> "none", copied |-> FALSE, listed |-> FALSE, copy |-> 0]
Completed == [phase |-> "completed", copied |-> TRUE, listed |-> TRUE, copy |-> 1]
NoAlbum   == [status |-> "none", items |-> {}]

RepairInit ==
  /\ Init
  /\ job      = [c \in Call |-> Unasked]
  /\ subject  = [version |-> 2, broken |-> TRUE]
  /\ manifest = [r \in Id |-> IF r \in Old THEN Completed ELSE NoRepair]
  /\ receipt  = [r \in Id |-> IF r \in Old THEN "completed" ELSE "none"]
  /\ home     = [r \in Id |-> IF r \in Old THEN "active" ELSE "none"]
  /\ slip     = home
  /\ album    = [a \in Call |-> NoAlbum]
  /\ sealed   = {} /\ litter = {}
  /\ replaced = [r \in Id |-> IF r \in Old THEN 1 ELSE 0]
  /\ changes  = 0 /\ events = 0

-----------------------------------------------------------------------------
(* Commands, before the lock                                               *)

\* A repair in whose directory inspectRepairState finds nothing wrong: a manifest,
\* copies only if the manifest lists them, and the receipt that its phase asks for.
\* That an attempt stopped or failed is a warning.
Sound(r) ==
  /\ manifest[r].phase # "bare" /\ r \notin litter
  /\ manifest[r].copied => manifest[r].listed
  /\ manifest[r].phase \in {"completed", "failed"} =>
       slip[r] = "active" /\ receipt[r] = manifest[r].phase

\* inspectRepairState fails no check.  It knows the lock file, but not what a
\* reaper or a releasing owner renames it to.
Consistent ==
  /\ \A c \in Call : stale[c] = NoFile /\ released[c] = NoFile
  /\ "receipts" \notin litter
  /\ \A r \in Id : home[r] = "active" => Sound(r)
  /\ \A r \in Id : slip[r] = "active" => home[r] = "active"

\* The repairs that buildRepairRetentionPlan may select; its digest names them.
Eligible == {r \in Old : home[r] = "active" /\ manifest[r].phase = "completed"}

UnderWay == {c \in Call : job[c] # Unasked /\ alive[c] /\ pc[c] # "done"}

Ask(c, command) ==
  /\ pc[c] = "acquire" /\ alive[c] /\ job[c] = Unasked
  /\ Cardinality(UnderWay) < MaxAtOnce
  /\ job' = [job EXCEPT ![c] = command]
  /\ UNCHANGED <<vars, repairs, archives, places, litter, changes>>

\* The operator confirms the digest of a plan, and applyRepair finds it unchanged.
AskRepair(c) ==
  /\ subject.broken
  /\ events < MaxEvents /\ events' = events + 1
  /\ Ask(c, [Unasked EXCEPT !.kind = "apply", !.step = "make", !.version = subject.version])

AskArchive(c) ==
  /\ Consistent /\ UNCHANGED events
  /\ Ask(c, [Unasked EXCEPT !.kind = "archive", !.step = "recover",
                            !.items = Eligible, !.wanted = c])

AskRestore(c) ==
  \E a \in Call : /\ album[a] # NoAlbum /\ UNCHANGED events
                  /\ Ask(c, [Unasked EXCEPT !.kind = "restore", !.step = "recover",
                                            !.wanted = a])

AskRecover(c) ==
  /\ \E a \in Call : album[a] # NoAlbum
  /\ UNCHANGED events
  /\ Ask(c, [Unasked EXCEPT !.kind = "recover", !.step = "recover"])

-----------------------------------------------------------------------------
(* Steps inside the lock                                                   *)

At(c, step) == pc[c] = "running" /\ alive[c] /\ job[c].step = step

\* What the call knows, with backed where the manifest in its memory lists the
\* backup; nothing any more when it is over.
Knows(c, step, backed) ==
  IF step = "over" THEN Over ELSE [job[c] EXCEPT !.step = step, !.backed = backed]

GoOn(c, step) ==
  /\ job' = [job EXCEPT ![c] = Knows(c, step, @.backed)]
  /\ UNCHANGED <<vars, repairs, archives, places, litter, changes, events>>

\* How a write or a rename ends: with or without effect, maybe with a temporary
\* file left behind, and the command goes on, throws, or dies on the way.
Outcome == [took : BOOLEAN, left : BOOLEAN, fate : {"goesOn", "throws", "dies"}]

\* writePrivateFile writes and syncs a temporary file, renames it, and syncs the
\* directory.  What it leaves before the rename is never unlinked.
Writing == {o \in Outcome : IF o.took THEN ~o.left /\ o.fate # "dies"
                                      ELSE o.fate = "throws" \/ (o.left /\ o.fate = "dies")}

\* A rename, and then the manifest of the archive is written, whose item states
\* nobody reads.
Moving == {o \in Outcome : IF o.took THEN o.left => o.fate # "goesOn"
                                     ELSE ~o.left /\ o.fate = "throws"}

\* c comes to step ok or bad after outcome o of a write in directory.
Done(c, o, directory, ok, bad) ==
  /\ o.fate # "goesOn" => events < MaxEvents
  /\ events' = IF o.fate = "goesOn" THEN events ELSE events + 1
  /\ IF o.fate = "dies" THEN Crash(c) ELSE UNCHANGED vars
  /\ litter' = IF o.left THEN litter \cup {directory} ELSE litter
  /\ job' = [job EXCEPT ![c] =
       CASE o.fate = "goesOn" -> Knows(c, ok, @.backed \/ ok = "start")
         [] o.fate = "throws" -> Knows(c, bad, @.backed)
         [] o.fate = "dies"   -> Over]
  /\ UNCHANGED changes

-----------------------------------------------------------------------------
(* applyRepair                                                             *)

\* The plan is not the confirmed one any more, or the quota of 256 MB is reached.
Refuse(c) ==
  /\ At(c, "make")
  /\ GoOn(c, "over")

\* A bare directory for the new transaction.
MakeRepair(c) ==
  /\ At(c, "make")
  /\ subject.broken /\ subject.version = job[c].version
  /\ manifest' = [manifest EXCEPT ![c].phase = "bare"]
  /\ home' = [home EXCEPT ![c] = "active"]
  /\ \E o \in Writing : o.took /\ Done(c, o, c, "initialize", "over")
  /\ UNCHANGED <<subject, receipt, replaced, archives, slip>>

\* The manifest in its next phase.  The first one is written outside of the try.
WriteManifest(c, step, phase, next, bad) ==
  /\ At(c, step)
  /\ \E o \in Writing :
       /\ manifest' = IF ~o.took THEN manifest
                      ELSE [manifest EXCEPT ![c].phase = phase,
                                            ![c].listed = job[c].backed \/ phase = "prepared"]
       /\ Done(c, o, c, next, bad)
  /\ UNCHANGED <<subject, receipt, replaced, archives, places>>

Initialize(c) == WriteManifest(c, "initialize", "initializing", "check", "over")
Prepare(c)    == WriteManifest(c, "prepare", "prepared", "start", "fail")
Start(c)      == WriteManifest(c, "start", "mutation-started", "execute", "fail")
NoteMutated(c) == WriteManifest(c, "note", "mutated", "verify", "fail")
Complete(c)   == WriteManifest(c, "complete", "completed", "over", "fail")

\* The evidence is read again before the backup, and must be that of the plan.
CheckEvidence(c) ==
  /\ At(c, "check")
  /\ GoOn(c, IF subject.version = job[c].version THEN "copy" ELSE "fail")

\* backupRepair copies the evidence it holds, or, for an index, the files as they
\* are by now; it stops in the middle or at a size limit.
Copy(c) ==
  /\ At(c, "copy")
  /\ \E o \in Writing, version \in {job[c].version, subject.version} :
       /\ manifest' = IF ~o.took THEN manifest
                      ELSE [manifest EXCEPT ![c].copied = TRUE, ![c].copy = version]
       /\ Done(c, o, c, "prepare", "fail")
  /\ UNCHANGED <<subject, receipt, replaced, archives, places>>

\* The mutation, under the lock of what is repaired.
Mutate(c) ==
  \E o \in {w \in Writing : ~w.left}, broken \in BOOLEAN :
    /\ broken => o.fate = "throws"
    /\ IF o.took
         THEN /\ subject' = [version |-> subject.version + 1, broken |-> broken]
              /\ replaced' = [replaced EXCEPT ![c] = subject.version]
         ELSE UNCHANGED <<subject, replaced>>
    /\ Done(c, o, c, "note", "fail")
    /\ UNCHANGED <<manifest, receipt, archives, places>>

\* A bug the checks must catch: the mutation does not look at the evidence again.
ExecuteUnseen(c) ==
  /\ At(c, "execute")
  /\ Mutate(c)

\* executeRepair: the evidence, read again under that lock, is that of the plan.
Execute(c) ==
  /\ At(c, "execute")
  /\ IF subject.version = job[c].version THEN Mutate(c) ELSE GoOn(c, "fail")

\* verifyRepair: the finding is gone.
Verify(c) ==
  /\ At(c, "verify")
  /\ GoOn(c, IF subject.broken THEN "fail" ELSE "receive")

WriteReceipt(c, status, next, bad) ==
  /\ \E o \in Writing :
       /\ IF o.took THEN /\ receipt' = [receipt EXCEPT ![c] = status]
                         /\ slip' = [slip EXCEPT ![c] = "active"]
                    ELSE UNCHANGED <<receipt, slip>>
       /\ Done(c, o, "receipts", next, bad)
  /\ UNCHANGED <<subject, manifest, replaced, archives, home>>

Receive(c) == At(c, "receive") /\ WriteReceipt(c, "completed", "complete", "fail")

\* The failure is recorded in the receipt and in the manifest, as far as possible.
Fail(c)       == At(c, "fail") /\ WriteReceipt(c, "failed", "giveUp", "giveUp")
FailManifest(c) == WriteManifest(c, "giveUp", "failed", "over", "over")

ApplyStep(c) ==
  \/ Refuse(c) \/ MakeRepair(c) \/ Initialize(c) \/ CheckEvidence(c) \/ Copy(c)
  \/ Prepare(c) \/ Start(c) \/ Execute(c) \/ NoteMutated(c) \/ Verify(c)
  \/ Receive(c) \/ Complete(c) \/ Fail(c) \/ FailManifest(c)

-----------------------------------------------------------------------------
(* Archives                                                                *)

\* classifyItem: where the two parts of an item of an archive are.
Class(a, r) ==
  CASE home[r] = "active" /\ slip[r] = "active" -> "active"
    [] home[r] = a /\ slip[r] = "active"        -> "transaction-moved"
    [] home[r] = a /\ slip[r] = a               -> "archived"
    [] home[r] = "active" /\ slip[r] = a        -> "transaction-restored"
    [] OTHER                                    -> "unsafe"

InClass(a, class) == {r \in album[a].items : Class(a, r) = class}

\* An archive that recoverLocked cannot read: it throws.
Unreadable(a) ==
  \/ album[a].status = "bare"
  \/ album[a] # NoAlbum /\ a \in litter
  \/ album[a].status = "restoring" /\ a \notin sealed

\* recoverLocked comes to an archive that it cannot read ...
RecoverThrows(c) ==
  /\ At(c, "recover")
  /\ \E a \in Call : Unreadable(a)
  /\ GoOn(c, "over")

Unfinished == {a \in Call : album[a].status \in {"archiving", "restoring"}}

\* ... or to one that it has to finish ...
RecoverNext(c) ==
  /\ At(c, "recover")
  /\ \E a \in Unfinished :
       /\ ~Unreadable(a)
       /\ job' = [job EXCEPT ![c].step = album[a].status, ![c].on = a]
  /\ UNCHANGED <<vars, repairs, archives, places, litter, changes, events>>

\* ... or is through, and the command goes on with its own archive.
Recovered(c) ==
  /\ At(c, "recover")
  /\ Unfinished = {} /\ \A a \in Call : ~Unreadable(a)
  /\ job' = [job EXCEPT ![c] =
       IF @.kind = "recover" THEN Over
       ELSE [job[c] EXCEPT !.step = "plan", !.on = job[c].wanted, !.own = TRUE]]
  /\ UNCHANGED <<vars, repairs, archives, places, litter, changes, events>>

CanArchive(c) ==
  job[c].kind = "archive" /\ Consistent /\ Eligible = job[c].items /\ Eligible # {}

CanRestore(c) ==
  LET a == job[c].on IN
  /\ job[c].kind = "restore" /\ album[a].status = "committed" /\ a \in sealed
  /\ InClass(a, "archived") = album[a].items

\* The plan is stale, the archive not restorable, or a quota is reached.
RefusePlan(c) ==
  /\ At(c, "plan")
  /\ GoOn(c, "over")

\* A bug the checks must catch: the plan is not made again inside the lock.
MakeAlbumUnseen(c) ==
  /\ At(c, "plan")
  /\ job[c].kind = "archive" /\ job[c].items # {}
  /\ album' = [album EXCEPT ![c].status = "bare"]
  /\ \E o \in Writing : o.took /\ Done(c, o, c, "list", "over")
  /\ UNCHANGED <<repairs, places, sealed>>

\* A directory for the new archive.
MakeAlbum(c) ==
  /\ At(c, "plan")
  /\ CanArchive(c)
  /\ album' = [album EXCEPT ![c].status = "bare"]
  /\ \E o \in Writing : o.took /\ Done(c, o, c, "list", "over")
  /\ UNCHANGED <<repairs, places, sealed>>

\* writeArchiveManifest with a new status.
WriteAlbum(c, status, items, next) ==
  LET a == job[c].on IN
  /\ \E o \in Writing :
       /\ album' = IF o.took THEN [album EXCEPT ![a] = [status |-> status, items |-> items]]
                             ELSE album
       /\ Done(c, o, a, next, "over")
  /\ UNCHANGED <<repairs, places, sealed>>

BeginArchive(c) == At(c, "list") /\ WriteAlbum(c, "archiving", job[c].items, "archiving")

BeginRestore(c) ==
  /\ At(c, "plan")
  /\ CanRestore(c)
  /\ WriteAlbum(c, "restoring", album[job[c].on].items, "restoring")

\* After its own archive a command is over, after another one it goes on recovering.
Afterwards(c) == IF job[c].own THEN "over" ELSE "recover"

\* One part of an item is moved, the other part of the one before it being there.
MoveTransaction(c, step, from, between, to) ==
  LET a == job[c].on IN
  /\ At(c, step)
  /\ InClass(a, between) = {}
  /\ \E r \in InClass(a, from), o \in Moving :
       /\ home' = IF o.took THEN [home EXCEPT ![r] = to] ELSE home
       /\ Done(c, o, a, step, "over")
  /\ UNCHANGED <<repairs, archives, slip>>

MoveReceipt(c, step, between, to) ==
  LET a == job[c].on IN
  /\ At(c, step)
  /\ \E r \in InClass(a, between), o \in Moving :
       /\ slip' = IF o.took THEN [slip EXCEPT ![r] = to] ELSE slip
       /\ Done(c, o, a, step, "over")
  /\ UNCHANGED <<repairs, archives, home>>

\* All items are in the archive: its receipt, unless there is one from before.
Seal(c) ==
  LET a == job[c].on IN
  /\ At(c, "archiving")
  /\ InClass(a, "archived") = album[a].items
  /\ IF a \in sealed
       THEN GoOn(c, "commit")
       ELSE /\ \E o \in {w \in Writing : ~w.left} :
                 /\ sealed' = IF o.took THEN sealed \cup {a} ELSE sealed
                 /\ Done(c, o, a, "commit", "over")
            /\ UNCHANGED <<repairs, places, album>>

Commit(c) ==
  At(c, "commit") /\ WriteAlbum(c, "committed", album[job[c].on].items, Afterwards(c))

\* All items are back.  The receipt of a restore, which nobody asks for, is not modelled.
FinishRestore(c) ==
  LET a == job[c].on IN
  /\ At(c, "restoring")
  /\ InClass(a, "active") = album[a].items
  /\ WriteAlbum(c, "restored", album[a].items, Afterwards(c))

\* Both throw at an item in a class they do not expect: ArchivesAreTrue says that
\* there is none.
FinishArchive(c) ==
  \/ MoveTransaction(c, "archiving", "active", "transaction-moved", job[c].on)
  \/ MoveReceipt(c, "archiving", "transaction-moved", job[c].on)
  \/ Seal(c)
  \/ Commit(c)

RestoreItems(c) ==
  \/ MoveTransaction(c, "restoring", "archived", "transaction-restored", "active")
  \/ MoveReceipt(c, "restoring", "transaction-restored", "active")
  \/ FinishRestore(c)

ArchiveStep(c) ==
  \/ RecoverThrows(c) \/ RecoverNext(c) \/ Recovered(c)
  \/ RefusePlan(c) \/ MakeAlbum(c) \/ BeginArchive(c) \/ BeginRestore(c)
  \/ FinishArchive(c) \/ RestoreItems(c)

-----------------------------------------------------------------------------

\* What is repaired is changed by its own writers, which do not take this lock.
\* While no repair is under way, that only starts another count of versions.
ChangeSubject ==
  /\ changes < MaxChanges
  /\ \E c \in UnderWay : job[c].kind = "apply"
  /\ changes' = changes + 1
  /\ \E broken \in BOOLEAN :
       subject' = [version |-> subject.version + 1, broken |-> broken]
  /\ UNCHANGED <<vars, job, manifest, receipt, replaced, archives, places, litter, events>>

\* The steps of withFileLock: a call has a command, and releases when that is over.
LockStep(c) ==
  /\ job[c] # Unasked
  /\ pc[c] = "running" => job[c].step = "over"
  /\ CallStep(c)
  /\ UNCHANGED <<job, repairs, archives, places, litter, changes, events>>

Die(c) ==
  /\ c \in UnderWay
  /\ events < MaxEvents /\ events' = events + 1
  /\ Crash(c)
  /\ job' = [job EXCEPT ![c] = Over]
  /\ UNCHANGED <<repairs, archives, places, litter, changes>>

Command(c) == AskRepair(c) \/ AskArchive(c) \/ AskRestore(c) \/ AskRecover(c)

RepairNext ==
  \/ \E c \in Call : Command(c) \/ LockStep(c) \/ ApplyStep(c) \/ ArchiveStep(c) \/ Die(c)
  \/ ChangeSubject

RepairSpec == RepairInit /\ [][RepairNext]_allVars

-----------------------------------------------------------------------------
(* Properties                                                              *)

\* The files have the values that somebody writes.
RepairTypeOK ==
  /\ \A r \in Id :
       /\ manifest[r].phase \in {"none", "bare", "initializing", "prepared", "mutation-started",
                                 "mutated", "completed", "failed"}
       /\ receipt[r] \in {"none", "completed", "failed"}
       /\ {home[r], slip[r]} \subseteq {"none", "active"} \cup Call
  /\ \A a \in Call :
       /\ album[a].status \in {"none", "bare", "archiving", "committed", "restoring", "restored"}
       /\ album[a].items \subseteq Old
  /\ sealed \subseteq Call /\ litter \subseteq Call \cup {"receipts"}

\* What a repair replaced can be put back: before it, a copy of just that version
\* was made and listed, although others change it meanwhile.
ReplacedIsBackedUp == \A r \in Call : replaced[r] # 0 =>
  manifest[r].copied /\ manifest[r].listed /\ manifest[r].copy = replaced[r]

\* The record of a repair is true, whatever write failed: completed or mutated says
\* that it was made, and a phase before the mutation that nothing was touched.
RecordsAreTrue == \A r \in Call :
  /\ receipt[r] = "completed" \/ manifest[r].phase \in {"mutated", "completed"} =>
       replaced[r] # 0
  /\ manifest[r].phase \in {"none", "bare", "initializing", "prepared"} => replaced[r] = 0

\* A repair can be traced and undone, wherever it throws or its process dies.
RepairsAreAccountable == RepairTypeOK /\ ReplacedIsBackedUp /\ RecordsAreTrue

\* The transaction and the receipt of a repair are at one place, or it is an item
\* of an archive that is not finished.
PartsStayTogether == \A r \in Old :
  home[r] = slip[r] \/ \E a \in Unfinished : r \in album[a].items /\ {home[r], slip[r]} = {a, "active"}

\* The manifest of an archive says where its items are: in it or not in it when it
\* is finished, and where recovery can go on from when it is not.
ArchivesAreTrue == \A a \in Call :
  /\ album[a].status = "committed" => InClass(a, "archived") = album[a].items
  /\ album[a].status = "restored" => \A r \in album[a].items : a \notin {home[r], slip[r]}
  /\ album[a].status \in {"committed", "restoring", "restored"} => a \in sealed
  /\ \A r \in album[a].items : CASE
       album[a].status = "archiving" -> Class(a, r) \in {"active", "transaction-moved", "archived"}
    [] album[a].status = "restoring" -> Class(a, r) \in {"active", "transaction-restored", "archived"}
    [] OTHER -> TRUE

\* The evidence of a completed repair is never lost or torn: by archives, restores
\* and recoveries that die anywhere, or that were planned at the same time.
EvidenceStaysWhole == PartsStayTogether /\ ArchivesAreTrue
=============================================================================
