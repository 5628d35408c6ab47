----------------------------- MODULE JobArchive -----------------------------
(***************************************************************************)
(* Archive, restore and recovery of Job records, src/src/job-retention.js, *)
(* together with the purges of module RetentionTransaction: both are       *)
(* mutations under the one lock of the Retention Mutation Barrier, each    *)
(* recovers only its own transactions, and a purge must not take away the  *)
(* task body of a Job that is archived.                                    *)
(*                                                                         *)
(* A Job record is one file, and a rename moves it: jobAt says where it    *)
(* is.  Recovery classifies every item by where its file is; the "state"   *)
(* a manifest records for it is not read back, and is left out.            *)
(***************************************************************************)
EXTENDS RetentionTransaction

CONSTANTS Jobs, Archives, TaskBody

ASSUME JobAssumption ==
  /\ TaskBody \in [Jobs -> Messages]
  /\ Archives \cap Transactions = {} /\ NoTransaction \notin Archives
  /\ Archives \cap {"none", "active"} = {}

VARIABLES
  jobAt,    \* "none", "active", or the archive that holds the Job's file
  ended,    \* Jobs with a terminal status
  album,    \* manifest.json of each archive directory
  slip      \* archives whose terminal receipt is on disk

jobVars == <<jobAt, ended, album, slip>>
allVars == <<vars, jobVars>>

HasAlbum(a) == album[a] \notin {NoDirectory, Bare}
Archived(j) == jobAt[j] \in Archives
Unfinished(a) == HasAlbum(a) /\ album[a].status \in {"archiving", "restoring"}

(* Archive, restore and recover of Jobs.                                   *)
BeginJobMutation ==
  /\ lock = "free"
  /\ lock' = "held" /\ pc' = "visitJobs"
  /\ todo' = {b \in Archives : album[b] = Bare \/ Unfinished(b)}
  /\ UNCHANGED <<tx, selected, files, history, jobVars>>

ResumeArchive(a) ==
  /\ At("visitJobs") /\ a \in todo /\ Unfinished(a)
  /\ album[a].status = "restoring" => a \in slip
  /\ tx' = a
  /\ pc' = IF album[a].status = "archiving" THEN "moveJobs" ELSE "returnJobs"
  /\ UNCHANGED <<lock, todo, selected, files, history, jobVars>>

RefuseArchive(a) ==
  /\ At("visitJobs") /\ a \in todo /\ album[a] = Bare
  /\ Leave("free")
  /\ UNCHANGED <<files, history, jobVars>>

ArchivesRecovered == At("visitJobs") /\ todo = {}

(* The end of a recover, or of a refused archive or restore.               *)
EndJobRecovery ==
  /\ ArchivesRecovered
  /\ Leave("free")
  /\ UNCHANGED <<files, history, jobVars>>

(* planJobRetention: old enough, ended, and referred to by nothing.  It    *)
(* reads the Ledger, and so makes the directory if it is missing.          *)
Eligible == {j \in Jobs : jobAt[j] = "active" /\ j \in ended}

OpenArchive(a) ==
  /\ ArchivesRecovered /\ Eligible # {} /\ album[a] = NoDirectory
  /\ active' = [active EXCEPT !["ledger"] = Contents("ledger")]
  /\ intruded' = IF active["ledger"] # Absent THEN intruded
                 ELSE intruded \cup {t \in Transactions : Pending(t) /\ "ledger" \in Operations(t)}
  /\ album' = [album EXCEPT ![a] = Bare]
  /\ tx' = a /\ pc' = "jobManifest"
  /\ UNCHANGED <<lock, todo, selected, place, manifest, receipt, head,
                 tombstones, written, crashes, failures, jobAt, ended, slip>>

WriteAlbum(items) ==
  /\ At("jobManifest") /\ items # {}
  /\ album' = [album EXCEPT ![tx] = [status |-> "archiving", items |-> items]]
  /\ pc' = "moveJobs"
  /\ UNCHANGED <<lock, tx, todo, selected, files, history, jobAt, ended, slip>>

(* finishArchive and finishRestore: one rename per item that is not yet    *)
(* where it should be.                                                     *)
MoveJob(j) ==
  /\ At("moveJobs") \/ At("returnJobs")
  /\ j \in album[tx].items
  /\ \/ At("moveJobs") /\ jobAt[j] = "active" /\ jobAt' = [jobAt EXCEPT ![j] = tx]
     \/ At("returnJobs") /\ jobAt[j] = tx /\ jobAt' = [jobAt EXCEPT ![j] = "active"]
  /\ UNCHANGED <<lock, mutator, files, history, ended, album, slip>>

WriteSlip ==
  /\ At("moveJobs") /\ \A j \in album[tx].items : jobAt[j] = tx
  /\ slip' = slip \cup {tx} /\ pc' = "commitJobs"
  /\ UNCHANGED <<lock, tx, todo, selected, files, history, jobAt, ended, album>>

CommitJobs ==
  /\ \/ At("commitJobs") /\ album' = [album EXCEPT ![tx].status = "committed"]
     \/ /\ At("returnJobs") /\ \A j \in album[tx].items : jobAt[j] = "active"
        /\ album' = [album EXCEPT ![tx].status = "restored"]
  /\ IF tx \in todo
     THEN /\ todo' = todo \ {tx} /\ tx' = NoTransaction /\ pc' = "visitJobs"
          /\ UNCHANGED <<lock, selected>>
     ELSE Leave("free")
  /\ UNCHANGED <<files, history, jobAt, ended, slip>>

JobsRestorable(a) ==
  /\ HasAlbum(a) /\ album[a].status = "committed" /\ a \in slip
  /\ \A j \in album[a].items : jobAt[j] = a

StartJobRestore(a) ==
  /\ ArchivesRecovered /\ JobsRestorable(a)
  /\ album' = [album EXCEPT ![a].status = "restoring"]
  /\ tx' = a /\ pc' = "returnJobs"
  /\ UNCHANGED <<lock, todo, selected, files, history, jobAt, ended, slip>>

(***************************************************************************)
(* Job writers.  A Delegation stores its task body and then its Job        *)
(* record: two operations moments apart, while a purge takes bodies that   *)
(* are at least 30 days old, so one step here.  The body's id is the       *)
(* Job's, and new.                                                         *)
(***************************************************************************)
CreateJob(j) ==
  /\ lock = "free" /\ jobAt[j] = "none" /\ <<TaskBody[j], "record">> \notin written["bodies"]
  /\ SetStore("bodies", Contents("bodies") \cup {<<TaskBody[j], "record">>})
  /\ jobAt' = [jobAt EXCEPT ![j] = "active"]
  /\ UNCHANGED <<ended, album, slip>>

EndJob(j) ==
  /\ lock = "free" /\ jobAt[j] = "active" /\ j \notin ended
  /\ ended' = ended \cup {j}
  /\ UNCHANGED <<lock, mutator, files, history, jobAt, album, slip>>

(***************************************************************************)
(* The plan of a purge reads the Jobs, active and archived, except for the *)
(* scope that needs no Ledger; an archive directory without a manifest     *)
(* ends it.                                                                *)
(***************************************************************************)
\* A bug the checks must catch: archived Jobs protect nothing.
ProtectedByActive == {TaskBody[j] : j \in {i \in Jobs : jobAt[i] = "active"}}

Protected == {TaskBody[j] : j \in {i \in Jobs : jobAt[i] = "active" \/ Archived(i)}}

OpenPurge(t) ==
  \E scope \in Scopes, old \in SUBSET Messages :
    /\ scope # "quarantine" => \A a \in Archives : album[a] # Bare
    /\ OpenTransaction(t, scope, old, Protected)

JobInit ==
  /\ Init
  /\ jobAt = [j \in Jobs |-> "none"] /\ ended = {}
  /\ album = [a \in Archives |-> NoDirectory] /\ slip = {}

RetentionStep ==
  /\ \/ BeginMutation \/ RecoveryStep \/ PurgeStep \/ SwapStep
     \/ \E t \in Transactions : OpenPurge(t) \/ StartRestore(t)
     \/ Crash \/ Fail \/ WriterNext
  /\ UNCHANGED jobVars

ArchiveStep ==
  \/ BeginJobMutation \/ EndJobRecovery \/ WriteSlip \/ CommitJobs
  \/ \E a \in Archives : \/ ResumeArchive(a) \/ RefuseArchive(a)
                         \/ OpenArchive(a) \/ StartJobRestore(a)
  \/ At("jobManifest") /\ \E items \in SUBSET Eligible : WriteAlbum(items)
  \/ \E j \in Jobs : MoveJob(j) \/ CreateJob(j) \/ EndJob(j)

JobNext == RetentionStep \/ ArchiveStep
JobSpec == JobInit /\ [][JobNext]_allVars

(***************************************************************************)
(* Properties.                                                             *)
(***************************************************************************)
(* A Job keeps the body of its task, archived or not, through all purges   *)
(* and restores (docs/JOB_RETENTION_ARCHIVE_V1.md).                        *)
JobsKeepTheirBodies ==
  Quiet => \A j \in Jobs : jobAt[j] # "none" => In("bodies", TaskBody[j])

(* A Job that left the active directory is listed by the archive it is in, *)
(* under a status that lets recovery or a restore bring it to an end; and  *)
(* an archive that is done with holds all of its Jobs or none.             *)
ArchivesAreWhole ==
  /\ \A j \in Jobs : Archived(j) => HasAlbum(jobAt[j]) /\ j \in album[jobAt[j]].items
  /\ \A a \in Archives : HasAlbum(a) =>
       /\ album[a].status = "committed" =>
            a \in slip /\ \A j \in album[a].items : jobAt[j] = a
       /\ album[a].status = "restored" => \A j \in album[a].items : jobAt[j] # a

(* No record vanishes: it is in a store or a backup, or has its Tombstone, *)
(* however a purge, a restore or their recovery is interrupted.            *)
NothingVanishes == RetentionTypeOK /\ NothingLost /\ GoneIsTombstoned

(* What can be restored is whole, and there is an order to restore it in.  *)
BackupsAreWhole == HeadIsLast /\ ArchivesAreWhole
=============================================================================
