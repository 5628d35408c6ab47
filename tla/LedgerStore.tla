------------------------------- MODULE LedgerStore -------------------------------
(***************************************************************************)
(* The files under the Delivery Ledger: append-only segments, the          *)
(* quarantine for segments with a partial tail, the index of one shard for *)
(* each message, and the checkpoint that says which files it stands for.   *)
(*      src/delivery-ledger.js                                             *)
(*                                                                         *)
(* A writer holds append.lock (FileLock).  It may die between any two of   *)
(* its writes, or be stopped by an exception in the middle of an append.   *)
(* Readers of the segments take no lock.  Records have different lengths:  *)
(* a segment is left for a new one whenever the next record is too long    *)
(* for it, and at the latest when it has SegmentRecords of them.  Whether  *)
(* the quota lets a record pass is in LedgerRoom; purges of whole segments *)
(* are in RetentionTransaction.                                            *)
(*                                                                         *)
(* Deliveries are scheduled ones: theirs are the longest lives.  Records   *)
(* that leave the state as it is, renewals and further evidence, are left  *)
(* out, and so is time: records are numbered as they are appended, and a   *)
(* lease may have ended whenever another claim asks for it.                *)
(***************************************************************************)
EXTENDS Naturals, Sequences, FiniteSetsExt

CONSTANTS
  Message,
  Admitted,        \* messages that are admitted and scheduled; the others are denied
  SegmentRecords,  \* records a segment has at most (segmentBytes)
  Reader,          \* processes that scan the segments
  MaxFaults,       \* bound: deaths and exceptions of a writer
  None

States == {"scheduled", "claimed", "attempted", "unknown", "done"}

\* A record of a message, and the projection of its records.
Kinds == {"batch", "denial", "claim", "release", "attempt", "unknown", "outcome", "ended"}

ASSUME StoreAssumptions ==
  /\ IsFiniteSet(Message) /\ Admitted \subseteq Message
  /\ SegmentRecords \in Nat \ {0} /\ MaxFaults \in Nat
  /\ None \notin Nat /\ None \notin [state : States, claim : Nat]
  /\ None \notin [message : Message, kind : Kinds, number : Nat, claim : Nat]

VARIABLES
  file,        \* the files by number: where each is, its records, a partial tail
  shard,       \* the index: the projection of each message
  checkpoint,  \* the files it was written for, and the number of shards
  writer,      \* where the holder of the lock is
  reader,      \* where the scan of each of them is
  truth,       \* the projection of each message, by the appends that succeeded
  returned,    \* records whose append was reported to the caller
  faults

storeVars == <<file, shard, checkpoint, writer, reader, truth, returned, faults>>

Nothing == [m \in Message |-> None]
Unlocked == [step |-> "idle", messages |-> Nothing, todo |-> {}, record |-> None,
             rotate |-> FALSE]
NotReading == [step |-> "idle", left |-> {}, missing |-> {}, again |-> FALSE]

StoreInit ==
  /\ file = <<>> /\ checkpoint = None
  /\ shard = Nothing /\ truth = Nothing
  /\ writer = Unlocked /\ reader = [s \in Reader |-> NotReading]
  /\ returned = {} /\ faults = 0

-----------------------------------------------------------------------------
(* Records and their projection                                            *)

Batches == {"batch", "denial"}

\* The states in which a record of this kind is valid, and the state after it.
Before(kind) == CASE kind \in Batches -> {}
                  [] kind \in {"claim", "ended"} -> {"scheduled", "claimed"}
                  [] kind \in {"release", "attempt"} -> {"claimed"}
                  [] kind \in {"unknown", "outcome"} -> {"attempted", "unknown"}
After(kind) == CASE kind \in {"batch", "release"} -> "scheduled"
                 [] kind = "claim" -> "claimed"
                 [] kind = "attempt" -> "attempted"
                 [] kind = "unknown" -> "unknown"
                 [] kind \in {"outcome", "ended", "denial"} -> "done"

\* The projection of a message is told by its last record.
Told(r) ==
  [state |-> After(r.kind),
   claim |-> IF After(r.kind) \in {"scheduled", "done"} THEN 0 ELSE r.claim]

\* applyDeliveryEvent: a record must fit the ones before.  A claim takes another
\* one's place if the lease of that had ended: it is an older one.
Valid(p, r) ==
  \/ r.kind \in Batches /\ p = None
  \/ /\ p # None /\ p.state \in Before(r.kind)
     /\ r.kind = "claim" => p.claim < r.claim
     /\ r.kind \notin {"claim", "ended"} => p.claim = r.claim

-----------------------------------------------------------------------------
(* The files                                                               *)

Path(f) == [dir |-> file[f].dir, number |-> f]

\* The order of allSegmentPaths: segments, and then what is in quarantine.
Precedes(f, g) ==
  \/ f.dir = "segments" /\ g.dir = "quarantine"
  \/ f.dir = g.dir /\ f.number < g.number

\* The complete records; a partial tail is left out (readSegmentRecords).
Position == UNION {{f} \X DOMAIN file[f].records : f \in DOMAIN file}
RecordAt(p) == file[p[1]].records[p[2]]
PositionsOf(m) == {p \in Position : RecordAt(p).message = m}

\* The order in which readRecords returns them.
Ahead(p, q) ==
  \/ Precedes(Path(p[1]), Path(q[1]))
  \/ p[1] = q[1] /\ p[2] < q[2]

\* rebuildDeliveryLedgerRecords: the projection of the records at these places.
Projection(places) ==
  IF places = {} THEN None
  ELSE Told(RecordAt(CHOOSE p \in places : \A q \in places \ {p} : Ahead(q, p)))

\* It throws at the first record that does not fit.
Orderly(m) ==
  \A p \in PositionsOf(m) :
    Valid(Projection({q \in PositionsOf(m) : Ahead(q, p)}), RecordAt(p))

Legible == \A m \in Message : Orderly(m)

Scan == [m \in Message |-> Projection(PositionsOf(m))]

Length(f) == Len(file[f].records) + (IF file[f].torn THEN 1 ELSE 0)

Segments == {f \in DOMAIN file : file[f].dir = "segments"}
Active == IF Segments = {} THEN None ELSE Max(Segments)

\* ledgerManifest.  Files only grow, or move: their lengths say what is in them.
Manifest == [f \in DOMAIN file |-> <<file[f].dir, Length(f)>>]

Known(messages) == {m \in Message : messages[m] # None}

With(messages, r) == [messages EXCEPT ![r.message] = Told(r)]

\* A record names the claim it belongs to.
NextRecord(m, kind, p) ==
  LET number == Cardinality(Position) + 1 IN
  [message |-> m, kind |-> kind, number |-> number,
   claim |-> IF kind = "claim" THEN number ELSE IF p = None THEN 0 ELSE p.claim]

\* There is a later claim: the lease of this one has ended.
Superseded(m, claim) ==
  \E p \in PositionsOf(m) : RecordAt(p).kind = "claim" /\ RecordAt(p).claim > claim

-----------------------------------------------------------------------------
(* The holder of append.lock                                               *)

WriterGoes(from, to) ==
  /\ writer.step = from
  /\ writer' = to
  /\ UNCHANGED <<reader, faults>>

\* Any operation of DeliveryLedger, and a read of the index.
Lock ==
  /\ WriterGoes("idle", [writer EXCEPT !.step = "loading"])
  /\ UNCHANGED <<file, shard, checkpoint, truth, returned>>

\* rebuildDeliveryLedgerIndex
LockToRebuild ==
  /\ WriterGoes("idle", [writer EXCEPT !.step = "rebuilding"])
  /\ UNCHANGED <<file, shard, checkpoint, truth, returned>>

\* The checkpoint is of these files and has as many shards as there are.
Current ==
  /\ checkpoint # None
  /\ checkpoint.manifest = Manifest
  /\ checkpoint.count = Cardinality(Known(shard))

\* readDeliveryIndexLocked
Load ==
  /\ WriterGoes("loading",
       IF Current THEN [writer EXCEPT !.step = "deciding", !.messages = shard]
                  ELSE [writer EXCEPT !.step = "rebuilding"])
  /\ UNCHANGED <<file, shard, checkpoint, truth, returned>>

\* A bug the checks must catch: shards that are there are not written again.
RebuildMissing ==
  /\ IF ~Legible
       THEN WriterGoes("rebuilding", Unlocked) /\ UNCHANGED shard
       ELSE /\ WriterGoes("rebuilding",
                 [writer EXCEPT !.step = "sharding", !.messages = Scan,
                                !.todo = Known(Scan) \ Known(shard)])
            /\ shard' = [m \in Message |-> IF Scan[m] = None THEN None ELSE shard[m]]
  /\ UNCHANGED <<file, checkpoint, truth, returned>>

\* rebuildDeliveryIndexLocked: a scan, which may throw; then the shards.
Rebuild ==
  /\ IF ~Legible
       THEN WriterGoes("rebuilding", Unlocked) /\ UNCHANGED shard
       ELSE /\ WriterGoes("rebuilding",
                 [writer EXCEPT !.step = "sharding", !.messages = Scan, !.todo = Known(Scan)])
            /\ shard' = [m \in Message |-> IF Scan[m] = None THEN None ELSE shard[m]]
  /\ UNCHANGED <<file, checkpoint, truth, returned>>

WriteShard ==
  /\ \E m \in writer.todo :
       /\ WriterGoes("sharding", [writer EXCEPT !.todo = @ \ {m}])
       /\ shard' = [shard EXCEPT ![m] = writer.messages[m]]
  /\ UNCHANGED <<file, checkpoint, truth, returned>>

\* writeIndexCheckpoint; after an append the record is reported.
WriteCheckpoint ==
  /\ writer.todo = {}
  /\ checkpoint' = [manifest |-> Manifest, count |-> Cardinality(Known(writer.messages))]
  /\ IF writer.record # None
       THEN /\ WriterGoes("sharding", Unlocked)
            /\ returned' = returned \cup {writer.record}
       ELSE /\ WriterGoes("sharding", [writer EXCEPT !.step = "deciding"])
            /\ UNCHANGED returned
  /\ UNCHANGED <<file, shard, truth>>

\* The caller has read what it wants, or the Ledger or the quota refuse its record.
Leave ==
  /\ WriterGoes("deciding", Unlocked)
  /\ UNCHANGED <<file, shard, checkpoint, truth, returned>>

\* The record of an operation.  An attempt asks for a lease that has not ended.
Accept(m, kind) ==
  LET p == writer.messages[m]
      r == NextRecord(m, kind, p) IN
  /\ kind \in Batches => (kind = "batch") = (m \in Admitted)
  /\ Valid(p, r)
  /\ kind = "attempt" => ~Superseded(m, p.claim)
  /\ WriterGoes("deciding", [writer EXCEPT !.step = "appending", !.record = r])
  /\ UNCHANGED <<file, shard, checkpoint, truth, returned>>

\* quarantinePartialSegment: the rename; a new segment follows.
Quarantine ==
  /\ Active # None /\ file[Active].torn
  /\ WriterGoes("appending", [writer EXCEPT !.rotate = TRUE])
  /\ file' = [file EXCEPT ![Active].dir = "quarantine"]
  /\ UNCHANGED <<shard, checkpoint, truth, returned>>

\* Whether a new segment begins (nextSegmentPath).  It may when the record does not
\* fit behind those in the active one any more.
Rotations ==
  IF writer.rotate \/ Active = None THEN {TRUE}
  ELSE {new \in BOOLEAN : IF new THEN Length(Active) > 0 ELSE Length(Active) < SegmentRecords}

\* What becomes of the files when the record, a part of it, or nothing of it is there.
Appended(what, new) ==
  LET old == IF new THEN [dir |-> "segments", records |-> <<>>, torn |-> FALSE]
             ELSE file[Active]
      grown == CASE what = "record" -> [old EXCEPT !.records = Append(@, writer.record)]
                 [] what = "part" -> [old EXCEPT !.torn = TRUE]
                 [] what = "nothing" -> old IN
  IF new THEN Append(file, grown) ELSE [file EXCEPT ![Active] = grown]

Ready == writer.step = "appending" /\ (Active # None => ~file[Active].torn)

AppendRecord ==
  LET r == writer.record IN
  /\ Ready
  /\ \E new \in Rotations : file' = Appended("record", new)
  /\ truth' = [truth EXCEPT ![r.message] = Told(r)]
  /\ WriterGoes("appending", [writer EXCEPT !.step = "sharding", !.todo = {r.message},
                                            !.messages = With(writer.messages, r)])
  /\ UNCHANGED <<shard, checkpoint, returned>>

\* The append fails with an exception, or the process dies in it.
AppendFails ==
  /\ Ready /\ faults < MaxFaults
  /\ \E what \in {"part", "nothing"}, new \in Rotations : file' = Appended(what, new)
  /\ writer' = Unlocked /\ faults' = faults + 1
  /\ UNCHANGED <<shard, checkpoint, reader, truth, returned>>

\* The process dies between two writes.
WriterDies ==
  /\ writer.step # "idle" /\ faults < MaxFaults
  /\ writer' = Unlocked /\ faults' = faults + 1
  /\ UNCHANGED <<file, shard, checkpoint, reader, truth, returned>>

WriterStep == \/ Load \/ Rebuild \/ WriteShard \/ WriteCheckpoint \/ Leave
              \/ Quarantine \/ AppendRecord

-----------------------------------------------------------------------------
(* A scan without the lock (readDeliveryLedger, listDeliveryLedger)        *)

ReaderGoes(s, from, to) ==
  /\ reader[s].step = from
  /\ reader' = [reader EXCEPT ![s] = to]
  /\ UNCHANGED <<file, shard, checkpoint, writer, truth, returned, faults>>

Listed(dir) == {Path(f) : f \in {g \in DOMAIN file : file[g].dir = dir}}

\* The two directories are listed one after the other.
Listing(again) ==
  [step |-> "listing", left |-> Listed("segments"), missing |-> returned, again |-> again]

ListSegments(s) == ReaderGoes(s, "idle", Listing(FALSE))

ListQuarantine(s) ==
  ReaderGoes(s, "listing",
    [reader[s] EXCEPT !.step = "reading", !.left = @ \cup Listed("quarantine")])

RecordsIn(f) == {file[f].records[i] : i \in DOMAIN file[f].records}

\* The next file of those that were listed.
IsNext(s, f) == \A g \in reader[s].left \ {f} : Precedes(f, g)

Read(s, f) ==
  [reader[s] EXCEPT !.left = @ \ {f}, !.missing = @ \ RecordsIn(f.number)]

\* A bug the checks must catch: a file that is gone is passed over.
ReadWhatIsThere(s) ==
  \E f \in reader[s].left :
    /\ IsNext(s, f)
    /\ ReaderGoes(s, "reading",
         IF file[f.number].dir = f.dir THEN Read(s, f) ELSE [reader[s] EXCEPT !.left = @ \ {f}])

\* readSegmentRecords, or ENOENT: once the scan begins anew, then it fails.
ReadFile(s) ==
  \E f \in reader[s].left :
    /\ IsNext(s, f)
    /\ ReaderGoes(s, "reading",
         IF file[f.number].dir = f.dir THEN Read(s, f)
         ELSE IF reader[s].again THEN [reader[s] EXCEPT !.step = "failed"]
         ELSE Listing(TRUE))

FinishScan(s) ==
  \/ ReaderGoes(s, "failed", NotReading)
  \/ reader[s].left = {} /\ ReaderGoes(s, "reading", NotReading)

ReaderStep(s) == ListSegments(s) \/ ListQuarantine(s) \/ ReadFile(s) \/ FinishScan(s)

StoreNext ==
  \/ Lock \/ LockToRebuild \/ WriterStep \/ AppendFails \/ WriterDies
  \/ \E m \in Message, kind \in Kinds : Accept(m, kind)
  \/ \E s \in Reader : ReaderStep(s)

StoreSpec == StoreInit /\ [][StoreNext]_storeVars

-----------------------------------------------------------------------------
(* Properties                                                              *)

\* The store has its shape: segments before the last are whole, and what is in
\* quarantine has a partial tail.
StoreTypeOK ==
  \A f \in DOMAIN file :
    /\ file[f].dir = "quarantine" => file[f].torn
    /\ file[f].dir = "segments" /\ f # Active => ~file[f].torn
    /\ Length(f) \in 0..SegmentRecords

\* A message with a record in quarantine and later ones in another file: a scan reads
\* them out of their order as long as the later ones are in a segment.
Divided(m) ==
  \E p, q \in PositionsOf(m) :
    /\ RecordAt(p).number < RecordAt(q).number
    /\ p[1] # q[1] /\ file[p[1]].dir = "quarantine"

\* A claim that is released, and whose lease has ended.
Outdated(m, p) ==
  /\ truth[m] # None /\ truth[m].state = "scheduled"
  /\ p # None /\ p.state = "claimed" /\ Superseded(m, p.claim)

\* What a reader takes for the projection of the message is what was appended.  At worst
\* a message that quarantine has divided seems to be held still by a claim that
\* another one has superseded.
IsTold(m, p) == p = truth[m] \/ (Divided(m) /\ Outdated(m, p))

\* An index whose checkpoint is current tells what was appended: whatever was
\* interrupted, no operation decides on another state.
IndexIsTrue == Current => \A m \in Message : IsTold(m, shard[m])

\* A scan that does not throw tells what was appended, and it throws only because of
\* a message that quarantine has divided.
ScanIsTrue ==
  \A m \in Message : IF Orderly(m) THEN IsTold(m, Scan[m]) ELSE Divided(m)

\* A record that was reported to its caller stays, and is in every scan that
\* begins after that and ends, however files move meanwhile.
ReportedIsKept ==
  /\ returned \subseteq {RecordAt(p) : p \in Position}
  /\ \A s \in Reader :
       reader[s].step = "reading" /\ reader[s].left = {} => reader[s].missing = {}

\* Whoever reads the files, with or without the lock and after whatever fault,
\* finds what was appended.
ScansAreTrue == StoreTypeOK /\ ScanIsTrue /\ ReportedIsKept
=============================================================================
