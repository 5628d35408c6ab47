# cxmsg: TLA+ models, model checks and proofs

cxmsg lets coding agents (Codex threads served by an App Server, Claude
sessions behind a bridge) send each other messages and delegate work. There is
no central server: every command, every MCP server, the scheduler worker and
the bridge are separate Node.js processes that share files below
`~/.codex/cxmsg`. What makes the program hard is exactly that: processes that
act on the same files without a server to serialise them, that die anywhere,
and that talk to an App Server whose answers get lost.

This directory holds TLA+ modules of those protocols, TLC configurations that
check them on small instances, and TLAPS proofs that hold for all instances.
`PROJECT.json` maps every definition to the lines of the source it models.

## 1. The system

| Part | Source | State | Operations | Interacts through |
|---|---|---|---|---|
| Lock files | `file-lock.js`, `process-state.js` | a lock file with an owner record, `.stale.*` and `.released.*` files | `withFileLock` (create, reap, heartbeat, release) | every store below |
| Retention barrier | `retention-barrier.js` | `mutation.lock`, `writers/<token>.json` | `withRetentionWriter`, `withRetentionMutation`, `assertRetentionReadable` | every writer of a store; purge and restore |
| Delivery Ledger | `delivery-ledger.js`, `delivery-policy.js` | append-only segments, index, dedup tombstones; projected: one record per Delivery | commits (direct, Group, Team Cast), claims, attempts, evidence, cancel, schedule | Ledger lock inside the barrier |
| Route Admission | `route-admission.js` | route lock, quarantine files | send, retry, reconcile | Ledger, Bodies, Conversations, Inbound Policy, App Server |
| Scheduler | `scheduler.js`, `scheduler-worker` | worker record and intent file; position inside a pass | pass, dispatch, wake, delegations | Ledger, App Server, Jobs, turn lifecycle |
| Team Cast | `team-cast.js` | prepared batch in the Ledger | prepare, dispatch recipients, schedule the busy ones | Ledger, Group Conversations |
| Messaging, App Server client | `messaging.js`, `app-server-client.js`, `unix-websocket.js` | pending requests, connection | `turn/start`, `turn/steer`, `thread/read` | App Server |
| Message Bodies | `message-bodies.js`, `attachments.js` | content-addressed segments | store, read | Ledger references |
| Conversations | `conversations.js`, `conversation-summaries.js`, `recent-conversations.js`, `group-conversations.js` | Direct and Group records, summaries, inbox cursors, digest requests | record, refresh, migrate, join, leave, digest, acknowledge | Route Admission, Ledger, Claude Jobs, Directory |
| Jobs and delegation | `jobs.js`, `delegation-worker.js`, `approvals.js`, `turn-lifecycle.js` | job records, approvals, observed turns | delegate, schedule, approve, finish | Scheduler, App Server |
| Retention, repair | `retention*.js`, `job-retention.js`, `repair*.js` | transactions, receipts, generations, archives | plan, purge, restore, recover | barrier, all stores |
| Directory, policy | `node-directory.js`, `inbound-policy*.js`, `registry.js` | one file per Project, Node, endpoint history, Tombstone, successor, Execution Thread, Cluster head and snapshot, policy | ensure, move, register, observe, retire, link, classify, change a Cluster, allow and deny | Route Admission, Scheduler, Jobs |
| Claude side | `claude-*.js`, `host-relay.js` | Claude Jobs (deliveries and requests); timers and runners in the bridge's memory | send, retry, acknowledge, wake, receipt; request, run, reply | bridge socket, Jobs, App Server |
| Inspectors, CLI, web | `inspectors.js`, `doctor.js`, `bin/cxmsg.js`, `web-server.js` | none of their own | reports | read-only |

The locks are taken in the order barrier, route lock, job, body, Ledger.
Neither the scheduler nor a send, retry or team dispatch holds one of them
while it waits for `turn/start`. So the request lies between two Ledger
events, and all that is known before it may be false after it.

What is hard, and the property that would notice it going wrong, is listed
under `hazards` in `PROJECT.json`. In short: the reaping of locks and leases
of dead processes, stale snapshots in a scheduler pass, leases that end under
their owner, answers that get lost, evidence that arrives late, events the
Ledger refuses, crashes between two files, and records that are copied before
an `await` and written back whole after it.

## 2. The modules

    FileLock <- Repair, LedgerStore <- FileProofs
               DeliveryLedger <- LedgerRoom <- DeliveryLedgerProofs
                  ^        ^
     ScheduledDispatch  ImmediateDispatch <- ImmediateDispatchProofs
        ^      |  implement   |
        |      +-> DeliveryPromise
     ScheduledDispatchProofs    (both also extend DeliveryLedgerProofs)
    RetentionTransaction <- JobArchive, RetentionBarrier <- RecordProofs
    NodeDirectory <- ClusterDirectory, InboundPolicy <- Directory
                     Directory <- DirectoryProofs
    Delegation <- DelegationProofs
    ClaudeDelivery <- ClaudeRequest <- Claude <- ClaudeProofs
    DirectConversation <- GroupConversation <- Conversations <- RecordProofs

(`A <- B`: B extends A.) Operators under a comment "a bug the checks must
catch" are no part of a specification; each is a broken variant of the
definition beside it, and the property of the run that `PROJECT.json` names
for it fails when it takes that definition's place.

**FileLock** is `withFileLock` at the granularity of file operations. A lock
file is named by the call that created it (its random token), so a rename can
carry it around: `target`, `stale[c]` and `released[c]` are paths, `filled[c]`
says whether the file's owner record has been written. `ObserveDead` ...
`Restore` are `reapExpiredOwner`, `Release` ... `UnlinkOut` are
`removeIfOwned`. The heartbeat keeps the file of a live owner young and a reap
needs `processState(pid) = "missing"`, so age reduces to whether the owner is
dead.

**RetentionBarrier** is `withRetentionWriter` against `withRetentionMutation`:
writers look, publish a lease, look again; a mutator takes the lock, lists the
leases, reads them one at a time. `mutation.lock` itself is taken in one step
(module FileLock has the steps). A lease that was created but not yet written
is its own value, because a mutator that reads it throws.

**DeliveryLedger** has one action per exported operation of
`delivery-ledger.js`. Each runs under the Ledger lock, so each is atomic; what
is not atomic is the caller, who reads the time before it waits for the lock
(`LockWait`) and everything else before that. A record keeps admission, wake
policy, state, the number of attempts, the claim, and the set of evidence
`<<attempt, state>>`. `DirectEvidenceFits`, `TeamEvidenceFits` and
`GroupEvidenceFits` are the three validations of `applyDeliveryEvent`. In
`LedgerNext` any caller may call anything; that is the environment the proofs
quantify over.

**LedgerStore** is what lies under these operations: `file`, numbered as the
segments are, in `segments/` or `quarantine/`, each with its records and
perhaps a partial tail (`torn`); the index (`shard`) and its `checkpoint`. A
writer checks the store (`Current`, `Load`), decides on a record (`Accept`),
appends, writes the shard and the checkpoint, in steps between which it may
die, or which an exception cuts short; the next one quarantines and rebuilds
(`Quarantine`, `Rebuild`). `Orderly` is the replay, which throws on events out of
order. A reader scans without the lock, file by file (`ReadFile`), and starts
again when a file is gone. `truth` is history: the projection by the appends
that succeeded. The events are those of a scheduled Delivery: it is claimed,
released or taken over when a lease has ended, attempted, unknown for a while,
or ended without an attempt. What matters for index and scan is which record may
follow which, and no other kind of Delivery has an order of its own that adds to
that. Renewals and evidence that leaves the state alone, which are one record
more without being another state, are left out. Time is the order of the records:
a claim is named by its number. A segment has room for `SegmentRecords` records;
since records differ in length, a new one may be begun before that, and a shorter
record may still go to the last one (`Rotations`). What the store as a whole may hold
is the next module's.

**LedgerRoom** extends DeliveryLedger with the quota (`appendLedgerRecord`,
`reservedEvidenceBytes`): each of the operations takes a record of any
length up to the longest, if the bytes it leaves hold the reserve of all Deliveries
after it. `Reserve` has the branches of the code: direct (`created`, `retryable`),
scheduled, prepared Team Cast, Group. An append that is cut short takes
room for the part that was written (`torn`).

**ScheduledDispatch** extends DeliveryLedger with workers, each at one `await`
of `dispatchScheduledDelivery` (`step`), working through the rest of its
snapshot (`batch`), and with the other writers of the same records: senders,
Team Cast, cancellation, reconciliation. `Abort` is an exception that leaves
the pass, `Fault` a Ledger call or connection that fails, `Crash` the death of
the process. `turns` counts the turns App Server really started, `ahead` who
was queued first: history, which only `Reconcile` reads, whose inspection is
of the App Server's threads.

**ImmediateDispatch** extends DeliveryLedger with the commands that dispatch
without the scheduler: `routePeerMessage`, `retryRouteDelivery`,
`reconcileRouteDelivery` and `dispatchPreparedTeamCastMessage`. Processes run
them one after the other, several at once on the same messages. The direct
ones decide under the message's route lock (`routeLock`), and record the
answer of the App Server without it, which is where they race. A team dispatch
works through a snapshot (`todo`). `interrupted` remembers whose attempts a
death or a failing Ledger call cut off.

Requests in both dispatch modules: App Server takes or refuses the request,
the answer arrives or not, and a request nobody waits for any more (`onWire`)
may still be taken later (`LateTurn`).

**DeliveryPromise** is what a sender is promised: a turn starts at most once, a
report of "started" or "notStarted" is true and final, "uncertain" may become
"started". `KeepsPromise` is the refinement, of both
dispatch modules.

**RetentionTransaction** is purge, restore and recovery over the directories of
three stores: Ledger, Bodies, Quarantine. A directory is its generation, the
set of records in it, because a generation is all the code compares. `active`
is what the program reads, `place[t][k]` the staged, backed-up and displaced
directories of transaction `t`; every rename and every durable write is an
action. `Crash` leaves `mutation.lock` behind, which the next mutation removes
before it tries to take the lock itself (`ReapLock`), so that writers may come in
between; `Fail` (an exception) releases it. Writers act while the lock is free.
`Selection` is `planRetention`, with the age of a message a free choice, and
`TombstoneFits` what `createDeliveryDedupTombstones` demands; the two do not
agree (see below). Purge, restore and recover begin alike, with
`recoverLocked`; which of them it was is left open until that is done. How far
a loop has come is read off the states in the manifest. An abandoned
transaction forgets its directories, since nothing reads them again.

**JobArchive** extends it with the archives of `job-retention.js`, which move
Job records one rename at a time under the same lock, but with a recovery of
their own. So an archive may take the lock after a purge died and release it
with the purge still pending. The plan of a purge reads the Jobs and their
archives, and a Job writes a body; `JobSpec` composes the two and is what the
run checks.

**Repair** extends FileLock with what the calls on `repairs/mutation.lock` do:
`applyRepair` (`ApplyStep`) and the archive, restore and recovery of
`repair-retention.js` (`ArchiveStep`). A command is chosen, and its plan made,
before the lock (`Ask`); inside, `step` names what the command does next. Every
durable write has the outcomes of `writePrivateFile`: it takes effect or throws,
throws with or without effect, leaves its temporary file or not, or the process
dies on the way (`Writing`, `Done`). What is repaired is a version and whether it
has the finding; its own writers change it without this lock (`ChangeSubject`),
so the digest comparisons become comparisons of versions. A repair is where its
transaction directory (`home`) and its receipt (`slip`) are. `Consistent` is
`inspectRepairState`, on which every archive depends.

**NodeDirectory** has the records of `node-directory.js`: where each Project
is (`home`) and its moves (`transitions`), Nodes with the endpoints selected
for them and the history of observations, Tombstones, successors, Execution
Threads. Each is a file with a lock. `op` is what a process is in the middle
of and the locks it holds there; `AtOnce` is an operation that writes one file
and reads nothing but what its lock guards. **ClusterDirectory** adds
Clusters, whose operations first recover what was interrupted (`Recovered`),
write a snapshot, then the head. **InboundPolicy** adds deny rules and
`Evaluate`, which asks the Directory who a sender is. **Directory** composes
the three.

**Delegation** is a Job's life: `jobs.js`, the scheduler that claims it, the
command that starts an immediate one, the worker process, approvals, and those
who look at a Job and correct it (`ObserverRead`, `ObserverWrite`,
`FailIfExited`). A record is written under the Job's lock in one step; what a
process has read is in its own step, and may be old. `evidence` is
`modelTurnStarted`: false, null (uncertain) or true. Turns are started by
App Server as in the dispatch modules. A request for approval may be refused before
it is on record (`Refuse`), and one that is approved may be answered with an
error, since `approvalResponse` throws when the request offers no option to accept,
after the approval was recorded (`Responses`).

**ClaudeDelivery** is the sending side of the bridge: a send copies the
`delivery` part of the Job, sends the frame, and writes the part back;
`updateJob` merges it into the Job as it is by then. ACKs, receipts, retry
timers, the five-second scan and user commands come in between. `reopened`,
`unwoken` and `uncounted` are history: they record that the code lost
something in a way described below, so that the properties can say all the
rest. **ClaudeRequest** is the other direction: the bridge's runner of a
request, its turn, approval, reply, and the note of the reply. **Claude** adds
the death and restart of the bridge, which loses every timer, handler and
runner.

**DirectConversation** is a sender's way through record, source (Ledger or
Claude Job) and summary refresh, with migrations to a successor Node and
retries. What is written under one lock is one step, which a fault may cut
short after each of its files (`WriteDirect`). **GroupConversation** adds members by
version, Group messages with frozen recipients, and the inbox: cursor, digest
requests, digests that are composed without a lock, handed over with a turn
and consumed. **Conversations** adds the registration of Nodes, which may come
later than the first message to them (`Register`), their Tombstones, and
`listRecentConversations` (`Recent`). A message to or from a Node that is not
registered has no Conversation; its source then says `Nowhere`.

Every group of modules has its MC module and one configuration per question.

## 3. The runs

| Run | Question | Result |
|---|---|---|
| `RetentionBarrier` | 2 writers, 2 mutators, deaths anywhere | exclusion, leases, and a mutation that got the lock ends |
| `Repair` | 3 commands (apply, archive, restore, recover) on the Repair state, with repairs, faults and deaths in any mix | the lock excludes and no live lock file is lost; repairs are backed up and truly recorded; their evidence stays whole |
| `DeliveryLedger` | one direct, one Team Cast, one Group Delivery, 2 workers, arbitrary calls, in a store that fills up or not | attempts, leases, refusals and outcomes obey the rules; what settles a Delivery, and the way to its attempt, has room |
| `ScheduledDispatch` | 1 worker, 1 fault, 1 crash, a Team Cast Delivery first, a direct one behind it or in another lane | refinement of the promise, and the queue drains, but for what a wedge keeps waiting |
| `ScheduledOverlap` | 2 workers at once, 2 direct Deliveries in a lane | never two turns; turn/start only under the own claim and attempt; FIFO |
| `ImmediateDispatch` | 2 processes, 2 deaths or failing calls, a direct message and a team of two | at most one turn, true reports, no forgotten attempt, refinement of the promise |
| `Retention` | 2 backups, 2 messages, 1 Job and 1 archive, a death and an exception anywhere | nothing is lost, what is gone is tombstoned, recovery rolls forward, Jobs keep their bodies |
| `Directory` | 2 processes with 2 deaths, in six mixes of commands on 2 or 3 Nodes and 3 Projects | identities, threads, successors and Clusters agree, history is not rewritten, a denied Project stays denied |
| `Delegation` | 1 Job, scheduled or immediate, 2 workers, an observer, an approval, a death | one turn, honest evidence, answers that match the record, and an end |
| `Claude` | 1 delivery or 1 request, a command, a timer, an ACK handler, a death of the bridge | one wake, one turn, one reply, a kept budget; nothing waits for ever |
| `LedgerStore` | 2 messages, a reader, segments of 2 records, 2 deaths or exceptions | index and scans say what was appended |
| `Conversations` | three Direct messages of two pairs, or two Group messages, one fault, a Node that is registered late, one that is tombstoned | sources, summaries and recipients agree with the record, cursors pass nothing unseen |

Most properties of the later runs are conjunctions of named parts: each part
is a definition with its own comment in the module, and the run checks all of
them. `PROJECT.json` names for every property a bug of the code that breaks
it.

### Known, and not runs of their own

Where a property would be false, it says what it excepts, and the exception is
listed here. The models have these behaviours.

Locks, Ledger, dispatch:

* *Two reapers.* `reapExpiredOwner` renames whatever is at the lock path
  (`file-lock.js:74`) and puts a foreign file back (79). With four calls,
  `Exclusion` of FileLock fails: two calls observe one dead owner; the first
  reaps it and a third acquires; the second reaper moves the third's live lock
  file away, and a fourth call creates its own in the gap. Three calls are
  safe; `README.md:1676-1677` ("do not overwrite one another") holds only so
  far.
* *Queue limit.* `commitSingleRecipientDelivery` counts only the first
  recipient of a Team Cast batch (`message.delivery`), the Team Cast path
  counts all of them; so a lane can exceed its limit (`delivery-ledger.js:2440`).
* *Wedge.* The scheduler expires a Delivery without looking at its claim. The
  Ledger refuses this evidence for a Team Cast recipient that has one on record,
  be its lease over or not (`delivery-ledger.js:1919-1925`), and the exception
  (`scheduler.js:668`) ends this and every later pass at the same place. If a worker died
  with the claim and the target stays busy until the expiry, everything behind it
  waits for ever: younger direct Deliveries, those in other lanes, and the delegations,
  which a pass comes to last (`scheduler.js:1011`). `docs/TURN_LIFECYCLE_SCHEDULER_V1.md:57`
  says that another lane remains independent, which is not so here. `QueueDrains`
  excepts a Delivery behind such a one (`Wedges`) and nothing else.
* *No room for "unknown".* The reserve keeps one record for the attempt on a
  prepared Team Cast Delivery (`delivery-ledger.js:1740`) and for a second attempt
  (1778), but "unknown" needs its own record and one more, which it keeps
  (1735, 1769). In a full store it is refused, where
  `docs/COORDINATION_GRAPH_CONVERSATIONS.md:655` has room reserved for the terminal
  evidence of every admitted batch, and `docs/PEER_RETRY_POLICY_V1.md:46` calls "unknown"
  terminal. `RoomIsKept` excepts just these two (`Uncounted`).
* *Reconciliation during a retry.* Its grace period counts from the first
  attempt. It records "unknown" while the retry is in flight, and when the
  retry learns that it was refused, the Ledger does not take that any more.
* *Two overlapping workers.* One whose snapshot is old records "expired" for a
  direct Delivery that the other has attempted (`delivery-ledger.js:2107` does
  not ask for zero attempts where the Team Cast path at 1919-1925 does), so
  `KeepsPromise` is checked with one worker. Two workers need a start command
  that gives up after ten seconds on one that is only slow.
* *Uncertain Team Cast attempts.* The scheduler's "unknown" has no transport
  result, and `validTeamEvidence` (`delivery-ledger.js:972-979`) requires one.
  The attempt stays on record without an outcome, contrary to
  `README.md:289-290`.
* *Divided messages.* After a segment with a partial tail goes to quarantine,
  later events of a message in it are read before the ones in quarantine
  (`Divided`). Then, as a rule, every raw scan and every rebuild throws, for ever,
  where `docs/COORDINATION_GRAPH_CONVERSATIONS.md:311-315` promises continued
  use (`ScanIsTrue` excepts it).
* *A claim that seems held.* A divided message can also be in an order that
  does not throw: a claim is in quarantine, the one that took it over and the
  release of that are in a segment. The scan reads the old claim last, and an index
  rebuilt from it says that the Delivery is claimed (`Outdated`). The lease of a superseded
  claim has ended, so the next worker takes over and nothing is done twice.
  `IsTold` excepts this and nothing else; `FileProofs` shows that there is nothing
  else.

Repair:

* The temporary file of a write cut short is never unlinked. In a transaction
  or the receipts directory it makes `inspectRepairState` fail, and with it
  every later archive; in the directory of an archive it makes every later
  recovery throw, also for other archives (`Unreadable`). A death right after
  the creation of either directory does the same.
* A repair that stops or fails between its backup and the manifest that lists
  it leaves files that no manifest expects: `EREPAIRCONSISTENCY`, and no archive
  any more, where `docs/DOCTOR_SCHEMA_V1.md:232-234` has a journal in
  `initializing` as an optional warning.
* A reaper of `mutation.lock` that dies before it unlinks leaves a
  `mutation.lock.stale.*`, an unexpected entry of the Repair state. Again no
  archive is possible until somebody removes it.
* When the write of the phase "completed" throws after it took effect, the
  handler turns the receipt into "failed" (`repair.js:765`), and a death before
  the next write leaves the two contradicting. A repair recorded as failed may
  have been made; so the property speaks of the records that say completed.

Retention:

* *A purge that can never be finished.* The plan takes every Delivery in a
  terminal state. The Tombstones refuse one with a claim on record, which a
  scheduled direct Delivery keeps after its turn has started, and denied ones,
  which `test/retention.test.js:173` expects in a plan. By then the manifest
  says "tombstoning", so every later purge, restore and recover throws at the
  same transaction. No death or failure is needed. `docs/RETENTION_POLICY_V1.md:114-115`
  says that recovery always rolls forward; what is true is
  `RollsForwardUnlessSpoiled`. That property excepts the case, and the run's two
  messages do not meet it: no property here would notice it.
* For scope "quarantine" `buildRetentionPlan` does not read the Ledger
  (`retention.js:314-328`), so the check at 144-147 for a Delivery that links to
  the record (`docs/RETENTION_POLICY_V1.md:107-110`) never meets one.
* A death between the creation of a transaction's directory and its first
  manifest makes every later recovery throw (`RefuseRecovery`), where
  `docs/RETENTION_POLICY_V1.md:112-113` has it abandoned. The same goes for a
  Job archive.
* A purge that an exception ends in mid-swap releases the lock, and then a
  Ledger operation creates the directory that is missing; the same may happen
  between the removal of a dead purge's lock and the recovery; recovery finds a
  generation it does not know and refuses (`intruded`). The records are still
  in the backup, which is what `NothingLost` says.

Directory:

* A death in `tombstoneNode` leaves a Node both live and tombstoned (the
  Tombstone counts); one in `tombstoneCluster` leaves the head; one in
  `ensureCluster` from the command line, which takes a new id each time,
  leaves a snapshot that nothing refers to. An interrupted move whose
  destination is taken meanwhile can never be finished.
* A source Node may be retired between the check of `classifyExecutionThread`
  and its write.
* A Project that moves from A to B to A has a valid history that Doctor's
  chain check rejects (`docs/IDENTITY_LIFECYCLE_V1.md:35`,
  `docs/DOCTOR_SCHEMA_V1.md:130-134`), and compaction of endpoint history may
  drop the observation a kept rejection lost to (`DOCTOR_SCHEMA_V1.md:136-138`).

Delegation:

* `refreshJob` writes what it made of an old record with no comparison
  (`jobs.js:528-622`), so a slow observer can take the result of a completed
  Job away again (against `README.md:1676-1677`). No property speaks of
  results for that reason.
* An immediate Job failed by its ten-second readiness timeout
  (`bin/cxmsg.js:2518-2562`), or as "worker_missing", may still be run later by
  its worker: `FailedStartsNothing` is about scheduled ones.
* A decision right at an approval's deadline may be recorded as timed out; the
  worker's write of "running" can hide a pending approval, and the approval
  handler can revive an "unknown" Job.
* A decision is recorded, then answered (`approvals.js:121-139`). The answer
  to a request for the user's input without a fitting option is an
  exception (29-38), so App Server gets an error for what the record calls approved or
  denied. `AnswersAreHonest` says the rest: no answer that App Server gets, other than
  an error, contradicts the record.

Claude:

* An ACK that arrives between a send's copy and its write is written over, as
  is one for a later state; the repetition of a "completed" ACK then wakes the
  session again (`reopened`; `docs/COORDINATION_GRAPH_CONVERSATIONS.md:945`,
  `README.md:1326-1329`). An ACK of a foreign session turns a completed Job
  into `ack_rejected`.
* A retry timer's entry is removed before it sends, so the scan may start a
  second send; a death between the frame and the write leaves an attempt
  uncounted (`uncounted`); a sender that dies leaves "queued" for ever.
* A wake that was pending when the bridge died is never tried again.
* A death between `turn/start` and the write of the turn makes the restarted
  bridge run a request again (`interrupted`). A reply that was handed over and
  reported as failed, or not noted before a death, is sent again (`repeated`;
  `README.md:1860, 1375`).
* `waitForCompletion` ends at `awaiting_approval`, and the Job fails though
  its approval is still open (`claude-requests.js:124-135, 246-250`; against
  `README.md:1776-1778, 1792`).

Conversations:

* *A committed message that is not dispatched.* `refreshDirectConversationSummary`
  throws "summary source is unavailable after Ledger commit"
  (`route-admission.js:932-938`, `claude-delivery.js:400`) when another sender
  has recorded a later message of the pair and not committed it yet. The send
  ends there; its retry is only deduplicated. (`SettledIsListed` still holds:
  the later sender's refresh repairs the summary.)
* *An orphan entry.* A message to a Claude session is sent while one of the Nodes is not
  registered, so its Job is created without a Conversation (`conversations.js:574`).
  Sent again after the registration, the message is recorded in a Conversation, and then
  refused, because the Job names none (`claude-delivery.js:295-301, 373-378`). Every
  further retry is refused too; the entry never gets a source, and hides
  the Conversation from the list while it is the last one. `SettledIsListed` excepts that
  (`HiddenByOrphan`). `docs/DIRECT_CONVERSATION_V1.md:91` says that the exact
  retry completes it.
* A retry after one of the Nodes was tombstoned commits without Conversation,
  so the entry recorded before never gets a source, where
  `docs/DIRECT_CONVERSATION_V1.md` says that repeating the operation completes
  it.
* After a migration the original pair, if both still live, can never have a
  Conversation ("identity collision"); a message begun before another sender
  created the Conversation is refused ("predates its Conversation").
* A Group message whose Ledger commit comes when a cursor has passed it (a
  retry) is never unread for that Node (`late`).
* Messages of one millisecond are ordered by id in a digest, so a limited one
  may begin with a later sequence; it is refused at consumption and comes with
  every turn again. Two starting turns may bring the same one-shot digest. An
  empty inbox uses up the request with nothing shown.

### Bounds, and why they are enough

* *Processes.* Two writers and two mutators: every property of the barrier
  relates at most two processes, and a mutator's listing has to be able to
  meet two leases in different states. Three lock calls are an owner, a reaper
  and a newcomer. Two workers race for a claim.
* *Deliveries.* FIFO and `ahead` need two in a lane. One
  Delivery of each kind meets every branch of the evidence rules.
* *Time.* The clock stops at `MaxTime`. It is long enough for a lease to end,
  be renewed, end again and for an expiry to pass. `LockWait = 1` makes every
  call time possibly stale by a whole lease.
* *Repair.* Three commands let one die, a second one recover or fail, and a
  third one meet what both left; two are under way at once (`MaxAtOnce`), which
  with the lock file of a dead one are all that `Exclusion` holds for. Repairs,
  exceptions and deaths are three together (`MaxEvents`): a repair with two
  failing writes, a repair tried again after one, an archive interrupted three
  times. Two old repairs let an archive stop between its items.
* *Claims.* `MaxClaims = 2` gives every Delivery and every Job a first and a
  second owner; more owners repeat the second.
* *Commands.* In ImmediateDispatch a process runs any number of commands, so
  two are enough for any two commands to overlap, after any history. Its
  delays (backoff, window, grace, expiry) are not counted, each may have
  passed or not; so its clock stands still.
* *Retention.* Two backups give the head a predecessor. A message that is
  delivered and one that goes to Quarantine meet every branch of the plan and
  of the Tombstones but the refused ones (see above). One death
  and one exception let the second interruption hit the recovery from the
  first.
* *Failures.* In the dispatch modules, one fault and one crash in the same behaviour; they come early
  enough for the leases they leave behind to end before the clock stops
  (`LeasesEnd`), otherwise the bound on time, and not the code, would wedge
  the queue.
* *Lanes.* In `ScheduledDispatch` the Team Cast Delivery is the oldest, so that a wedge is
  ahead of a direct Delivery in its own lane or in another one; one of the two direct
  messages is sent (`OneDirect`). The expiries come one after the other
  (`ExpireLater`), and a crash leaves a claim behind that lapses before the clock stops.
* *LedgerStore.* Two records to a segment make every second append open a new
  one, if an earlier one does not; two faults let one hit the repair from the other.
  One message is admitted, one denied: the two ways a message begins. The shortest
  history in which a divided message is read in an order that fits needs a batch,
  three claims, a release and a partial tail; `AloneRecords` is one more
  than these five records. Only one message, without a reader, gets so far. Two
  messages end at four records and scans without the lock at three
  (`TwoRecords`, `ReadRecords` in `Bound` of MCLedgerStore), enough for a
  message that is through, a partial tail and another message; a reader tells records
  apart only by the files they are in. The proof has no such bound. Earlier bounds
  were too small for that history; that it exists came out of the proof.
* *LedgerRoom.* The run `DeliveryLedger` has two kinds of behaviours (`StoresNext` of
  MCLedgerRoom): in a store so large that bytes need not be counted, and in a small
  one. One Delivery of each kind meets every branch of the reserve. Events of one unit,
  batches of one or two and a quota of 11 let the store be filled at every
  stage of each of the three, with attempts in flight and partial records of any
  number. The proof has any lengths and any quota.
* *Directory.* Three Projects of which one has no home yet, three Nodes for a
  chain of successors, a history of three for two transports, so that
  compaction has one entry to drop. Commands that share no record cannot
  disturb each other, so each behaviour runs one of six sets of commands that
  do (`Workloads`).
* *Delegation.* Two workers are a late one and its successor. One request for
  approval; several do not interact.
* *Claude.* Two attempts are a first and a last one. Three sends and two ACKs
  let a send overlap each ACK and a retry follow. Receipts for the first send
  only.
* *Conversations.* Two Nodes and the successor of one make two pairs and a
  migration between them; two messages of a pair can be recorded and
  committed in either order. A Group of three has a reader, a sender, and one
  who may leave; a fourth Node may join. The successor is registered at the start or
  later (`Late`), so that one of the messages may be sent before and again after it. Two Group messages are what a digest
  with limit 2 shows or omits; three tries give each a retry or one two.

### Fairness

* RetentionBarrier: a mutator's scan and its drain deadline are bounded in
  time, so its steps are weakly fair, and giving up after a scan that met a
  live lease is strongly fair, because the loop returns there until the
  deadline. Writers are not fair: they may hold a lease for ever.
* ScheduledDispatch: time passes, a running worker takes its next step (each
  `await` returns or throws), and a stopped worker is started again. Nothing
  is assumed of the App Server; a trigger may never become ready, a target
  never idle. Drainage then comes from expiry.
* Delegation: time passes (leases and expiries end), processes that run go on,
  a turn ends, and somebody goes on asking for the Job (`FailIfExited` and
  the observers are what ends a Job whose worker died; no daemon does that for
  an immediate Job). Nothing makes an operator decide: the deadline does.
* Claude: the bridge is started again after a death, and its scans, timers and
  runners go on; a turn ends; a request for approval is decided or times out.
  No ACK, receipt or command is assumed.

The other runs state safety only and no fairness. `CHECK_DEADLOCK FALSE` is
there because every process may finish, die, or wait for nothing to happen.

## 4. The proofs

All theorems hold for every value of the constants under the named
assumptions of the modules (`NoOwnerAssumption`, `OutcomeAssumption`,
`AbsentAssumption`, `JobAssumption`; `LedgerAssumptions`,
`DispatchAssumptions`, `ProcessAssumptions`; `DirectoryAssumptions`,
`ClusterAssumptions`; `RepairAssumptions`; `DeliveryAssumptions`,
`RequestAssumptions`; `DelegationAssumptions`, `NoneAssumption`; `DirectAssumptions`,
`DirectNoneAssumption`, `GroupAssumptions`, `GroupNoneAssumption`,
`ConversationAssumptions`; `StoreAssumptions`, `RoomAssumptions`), `LonePromiseKept` also under its own.

**RecordProofs, the barrier.** `Exclusion` is not inductive: what matters is
the time between a writer's second look and a mutator's listing. `BarrierInv`
adds that a published lease stays until its writer removes it or is dead, that the
mutator between listing and entering owns the lock, and the essential part:
once a mutator has passed a writer in its listing without meeting a live
lease, that writer is not past its second look, or will find the lock when it
gets there. `BarrierIsInvariant` proves it, `BarrierTypes`, `BarrierExclusion`
and `BarrierLeases` follow.

**RecordProofs, the transactions.** `IInv` has three parts. `Disk` is what the
files say, whether somebody works on them or nobody; so a death or an exception
is no case of its own. `Control` is what the holder of the lock relies on between
two steps, and ends with the lock: recovery trusts the generations it finds and
nothing else. `Typed` has the types. Of `Disk`:

* No more than one transaction is unsettled at a time (`OneUnsettled`), since
  every mutation first settles or refuses what it finds. This keeps all loops
  apart, and an archive of Jobs, which settles nothing of a purge, starts none.
* A pending transaction finds every store in one of the states of its rename
  loop, unless a writer came in between (`PendingAreIntact`), and the manifest in
  memory is at most one rename behind (`Ahead`).
* What was appended is in its store or in a directory that no recovery gives up
  (`RecordsAreKept`), and what left the Ledger has a Tombstone or comes back or
  goes with the transaction that moves it (`GoneOrMoving`). A rename moves
  whatever is there, so one lemma (`RenameKeeps`) does all four renames, and one
  (`GrowKeepsDisk`) all writers.
* The bodies of Jobs: an unfinished purge selects none, not even of a Job created
  after its plan (`PurgesSpareBodies`), because the body's id is new.
* The committed backups are a sequence (`BackupsAreChained`): a purge adds to its
  end, a restore takes from it, whatever is interrupted. Stated only as
  "everyone but the head has a successor" the property is not inductive.

From it `RetentionLosesNothing` (`NothingVanishes`), `RetentionRollsForward`
(`RollsForwardUnlessSpoiled`), `RetentionBackupsAreWhole` (`BackupsAreWhole`) and
`RetentionKeepsTaskBodies` (`JobsKeepTheirBodies`), for any number of messages
and outcomes, Jobs, transactions, archives, deaths and exceptions.

**DeliveryLedgerProofs.** `IInv` strengthens the two invariants with what each
state says about attempts, admission, evidence and claim, per kind of
Delivery. From it: `LedgerTypes`, `NoReplay` (`AttemptsAreJustified`),
`RefusalsAreHonest` (`NoAttemptBehindRefusal`), and the action properties
`OutcomesAreFinal` (`OutcomeIsFinal`) and `ClaimsAreExclusive`
(`LeaseIsExclusive`). They quantify over arbitrary callers, so they hold for
every program that uses the Ledger through its operations.

`RoomStaysKept` is `RoomIsKept` of LedgerRoom: for every length of events and
batches, every quota and any Deliveries. Its invariant is what the check of
`appendLedgerRecord` leaves behind: bytes and reserve are within the quota, but for
what partial records took. A record adds to the bytes at most what its Delivery's
reserve loses by it, case by case of what the record may be: `IInv` of the Ledger
says which attempts, claims and states come together.

**ImmediateDispatchProofs.** `DInv` takes the Ledger's own `IInv` over: every
step is one of the Ledger's operations or leaves it alone. It adds what keeps
a message from being taken twice: while App Server has taken it, may still
take it or a process works on it, its record is `Undecided` (`RecordsSound`,
`WorkSound`), and no operation begins an attempt on such a record nor refuses
it (`BeginKeeps`, `RefusalIsDecided`). Only evidence of a rejection leads out
of it, and only the one process that works on the attempt (`OneEach`) has
that. A process that the Ledger refuses had an attempt that is not open any
more (`OpenTakesOutcome`), so that none is forgotten. From it `TakenOnce`
(`AtMostOneTurn`), `AttemptsTracked` (`AttemptsAreTracked`) and `PromiseKept`:
`Spec => KeepsPromise`, the refinement of DeliveryPromise, in which each step
changes what is promised of one Delivery in an allowed way or not at all
(`MoveKeepsPromise`).

**ScheduledDispatchProofs.** `SInv` takes the Ledger's `IInv` over as well. Its
core is `WorkersSound`: a worker in an attempt holds the claim on record, for
which the record has its one attempt. Nobody changes that claim, because the
Ledger changes none once there is an attempt (`ClaimEffect`), so two workers
are never in the attempt of one Delivery (`OneEach`). `StartedOnce`
(`AtMostOneTurn`) and `Fenced` (`WorkersAreFenced`) follow. `LanesAreFifo`
(`LaneIsFifo`) rests on `QueuesSound`: what was queued before a Delivery when a
snapshot took it is out of the queue, and nothing ever comes back to it
(`NoReturn`). `LonePromiseKept` (`KeepsPromise`) assumes `Alone`, one worker at
a time: only then is a Delivery that a worker finds expired one without an
attempt (`LoneSound`). Two workers do break the promise (section 3), so the
assumption cannot go. `StepKind` reduces every step to one of four effects, from
which the order of the lanes and the refinement are read off.

**DirectoryProofs.** The Directory's operations read files without their locks
and write two of them, so `IdentitiesAgree` is not inductive. `IInv` adds what
each half-done operation still relies on: `MovePending` (the transition is on
record and the new place is free), `RetirePending`, `LinkPending`,
`ClassifyPending`. These survive the other processes for one of two reasons.
Either the lock does it: `Exclusive` says that the work of two processes never
shares a lock, and what the lock of each kind of work is. Or what was read
never changes once it is there: `KnownStaysKnown`, a Node that is known keeps
its Project, which rests on `Attached` (a Tombstone that stands beside its
record after a death names the same Project). The last is why a successor may be
written under the lock of no Node. From it `Identities`.

`ClusterInv` adds to the four properties of Clusters what an
operation under their common lock has found (`AtWork`): a head that is up to
date before a change or a removal, a snapshot more than the head before the
head is written, a free name before the first head. `RecoveryKeeps` is the
heart: from the states that deaths leave, recovery is possible and ends in
one of those. Members stay known by `KnownStaysKnown`. From it `Clusters`, and
with `HeadsMoveOnRecord`, `TombstonesStay` and `GenerationsGrow` the action property `HistoryIsFinal` (`History`).

`RecordInv` is for `RecordsAreSound` (`Records`), and has three more parts.
`Linked`: the Nodes can be ranked (`Ranks`) so that each ranks above the Node it
succeeds. A walk along the predecessors then only goes down (`WalkOfNodes`), so no
Node is on the walk from its own predecessor (`RanksMeanAcyclic`). A link that is
still to be written starts from a walk that ends and does not meet its target
(`LinkFree`; the lock of the successors keeps that true, `LinkedStep`); such a walk
contains the predecessors of all it meets (`WalkIsClosed`), so everything else can be
ranked above it, the target included (`LinkKeepsRanks`). `Histories`: the last
successful observation of a transport is of the endpoint selected for it
(`Attested`). Each transport in use requires one observation, and there are at most
`TransportLimit` of those and more than `HistoryLimit` observations when one has to
go, so one can be spared (`SomethingToSpare`), and none but a spare one
goes (`SpareKeepsAttested`). `Bounded` has the rest of the types. A walk is a
recursive function; that it exists (`WalkIsThere`), and what holds along it, is proved
with the least number of a set (`LeastNat`, `UpTo`), from the library's
theorem on well-founded relations. This needs the set of Nodes to be finite, which
`DirectoryAssumptions` says.

**FileProofs, Repair.** `RepairsAreAccountable` says of the files only; `IInv` adds
where the command that owns them is: the manifest has the phase it wrote last
(`PhaseFits`), nothing is replaced before the mutation (`BeforeMutation`), and
after it the manifest in the command's memory still lists the backup
(`AfterMutation`), so that the one `Fail` writes does too. The backup of an index
may be of a version later than the plan's. It is never the backup of a mutation:
versions only grow, so if the planned version is still there when `Execute`
compares, it was there at the copy (`BeforeMutation`, `ExecuteKeeps`). Every
step is either one of its own repair (`Applied`), one of an archive, which leaves
the records of repairs alone (`ArchiveGoes`), or changes versions only
(`Frame`). `RepairsAccountable` uses nothing of FileLock: it holds with several
commands inside.

The lock itself is proved under one hypothesis about the behaviour, `ReapersApart`:
no two reapers are between the second look at the lock file and its rename at the
same time. The code makes that unlikely (a random delay before the second look) and
does not exclude it; with four calls `LockHolds` is false without it (section 3), so
it cannot go. The hypothesis is about these two steps only: any number of calls,
deaths, other steps of reapers and releases may overlap. Under it what a reaper
renames is what it has seen (`LockFits`), so nothing is ever put back, and a
live call has its file at the one lock path from its creation to its own rename:
`LockHoldsApart` (`LockHolds` of FileLock), and `RepairsAreLocked` of the lock as
the repairs use it (`RepairUsesLock`: each of their steps is one of its steps or
leaves it alone).

`EvidenceKeptApart` (`EvidenceStaysWhole`, under the same hypothesis) needs the lock. `EInv`
says that whoever has begun is inside (`InLock`) and what it has found there
(`Stage`): that no archive is unfinished before it begins one, hence never two
(`OneUnfinished`), and that the one at hand has the status of its loop. Each
move of one part takes an item from one class to the next of that loop
(`PartMoved`), and a finished archive that lists the item too was restored.

**FileProofs, LedgerStore.** The readers of the store see files in the order of the
directories, not of the appends, so `StoreInv` says what the records of a message
are in both. `InOrder`: unless the message is divided, each record fits the
previous one and the last tells its state; the two orders agree then
(`InOrderTells`). `Evident`: whatever the order, the kinds of the records there are
bound what a scan can find. A Delivery that is done has a closing record, and
nothing fits after that; one in an attempt has no closing record and an attempt,
which no claim or release follows; one that is claimed has a newest claim,
without a release; and of a free one, each claim is released or superseded. With
claims numbered in the order of the records (`Numbered`) this leaves a superseded
claim as the only wrong answer of a scan that does not throw.

`CheckpointFits` says that files only grow or move, so if the manifest is equal to
the checkpoint's, nothing was appended since and the shards are those of that
checkpoint; and a writer between file and checkpoint leaves lengths that
differ. `WriterFits` is what the writer relies on at each step, `ReadsAll` what a
reader has still to find: in a file it has listed, or, until it has listed both
directories, in one that is in quarantine and cannot come back. From it `IndexIsTold`
(`IndexIsTrue`) and `ScansAreTold` (`ScansAreTrue`), for any
messages, readers, deaths and length of segments.

A projection is told by the last record, which is why no induction along the
records is needed; that there is a last one is an induction on the
number of files and of places in one (`LeastNat`, from the library's theorem on
well-founded relations).

**ClaudeProofs.** Each property of Claude excuses the Jobs whose history holds a
certain event: a recorded answer was written over, a wake was recorded as failed,
two sends overlapped, the bridge died before it recorded a turn, a reply had to be
repeated. `IInv` says for every other Job who is at it and how far: at most one
sender, whose copy of the attempts is what the record says (`InBudget`), at most
one handler that wakes, and only once the end is on record (`EndFirst`,
`OneWake`), a runner that starts a turn only where none was started
(`OneTurn`), and replies that say what the Job says, which cannot change once it
has ended (`Running`, `TrueReplies`). That an accepted Job is not sent again needs
`SaysAccepted`: the record shows that it was accepted, or its end, and then it does
not wait for a retry. A step of one Job leaves the parts of `IInv` of all others
alone (`QuietKeeps`, `RestKeeps`), so each action is examined for its own Job only.
From it `DeliveriesAreAlwaysSafe` (`DeliveriesAreSafe`), `RequestsAreAlwaysSafe`
(`RequestsAreSafe`) and the action property `AnswersAreAlwaysFinal`
(`AnswersAreFinal`), for any number of Jobs, commands, timers, handlers,
operators and deaths of the bridge and any budget.

**DelegationProofs.** A process of Delegation acts on what it has read before, so
the proof is about what cannot change behind its back. `IInv` says it of each Job
(`JobFits`) and of each worker at its step (`WorkerFits`). A Job that waits for a
claim has no turn and names no worker; activation takes the claim on record and ends
the waiting for good, so of all the workers that were started under an older
claim, none gets further (`WaitsAlone`), and the worker that the Job names from then
on is the only one that runs it (`RunsAlone`). The worker of an immediate Job is
alone because its command starts one (`Lone`, `CommandFits`), and until then the Job
has no turn. Schedulers, observers, commands and approvals may write a Job at any
time; what they write keeps all that its workers rely on (`Revises`, `JobMoves`),
and a step of a worker concerns its own Job only (`WorkerMoves`). `StatusRevises`
shows where it is tight: a status may be written over only when no
worker of a scheduled Job stands between its activation and its attempt. From it
`StartsAreAlwaysSafe` (`StartsAreSafe`) and the action property and the invariant of
`AnswersAreAlwaysHonest` (`AnswersAreHonest`; `EvidenceStays` finds the one worker
that may still write). `NoneAssumption` says only that no Job record is the
absent value.

**RecordProofs, Conversations.** None of the properties is inductive: a record,
the source of its messages and its summary are written under three locks, one
after the other. `ConversationInv` says who is still to write what is missing.

* `PlaceFits`: a message that is recorded has its source, or its sender is between
  the two and knows the place, or a fault was noted for the Conversation. With
  `SenderFits` (what each step of a sender may rely on) and `Apart` (no message in
  two records) a source never names another place: it names this one or none
  (`Nowhere`), when it was written before both Nodes were registered or after one
  was tombstoned.
* `SummaryFits`: a summary of an older version has a sender that will refresh it
  (`Owes`). A refresh may find that the latest message has no source and give up:
  then that message is another sender's, which has not committed it yet and so owes
  a refresh of its own (`SomeoneOwes`), or it has an orphan entry (`HiddenByOrphan`),
  which stays one for ever. This is why `SettledIsListed` holds in spite
  of the early refresh of section 3.
* `ValidRecord`: members are two, of the Nodes the record ever had, and no
  message is before the record. `RecordMessageKeeps` and `MigrateKeeps` are
  where a pair could get a second Conversation; both look first (`CurrentOf`).
* `GroupFits`, `GroupSummaryFits` and `LedgerFits` do the same for the Group, whose
  messages keep the members of their version (`MessageFits`). `InboxInv` is
  `NothingIsSkipped` with what a turn brings: its digest is of messages, and was
  shown once the turn is accepted (`TurnFits`). A consumed digest then covers all
  between the cursor and its last message (`AdvancedIs`, `ConsumeKeeps`), though
  it was composed without a lock, whatever was acknowledged or came in between.

From it `ConversationsHold` (`ConversationsAreConsistent`), `SettledHolds`
(`SettledIsListed`) and the action property `CursorsHold` (`CursorsAreSound`), for any
Nodes, successors, messages, members, readers, limits, faults and Nodes that are
registered late or tombstoned. `DirectNoneAssumption` and `GroupNoneAssumption` say only that the
absent value is no record and no place.

Only model-checked: `MutationEnds`, `QueueDrains`, `JobsEnd` and
`NothingWaitsForever` (liveness is beyond the proof system), and
`RecordedCanBeFinished` (ENABLED is too). `LockHolds` and `EvidenceStaysWhole`
without `ReapersApart` hold in the run with three calls and are false with four.

## 5. Not modelled, and the plan

Left out for good: wording, layout, logging, argument parsing, permissions and
ownership checks of files, HTTP serving, WebSocket framing; inspectors and
doctor, which only read (but for `inspectRepairState`, see Repair); hashes and
size limits of bodies and attachments.

Left out of modelled parts:

* Route bindings, legacy records and the order of a sender's writes to bodies
  and quarantine; Claude recipients of a Team Cast.
* The scheduler's wake signal (`scheduler.js:1017`): a wake-up that is lost
  costs one poll interval, and `turn-lifecycle.js`, which only decides when a
  pass is made.
* Records of the Directory that fail their schema, and their purge; root
  aliases; `registry.js`, `inbound-policy-repair.js`.
* The choice of an execution thread and the mirror of a Job's result.
* The bridge's own record, registry files, grants and health probes; evidence
  of a peer's reply (`recordClaudeDeliveryReply`).
* A second command with the same `--job-id` at the same time: `createJob` looks for the
  Job and writes it without a lock (`jobs.js:408-414`), so both may go on. The module has one
  command per Job. A write of the Job that fails inside an approval handler that already
  waits is left out too.
* In LedgerRoom, purges, which give room back.
* Limits and expiry of Conversation records (512, 2048 and 4096 entries);
  several Groups at once.

Next, in this order:

1. LedgerStore shown by TLC to implement the record of DeliveryLedger.
2. The registry and the bridge's record.
