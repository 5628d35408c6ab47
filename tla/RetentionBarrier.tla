--------------------------- MODULE RetentionBarrier ---------------------------
(***************************************************************************)
(* The Retention Mutation Barrier of src/retention-barrier.js: many        *)
(* ordinary writers of the private stores against one exclusive Retention  *)
(* mutation (purge or restore).  The two sides only share files.           *)
(*                                                                         *)
(*   owner       mutation.lock: the mutator whose owner record it holds    *)
(*   lease[w]    writers/<token>.json of writer w: "none", "created" once  *)
(*               the exclusive open has made the file, "written" once its  *)
(*               JSON is complete                                          *)
(*                                                                         *)
(* A writer looks for mutation.lock, publishes its lease, looks again, and *)
(* only then writes.  A mutator takes mutation.lock, lists the leases,     *)
(* reads them one by one, and starts only after a listing in which none    *)
(* was live.  No step of one process is atomic with a step of another.     *)
(*                                                                         *)
(* A Writer or a Mutator is one top-level call in one process; a crashed   *)
(* one never comes back (a later command is another member of the set).    *)
(* mutation.lock is taken and released through withFileLock, here as one   *)
(* step each: module FileLock models its file operations.                  *)
(***************************************************************************)
EXTENDS FiniteSets

CONSTANTS
  Writer,   \* calls of withRetentionWriter outside any writer or mutation
  Mutator,  \* calls of withRetentionMutation
  NoOwner   \* mutation.lock does not exist

ASSUME NoOwnerAssumption == NoOwner \notin Mutator

VARIABLES
  owner,    \* of mutation.lock, or NoOwner
  lease,    \* lease file of every writer
  wpc,      \* where each writer is
  mpc,      \* where each mutator is
  unread,   \* leases the mutator's current listing still has to read
  live      \* whether that listing has met a live lease

barrierVars == <<owner, lease, wpc, mpc, unread, live>>

WriterSteps  == {"idle", "checked", "publishing", "rechecking", "running", "dead"}
MutatorSteps == {"idle", "listing", "reading", "running", "dead"}

BarrierTypeOK ==
  /\ owner  \in Mutator \cup {NoOwner}
  /\ lease  \in [Writer -> {"none", "created", "written"}]
  /\ wpc    \in [Writer -> WriterSteps]
  /\ mpc    \in [Mutator -> MutatorSteps]
  /\ unread \in [Mutator -> SUBSET Writer]
  /\ live   \in [Mutator -> BOOLEAN]

BarrierInit ==
  /\ owner  = NoOwner
  /\ lease  = [w \in Writer |-> "none"]
  /\ wpc    = [w \in Writer |-> "idle"]
  /\ mpc    = [m \in Mutator |-> "idle"]
  /\ unread = [m \in Mutator |-> {}]
  /\ live   = [m \in Mutator |-> FALSE]

-----------------------------------------------------------------------------
(* Writers                                                                 *)

\* First existsSync(mutation.lock): present means ERETENTIONBUSY, which
\* leaves the writer where it was.
WriterCheck(w) ==
  /\ wpc[w] = "idle"
  /\ owner = NoOwner
  /\ wpc' = [wpc EXCEPT ![w] = "checked"]
  /\ UNCHANGED <<owner, lease, mpc, unread, live>>

\* writeFileSync(lease, ..., "wx") opens the file and then fills it.
WriterCreateLease(w) ==
  /\ wpc[w] = "checked"
  /\ lease' = [lease EXCEPT ![w] = "created"]
  /\ wpc' = [wpc EXCEPT ![w] = "publishing"]
  /\ UNCHANGED <<owner, mpc, unread, live>>

WriterFillLease(w) ==
  /\ wpc[w] = "publishing"
  /\ lease' = [lease EXCEPT ![w] = "written"]
  /\ wpc' = [wpc EXCEPT ![w] = "rechecking"]
  /\ UNCHANGED <<owner, mpc, unread, live>>

\* A bug the checks must catch: the second look at mutation.lock is missing.
WriterEnterUnchecked(w) ==
  /\ wpc[w] = "rechecking"
  /\ wpc' = [wpc EXCEPT ![w] = "running"]
  /\ UNCHANGED <<owner, lease, mpc, unread, live>>

\* Second existsSync(mutation.lock): absent runs the callback, present
\* removes the own lease and reports ERETENTIONBUSY.
WriterEnter(w) ==
  /\ wpc[w] = "rechecking"
  /\ owner = NoOwner
  /\ wpc' = [wpc EXCEPT ![w] = "running"]
  /\ UNCHANGED <<owner, lease, mpc, unread, live>>

WriterRefused(w) ==
  /\ wpc[w] = "rechecking"
  /\ owner # NoOwner
  /\ lease' = [lease EXCEPT ![w] = "none"]
  /\ wpc' = [wpc EXCEPT ![w] = "idle"]
  /\ UNCHANGED <<owner, mpc, unread, live>>

\* release(): the callback returned or threw.
WriterRelease(w) ==
  /\ wpc[w] = "running"
  /\ lease' = [lease EXCEPT ![w] = "none"]
  /\ wpc' = [wpc EXCEPT ![w] = "idle"]
  /\ UNCHANGED <<owner, mpc, unread, live>>

\* The process of the writer dies; its lease file stays as it is.
WriterCrash(w) ==
  /\ wpc[w] # "dead"
  /\ wpc' = [wpc EXCEPT ![w] = "dead"]
  /\ UNCHANGED <<owner, lease, mpc, unread, live>>

-----------------------------------------------------------------------------
(* Mutators                                                                *)

MutatorAcquire(m) ==
  /\ mpc[m] = "idle"
  /\ owner = NoOwner
  /\ owner' = m
  /\ mpc' = [mpc EXCEPT ![m] = "listing"]
  /\ UNCHANGED <<lease, wpc, unread, live>>

\* reapExpiredOwner: a mutator waiting for the lock removes the lock of a
\* dead owner once its mtime is older than the lock lease.
MutatorReapLock(m) ==
  /\ mpc[m] = "idle"
  /\ owner # NoOwner
  /\ mpc[owner] = "dead"
  /\ owner' = NoOwner
  /\ UNCHANGED <<lease, wpc, mpc, unread, live>>

\* liveWriterLeases begins: readdir.
MutatorList(m) ==
  /\ mpc[m] = "listing"
  /\ unread' = [unread EXCEPT ![m] = {w \in Writer : lease[w] # "none"}]
  /\ live' = [live EXCEPT ![m] = FALSE]
  /\ mpc' = [mpc EXCEPT ![m] = "reading"]
  /\ UNCHANGED <<owner, lease, wpc>>

ReadNext(m, w) == unread' = [unread EXCEPT ![m] = @ \ {w}]

\* ENOENT: the lease was removed after the listing.
MutatorReadGone(m, w) ==
  /\ mpc[m] = "reading"
  /\ w \in unread[m]
  /\ lease[w] = "none"
  /\ ReadNext(m, w)
  /\ UNCHANGED <<owner, lease, wpc, mpc, live>>

\* A lease of a running process, or one not yet past its lease time.
MutatorReadLive(m, w) ==
  /\ mpc[m] = "reading"
  /\ w \in unread[m]
  /\ lease[w] = "written"
  /\ live' = [live EXCEPT ![m] = TRUE]
  /\ ReadNext(m, w)
  /\ UNCHANGED <<owner, lease, wpc, mpc>>

\* A bug the checks must catch: only the lease time counts, not the process.
MutatorReadOld(m, w) ==
  /\ mpc[m] = "reading"
  /\ w \in unread[m]
  /\ lease[w] = "written"
  /\ lease' = [lease EXCEPT ![w] = "none"]
  /\ ReadNext(m, w)
  /\ UNCHANGED <<owner, wpc, mpc, live>>

\* Past its lease time and processState(pid) = "missing": removed.
MutatorReadStale(m, w) ==
  /\ mpc[m] = "reading"
  /\ w \in unread[m]
  /\ lease[w] = "written"
  /\ wpc[w] = "dead"
  /\ lease' = [lease EXCEPT ![w] = "none"]
  /\ ReadNext(m, w)
  /\ UNCHANGED <<owner, wpc, mpc, live>>

GiveUp(m) ==
  /\ owner' = NoOwner
  /\ mpc' = [mpc EXCEPT ![m] = "idle"]
  /\ unread' = [unread EXCEPT ![m] = {}]
  /\ live' = [live EXCEPT ![m] = FALSE]

\* An empty lease does not parse: "Retention writer lease is malformed".
MutatorReadMalformed(m, w) ==
  /\ mpc[m] = "reading"
  /\ w \in unread[m]
  /\ lease[w] = "created"
  /\ GiveUp(m)
  /\ UNCHANGED <<lease, wpc>>

\* Some lease was live: wait 25 ms and list again, or give up at the drain
\* deadline ("timed out draining Retention writers").
MutatorRelist(m) ==
  /\ mpc[m] = "reading"
  /\ unread[m] = {}
  /\ live[m]
  /\ mpc' = [mpc EXCEPT ![m] = "listing"]
  /\ UNCHANGED <<owner, lease, wpc, unread, live>>

\* A bug the checks must catch: the drain deadline moves with every listing.
MutatorDrainForever(m) ==
  /\ FALSE
  /\ GiveUp(m)
  /\ UNCHANGED <<lease, wpc>>

MutatorDrainTimeout(m) ==
  /\ mpc[m] = "reading"
  /\ unread[m] = {}
  /\ live[m]
  /\ GiveUp(m)
  /\ UNCHANGED <<lease, wpc>>

MutatorEnter(m) ==
  /\ mpc[m] = "reading"
  /\ unread[m] = {}
  /\ ~live[m]
  /\ mpc' = [mpc EXCEPT ![m] = "running"]
  /\ UNCHANGED <<owner, lease, wpc, unread, live>>

MutatorRelease(m) ==
  /\ mpc[m] = "running"
  /\ GiveUp(m)
  /\ UNCHANGED <<lease, wpc>>

\* The process of the mutator dies; mutation.lock keeps its owner record.
MutatorCrash(m) ==
  /\ mpc[m] # "dead"
  /\ mpc' = [mpc EXCEPT ![m] = "dead"]
  /\ UNCHANGED <<owner, lease, wpc, unread, live>>

-----------------------------------------------------------------------------

WriterStep(w) ==
  \/ WriterCheck(w)
  \/ WriterCreateLease(w)
  \/ WriterFillLease(w)
  \/ WriterEnter(w)
  \/ WriterRefused(w)
  \/ WriterRelease(w)

MutatorRead(m) ==
  \E w \in Writer :
    \/ MutatorReadGone(m, w)
    \/ MutatorReadLive(m, w)
    \/ MutatorReadStale(m, w)
    \/ MutatorReadMalformed(m, w)

MutatorStep(m) ==
  \/ MutatorAcquire(m)
  \/ MutatorReapLock(m)
  \/ MutatorList(m)
  \/ MutatorRead(m)
  \/ MutatorRelist(m)
  \/ MutatorDrainTimeout(m)
  \/ MutatorEnter(m)
  \/ MutatorRelease(m)

ProcessDies ==
  \/ \E w \in Writer : WriterCrash(w)
  \/ \E m \in Mutator : MutatorCrash(m)

BarrierNext ==
  \/ \E w \in Writer : WriterStep(w)
  \/ \E m \in Mutator : MutatorStep(m)
  \/ ProcessDies

BarrierSpec == BarrierInit /\ [][BarrierNext]_barrierVars

(* Both loops of a mutator are bounded in time: the scan reads each listed *)
(* lease once, and the drain loop ends at its deadline, so giving up is    *)
(* strongly fair (it is enabled after every full scan that met a live      *)
(* lease).  The purge or restore itself returns.  Nothing else is fair: a  *)
(* writer may hold its lease, and a lock may stay unclaimed, for ever.     *)
Fairness ==
  \A m \in Mutator :
    /\ WF_barrierVars(MutatorList(m))
    /\ WF_barrierVars(MutatorRead(m))
    /\ SF_barrierVars(MutatorDrainTimeout(m))
    /\ WF_barrierVars(MutatorRelist(m) \/ MutatorEnter(m))
    /\ WF_barrierVars(MutatorRelease(m))

LiveSpec == BarrierSpec /\ Fairness

-----------------------------------------------------------------------------
(* Properties                                                              *)

\* While the callback of a Retention mutation runs, no writer callback runs
\* and no other mutation callback runs: a purge never swaps a store under a
\* process that is still appending to it (withRetentionMutation against
\* withRetentionWriter).
Exclusion ==
  \A m \in Mutator :
    mpc[m] = "running" =>
      /\ \A w \in Writer : wpc[w] # "running"
      /\ \A n \in Mutator \ {m} : mpc[n] # "running"

\* A writer inside its callback always has its complete lease file in the
\* writers directory: no mutator ever reaps the lease of a running writer,
\* whatever the mutator's listing said (removeOwnedLease in
\* liveWriterLeases).
RunningWritersAreLeased ==
  \A w \in Writer : wpc[w] = "running" => lease[w] = "written"

\* A mutation that got the lock always comes to an end (its callback ran, it
\* gave up, or its process died) however long the writers keep their leases:
\* the drain timeout is what releases everyone else.
MutationEnds ==
  \A m \in Mutator :
    mpc[m] \in {"listing", "reading", "running"} ~> mpc[m] \in {"idle", "dead"}
=============================================================================
