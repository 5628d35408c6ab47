---------------------------- MODULE DelegationProofs ----------------------------
(***************************************************************************)
(* Proofs about Delegation for any Jobs, modes, schedulers, workers,       *)
(* observers and approvals, and any numbers of claims and deaths.          *)
(*                                                                         *)
(* Every process acts on what it has read before, so what counts is what   *)
(* cannot change behind its back.  A Job that waits for a claim has no     *)
(* worker at work and no turn (JobFits).  It never waits again once it has *)
(* been activated, which takes the claim on record; so the worker that it  *)
(* names from then on is the only one that ever works on it (WorkerFits).  *)
(* An immediate Job has one worker because its command starts one (Lone).  *)
(* All others only ever find a Job with a turn, or one that has ended.     *)
(***************************************************************************)
EXTENDS Delegation, TLAPS

View == [status : {"unknown", "completed", "failed"}, result : {"text", None}]

CommandState ==
  [step : {"idle", "created", "queued", "failing", "done"}]
    \cup [step : {"spawned", "waiting"}, worker : Worker]

SchedulerState ==
  [step : {"idle"}] \cup [step : {"claiming"}, job : Job]
    \cup [step : {"refusing"}, job : Job, status : {"expired", "failed"}]
    \cup [step : {"claimed", "spawning", "yielding"}, job : Job, claim : Claim]
    \cup [step : {"releasing"}, job : Job, claim : Claim, status : {"expired", "failed"}]

WorkerState ==
  [step : {"idle"}]
    \cup [step : {"spawned", "activating", "exited"}, job : Job, claim : Claim]
    \cup [step : {"ready", "authorized", "starting", "started", "watching", "exited"}, job : Job]
    \cup [step : {"writing"}, job : Job, view : View]
    \cup [step : {"failing", "recording"}, job : Job,
          cause : {"untried", "unsent", "tried", "started"}]

ObserverState == [step : {"idle"}] \cup [step : {"writing"}, job : Job, view : View]

Action == {"approve", "deny", None}
ApprovalState ==
  [step : {"unasked"}]
    \cup [step : {"asked", "waiting", "dead", "done"}, worker : Worker,
          status : {"approved", "denied", "timed_out", "pending", None},
          action : Action, answer : Action \cup {"lost", "error"}]

Typed ==
  /\ mode \in [Job -> Mode]
  /\ job \in [Job -> JobRecord \cup {None}]
  /\ claims \in [Job -> 0..MaxClaims]
  /\ granted \in [Job -> BOOLEAN] /\ revoked \in [Job -> BOOLEAN]
  /\ command \in [Job -> CommandState]
  /\ scheduler \in [Scheduler -> SchedulerState]
  /\ worker \in [Worker -> WorkerState]
  /\ observer \in [Observer -> ObserverState]
  /\ approval \in [Request -> ApprovalState]
  /\ turn \in [Job -> {"none", "active", "completed", "failed"}]
  /\ turns \in [Job -> Nat]
  /\ onWire \subseteq Job

-----------------------------------------------------------------------------
(* Who is at a Job, and how far                                            *)

\* No turn, and none on its way.
Unstarted(k) == turns[k] = 0 /\ k \notin onWire

JobFits(k) ==
  /\ turns[k] <= 1 /\ (k \in onWire => turns[k] = 0)
  /\ job[k] = None => Unstarted(k)
  /\ job[k] # None =>
       /\ job[k].live => job[k].claim # None
       /\ job[k].evidence = "false" => Unstarted(k)
       /\ job[k].evidence = "true" => turns[k] > 0
       /\ job[k].turnId => turns[k] > 0
       /\ job[k].result # None => job[k].turnId
       /\ job[k].status = "scheduled" =>
            mode[k].scheduled /\ job[k].pid = None /\ Unstarted(k)
  /\ command[k].step # "idle" => ~mode[k].scheduled /\ job[k] # None
  /\ command[k].step \in {"created", "queued"} => Unstarted(k)
  /\ command[k].step \in {"spawned", "waiting"} =>
       LET w == command[k].worker IN ~Unused(w) /\ worker[w].job = k
  /\ revoked[k] => /\ ~granted[k] /\ Unstarted(k)
                   /\ mode[k].scheduled \/ job[k] = None

WorkerFits(w) ==
  ~Unused(w) =>
    LET k == worker[w].job IN
    /\ job[k] # None
    /\ mode[k].scheduled \/ command[k].step \notin {"idle", "created", "queued"}
    /\ worker[w].step = "spawned" => mode[k].scheduled \/ Unstarted(k)
    /\ worker[w].step = "activating" => mode[k].scheduled
    /\ worker[w].step \in Running => job[k].status # "scheduled" /\ job[k].pid = w
    /\ worker[w].step \in {"ready", "authorized"} =>
         Unstarted(k) /\ (mode[k].scheduled => job[k].status = "queued")
    /\ worker[w].step = "starting" => Unstarted(k) /\ job[k].evidence # "false"
    /\ worker[w].step \in {"started", "watching", "writing"} =>
         turns[k] > 0 /\ job[k].evidence # "false"
    /\ worker[w].step = "writing" => job[k].turnId
    /\ worker[w].step \in {"failing", "recording"} =>
         /\ worker[w].cause \in {"untried", "unsent"} => Unstarted(k)
         /\ worker[w].cause = "tried" => job[k].evidence # "false"
         /\ worker[w].cause = "started" => turns[k] > 0 /\ job[k].evidence # "false"
    /\ revoked[k] => worker[w].step \notin {"authorized", "starting"}

\* The command of an immediate Job starts one worker.
Lone ==
  \A v, w \in Worker :
    /\ ~Unused(v) /\ ~Unused(w) /\ worker[v].job = worker[w].job
    /\ ~mode[worker[w].job].scheduled
    => v = w

CommandFits(k) ==
  command[k].step \in {"spawned", "waiting"} =>
    \A w \in Worker : ~Unused(w) /\ worker[w].job = k => command[k].worker = w

SchedulerFits(s) ==
  ~At(scheduler[s], "idle") => job[scheduler[s].job] # None /\ mode[scheduler[s].job].scheduled

ObserverFits(o) ==
  ~At(observer[o], "idle") => job[observer[o].job] # None /\ job[observer[o].job].turnId

ApprovalFits(r) ==
  ~At(approval[r], "unasked") =>
    /\ ~Unused(approval[r].worker)
    /\ job[JobOf(r)] # None /\ turns[JobOf(r)] > 0
    /\ At(approval[r], "asked") => approval[r].status = None /\ approval[r].action = None
    /\ At(approval[r], "done") =>
         /\ approval[r].status = "approved" <=> approval[r].action = "approve"
         /\ approval[r].answer = "approve" => approval[r].status = "approved"
         /\ approval[r].answer = "deny" => approval[r].status # "approved"

Fits ==
  /\ \A k \in Job : JobFits(k) /\ CommandFits(k)
  /\ \A w \in Worker : WorkerFits(w)
  /\ Lone
  /\ \A s \in Scheduler : SchedulerFits(s)
  /\ \A o \in Observer : ObserverFits(o)
  /\ \A r \in Request : ApprovalFits(r)

IInv == Typed /\ Fits

-----------------------------------------------------------------------------
(* Types                                                                   *)

\* What a worker knows at each of its steps.
LEMMA WorkerTyped ==
  ASSUME Typed, NEW w \in Worker
  PROVE  /\ worker[w] \in WorkerState
         /\ worker[w].step \in {"idle", "spawned", "activating", "exited", "ready", "authorized",
              "starting", "started", "watching", "writing", "failing", "recording"}
         /\ ~Unused(w) => worker[w].job \in Job
         /\ worker[w].step \in {"spawned", "activating"} =>
              worker[w] \in [step : {"spawned", "activating"}, job : Job, claim : Claim]
         /\ worker[w].step = "writing" =>
              worker[w] \in [step : {"writing"}, job : Job, view : View]
         /\ worker[w].step \in {"failing", "recording"} =>
              worker[w] \in [step : {"failing", "recording"}, job : Job,
                             cause : {"untried", "unsent", "tried", "started"}]
  BY DEF Typed, WorkerState, Unused, At

\* What a scheduler knows at each of its steps.
LEMMA SchedulerTyped ==
  ASSUME Typed, NEW s \in Scheduler
  PROVE  /\ scheduler[s].step \in {"idle", "claiming", "refusing", "claimed", "spawning",
                                   "yielding", "releasing"}
         /\ scheduler[s].step # "idle" => scheduler[s].job \in Job
         /\ scheduler[s].step = "refusing" => scheduler[s].status \in {"expired", "failed"}
         /\ scheduler[s].step \in {"claimed", "spawning", "yielding"} =>
              scheduler[s] \in [step : {"claimed", "spawning", "yielding"}, job : Job,
                                claim : Claim]
         /\ scheduler[s].step = "releasing" =>
              scheduler[s].claim \in Claim /\ scheduler[s].status \in {"expired", "failed"}
  BY DEF Typed, SchedulerState

\* What is known of an approval request.
LEMMA ApprovalTyped ==
  ASSUME Typed, NEW r \in Request, ~At(approval[r], "unasked")
  PROVE  /\ approval[r] \in [step : {"asked", "waiting", "dead", "done"}, worker : Worker,
                             status : {"approved", "denied", "timed_out", "pending", None},
                             action : Action, answer : Action \cup {"lost", "error"}]
         /\ approval[r].worker \in Worker
  BY DEF Typed, ApprovalState, At

\* What an observer and a command know.
LEMMA OthersTyped ==
  ASSUME Typed
  PROVE  /\ \A o \in Observer : observer[o].step = "writing" =>
              observer[o].job \in Job /\ observer[o].view \in View
         /\ \A o \in Observer : observer[o].step \in {"idle", "writing"}
         /\ \A k \in Job : command[k].step \in {"spawned", "waiting"} =>
              command[k].worker \in Worker
         /\ \A k \in Job : command[k].step \in
              {"idle", "created", "queued", "failing", "done", "spawned", "waiting"}
         /\ \A k \in Job : job[k] # None => job[k] \in JobRecord
  BY DEF Typed, ObserverState, CommandState


-----------------------------------------------------------------------------
(* What a step leaves alone                                                *)

\* A Job that a step does nothing to.
Quiet(j) ==
  /\ job'[j] = job[j] /\ turns'[j] = turns[j] /\ (j \in onWire' <=> j \in onWire)
  /\ granted'[j] = granted[j] /\ revoked'[j] = revoked[j]

\* A command goes on, but starts neither a Job nor a worker.
Onward(j) ==
  /\ command'[j].step # "idle" => command[j].step # "idle"
  /\ command'[j].step \in {"created", "queued"} => command[j].step \in {"created", "queued"}
  /\ command[j].step \notin {"idle", "created", "queued"} =>
       command'[j].step \notin {"idle", "created", "queued"}
  /\ command'[j].step \in {"spawned", "waiting"} =>
       command[j].step \in {"spawned", "waiting"} /\ command'[j].worker = command[j].worker

\* No worker is started, and each stays with its Job.
WorkersStay ==
  \A w \in Worker : /\ Unused(w)' <=> Unused(w)
                    /\ ~Unused(w) => worker'[w].job = worker[w].job

\* A Job once there stays, and so do its turn and what it says of it.
JobsGo ==
  /\ UNCHANGED mode
  /\ \A j \in Job : /\ job[j] # None => job'[j] # None /\ (job[j].turnId => job'[j].turnId)
                    /\ turns[j] > 0 => turns'[j] > 0

\* A Job of which nothing changes keeps its part of the invariant.
LEMMA QuietJob ==
  ASSUME NEW j \in Job, Typed, JobFits(j), CommandFits(j), Quiet(j), Onward(j),
         UNCHANGED mode, WorkersStay
  PROVE  JobFits(j)' /\ CommandFits(j)'
  <1>1. command[j].step \in {"spawned", "waiting"} => command[j].worker \in Worker
    BY OthersTyped
  <1>2. JobFits(j)'
    BY <1>1 DEF JobFits, Quiet, Onward, Unstarted, WorkersStay
  <1>3. CommandFits(j)'
    BY DEF CommandFits, Onward, WorkersStay
  <1>4. QED
    BY <1>2, <1>3

\* So does a worker whose Job it is.
LEMMA QuietWorker ==
  ASSUME Typed, NEW v \in Worker, WorkerFits(v), worker'[v] = worker[v], UNCHANGED mode,
         \A j \in Job : Onward(j),
         ~Unused(v) => Quiet(worker[v].job)
  PROVE  WorkerFits(v)'
  <1>1. ~Unused(v) => worker[v].job \in Job
    BY WorkerTyped
  <1>2. QED
    BY <1>1 DEF WorkerFits, Quiet, Onward, Unstarted, Unused, At

\* A worker that does not run yet, or any more, needs little of its Job.
LEMMA AsideWorker ==
  ASSUME Typed, NEW v \in Worker, WorkerFits(v), worker'[v] = worker[v], UNCHANGED mode,
         ~Unused(v), mode[worker[v].job].scheduled, worker[v].step \notin Running,
         job'[worker[v].job] # None
  PROVE  WorkerFits(v)'
  BY DEF WorkerFits, Unused, At, Running

\* No second worker is started.
LEMMA LoneStays ==
  ASSUME Lone, UNCHANGED mode, WorkersStay
  PROVE  Lone'
  BY DEF Lone, WorkersStay

\* A scheduler that does nothing.
LEMMA QuietScheduler ==
  ASSUME Typed, NEW s \in Scheduler, SchedulerFits(s), scheduler'[s] = scheduler[s], JobsGo
  PROVE  SchedulerFits(s)'
  <1>1. ~At(scheduler[s], "idle") => scheduler[s].job \in Job
    BY SchedulerTyped DEF At
  <1>2. QED
    BY <1>1 DEF SchedulerFits, JobsGo, At

\* An observer that does nothing.
LEMMA QuietObserver ==
  ASSUME Typed, NEW o \in Observer, ObserverFits(o), observer'[o] = observer[o], JobsGo
  PROVE  ObserverFits(o)'
  <1>1. ~At(observer[o], "idle") => observer[o].job \in Job
    BY OthersTyped DEF At
  <1>2. QED
    BY <1>1 DEF ObserverFits, JobsGo, At

\* An approval that nobody touches.
LEMMA QuietApproval ==
  ASSUME Typed, NEW r \in Request, ApprovalFits(r), approval'[r] = approval[r], JobsGo,
         WorkersStay
  PROVE  ApprovalFits(r)'
  <1>1. CASE At(approval[r], "unasked")
    BY <1>1 DEF ApprovalFits, At
  <1>2. CASE ~At(approval[r], "unasked")
    <2>1. approval[r].worker \in Worker /\ ~Unused(approval[r].worker)
      BY <1>2, ApprovalTyped DEF ApprovalFits
    <2>2. worker[approval[r].worker].job \in Job
      BY <2>1, WorkerTyped
    <2> DEFINE w == approval[r].worker
               k == worker[w].job
    <2>3. w \in Worker /\ approval'[r].worker = w /\ worker'[w].step # "idle"
          /\ worker'[w].job = k
      BY <2>1 DEF WorkersStay, Unused, At
    <2>4. job'[k] # None /\ turns'[k] > 0
      BY <1>2, <2>2 DEF ApprovalFits, JobOf, JobsGo
    <2>5. /\ approval'[r].step = "done" =>
               /\ approval'[r].status = "approved" <=> approval'[r].action = "approve"
               /\ approval'[r].answer = "approve" => approval'[r].status = "approved"
               /\ approval'[r].answer = "deny" => approval'[r].status # "approved"
      BY <1>2 DEF ApprovalFits, At
    <2>6. QED
      BY <2>3, <2>4, <2>5 DEF ApprovalFits, At, JobOf, Unused
  <1>3. QED
    BY <1>1, <1>2

\* The parts make the whole.
LEMMA FitsTogether ==
  ASSUME Fits, Typed, JobsGo, WorkersStay,
         \A k \in Job : JobFits(k)' /\ CommandFits(k)',
         \A w \in Worker : WorkerFits(w)',
         \A s \in Scheduler : scheduler'[s] = scheduler[s] \/ SchedulerFits(s)',
         \A o \in Observer : observer'[o] = observer[o] \/ ObserverFits(o)',
         \A r \in Request : approval'[r] = approval[r] \/ ApprovalFits(r)'
  PROVE  Fits'
  <1>1. Lone'
    BY LoneStays DEF Fits, JobsGo
  <1>2. \A s \in Scheduler : SchedulerFits(s)'
    BY QuietScheduler DEF Fits
  <1>3. \A o \in Observer : ObserverFits(o)'
    BY QuietObserver DEF Fits
  <1>4. \A r \in Request : ApprovalFits(r)'
    BY QuietApproval DEF Fits
  <1>5. QED
    BY <1>1, <1>2, <1>3, <1>4 DEF Fits

-----------------------------------------------------------------------------
(* What a step does to its own Job                                         *)

\* No other worker of the Job of w runs, nor may still run it unclaimed.
Alone(w) ==
  \A v \in Worker \ {w} : ~Unused(v) /\ worker[v].job = worker[w].job =>
    mode[worker[w].job].scheduled /\ worker[v].step \notin Running

\* A worker that runs is alone, and so is any of an immediate Job.
LEMMA RunsAlone ==
  ASSUME Typed, Fits, NEW w \in Worker, ~Unused(w),
         worker[w].step \in Running \/ ~mode[worker[w].job].scheduled
  PROVE  Alone(w)
  <1>1. SUFFICES ASSUME NEW v \in Worker \ {w}, ~Unused(v), worker[v].job = worker[w].job
                 PROVE  mode[worker[w].job].scheduled /\ worker[v].step \notin Running
    BY DEF Alone
  <1>2. mode[worker[w].job].scheduled
    BY <1>1 DEF Fits, Lone
  <1>3. worker[w].step \in Running /\ job[worker[w].job].pid = w
    BY <1>2 DEF Fits, WorkerFits
  <1>4. worker[v].step \notin Running
    BY <1>1, <1>3 DEF Fits, WorkerFits
  <1>5. QED
    BY <1>2, <1>4

\* A Job that waits for a claim has no worker that runs.
LEMMA WaitsAlone ==
  ASSUME Typed, Fits, NEW w \in Worker, ~Unused(w), job[worker[w].job].status = "scheduled"
  PROVE  Alone(w)
  <1>1. worker[w].job \in Job /\ job[worker[w].job] # None
    BY WorkerTyped DEF Fits, WorkerFits
  <1>2. mode[worker[w].job].scheduled
    BY <1>1 DEF Fits, JobFits
  <1>3. QED
    BY <1>2 DEF Alone, Fits, WorkerFits

\* A step of a worker concerns its own Job, and the others that are at it only
\* if it changes something there.
LEMMA WorkerMoves ==
  ASSUME Typed, Fits, Typed', NEW w \in Worker, ~Unused(w), ~Unused(w)',
         worker'[w].job = worker[w].job,
         \A v \in Worker \ {w} : worker'[v] = worker[v],
         UNCHANGED <<mode, granted, revoked, command, scheduler, observer>>,
         \A r \in Request : approval'[r] = approval[r] \/ ApprovalFits(r)',
         \A j \in Job \ {worker[w].job} : Quiet(j),
         job'[worker[w].job] # None,
         job[worker[w].job].turnId => job'[worker[w].job].turnId,
         turns[worker[w].job] > 0 => turns'[worker[w].job] > 0,
         Alone(w) \/ Quiet(worker[w].job),
         JobFits(worker[w].job)', WorkerFits(w)'
  PROVE  Typed' /\ Fits'
  <1> DEFINE k == worker[w].job
  <1>1. k \in Job /\ \A v \in Worker : ~Unused(v) => worker[v].job \in Job
    BY WorkerTyped
  <1>2. WorkersStay
    BY DEF WorkersStay, Unused
  <1>3. JobsGo
    BY <1>1 DEF JobsGo, Quiet
  <1>4. \A j \in Job : Onward(j)
    BY DEF Onward
  <1>5. \A j \in Job : JobFits(j)' /\ CommandFits(j)'
    <2>1. \A j \in Job \ {k} : JobFits(j)' /\ CommandFits(j)'
      BY <1>2, <1>4, QuietJob DEF Fits
    <2>2. CommandFits(k)'
      BY <1>1, <1>2 DEF Fits, CommandFits, WorkersStay
    <2>3. QED
      BY <2>1, <2>2
  <1>6. \A v \in Worker : WorkerFits(v)'
    <2>1. SUFFICES ASSUME NEW v \in Worker \ {w}
                   PROVE  WorkerFits(v)'
      OBVIOUS
    <2>2. CASE ~Unused(v) => Quiet(worker[v].job)
      BY <1>4, <2>2, QuietWorker DEF Fits
    <2>3. CASE ~Unused(v) /\ worker[v].job = k /\ Alone(w)
      BY <2>3, AsideWorker DEF Fits, Alone
    <2>4. QED
      BY <1>1, <2>2, <2>3
  <1>7. QED
    BY <1>2, <1>3, <1>5, <1>6, FitsTogether

\* What anybody may do to a Job: what its workers rely on stays.
Revises(k, new) ==
  /\ new \in JobRecord
  /\ new.pid = job[k].pid /\ new.evidence = job[k].evidence /\ new.turnId = job[k].turnId
  /\ new.live => new.claim # None
  /\ new.result # None => new.turnId
  /\ new.status = "scheduled" => job[k].status = "scheduled"
  /\ new.status # job[k].status =>
       \A v \in Worker : ~(/\ worker[v].step \in {"ready", "authorized"}
                           /\ worker[v].job = k /\ mode[k].scheduled)

\* A step of another process revises a Job, and moves on itself.
LEMMA JobMoves ==
  ASSUME Typed, Fits, Typed', NEW k \in Job, job[k] # None,
         NEW new, Revises(k, new), job' = [job EXCEPT ![k] = new],
         UNCHANGED <<mode, granted, revoked, turns, onWire, worker>>,
         \A j \in Job : Onward(j),
         \A s \in Scheduler : scheduler'[s] = scheduler[s] \/ SchedulerFits(s)',
         \A o \in Observer : observer'[o] = observer[o] \/ ObserverFits(o)',
         \A r \in Request : approval'[r] = approval[r] \/ ApprovalFits(r)'
  PROVE  Typed' /\ Fits'
  <1>1. job'[k] = new /\ job'[k] # None /\ \A j \in Job \ {k} : job'[j] = job[j]
    BY NoneAssumption DEF Typed, Revises
  <1>2. WorkersStay
    BY DEF WorkersStay, Unused
  <1>3. JobsGo
    BY <1>1 DEF JobsGo, Revises
  <1>4. \A j \in Job \ {k} : Quiet(j)
    BY <1>1 DEF Quiet
  <1>5. \A j \in Job : JobFits(j)' /\ CommandFits(j)'
    <2>1. \A j \in Job \ {k} : JobFits(j)' /\ CommandFits(j)'
      BY <1>2, <1>4, QuietJob DEF Fits
    <2>2. CommandFits(k)'
      BY <1>2 DEF Fits, CommandFits, WorkersStay, Onward
    <2>3. JobFits(k)'
      <3>1. command[k].step \in {"spawned", "waiting"} => command[k].worker \in Worker
        BY OthersTyped
      <3>2. JobFits(k)
        BY DEF Fits
      <3>3. QED
        BY <1>1, <1>2, <3>1, <3>2 DEF JobFits, Onward, Unstarted, WorkersStay, Revises
    <2>4. QED
      BY <2>1, <2>2, <2>3
  <1>6. \A v \in Worker : WorkerFits(v)'
    <2>1. SUFFICES ASSUME NEW v \in Worker
                   PROVE  WorkerFits(v)'
      OBVIOUS
    <2>2. ~Unused(v) => worker[v].job \in Job
      BY WorkerTyped
    <2>3. CASE ~Unused(v) => worker[v].job # k
      BY <1>4, <2>2, <2>3, QuietWorker DEF Fits
    <2>4. CASE ~Unused(v) /\ worker[v].job = k
      <3>1. WorkerFits(v) /\ worker'[v] = worker[v]
        BY DEF Fits
      <3>2. QED
        BY <1>1, <2>4, <3>1 DEF WorkerFits, Onward, Unstarted, Revises, Unused, At
    <2>5. QED
      BY <2>3, <2>4
  <1>7. QED
    BY <1>2, <1>3, <1>5, <1>6, FitsTogether

-----------------------------------------------------------------------------
(* Time, authority and App Server                                          *)

\* What the invariant speaks of does not change.
LEMMA FitsFrame ==
  ASSUME Fits, UNCHANGED <<mode, job, command, scheduler, worker, observer, approval,
                           granted, revoked, turns, onWire>>
  PROVE  Fits'
  BY DEF Fits, JobFits, CommandFits, WorkerFits, Lone, SchedulerFits, ObserverFits, ApprovalFits,
         Unstarted, Unused, At, JobOf

\* No part of the invariant is about the time that a Delegation has left.
LEMMA ExpireKeeps ==
  ASSUME IInv, NEW k \in Job, Expire(k)
  PROVE  IInv'
  <1> USE DEF Expire, storeVars, serverVars, processVars
  <1>1. Typed'
    BY DEF IInv, Typed
  <1>2. Fits'
    BY FitsFrame DEF IInv
  <1>3. QED
    BY <1>1, <1>2 DEF IInv

\* Nor about how a turn ends, once it has been started.
LEMMA TurnEndsKeeps ==
  ASSUME IInv, NEW k \in Job, TurnEnds(k)
  PROVE  IInv'
  <1> USE DEF TurnEnds, storeVars, worldVars, processVars
  <1>1. Typed'
    BY DEF IInv, Typed
  <1>2. Fits'
    BY FitsFrame DEF IInv
  <1>3. QED
    BY <1>1, <1>2 DEF IInv

\* A lease ends: nobody relies on one that is still live.
LEMMA LeaseEndsKeeps ==
  ASSUME IInv, NEW k \in Job, LeaseEnds(k)
  PROVE  IInv'
  <1> USE DEF LeaseEnds, worldVars, serverVars, processVars
  <1> DEFINE new == [job[k] EXCEPT !.live = FALSE]
  <1>1. Typed /\ Fits /\ job[k] \in JobRecord /\ JobFits(k)
    BY OthersTyped DEF IInv, Fits
  <1>2. new \in JobRecord /\ job' = [job EXCEPT ![k] = new]
    BY <1>1 DEF JobRecord
  <1>3. Typed'
    BY <1>1, <1>2 DEF Typed
  <1>4. Revises(k, new)
    BY <1>1, <1>2 DEF Revises, JobRecord, JobFits
  <1>5. \A j \in Job : Onward(j)
    BY DEF Onward
  <1>6. QED
    BY <1>1, <1>2, <1>3, <1>4, <1>5, JobMoves DEF IInv

\* Authority is lost for ever, and no worker is past the look at it while the
\* Job still waits.
LEMMA LoseAuthorityKeeps ==
  ASSUME IInv, NEW k \in Job, LoseAuthority(k)
  PROVE  IInv'
  <1> USE DEF LoseAuthority, storeVars, serverVars, processVars
  <1>1. Typed'
    BY DEF IInv, Typed
  <1>2. WorkersStay /\ JobsGo /\ \A j \in Job : Onward(j)
    BY DEF WorkersStay, JobsGo, Onward, Unused
  <1>3. Typed /\ Fits /\ JobFits(k) /\ CommandFits(k)
    BY DEF IInv, Fits
  <1>4. /\ granted'[k] = FALSE
        /\ revoked'[k] => job[k] = None \/ job[k].status = "scheduled"
        /\ \A j \in Job \ {k} : granted'[j] = granted[j] /\ revoked'[j] = revoked[j]
    BY <1>3 DEF Typed
  <1>5. \A j \in Job : JobFits(j)' /\ CommandFits(j)'
    <2>1. \A j \in Job \ {k} : JobFits(j)' /\ CommandFits(j)'
      BY <1>2, <1>3, <1>4, QuietJob DEF Fits, Quiet
    <2>2. CommandFits(k)'
      BY <1>3 DEF CommandFits, Unused
    <2>3. JobFits(k)'
      BY <1>3, <1>4 DEF JobFits, Unstarted, Unused
    <2>4. QED
      BY <2>1, <2>2, <2>3
  <1>6. \A v \in Worker : WorkerFits(v)'
    <2>1. SUFFICES ASSUME NEW v \in Worker
                   PROVE  WorkerFits(v)'
      OBVIOUS
    <2>2. WorkerFits(v) /\ (~Unused(v) => worker[v].job \in Job)
      BY <1>3, WorkerTyped DEF Fits
    <2>3. CASE ~Unused(v) => worker[v].job # k
      BY <1>2, <1>3, <1>4, <2>2, <2>3, QuietWorker DEF Quiet
    <2>4. CASE ~Unused(v) /\ worker[v].job = k
      BY <1>4, <2>2, <2>4 DEF WorkerFits, Unstarted, Unused, At, Running
    <2>5. QED
      BY <2>3, <2>4
  <1>7. QED
    BY <1>1, <1>2, <1>3, <1>5, <1>6, FitsTogether DEF IInv

\* A turn/start that arrives late is the one its Job was on the wire for.
LEMMA LateTurnKeeps ==
  ASSUME IInv, NEW k \in Job, LateTurn(k)
  PROVE  IInv'
  <1> USE DEF LateTurn, storeVars, worldVars, processVars, Started
  <1>1. Typed'
    BY DEF IInv, Typed
  <1>2. Typed /\ Fits /\ JobFits(k) /\ CommandFits(k)
    BY DEF IInv, Fits
  <1>3. /\ k \in onWire /\ turns[k] = 0
        /\ k \notin onWire' /\ turns'[k] \in {0, 1}
        /\ \A j \in Job \ {k} : turns'[j] = turns[j] /\ (j \in onWire' <=> j \in onWire)
    BY <1>2 DEF Typed, JobFits
  <1>4. WorkersStay /\ JobsGo /\ \A j \in Job : Onward(j)
    BY <1>3 DEF WorkersStay, JobsGo, Onward, Unused
  <1>5. \A j \in Job : JobFits(j)' /\ CommandFits(j)'
    <2>1. \A j \in Job \ {k} : JobFits(j)' /\ CommandFits(j)'
      BY <1>2, <1>3, <1>4, QuietJob DEF Fits, Quiet
    <2>2. CommandFits(k)'
      BY <1>2 DEF CommandFits, Unused
    <2>3. JobFits(k)'
      BY <1>2, <1>3 DEF JobFits, Unstarted, Unused
    <2>4. QED
      BY <2>1, <2>2, <2>3
  <1>6. \A v \in Worker : WorkerFits(v)'
    <2>1. SUFFICES ASSUME NEW v \in Worker
                   PROVE  WorkerFits(v)'
      OBVIOUS
    <2>2. WorkerFits(v) /\ (~Unused(v) => worker[v].job \in Job)
      BY <1>2, WorkerTyped DEF Fits
    <2>3. CASE ~Unused(v) => worker[v].job # k
      BY <1>2, <1>3, <1>4, <2>2, <2>3, QuietWorker DEF Quiet
    <2>4. CASE ~Unused(v) /\ worker[v].job = k
      BY <1>3, <2>2, <2>4 DEF WorkerFits, Unstarted, Unused, At
    <2>5. QED
      BY <2>3, <2>4
  <1>7. QED
    BY <1>1, <1>2, <1>4, <1>5, <1>6, FitsTogether DEF IInv

-----------------------------------------------------------------------------
(* A Job is made, and its command                                          *)

\* A new Job has neither worker nor turn, and an authority that was never lost.
LEMMA CreateKeeps ==
  ASSUME IInv, NEW k \in Job, Enqueue(k) \/ CommandCreate(k)
  PROVE  IInv'
  <1>1. Typed /\ Fits /\ JobFits(k) /\ CommandFits(k) /\ job[k] = None /\ granted[k]
    BY DEF IInv, Fits, Enqueue, Authorized, CommandCreate
  <1>2. /\ UNCHANGED <<mode, claims, worldVars, serverVars, scheduler, worker, observer, approval>>
        /\ \E status \in {"scheduled", "dispatching"} :
             job' = [job EXCEPT ![k] = NewJob(status)]
             /\ (status = "scheduled" <=> mode[k].scheduled)
        /\ \A j \in Job \ {k} : command'[j] = command[j]
        /\ command' \in [Job -> CommandState]
        /\ command'[k].step \in {"idle", "created"}
        /\ mode[k].scheduled => command'[k].step = "idle"
    <2>1. command[k].step # "idle" => FALSE
      BY <1>1 DEF JobFits
    <2>2. mode[k].scheduled \in BOOLEAN
      BY <1>1, DelegationAssumptions DEF Typed
    <2>3. CASE Enqueue(k)
      BY <1>1, <2>1, <2>2, <2>3 DEF Enqueue, processVars, Typed
    <2>4. CASE CommandCreate(k)
      BY <1>1, <2>2, <2>4 DEF CommandCreate, CommandGoes, Typed, CommandState
    <2>5. QED
      BY <2>3, <2>4
  <1> USE DEF worldVars, serverVars
  <1>3. PICK status \in {"scheduled", "dispatching"} :
          job' = [job EXCEPT ![k] = NewJob(status)] /\ (status = "scheduled" <=> mode[k].scheduled)
    BY <1>2
  <1>4. NewJob(status) \in JobRecord
    BY DEF NewJob, JobRecord, PendingStatus, Claim
  <1>5. /\ job'[k] = NewJob(status) /\ job'[k] # None
        /\ \A j \in Job \ {k} : job'[j] = job[j]
    BY <1>1, <1>3, <1>4, NoneAssumption DEF Typed
  <1>6. Typed'
    BY <1>1, <1>2, <1>3, <1>4 DEF Typed
  <1>7. WorkersStay /\ JobsGo
    BY <1>1, <1>2, <1>5 DEF WorkersStay, JobsGo, Unused
  <1>8. \A j \in Job \ {k} : Quiet(j) /\ Onward(j)
    BY <1>2, <1>5 DEF Quiet, Onward
  <1>9. \A w \in Worker : ~Unused(w) => worker[w].job \in Job \ {k}
    BY <1>1, WorkerTyped DEF Fits, WorkerFits
  <1>10. \A j \in Job : JobFits(j)' /\ CommandFits(j)'
    <2>1. \A j \in Job \ {k} : JobFits(j)' /\ CommandFits(j)'
      BY <1>1, <1>2, <1>7, <1>8, QuietJob DEF Fits
    <2>2. CommandFits(k)'
      BY <1>2 DEF CommandFits
    <2>3. JobFits(k)'
      BY <1>1, <1>2, <1>3, <1>5 DEF JobFits, Unstarted, NewJob
    <2>4. QED
      BY <2>1, <2>2, <2>3
  <1>11. \A v \in Worker : WorkerFits(v)'
    <2>1. SUFFICES ASSUME NEW v \in Worker
                   PROVE  WorkerFits(v)'
      OBVIOUS
    <2>2. WorkerFits(v) /\ worker'[v] = worker[v]
      BY <1>1, <1>2 DEF Fits
    <2>3. QED
      BY <1>2, <1>8, <1>9, <2>2 DEF WorkerFits, Quiet, Onward, Unstarted, Unused, At
  <1>12. QED
    BY <1>1, <1>2, <1>6, <1>7, <1>10, <1>11, FitsTogether DEF IInv

\* The immediate Job of a command, which has not started a worker yet or waits
\* for the one that it has.
LEMMA CommandOnward ==
  ASSUME IInv, NEW k \in Job, ~At(command[k], "idle"),
         NEW to \in CommandState, to.step \in {"queued", "waiting", "failing", "done"},
         to.step = "queued" => At(command[k], "created"),
         to.step = "waiting" => At(command[k], "spawned") /\ to.worker = command[k].worker,
         command' = [command EXCEPT ![k] = to]
  PROVE  /\ Typed /\ Fits /\ JobFits(k) /\ job[k] \in JobRecord /\ job[k] # None
         /\ ~mode[k].scheduled /\ job[k].status # "scheduled"
         /\ command' \in [Job -> CommandState]
         /\ \A j \in Job : Onward(j)
  <1>1. Typed /\ Fits /\ JobFits(k) /\ job[k] # None /\ ~mode[k].scheduled
        /\ job[k].status # "scheduled"
    BY DEF IInv, Fits, JobFits, At
  <1>2. job[k] \in JobRecord /\ command' \in [Job -> CommandState]
    BY <1>1 DEF Typed
  <1>3. command'[k] = to /\ \A j \in Job \ {k} : command'[j] = command[j]
    BY <1>1 DEF Typed
  <1>4. \A j \in Job : Onward(j)
    BY <1>3 DEF Onward, At
  <1>5. QED
    BY <1>1, <1>2, <1>4

\* Only the status changes, of a Job that waits for no claim.
LEMMA StatusRevises ==
  ASSUME Typed, Fits, NEW k \in Job, job[k] # None,
         NEW status \in (PendingStatus \cup EndStatus) \ {"scheduled"},
         status # job[k].status =>
           \A v \in Worker : ~(/\ worker[v].step \in {"ready", "authorized"}
                               /\ worker[v].job = k /\ mode[k].scheduled)
  PROVE  Revises(k, [job[k] EXCEPT !.status = status])
  <1>1. job[k] \in JobRecord /\ JobFits(k)
    BY OthersTyped DEF Fits
  <1>2. QED
    BY <1>1 DEF Revises, JobRecord, JobFits

\* A worker is missing only if it runs no more.
LEMMA ExitedRevises ==
  ASSUME Typed, Fits, NEW k \in Job, job[k] # None
  PROVE  \E new : Revises(k, new) /\ FailedIfExited(k) = [job EXCEPT ![k] = new]
  <1>1. job[k] \in JobRecord /\ JobFits(k)
    BY OthersTyped DEF Fits
  <1>2. Revises(k, job[k]) /\ job = [job EXCEPT ![k] = job[k]]
    BY <1>1 DEF Revises, JobFits, Typed
  <1>3. CASE FailedIfExited(k) = job
    BY <1>2, <1>3
  <1>4. CASE FailedIfExited(k) # job
    <2>1. /\ job[k].status # "scheduled" /\ (job[k].pid # None => IsMissing(job[k].pid))
          /\ FailedIfExited(k) = [job EXCEPT ![k].status = "failed"]
      BY <1>4 DEF FailedIfExited
    <2>2. ASSUME NEW v \in Worker, worker[v].step \in {"ready", "authorized"}, worker[v].job = k
          PROVE  FALSE
      <3>1. job[k].pid = v
        BY <2>2 DEF Fits, WorkerFits, Unused, At, Running
      <3>2. QED
        BY <2>1, <2>2, <3>1, DelegationAssumptions DEF IsMissing, At
    <2>3. "failed" \in (PendingStatus \cup EndStatus) \ {"scheduled"}
      BY DEF EndStatus
    <2>4. Revises(k, [job[k] EXCEPT !.status = "failed"])
      BY <2>2, <2>3, StatusRevises
    <2>5. FailedIfExited(k) = [job EXCEPT ![k] = [job[k] EXCEPT !.status = "failed"]]
      BY <2>1
    <2>6. QED
      BY <2>4, <2>5
  <1>5. QED
    BY <1>3, <1>4

\* Nothing is a revision as well.
LEMMA NothingRevises ==
  ASSUME Typed, Fits, NEW k \in Job, job[k] # None
  PROVE  Revises(k, job[k]) /\ job = [job EXCEPT ![k] = job[k]]
  <1>1. job[k] \in JobRecord /\ JobFits(k)
    BY OthersTyped DEF Fits
  <1>2. QED
    BY <1>1 DEF Revises, JobFits, Typed

\* The steps of a command that write a status or nothing.
LEMMA CommandMovesKeeps ==
  ASSUME IInv, NEW k \in Job,
         CommandQueue(k) \/ CommandReturn(k) \/ CommandThrow(k) \/ CommandFail(k) \/ CommandDies(k)
  PROVE  IInv'
  <1> USE DEF CommandGoes, worldVars, serverVars
  <1>1. PICK to : /\ to \in CommandState /\ to.step \in {"queued", "failing", "done"}
                  /\ to.step = "queued" => At(command[k], "created")
                  /\ ~At(command[k], "idle")
                  /\ command' = [command EXCEPT ![k] = to]
    BY DEF CommandQueue, CommandReturn, CommandThrow, CommandFail, CommandDies, CommandState, At
  <1>2. /\ Typed /\ Fits /\ JobFits(k) /\ job[k] # None
        /\ ~mode[k].scheduled /\ job[k].status # "scheduled"
        /\ command' \in [Job -> CommandState]
        /\ \A j \in Job : Onward(j)
    BY <1>1, CommandOnward
  <1>3. UNCHANGED <<mode, claims, worldVars, serverVars, scheduler, worker, observer, approval>>
    BY DEF CommandQueue, CommandReturn, CommandThrow, CommandFail, CommandDies
  <1>4. \E new : Revises(k, new) /\ job' = [job EXCEPT ![k] = new]
    <2>1. CASE CommandQueue(k) \/ CommandFail(k)
      <3>1. PICK status \in {"queued", "failed"} :
              job' = [job EXCEPT ![k] = [job[k] EXCEPT !.status = status]]
        BY <2>1 DEF CommandQueue, CommandFail
      <3>2. status \in (PendingStatus \cup EndStatus) \ {"scheduled"}
        BY DEF PendingStatus, EndStatus
      <3>3. QED
        BY <1>2, <3>1, <3>2, StatusRevises
    <2>2. CASE CommandReturn(k)
      BY <1>2, <2>2, ExitedRevises DEF CommandReturn
    <2>3. CASE CommandThrow(k) \/ CommandDies(k)
      BY <1>2, <2>3, NothingRevises DEF CommandThrow, CommandDies
    <2>4. QED
      BY <2>1, <2>2, <2>3
  <1>5. PICK new : Revises(k, new) /\ job' = [job EXCEPT ![k] = new]
    BY <1>4
  <1>6. Typed'
    BY <1>2, <1>3, <1>5 DEF Typed, Revises
  <1>7. QED
    BY <1>2, <1>3, <1>5, <1>6, JobMoves DEF IInv

\* The process id that the command writes is the one its worker writes.
LEMMA CommandRegisterKeeps ==
  ASSUME IInv, NEW k \in Job, CommandRegister(k)
  PROVE  IInv'
  <1> USE DEF CommandRegister, CommandGoes, worldVars, serverVars
  <1> DEFINE w == command[k].worker
             to == [step |-> "waiting", worker |-> w]
             new == [job[k] EXCEPT !.pid = w]
  <1>1. w \in Worker /\ to \in CommandState
    BY OthersTyped DEF IInv, At, CommandState
  <1>2. /\ Typed /\ Fits /\ JobFits(k) /\ CommandFits(k) /\ job[k] \in JobRecord
        /\ job[k] # None
        /\ ~mode[k].scheduled /\ job[k].status # "scheduled"
        /\ command' \in [Job -> CommandState]
        /\ \A j \in Job : Onward(j)
    BY <1>1, CommandOnward DEF At, Fits
  <1>3. new \in JobRecord /\ job' = [job EXCEPT ![k] = new]
    BY <1>1, <1>2 DEF JobRecord
  <1>4. Typed'
    BY <1>2, <1>3 DEF Typed
  <1>5. job'[k] = new /\ job'[k] # None /\ \A j \in Job \ {k} : job'[j] = job[j]
    BY <1>2, <1>3, NoneAssumption DEF Typed
  <1>6. WorkersStay /\ JobsGo
    BY <1>2, <1>3, <1>5 DEF WorkersStay, JobsGo, Unused, JobRecord
  <1>7. \A j \in Job \ {k} : Quiet(j)
    BY <1>5 DEF Quiet
  <1>8. \A j \in Job : JobFits(j)' /\ CommandFits(j)'
    <2>1. \A j \in Job \ {k} : JobFits(j)' /\ CommandFits(j)'
      BY <1>2, <1>6, <1>7, QuietJob DEF Fits
    <2>2. CommandFits(k)'
      BY <1>2, <1>6 DEF CommandFits, WorkersStay, Onward
    <2>3. command'[k] = to
      BY <1>2 DEF Typed
    <2>4. ~Unused(w) /\ worker[w].job = k
      BY <1>2 DEF JobFits, At
    <2>5. JobFits(k)'
      BY <1>1, <1>2, <1>3, <1>5, <2>3, <2>4 DEF JobFits, Unstarted, JobRecord, Unused
    <2>6. QED
      BY <2>1, <2>2, <2>5
  <1>9. \A v \in Worker : WorkerFits(v)'
    <2>1. SUFFICES ASSUME NEW v \in Worker
                   PROVE  WorkerFits(v)'
      OBVIOUS
    <2>2. WorkerFits(v) /\ (~Unused(v) => worker[v].job \in Job)
      BY <1>2, WorkerTyped DEF Fits
    <2>3. CASE ~Unused(v) => worker[v].job # k
      BY <1>2, <1>7, <2>2, <2>3, QuietWorker
    <2>4. CASE ~Unused(v) /\ worker[v].job = k
      <3>1. v = w
        BY <1>2, <2>4 DEF CommandFits, At
      <3>2. QED
        BY <1>2, <1>3, <1>5, <2>2, <2>4, <3>1
           DEF WorkerFits, Onward, Unstarted, Unused, At, JobRecord
    <2>5. QED
      BY <2>3, <2>4
  <1>10. QED
    BY <1>2, <1>4, <1>6, <1>8, <1>9, FitsTogether DEF IInv

-----------------------------------------------------------------------------
(* A worker is started                                                     *)

\* By the command of an immediate Job, for which there is none yet, or by a
\* scheduler that has claimed a Job.
LEMMA SpawnKeeps ==
  ASSUME IInv, NEW k \in Job, NEW w \in Worker, NEW claim \in Claim,
         Unused(w), Spawned(w, k, claim), job[k] # None,
         \/ mode[k].scheduled /\ UNCHANGED command
         \/ At(command[k], "queued")
            /\ command' = [command EXCEPT ![k] = [step |-> "spawned", worker |-> w]],
         \A s \in Scheduler : scheduler'[s] = scheduler[s] \/ scheduler'[s] = Idle,
         scheduler' \in [Scheduler -> SchedulerState],
         UNCHANGED <<mode, job, claims, worldVars, serverVars, observer, approval>>
  PROVE  IInv'
  <1> USE DEF Spawned, worldVars, serverVars
  <1>1. Typed /\ Fits /\ JobFits(k) /\ CommandFits(k) /\ job[k] \in JobRecord
    BY OthersTyped DEF IInv, Fits
  <1>2. /\ worker'[w] = [step |-> "spawned", job |-> k, claim |-> claim]
        /\ \A v \in Worker \ {w} : worker'[v] = worker[v]
        /\ worker' \in [Worker -> WorkerState]
    BY <1>1 DEF Typed, WorkerState
  <1>3. /\ \A j \in Job \ {k} : command'[j] = command[j]
        /\ command' \in [Job -> CommandState]
    BY <1>1 DEF Typed, CommandState
  <1>4. Typed'
    BY <1>1, <1>2, <1>3 DEF Typed
  <1>5. JobsGo
    BY DEF JobsGo
  <1>6. ~mode[k].scheduled => /\ \A v \in Worker : ~Unused(v) => worker[v].job # k
                              /\ command'[k] = [step |-> "spawned", worker |-> w]
                              /\ At(command[k], "queued")
    BY <1>1 DEF Fits, WorkerFits, Typed, At
  <1>7. At(command[k], "queued") => ~mode[k].scheduled
    BY <1>1 DEF JobFits, At
  <1>8. \A v \in Worker : ~Unused(v) => v # w /\ worker[v].job \in Job
    BY <1>1, WorkerTyped
  <1>9. \A v \in Worker : ~Unused(v)' => v = w \/ ~Unused(v)
    BY <1>2 DEF Unused
  <1>10. \A j \in Job : JobFits(j)' /\ CommandFits(j)'
    <2>1. SUFFICES ASSUME NEW j \in Job
                   PROVE  JobFits(j)' /\ CommandFits(j)'
      OBVIOUS
    <2>2. JobFits(j) /\ CommandFits(j)
      BY <1>1 DEF Fits
    <2>3. CASE j # k
      <3>1. command[j].step \in {"spawned", "waiting"} => command[j].worker \in Worker \ {w}
        BY <1>1, <1>8, <2>2, OthersTyped DEF JobFits
      <3>2. JobFits(j)'
        BY <1>2, <1>3, <2>2, <2>3, <3>1 DEF JobFits, Unstarted, Unused, At
      <3>3. CommandFits(j)'
        BY <1>2, <1>3, <1>9, <2>2, <2>3 DEF CommandFits, Unused, At
      <3>4. QED
        BY <3>2, <3>3
    <2>4. CASE j = k /\ mode[k].scheduled
      <3>1. UNCHANGED command
        BY <1>7, <2>4
      <3>2. command[k].step = "idle"
        BY <1>1, <2>4 DEF JobFits
      <3>3. QED
        BY <1>1, <2>4, <3>1, <3>2 DEF JobFits, CommandFits, Unstarted
    <2>5. CASE j = k /\ ~mode[k].scheduled
      <3>1. CommandFits(k)'
        BY <1>2, <1>6, <1>9, <2>5 DEF CommandFits, Unused, At
      <3>2. JobFits(k)'
        BY <1>1, <1>2, <1>6, <2>5 DEF JobFits, Unstarted, Unused, At
      <3>3. QED
        BY <2>5, <3>1, <3>2
    <2>6. QED
      BY <2>3, <2>4, <2>5
  <1>11. \A v \in Worker : WorkerFits(v)'
    <2>1. SUFFICES ASSUME NEW v \in Worker
                   PROVE  WorkerFits(v)'
      OBVIOUS
    <2>2. CASE v = w
      <3>1. mode[k].scheduled \/ Unstarted(k)'
        BY <1>1 DEF JobFits, Unstarted, At
      <3>2. QED
        BY <1>2, <1>6, <2>2, <3>1 DEF WorkerFits, Running, Unused, At
    <2>3. CASE v # w
      <3>1. WorkerFits(v) /\ worker'[v] = worker[v]
        BY <1>1, <1>2, <2>3 DEF Fits
      <3>2. \A j \in Job : command[j].step \notin {"idle", "created", "queued"} =>
                             command'[j].step \notin {"idle", "created", "queued"}
        BY <1>3, <1>7 DEF At
      <3>3. QED
        BY <1>8, <3>1, <3>2 DEF WorkerFits, Unstarted, Unused, At
    <2>4. QED
      BY <2>2, <2>3
  <1>12. Lone'
    BY <1>1, <1>2, <1>6, <1>8, <1>9 DEF Fits, Lone, Unused, At
  <1>13. \A s \in Scheduler : SchedulerFits(s)'
    BY <1>1, <1>5, QuietScheduler DEF Fits, SchedulerFits, Idle, At
  <1>14. \A o \in Observer : ObserverFits(o)'
    BY <1>1, <1>5, QuietObserver DEF Fits
  <1>15. \A r \in Request : ApprovalFits(r)'
    <2>1. SUFFICES ASSUME NEW r \in Request, ~At(approval[r], "unasked")
                   PROVE  ApprovalFits(r)'
      BY DEF ApprovalFits
    <2>2. approval[r].worker \in Worker /\ ~Unused(approval[r].worker) /\ ApprovalFits(r)
      BY <1>1, <2>1, ApprovalTyped DEF Fits, ApprovalFits
    <2>3. worker'[approval[r].worker] = worker[approval[r].worker]
      BY <1>2, <1>8, <2>2
    <2>4. QED
      BY <2>2, <2>3 DEF ApprovalFits, JobOf, Unused
  <1>16. QED
    BY <1>4, <1>10, <1>11, <1>12, <1>13, <1>14, <1>15 DEF IInv, Fits

\* The worker of an immediate Job, started by its command.
LEMMA CommandSpawnKeeps ==
  ASSUME IInv, NEW k \in Job, NEW w \in Worker, CommandSpawn(k, w)
  PROVE  IInv'
  <1> USE DEF CommandSpawn, CommandGoes
  <1>1. job[k] # None
    BY DEF IInv, Fits, JobFits, At
  <1>2. None \in Claim
    BY DEF Claim
  <1>3. scheduler' \in [Scheduler -> SchedulerState]
    BY DEF IInv, Typed
  <1>4. QED
    BY <1>1, <1>2, <1>3, SpawnKeeps

\* Of a scheduled Job, started by a scheduler.
LEMMA SchedulerSpawnKeeps ==
  ASSUME IInv, NEW s \in Scheduler, NEW w \in Worker, SchedulerSpawn(s, w)
  PROVE  IInv'
  <1> USE DEF SchedulerSpawn, SchedulerGoes
  <1> DEFINE k == scheduler[s].job
  <1>1. k \in Job /\ scheduler[s].claim \in Claim
    BY SchedulerTyped DEF IInv, At
  <1>2. job[k] # None /\ mode[k].scheduled
    BY DEF IInv, Fits, SchedulerFits, At
  <1>3. scheduler' \in [Scheduler -> SchedulerState] /\ Idle \in SchedulerState
    BY DEF IInv, Typed, SchedulerState, Idle
  <1>4. \A t \in Scheduler : scheduler'[t] = scheduler[t] \/ scheduler'[t] = Idle
    BY DEF IInv, Typed
  <1>5. QED
    BY <1>1, <1>2, <1>3, <1>4, SpawnKeeps

-----------------------------------------------------------------------------
(* The scheduler                                                           *)

\* A scheduler goes on with the Job it has, or takes up a scheduled one.
LEMMA SchedulerMoves ==
  ASSUME IInv, NEW s \in Scheduler, NEW k \in Job, job[k] # None, mode[k].scheduled,
         NEW to \in SchedulerState, to.step = "idle" \/ to.job = k,
         scheduler' = [scheduler EXCEPT ![s] = to],
         NEW new, Revises(k, new), job' = [job EXCEPT ![k] = new],
         claims' \in [Job -> 0..MaxClaims],
         UNCHANGED <<mode, worldVars, serverVars, command, worker, observer, approval>>
  PROVE  IInv'
  <1> USE DEF worldVars, serverVars
  <1>1. Typed'
    BY DEF IInv, Typed, Revises
  <1>2. \A j \in Job : Onward(j)
    BY DEF Onward
  <1>3. job'[k] # None
    BY NoneAssumption DEF IInv, Typed, Revises
  <1>4. scheduler'[s] = to /\ \A t \in Scheduler \ {s} : scheduler'[t] = scheduler[t]
    BY DEF IInv, Typed
  <1>5. SchedulerFits(s)'
    BY <1>3, <1>4 DEF SchedulerFits, At
  <1>6. QED
    BY <1>1, <1>2, <1>4, <1>5, JobMoves DEF IInv

\* A Job that waits for a claim has nobody who counts on what a scheduler may
\* write.
LEMMA WaitingRevises ==
  ASSUME IInv, NEW k \in Job, job[k] # None, job[k].status = "scheduled",
         NEW new \in JobRecord,
         new.pid = job[k].pid, new.evidence = job[k].evidence, new.turnId = job[k].turnId,
         new.result = job[k].result,
         new.live => new.claim # None
  PROVE  Revises(k, new)
  <1>1. JobFits(k) /\ \A v \in Worker : WorkerFits(v)
    BY DEF IInv, Fits
  <1>2. \A v \in Worker : worker[v].step \in {"ready", "authorized"} => worker[v].job # k
    BY <1>1 DEF WorkerFits, Running, Unused, At
  <1>3. QED
    BY <1>1, <1>2 DEF Revises, JobFits

\* A scheduler takes up a Job, gives it up, looks at it again, or dies.
LEMMA SchedulerTurnsKeeps ==
  ASSUME IInv, NEW s \in Scheduler,
         \/ \E k \in Job : SchedulerPick(s, k)
         \/ SchedulerCheckAgain(s) \/ SchedulerYield(s) \/ SchedulerDies(s)
  PROVE  IInv'
  <1> USE DEF SchedulerGoes, Refusing, Idle, At
  <1>1. Typed /\ Fits
    BY DEF IInv
  <1>2. PICK k \in Job, to \in SchedulerState :
          /\ job[k] # None /\ mode[k].scheduled /\ (to.step = "idle" \/ to.job = k)
          /\ scheduler' = [scheduler EXCEPT ![s] = to]
    <2>1. CASE \E k \in Job : SchedulerPick(s, k)
      <3>1. PICK k \in Job : SchedulerPick(s, k)
        BY <2>1
      <3>2. job[k] # None /\ mode[k].scheduled
        BY <1>1, <3>1 DEF SchedulerPick, Fits, JobFits
      <3>3. /\ [step |-> "claiming", job |-> k] \in SchedulerState
            /\ [step |-> "refusing", job |-> k, status |-> "expired"] \in SchedulerState
            /\ [step |-> "refusing", job |-> k, status |-> "failed"] \in SchedulerState
        BY DEF SchedulerState
      <3>4. QED
        BY <3>1, <3>2, <3>3 DEF SchedulerPick
    <2>2. CASE scheduler[s].step # "idle" /\ ~\E k \in Job : SchedulerPick(s, k)
      <3> DEFINE k == scheduler[s].job
      <3>1. k \in Job /\ job[k] # None /\ mode[k].scheduled
        BY <1>1, <2>2, SchedulerTyped DEF Fits, SchedulerFits
      <3>2. CASE SchedulerDies(s)
        <4>1. Idle \in SchedulerState
          BY DEF SchedulerState
        <4>2. QED
          BY <3>1, <3>2, <4>1 DEF SchedulerDies
      <3>3. CASE SchedulerYield(s)
        <4>1. scheduler[s] \in [step : {"claimed", "spawning", "yielding"}, job : Job, claim : Claim]
          BY <1>1, <3>3, SchedulerTyped DEF SchedulerYield
        <4>2. [scheduler[s] EXCEPT !.step = "yielding"] \in SchedulerState
              /\ [scheduler[s] EXCEPT !.step = "yielding"].job = k
          BY <4>1 DEF SchedulerState
        <4>3. QED
          BY <3>1, <3>3, <4>2 DEF SchedulerYield
      <3>4. CASE SchedulerCheckAgain(s)
        <4>1. scheduler[s] \in [step : {"claimed", "spawning", "yielding"}, job : Job, claim : Claim]
          BY <1>1, <3>4, SchedulerTyped DEF SchedulerCheckAgain
        <4>2. [scheduler[s] EXCEPT !.step = "spawning"] \in SchedulerState
              /\ [scheduler[s] EXCEPT !.step = "spawning"].job = k
          BY <4>1 DEF SchedulerState
        <4>3. \A status \in {"expired", "failed"} :
                [step |-> "releasing", job |-> k, claim |-> scheduler[s].claim, status |-> status]
                  \in SchedulerState
          BY <4>1 DEF SchedulerState
        <4>4. QED
          BY <3>1, <3>4, <4>2, <4>3 DEF SchedulerCheckAgain
      <3>5. QED
        BY <2>2, <3>2, <3>3, <3>4
    <2>3. QED
      BY <2>1, <2>2 DEF SchedulerCheckAgain, SchedulerYield, SchedulerDies
  <1>3. UNCHANGED <<mode, job, claims, worldVars, serverVars, command, worker, observer, approval>>
    BY DEF SchedulerPick, SchedulerCheckAgain, SchedulerYield, SchedulerDies
  <1>4. claims' \in [Job -> 0..MaxClaims]
    BY <1>1, <1>3 DEF Typed
  <1>5. Revises(k, job[k]) /\ job' = [job EXCEPT ![k] = job[k]]
    BY <1>1, <1>2, <1>3, NothingRevises
  <1>6. QED
    BY <1>2, <1>3, <1>4, <1>5, SchedulerMoves

\* It refuses a Job, or releases it, if the Job still waits.
LEMMA SchedulerWritesKeeps ==
  ASSUME IInv, NEW s \in Scheduler, SchedulerRefuse(s) \/ SchedulerRelease(s)
  PROVE  IInv'
  <1> USE DEF SchedulerGoes, Refusing, Idle, At
  <1> DEFINE k == scheduler[s].job
  <1>1. Typed /\ Fits
    BY DEF IInv
  <1>2. scheduler[s].step \in {"refusing", "releasing", "yielding"}
    BY DEF SchedulerRefuse, SchedulerRelease
  <1>3. k \in Job /\ job[k] # None /\ mode[k].scheduled /\ JobFits(k) /\ job[k] \in JobRecord
    BY <1>1, <1>2, SchedulerTyped, OthersTyped DEF Fits, SchedulerFits
  <1>4. PICK to \in SchedulerState : /\ to.step = "idle" \/ to.job = k
                                     /\ scheduler' = [scheduler EXCEPT ![s] = to]
    <2>1. Idle \in SchedulerState
      BY DEF SchedulerState
    <2>2. scheduler[s].step = "releasing" =>
            [step |-> "refusing", job |-> k, status |-> scheduler[s].status] \in SchedulerState
      BY <1>1, <1>3, SchedulerTyped DEF SchedulerState
    <2>3. CASE SchedulerRefuse(s)
      BY <2>1, <2>3 DEF SchedulerRefuse
    <2>4. CASE SchedulerRelease(s)
      BY <2>1, <2>2, <2>4 DEF SchedulerRelease
    <2>5. QED
      BY <2>3, <2>4
  <1>5. UNCHANGED <<mode, claims, worldVars, serverVars, command, worker, observer, approval>>
    BY DEF SchedulerRefuse, SchedulerRelease
  <1>6. PICK new : Revises(k, new) /\ job' = [job EXCEPT ![k] = new]
    <2>1. CASE job' = job
      BY <1>1, <1>3, <2>1, NothingRevises
    <2>2. CASE SchedulerRefuse(s) /\ job' # job
      <3> DEFINE new == [job[k] EXCEPT !.status = scheduler[s].status]
      <3>1. job[k].status = "scheduled" /\ job' = [job EXCEPT ![k] = new]
        BY <2>2 DEF SchedulerRefuse
      <3>2. scheduler[s].status \in {"expired", "failed"}
        BY <1>1, <2>2, SchedulerTyped DEF SchedulerRefuse
      <3>3. /\ new \in JobRecord
            /\ new.pid = job[k].pid /\ new.evidence = job[k].evidence
            /\ new.turnId = job[k].turnId /\ new.result = job[k].result
            /\ new.live = job[k].live /\ new.claim = job[k].claim
        BY <1>3, <3>2 DEF JobRecord, EndStatus
      <3>4. Revises(k, new)
        BY <1>3, <3>1, <3>3, WaitingRevises DEF JobFits
      <3>5. QED
        BY <3>1, <3>4
    <2>3. CASE SchedulerRelease(s) /\ job' # job
      <3> DEFINE new == [job[k] EXCEPT !.claim = None, !.live = FALSE]
      <3>1. job[k].status = "scheduled" /\ job' = [job EXCEPT ![k] = new]
        BY <2>3 DEF SchedulerRelease, Released
      <3>2. /\ new \in JobRecord
            /\ new.pid = job[k].pid /\ new.evidence = job[k].evidence
            /\ new.turnId = job[k].turnId /\ new.result = job[k].result
            /\ ~new.live
        BY <1>3 DEF JobRecord, Claim
      <3>3. Revises(k, new)
        BY <1>3, <3>1, <3>2, WaitingRevises
      <3>4. QED
        BY <3>1, <3>3
    <2>4. QED
      BY <2>1, <2>2, <2>3
  <1>7. claims' \in [Job -> 0..MaxClaims]
    BY <1>1, <1>5 DEF Typed
  <1>8. QED
    BY <1>3, <1>4, <1>5, <1>6, <1>7, SchedulerMoves

\* It claims the Job, or finds that somebody has or that it has expired.
LEMMA SchedulerClaimKeeps ==
  ASSUME IInv, NEW s \in Scheduler, SchedulerClaim(s)
  PROVE  IInv'
  <1> USE DEF SchedulerGoes, Idle, At
  <1> DEFINE k == scheduler[s].job
  <1>1. Typed /\ Fits /\ Idle \in SchedulerState
    BY DEF IInv, SchedulerState
  <1>2. k \in Job /\ job[k] # None /\ mode[k].scheduled /\ JobFits(k) /\ job[k] \in JobRecord
    BY <1>1, SchedulerTyped, OthersTyped DEF Fits, SchedulerFits, SchedulerClaim
  <1>3. UNCHANGED <<mode, worldVars, serverVars, command, worker, observer, approval>>
    BY DEF SchedulerClaim
  <1>4. CASE scheduler' = [scheduler EXCEPT ![s] = Idle] /\ UNCHANGED <<job, claims>>
    <2>1. Revises(k, job[k]) /\ job' = [job EXCEPT ![k] = job[k]]
      BY <1>1, <1>2, <1>4, NothingRevises
    <2>2. claims' \in [Job -> 0..MaxClaims]
      BY <1>1, <1>4 DEF Typed
    <2>3. QED
      BY <1>1, <1>2, <1>3, <1>4, <2>1, <2>2, SchedulerMoves
  <1>5. CASE /\ job[k].status = "scheduled" /\ UNCHANGED claims
             /\ scheduler' = [scheduler EXCEPT ![s] = Idle]
             /\ job' = [job EXCEPT ![k].status = "expired"]
    <2> DEFINE new == [job[k] EXCEPT !.status = "expired"]
    <2>1. /\ new \in JobRecord
          /\ new.pid = job[k].pid /\ new.evidence = job[k].evidence
          /\ new.turnId = job[k].turnId /\ new.result = job[k].result
          /\ new.live = job[k].live /\ new.claim = job[k].claim
      BY <1>2 DEF JobRecord, EndStatus
    <2>2. Revises(k, new) /\ job' = [job EXCEPT ![k] = new]
      BY <1>2, <1>5, <2>1, WaitingRevises DEF JobFits
    <2>3. claims' \in [Job -> 0..MaxClaims]
      BY <1>1, <1>5 DEF Typed
    <2>4. QED
      BY <1>1, <1>2, <1>3, <1>5, <2>2, <2>3, SchedulerMoves
  <1>6. CASE /\ job[k].status = "scheduled" /\ claims[k] < MaxClaims
             /\ claims' = [claims EXCEPT ![k] = @ + 1]
             /\ job' = [job EXCEPT ![k].claim = claims'[k], ![k].live = TRUE]
             /\ scheduler' = [scheduler EXCEPT
                  ![s] = [step |-> "claimed", job |-> k, claim |-> claims'[k]]]
    <2> DEFINE c == claims'[k]
               new == [job[k] EXCEPT !.claim = c, !.live = TRUE]
               to == [step |-> "claimed", job |-> k, claim |-> c]
    <2>1. c \in 1..MaxClaims /\ claims' \in [Job -> 0..MaxClaims]
      BY <1>1, <1>2, <1>6, DelegationAssumptions DEF Typed
    <2>2. c # None /\ c \in Claim
      BY <2>1, DelegationAssumptions DEF Claim
    <2> HIDE DEF c
    <2>3. /\ new \in JobRecord
          /\ new.pid = job[k].pid /\ new.evidence = job[k].evidence
          /\ new.turnId = job[k].turnId /\ new.result = job[k].result
          /\ new.live /\ new.claim # None
      BY <1>2, <2>2 DEF JobRecord
    <2>4. job' = [job EXCEPT ![k] = new]
      <3>1. job' = [job EXCEPT ![k].claim = c, ![k].live = TRUE]
        BY <1>6 DEF c
      <3>2. QED
        BY <3>1
    <2>5. Revises(k, new)
      BY <1>2, <1>6, <2>3, WaitingRevises
    <2>6. to \in SchedulerState /\ to.job = k
      BY <1>2, <2>2 DEF SchedulerState
    <2>7. scheduler' = [scheduler EXCEPT ![s] = to]
      BY <1>6 DEF c
    <2>8. QED
      BY <1>2, <1>3, <2>1, <2>4, <2>5, <2>6, <2>7, SchedulerMoves
  <1>7. QED
    BY <1>4, <1>5, <1>6 DEF SchedulerClaim

-----------------------------------------------------------------------------
(* The worker                                                              *)

\* No turn after the step.
Restful(k) == turns'[k] = 0 /\ k \notin onWire'

\* Nothing happens to the turns of other Jobs.
OthersRest(k) ==
  \A j \in Job \ {k} : turns'[j] = turns[j] /\ (j \in onWire' <=> j \in onWire)

\* A turn that was started was.
TurnStays(k) == turns[k] > 0 => turns'[k] > 0

\* What a worker writes of its Job, next to what it does to App Server.
Sound(k, new) ==
  /\ new \in JobRecord
  /\ turns'[k] <= 1 /\ (k \in onWire' => turns'[k] = 0)
  /\ new.live => new.claim # None
  /\ new.evidence = "false" => Restful(k)
  /\ new.evidence = "true" => turns'[k] > 0
  /\ new.turnId => turns'[k] > 0
  /\ new.result # None => new.turnId
  /\ new.status = "scheduled" => job[k].status = "scheduled" /\ new.pid = None /\ Restful(k)
  /\ revoked[k] => Restful(k)

\* A worker has a Job, as the invariant describes it.
LEMMA WorkerHasJob ==
  ASSUME IInv, NEW w \in Worker, ~Unused(w)
  PROVE  /\ Typed /\ Fits /\ worker[w].job \in Job /\ job[worker[w].job] # None
         /\ job[worker[w].job] \in JobRecord
         /\ JobFits(worker[w].job) /\ WorkerFits(w)
  <1>1. Typed /\ Fits /\ worker[w].job \in Job
    BY WorkerTyped DEF IInv
  <1>2. job[worker[w].job] # None
    BY DEF IInv, Fits, WorkerFits
  <1>3. QED
    BY <1>1, <1>2, OthersTyped DEF Fits

\* A worker goes on and writes its Job.
LEMMA WorkerSteps ==
  ASSUME IInv, NEW w \in Worker, ~Unused(w),
         NEW to \in WorkerState, to.step # "idle", to.job = worker[w].job,
         worker' = [worker EXCEPT ![w] = to],
         NEW new, Sound(worker[w].job, new), job' = [job EXCEPT ![worker[w].job] = new],
         UNCHANGED <<mode, claims, worldVars, command, scheduler, observer>>,
         approval' \in [Request -> ApprovalState],
         \A r \in Request : approval'[r] = approval[r] \/ ApprovalFits(r)',
         turn' \in [Job -> {"none", "active", "completed", "failed"}],
         turns' \in [Job -> Nat], onWire' \subseteq Job,
         OthersRest(worker[w].job),
         job[worker[w].job].turnId => new.turnId,
         TurnStays(worker[w].job),
         Alone(w) \/ (new = job[worker[w].job] /\ UNCHANGED <<turns, onWire>>),
         worker'[w] = to /\ job'[worker[w].job] = new => WorkerFits(w)'
  PROVE  IInv'
  <1> USE DEF worldVars
  <1> DEFINE k == worker[w].job
  <1>1. Typed /\ Fits /\ k \in Job /\ job[k] # None /\ job[k] \in JobRecord /\ JobFits(k)
        /\ WorkerFits(w)
    BY WorkerHasJob
  <1>2. new \in JobRecord /\ new # None
    BY NoneAssumption DEF Sound
  <1>3. Typed'
    BY <1>1, <1>2 DEF Typed
  <1>4. worker'[w] = to /\ \A v \in Worker \ {w} : worker'[v] = worker[v]
    BY <1>1 DEF Typed
  <1>5. job'[k] = new /\ \A j \in Job \ {k} : job'[j] = job[j]
    BY <1>1 DEF Typed
  <1>6. ~Unused(w)' /\ worker'[w].job = k
    BY <1>4 DEF Unused, At
  <1>7. WorkerFits(w)'
    BY <1>4, <1>5
  <1>8. \A j \in Job \ {k} : Quiet(j)
    BY <1>5 DEF Quiet, OthersRest
  <1>9. Alone(w) \/ Quiet(k)
    BY <1>5 DEF Quiet
  <1>10. JobFits(k)'
    <2>1. command[k].step \in {"spawned", "waiting"} =>
            command[k].worker \in Worker /\ ~Unused(command[k].worker)'
            /\ worker'[command[k].worker].job = k
      BY <1>1, <1>4, <1>6, OthersTyped DEF JobFits, Unused
    <2>2. command[k].step \notin {"created", "queued"}
      BY <1>1 DEF JobFits, WorkerFits
    <2>3. QED
      BY <1>1, <1>2, <1>5, <2>1, <2>2 DEF JobFits, Sound, Unstarted, Restful
  <1>11. /\ job'[k] # None
         /\ job[k].turnId => job'[k].turnId
    BY <1>2, <1>5
  <1>12. turns[k] > 0 => turns'[k] > 0
    BY DEF TurnStays
  <1>13. QED
    BY <1>1, <1>3, <1>4, <1>6, <1>7, <1>8, <1>9, <1>10, <1>11, <1>12, WorkerMoves DEF IInv

\* A worker goes on and writes nothing.
LEMMA WorkerTurns ==
  ASSUME IInv, NEW w \in Worker, ~Unused(w),
         NEW to \in WorkerState, to.step # "idle", to.job = worker[w].job,
         worker' = [worker EXCEPT ![w] = to],
         UNCHANGED <<mode, job, claims, worldVars, command, scheduler, observer, approval,
                     serverVars>>,
         worker'[w] = to => WorkerFits(w)'
  PROVE  IInv'
  <1> USE DEF serverVars
  <1> DEFINE k == worker[w].job
  <1>1. Typed /\ Fits /\ k \in Job /\ job[k] # None /\ job[k] \in JobRecord /\ JobFits(k)
    BY WorkerHasJob
  <1>2. Sound(k, job[k])
    BY <1>1 DEF Sound, Restful, JobFits, Unstarted
  <1>3. job' = [job EXCEPT ![k] = job[k]]
    BY <1>1 DEF Typed
  <1>4. /\ approval' \in [Request -> ApprovalState]
        /\ turn' \in [Job -> {"none", "active", "completed", "failed"}]
        /\ turns' \in [Job -> Nat] /\ onWire' \subseteq Job
    BY <1>1 DEF Typed
  <1>5. QED
    BY <1>1, <1>2, <1>3, <1>4, WorkerSteps DEF OthersRest, TurnStays

\* The steps of a worker that only look.
LEMMA WorkerTurnsKeeps ==
  ASSUME IInv, NEW w \in Worker,
         WorkerCall(w) \/ WorkerAuthorize(w) \/ WorkerLook(w) \/ WorkerTrouble(w) \/ WorkerFail(w)
  PROVE  IInv'
  <1> USE DEF WorkerGoes, To, Failing, At
  <1> DEFINE k == worker[w].job
  <1>1. ~Unused(w)
    BY DEF WorkerCall, WorkerAuthorize, WorkerLook, WorkerTrouble, WorkerFail, Unused
  <1>2. Typed /\ Fits /\ k \in Job /\ job[k] # None /\ job[k] \in JobRecord /\ JobFits(k)
        /\ WorkerFits(w)
    BY <1>1, WorkerHasJob
  <1>3. UNCHANGED <<mode, job, claims, worldVars, command, scheduler, observer, approval,
                    serverVars>>
    BY DEF WorkerCall, WorkerAuthorize, WorkerLook, WorkerTrouble, WorkerFail
  <1>4. CASE WorkerCall(w)
    <2>1. worker[w] \in [step : {"spawned", "activating"}, job : Job, claim : Claim]
      BY <1>2, <1>4, WorkerTyped DEF WorkerCall
    <2>2. PICK step \in {"activating", "exited"} :
            worker' = [worker EXCEPT ![w] = [worker[w] EXCEPT !.step = step]]
      BY <1>4 DEF WorkerCall
    <2> DEFINE to == [worker[w] EXCEPT !.step = step]
    <2>3. to \in WorkerState /\ to.step = step /\ to.job = k
      BY <2>1 DEF WorkerState
    <2>4. worker'[w] = to => WorkerFits(w)'
      BY <1>1, <1>2, <1>3, <1>4, <2>3 DEF WorkerCall, WorkerFits, Unstarted, Unused, Running,
         worldVars, serverVars
    <2>5. QED
      BY <1>1, <1>3, <2>2, <2>3, <2>4, WorkerTurns
  <1>5. CASE WorkerAuthorize(w)
    <2>1. PICK to \in {To(w, "authorized"), Failing(w, "untried")} :
            /\ worker' = [worker EXCEPT ![w] = to]
            /\ to.step = "authorized" => granted[k]
      BY <1>5 DEF WorkerAuthorize, Authorized
    <2>2. to \in WorkerState /\ to.step # "idle" /\ to.job = k
      BY <1>2, <2>1 DEF WorkerState
    <2>3. worker'[w] = to => WorkerFits(w)'
      BY <1>1, <1>2, <1>3, <1>5, <2>1 DEF WorkerAuthorize, WorkerFits, JobFits, Unstarted,
         Unused, Running, worldVars, serverVars
    <2>4. QED
      BY <1>1, <1>3, <2>1, <2>2, <2>3, WorkerTurns
  <1>6. CASE WorkerLook(w)
    <2>1. CASE ~IsPending(k) /\ WorkerGoes(w, "watching", To(w, "exited"))
      <3> DEFINE to == To(w, "exited")
      <3>1. to \in WorkerState /\ to.step # "idle" /\ to.job = k
        BY <1>2 DEF WorkerState
      <3>2. worker'[w] = to => WorkerFits(w)'
        BY <1>1, <1>2, <1>3 DEF WorkerFits, Unstarted, Unused, Running, worldVars, serverVars
      <3>3. QED
        BY <1>1, <1>3, <2>1, <3>1, <3>2, WorkerTurns
    <2>2. CASE /\ job[k].turnId
               /\ \E view \in Views(k) :
                    WorkerGoes(w, "watching", [step |-> "writing", job |-> k, view |-> view])
      <3>1. PICK view \in Views(k) :
              WorkerGoes(w, "watching", [step |-> "writing", job |-> k, view |-> view])
        BY <2>2
      <3>2. view \in View
        BY DEF Views, View
      <3> DEFINE to == [step |-> "writing", job |-> k, view |-> view]
      <3>3. to \in WorkerState /\ to.step = "writing" /\ to.job = k
        BY <1>2, <3>2 DEF WorkerState
      <3>4. worker'[w] = to => WorkerFits(w)'
        BY <1>1, <1>2, <1>3, <2>2, <3>1, <3>3 DEF WorkerFits, Unstarted, Unused, Running,
           worldVars, serverVars
      <3>5. QED
        BY <1>1, <1>3, <3>1, <3>3, <3>4, WorkerTurns
    <2>3. QED
      BY <1>6, <2>1, <2>2 DEF WorkerLook
  <1>7. CASE WorkerTrouble(w)
    <2>1. PICK cause \in {"untried", "started"} :
            /\ worker' = [worker EXCEPT ![w] = Failing(w, cause)]
            /\ cause = "untried" => worker[w].step \in {"ready", "authorized"}
            /\ cause = "started" => worker[w].step \in {"started", "watching"}
      BY <1>7 DEF WorkerTrouble
    <2> DEFINE to == Failing(w, cause)
    <2>2. to \in WorkerState /\ to.step # "idle" /\ to.job = k
      BY <1>2 DEF WorkerState
    <2>3. worker'[w] = to => WorkerFits(w)'
      BY <1>1, <1>2, <1>3, <2>1 DEF WorkerFits, Unstarted, Unused, Running, worldVars, serverVars
    <2>4. QED
      BY <1>1, <1>3, <2>1, <2>2, <2>3, WorkerTurns
  <1>8. CASE WorkerFail(w)
    <2>1. CASE worker' = [worker EXCEPT ![w] = [worker[w] EXCEPT !.step = "recording"]]
      <3> DEFINE to == [worker[w] EXCEPT !.step = "recording"]
      <3>1. worker[w] \in [step : {"failing", "recording"}, job : Job,
                           cause : {"untried", "unsent", "tried", "started"}]
        BY <1>2, <1>8, WorkerTyped DEF WorkerFail
      <3>2. to \in WorkerState /\ to.step = "recording" /\ to.job = k /\ to.cause = worker[w].cause
        BY <3>1 DEF WorkerState
      <3>3. worker'[w] = to => WorkerFits(w)'
        BY <1>1, <1>2, <1>3, <1>8, <3>2 DEF WorkerFail, WorkerFits, Unstarted, Unused, Running,
           worldVars, serverVars
      <3>4. QED
        BY <1>1, <1>3, <2>1, <3>2, <3>3, WorkerTurns
    <2>2. CASE worker' = [worker EXCEPT ![w] = To(w, "exited")]
      <3> DEFINE to == To(w, "exited")
      <3>1. to \in WorkerState /\ to.step # "idle" /\ to.job = k
        BY <1>2 DEF WorkerState
      <3>2. worker'[w] = to => WorkerFits(w)'
        BY <1>1, <1>2, <1>3 DEF WorkerFits, Unstarted, Unused, Running, worldVars, serverVars
      <3>3. QED
        BY <1>1, <1>3, <2>2, <3>1, <3>2, WorkerTurns
    <2>3. QED
      BY <1>8, <2>1, <2>2 DEF WorkerFail
  <1>9. QED
    BY <1>4, <1>5, <1>6, <1>7, <1>8

\* A worker goes on and writes its Job, but tells App Server nothing.
LEMMA WorkerWrites ==
  ASSUME IInv, NEW w \in Worker, ~Unused(w), Alone(w),
         NEW to \in WorkerState, to.step # "idle", to.job = worker[w].job,
         worker' = [worker EXCEPT ![w] = to],
         NEW new, Sound(worker[w].job, new), job' = [job EXCEPT ![worker[w].job] = new],
         UNCHANGED <<mode, claims, worldVars, command, scheduler, observer, approval,
                     serverVars>>,
         job[worker[w].job].turnId => new.turnId,
         worker'[w] = to /\ job'[worker[w].job] = new => WorkerFits(w)'
  PROVE  IInv'
  <1>1. /\ approval' \in [Request -> ApprovalState]
        /\ turn' \in [Job -> {"none", "active", "completed", "failed"}]
        /\ turns' \in [Job -> Nat] /\ onWire' \subseteq Job
    BY DEF IInv, Typed, serverVars
  <1>2. QED
    BY <1>1, WorkerSteps DEF serverVars, OthersRest, TurnStays

\* A worker takes a Job without a turn that nobody else is at.
LEMMA WorkerTakes ==
  ASSUME IInv, NEW w \in Worker, ~Unused(w), Alone(w), Unstarted(worker[w].job),
         worker' = [worker EXCEPT ![w] = To(w, "ready")],
         NEW new \in JobRecord, new.status = "queued", new.pid = w,
         new.live => new.claim # None,
         new.evidence = job[worker[w].job].evidence,
         new.turnId = job[worker[w].job].turnId, new.result = job[worker[w].job].result,
         job' = [job EXCEPT ![worker[w].job] = new],
         UNCHANGED <<mode, claims, worldVars, command, scheduler, observer, approval,
                     serverVars>>
  PROVE  IInv'
  <1> USE DEF To, At
  <1> DEFINE k == worker[w].job
             to == To(w, "ready")
  <1>1. Typed /\ Fits /\ k \in Job /\ job[k] # None /\ job[k] \in JobRecord /\ JobFits(k)
        /\ WorkerFits(w)
    BY WorkerHasJob
  <1>2. to \in WorkerState /\ to.step = "ready" /\ to.job = k
    BY <1>1 DEF WorkerState
  <1> HIDE DEF to
  <1>3. Sound(k, new)
    BY <1>1 DEF Sound, Restful, JobFits, Unstarted, serverVars
  <1>4. worker'[w] = to /\ job'[k] = new => WorkerFits(w)'
    BY <1>1, <1>2, NoneAssumption
       DEF WorkerFits, Unstarted, Unused, Running, worldVars, serverVars
  <1>5. job[k].turnId => new.turnId
    OBVIOUS
  <1>6. worker' = [worker EXCEPT ![w] = to]
    BY DEF to
  <1>7. QED
    BY <1>2, <1>3, <1>4, <1>5, <1>6, WorkerWrites

\* A scheduled Job is activated: from here on, it waits for no other worker.
LEMMA WorkerActivateKeeps ==
  ASSUME IInv, NEW w \in Worker, WorkerActivate(w)
  PROVE  IInv'
  <1> USE DEF WorkerGoes, At
  <1> DEFINE k == worker[w].job
             mine == job[k].status = "scheduled" /\ job[k].claim = worker[w].claim
  <1>1. ~Unused(w)
    BY DEF WorkerActivate, Unused
  <1>2. Typed /\ Fits /\ k \in Job /\ job[k] # None /\ job[k] \in JobRecord /\ JobFits(k)
        /\ WorkerFits(w)
    BY <1>1, WorkerHasJob
  <1>3. UNCHANGED <<mode, claims, worldVars, command, scheduler, observer, approval, serverVars>>
    BY DEF WorkerActivate
  <1>4. CASE ~mine
    <2> DEFINE to == To(w, "exited")
    <2>1. worker' = [worker EXCEPT ![w] = to] /\ UNCHANGED job
      BY <1>4 DEF WorkerActivate
    <2>2. to \in WorkerState /\ to.step = "exited" /\ to.job = k
      BY <1>2 DEF WorkerState, To
    <2>3. worker'[w] = to => WorkerFits(w)'
      BY <1>1, <1>2, <1>3, <2>1, <2>2 DEF WorkerFits, Running, Unused
    <2>4. QED
      BY <1>1, <1>3, <2>1, <2>2, <2>3, WorkerTurns
  <1>5. CASE mine
    <2> DEFINE new == [job[k] EXCEPT !.status = "queued", !.pid = w, !.claim = None,
                                     !.live = FALSE, !.attempts = @ + 1]
    <2>1. worker' = [worker EXCEPT ![w] = To(w, "ready")]
      BY <1>5 DEF WorkerActivate
    <2>2. job' = [job EXCEPT ![k] = new]
      BY <1>2, <1>5 DEF WorkerActivate, JobRecord
    <2>3. Unstarted(k)
      BY <1>2, <1>5 DEF JobFits
    <2>4. /\ new.status = "queued" /\ new.pid = w /\ (new.live => new.claim # None)
          /\ new.evidence = job[k].evidence /\ new.turnId = job[k].turnId
          /\ new.result = job[k].result
      BY <1>2 DEF JobRecord
    <2>5. new \in JobRecord
      <3>1. job[k].attempts + 1 \in Nat /\ None \in Claim /\ "queued" \in PendingStatus
        BY <1>2 DEF JobRecord, PendingStatus, Claim
      <3>2. QED
        BY <1>2, <3>1 DEF JobRecord
    <2>6. Alone(w)
      BY <1>1, <1>2, <1>5, WaitsAlone
    <2> HIDE DEF new
    <2>7. QED
      BY <1>1, <1>3, <2>1, <2>2, <2>3, <2>4, <2>5, <2>6, WorkerTakes
  <1>6. QED
    BY <1>4, <1>5

\* The one worker of an immediate Job takes it.
LEMMA WorkerAdoptKeeps ==
  ASSUME IInv, NEW w \in Worker, WorkerAdopt(w)
  PROVE  IInv'
  <1> USE DEF WorkerGoes, At, WorkerAdopt
  <1> DEFINE k == worker[w].job
             new == [job[k] EXCEPT !.status = "queued", !.pid = w]
  <1>1. ~Unused(w)
    BY DEF Unused
  <1>2. Typed /\ Fits /\ k \in Job /\ job[k] # None /\ job[k] \in JobRecord /\ JobFits(k)
        /\ WorkerFits(w)
    BY <1>1, WorkerHasJob
  <1>3. UNCHANGED <<mode, claims, worldVars, command, scheduler, observer, approval, serverVars>>
        /\ worker' = [worker EXCEPT ![w] = To(w, "ready")]
    OBVIOUS
  <1>4. job' = [job EXCEPT ![k] = new]
    BY <1>2 DEF JobRecord
  <1>5. Unstarted(k) /\ ~mode[k].scheduled
    BY <1>1, <1>2 DEF WorkerFits
  <1>6. /\ new \in JobRecord /\ new.status = "queued" /\ new.pid = w
        /\ new.live = job[k].live /\ new.claim = job[k].claim
        /\ new.evidence = job[k].evidence /\ new.turnId = job[k].turnId
        /\ new.result = job[k].result
    BY <1>2 DEF JobRecord, PendingStatus
  <1>7. new.live => new.claim # None
    BY <1>2, <1>6 DEF JobFits
  <1>8. Alone(w)
    BY <1>1, <1>2, <1>5, RunsAlone
  <1> HIDE DEF new
  <1>9. QED
    BY <1>1, <1>3, <1>4, <1>5, <1>6, <1>7, <1>8, WorkerTakes

\* The worker w of the Job k may go to to and write new.
Plain(w, k, to, new) ==
  /\ worker' = [worker EXCEPT ![w] = to] /\ job' = [job EXCEPT ![k] = new]
  /\ to \in WorkerState /\ to.job = k /\ to.step \in {"starting", "watching", "exited"}
  /\ new \in JobRecord /\ new.pid = w /\ new.status # "scheduled"
  /\ new.live = job[k].live /\ new.claim = job[k].claim
  /\ job[k].turnId => new.turnId
  /\ new.turnId => turns[k] > 0
  /\ new.result # None => new.turnId
  /\ new.evidence = "false" => Unstarted(k)
  /\ new.evidence = "true" => turns[k] > 0
  /\ to.step = "starting" => Unstarted(k) /\ new.evidence # "false" /\ ~revoked[k]
  /\ to.step = "watching" => turns[k] > 0 /\ new.evidence # "false"

\* What a worker that runs writes: that it will try, that it has a turn, what
\* became of that, or that it failed.
LEMMA WorkerWritesKeeps ==
  ASSUME IInv, NEW w \in Worker,
         WorkerAttempt(w) \/ WorkerRunning(w) \/ WorkerWrite(w) \/ WorkerRecord(w)
  PROVE  IInv'
  <1> USE DEF WorkerGoes, To, At
  <1> DEFINE k == worker[w].job
  <1>1. ~Unused(w) /\ worker[w].step \in Running
    BY DEF WorkerAttempt, WorkerRunning, WorkerWrite, WorkerRecord, Unused, Running
  <1>2. Typed /\ Fits /\ k \in Job /\ job[k] # None /\ job[k] \in JobRecord /\ JobFits(k)
        /\ WorkerFits(w)
    BY <1>1, WorkerHasJob
  <1>3. UNCHANGED <<mode, claims, worldVars, command, scheduler, observer, approval, serverVars>>
    BY DEF WorkerAttempt, WorkerRunning, WorkerWrite, WorkerRecord
  <1>4. Alone(w)
    BY <1>1, <1>2, RunsAlone
  <1>5. job[k].pid = w /\ job[k].status # "scheduled"
    BY <1>1, <1>2 DEF WorkerFits
  <1>6. PICK to, new : Plain(w, k, to, new)
    <2>1. CASE WorkerAttempt(w)
      <3> DEFINE to == To(w, "starting")
                 new == [job[k] EXCEPT !.evidence = "null"]
      <3>1. to \in WorkerState
        BY <1>2 DEF WorkerState
      <3>2. new \in JobRecord
        BY <1>2 DEF JobRecord
      <3>3. Unstarted(k) /\ ~revoked[k]
        BY <1>1, <1>2, <2>1 DEF WorkerAttempt, WorkerFits
      <3>4. worker' = [worker EXCEPT ![w] = to] /\ job' = [job EXCEPT ![k] = new]
        BY <2>1 DEF WorkerAttempt
      <3>5. /\ new.pid = w /\ new.status # "scheduled" /\ new.evidence = "null"
            /\ new.live = job[k].live /\ new.claim = job[k].claim
            /\ new.turnId = job[k].turnId /\ new.result = job[k].result
        BY <1>2, <1>5 DEF JobRecord
      <3>6. (job[k].turnId => new.turnId) /\ (new.turnId => turns[k] > 0) /\ (new.result # None => new.turnId)
        BY <1>2, <3>5 DEF JobFits
      <3>7. Plain(w, k, to, new)
        <4> HIDE DEF new
        <4>1. QED
          BY <3>1, <3>2, <3>3, <3>4, <3>5, <3>6 DEF Plain
      <3>8. QED
        BY <3>7
    <2>2. CASE WorkerRunning(w)
      <3> DEFINE to == To(w, "watching")
                 new == [job[k] EXCEPT !.status = "running", !.evidence = "true", !.turnId = TRUE]
      <3>1. to \in WorkerState
        BY <1>2 DEF WorkerState
      <3>2. /\ new \in JobRecord /\ new.pid = w /\ new.status = "running" /\ new.turnId
            /\ new.live = job[k].live /\ new.claim = job[k].claim /\ new.evidence = "true"
        BY <1>2, <1>5 DEF JobRecord, PendingStatus
      <3>3. turns[k] > 0
        BY <1>1, <1>2, <2>2 DEF WorkerRunning, WorkerFits
      <3>4. worker' = [worker EXCEPT ![w] = to] /\ job' = [job EXCEPT ![k] = new]
        BY <1>2, <2>2 DEF WorkerRunning, JobRecord
      <3>5. Plain(w, k, to, new)
        <4> HIDE DEF new
        <4>1. QED
          BY <3>1, <3>2, <3>3, <3>4 DEF Plain
      <3>6. QED
        BY <3>5
    <2>3. CASE WorkerWrite(w)
      <3> DEFINE to == To(w, "exited")
                 view == worker[w].view
                 new == [job[k] EXCEPT !.status = view.status,
                           !.result = IF view.status = "unknown" THEN @ ELSE view.result]
      <3>1. to \in WorkerState
        BY <1>2 DEF WorkerState
      <3>2. view \in View
        BY <1>2, <2>3, WorkerTyped DEF WorkerWrite
      <3>3. /\ new \in JobRecord /\ new.pid = w /\ new.status # "scheduled"
            /\ new.live = job[k].live /\ new.claim = job[k].claim
            /\ new.evidence = job[k].evidence /\ new.turnId = job[k].turnId
        BY <1>2, <1>5, <3>2 DEF JobRecord, View, EndStatus
      <3>4. job[k].turnId
        BY <1>1, <1>2, <2>3 DEF WorkerWrite, WorkerFits
      <3>5. worker' = [worker EXCEPT ![w] = to] /\ job' = [job EXCEPT ![k] = new]
        BY <1>2, <2>3 DEF WorkerWrite, Refreshed, JobRecord
      <3>6. /\ turns[k] > 0 /\ (job[k].turnId => new.turnId)
            /\ new.evidence = "false" => Unstarted(k)
            /\ new.evidence = "true" => turns[k] > 0
        BY <1>2, <3>3, <3>4 DEF JobFits
      <3>7. Plain(w, k, to, new)
        <4> HIDE DEF new
        <4>1. QED
          BY <3>1, <3>3, <3>4, <3>5, <3>6 DEF Plain
      <3>8. QED
        BY <3>7
    <2>4. CASE WorkerRecord(w)
      <3> DEFINE to == To(w, "exited")
                 cause == worker[w].cause
                 new == [job[k] EXCEPT !.status = "failed", !.evidence = EvidenceOf(cause)]
      <3>1. to \in WorkerState
        BY <1>2 DEF WorkerState
      <3>2. cause \in {"untried", "unsent", "tried", "started"}
        BY <1>2, <2>4, WorkerTyped DEF WorkerRecord
      <3>3. /\ EvidenceOf(cause) \in {"false", "null", "true"}
            /\ EvidenceOf(cause) = "false" => Unstarted(k)
            /\ EvidenceOf(cause) = "true" => turns[k] > 0
        BY <1>1, <1>2, <2>4, <3>2 DEF EvidenceOf, WorkerRecord, WorkerFits
      <3>4. /\ new \in JobRecord /\ new.pid = w /\ new.status = "failed"
            /\ new.live = job[k].live /\ new.claim = job[k].claim
            /\ new.evidence = EvidenceOf(cause) /\ new.turnId = job[k].turnId
            /\ new.result = job[k].result
        BY <1>2, <1>5, <3>3 DEF JobRecord, EndStatus
      <3>5. worker' = [worker EXCEPT ![w] = to] /\ job' = [job EXCEPT ![k] = new]
        BY <1>2, <2>4 DEF WorkerRecord, JobRecord
      <3>6. (job[k].turnId => new.turnId) /\ (new.turnId => turns[k] > 0) /\ (new.result # None => new.turnId)
        BY <1>2, <3>4 DEF JobFits
      <3>7. Plain(w, k, to, new)
        <4> HIDE DEF new
        <4>1. QED
          BY <3>1, <3>3, <3>4, <3>5, <3>6 DEF Plain
      <3>8. QED
        BY <3>7
    <2>5. QED
      BY <2>1, <2>2, <2>3, <2>4
  <1>7. Sound(k, new)
    BY <1>2, <1>3, <1>6 DEF Plain, Sound, Restful, JobFits, Unstarted, serverVars
  <1>8. worker'[w] = to /\ job'[k] = new => WorkerFits(w)'
    BY <1>1, <1>2, <1>3, <1>6, NoneAssumption
       DEF Plain, WorkerFits, Unstarted, Unused, Running, worldVars, serverVars
  <1>9. QED
    BY <1>1, <1>3, <1>4, <1>6, <1>7, <1>8, WorkerWrites DEF Plain

\* A worker sends turn/start for a Job that never had one.
LEMMA WorkerStartKeeps ==
  ASSUME IInv, NEW w \in Worker, WorkerStart(w)
  PROVE  IInv'
  <1> USE DEF WorkerGoes, To, Failing, At
  <1> DEFINE k == worker[w].job
  <1>1. ~Unused(w) /\ worker[w].step \in Running
    BY DEF WorkerStart, Unused, Running
  <1>2. Typed /\ Fits /\ k \in Job /\ job[k] # None /\ job[k] \in JobRecord /\ JobFits(k)
        /\ WorkerFits(w)
    BY <1>1, WorkerHasJob
  <1>3. UNCHANGED <<mode, job, claims, worldVars, command, scheduler, observer, approval>>
    BY DEF WorkerStart
  <1>4. Alone(w)
    BY <1>1, <1>2, RunsAlone
  <1>5. Unstarted(k) /\ job[k].evidence # "false" /\ ~revoked[k] /\ job[k].pid = w
        /\ job[k].status # "scheduled"
    BY <1>1, <1>2 DEF WorkerStart, WorkerFits
  <1>6. job[k].evidence # "true" /\ ~job[k].turnId
    BY <1>2, <1>5 DEF JobFits, Unstarted
  <1>7. PICK to \in {To(w, "started"), Failing(w, "tried"), Failing(w, "unsent")} :
          worker' = [worker EXCEPT ![w] = to]
          /\ \/ /\ to # Failing(w, "unsent") /\ Started(k) /\ UNCHANGED onWire
             \/ to = Failing(w, "tried") /\ onWire' = onWire \cup {k} /\ UNCHANGED <<turn, turns>>
             \/ to # To(w, "started") /\ UNCHANGED <<turn, turns, onWire>>
    BY DEF WorkerStart, serverVars
  <1>8. to \in WorkerState /\ to.job = k /\ to.step \in {"started", "failing"}
        /\ (to.step = "started" => to = To(w, "started"))
        /\ (to.step = "failing" => to.cause \in {"tried", "unsent"})
        /\ (to.step = "failing" /\ to.cause = "unsent" => to = Failing(w, "unsent"))
    BY <1>2, <1>7 DEF WorkerState
  <1>9. /\ turn' \in [Job -> {"none", "active", "completed", "failed"}]
        /\ turns' \in [Job -> Nat] /\ onWire' \subseteq Job
        /\ turns'[k] \in {0, 1} /\ (k \in onWire' => turns'[k] = 0)
        /\ OthersRest(k)
        /\ turns[k] = 0
        /\ to.step = "started" => turns'[k] = 1
        /\ to.step = "failing" /\ to.cause = "unsent" => Restful(k)
    <2>1. turn \in [Job -> {"none", "active", "completed", "failed"}] /\ turns \in [Job -> Nat]
          /\ onWire \subseteq Job /\ turns[k] = 0 /\ k \notin onWire
      BY <1>2, <1>5 DEF Typed, Unstarted
    <2>2. to = To(w, "started") => to.step = "started"
      OBVIOUS
    <2>3. to = Failing(w, "tried") => to.step = "failing" /\ to.cause = "tried"
      OBVIOUS
    <2>4. to = Failing(w, "unsent") => to.step = "failing" /\ to.cause = "unsent"
      OBVIOUS
    <2>5. CASE Started(k) /\ UNCHANGED onWire /\ to # Failing(w, "unsent")
      <3>1. turns' = [turns EXCEPT ![k] = 1] /\ turn' = [turn EXCEPT ![k] = "active"]
        BY <2>1, <2>5 DEF Started
      <3>2. QED
        BY <1>2, <1>8, <2>1, <2>5, <3>1 DEF OthersRest
    <2>6. CASE to = Failing(w, "tried") /\ onWire' = onWire \cup {k} /\ UNCHANGED <<turn, turns>>
      BY <1>2, <2>1, <2>3, <2>6 DEF OthersRest
    <2>7. CASE to # To(w, "started") /\ UNCHANGED <<turn, turns, onWire>>
      BY <1>8, <2>1, <2>7 DEF Restful, OthersRest
    <2>8. QED
      BY <1>7, <2>5, <2>6, <2>7
  <1>10. Sound(k, job[k])
    BY <1>2, <1>5, <1>6, <1>9 DEF Sound, JobFits
  <1>11. job' = [job EXCEPT ![k] = job[k]]
    BY <1>2, <1>3 DEF Typed
  <1>12. worker'[w] = to => WorkerFits(w)'
    BY <1>1, <1>2, <1>3, <1>5, <1>8, <1>9 DEF WorkerFits, Unstarted, Restful, Unused, Running,
       worldVars
  <1>13. approval' \in [Request -> ApprovalState] /\ UNCHANGED approval
    BY <1>2, <1>3 DEF Typed
  <1>14. /\ TurnStays(k)
         /\ \A r \in Request : approval'[r] = approval[r] \/ ApprovalFits(r)'
         /\ UNCHANGED <<mode, claims, worldVars, command, scheduler, observer>>
         /\ to.step # "idle" /\ worker' = [worker EXCEPT ![w] = to]
    BY <1>3, <1>7, <1>8, <1>9, <1>13 DEF TurnStays
  <1> HIDE DEF WorkerGoes, To, Failing, At
  <1>15. QED
    BY <1>1, <1>4, <1>8, <1>9, <1>10, <1>11, <1>12, <1>13, <1>14, WorkerSteps

\* A worker dies, with the requests that it handles; what it was sending may
\* still arrive.
LEMMA WorkerDiesKeeps ==
  ASSUME IInv, NEW w \in Worker, WorkerDies(w)
  PROVE  IInv'
  <1> USE DEF WorkerDies, To, At, storeVars
  <1> DEFINE k == worker[w].job
             to == To(w, "exited")
  <1>1. ~Unused(w)
    OBVIOUS
  <1>2. Typed /\ Fits /\ k \in Job /\ job[k] # None /\ job[k] \in JobRecord /\ JobFits(k)
        /\ WorkerFits(w)
    BY <1>1, WorkerHasJob
  <1>3. to \in WorkerState /\ to.step = "exited" /\ to.job = k
        /\ worker' = [worker EXCEPT ![w] = to]
    BY <1>2 DEF WorkerState
  <1>4. worker'[w] = to /\ \A v \in Worker \ {w} : worker'[v] = worker[v]
    BY <1>2, <1>3 DEF Typed
  <1>5. /\ turn' \in [Job -> {"none", "active", "completed", "failed"}]
        /\ turns' \in [Job -> Nat] /\ onWire' \subseteq Job
    BY <1>2 DEF Typed
  <1>6. \A r \in Request : approval[r].step = "asked" \/ approval[r].step = "waiting" =>
          /\ approval[r] \in [step : {"asked", "waiting", "dead", "done"}, worker : Worker,
                              status : {"approved", "denied", "timed_out", "pending", None},
                              action : Action, answer : Action \cup {"lost", "error"}]
          /\ [approval[r] EXCEPT !.step = "dead"] \in ApprovalState
    BY <1>2, ApprovalTyped DEF ApprovalState
  <1>7. approval' \in [Request -> ApprovalState]
    BY <1>2, <1>6 DEF Typed
  <1>8. \A r \in Request : approval'[r] = approval[r] \/ ApprovalFits(r)'
    <2>1. SUFFICES ASSUME NEW r \in Request, approval[r].step \in {"asked", "waiting"},
                          approval[r].worker = w,
                          approval'[r] = [approval[r] EXCEPT !.step = "dead"]
                   PROVE  ApprovalFits(r)'
      BY <1>2 DEF Typed
    <2>2. approval'[r].step = "dead" /\ approval'[r].worker = w
      BY <1>6, <2>1
    <2>3. turns[k] > 0
      BY <1>2, <2>1 DEF Fits, ApprovalFits, JobOf
    <2>4. QED
      BY <1>2, <1>3, <1>4, <2>2, <2>3 DEF ApprovalFits, JobOf, Unused
  <1>9. worker'[w] = to => WorkerFits(w)'
    BY <1>1, <1>2, <1>3 DEF WorkerFits, Running, Unused
  <1>10. job' = [job EXCEPT ![k] = job[k]]
    BY <1>2 DEF Typed
  <1>11. CASE UNCHANGED onWire
    <2>1. Sound(k, job[k])
      BY <1>2, <1>11 DEF Sound, Restful, JobFits, Unstarted
    <2>2. QED
      BY <1>1, <1>3, <1>5, <1>7, <1>8, <1>9, <1>10, <1>11, <2>1, WorkerSteps DEF OthersRest, TurnStays
  <1>12. CASE worker[w].step = "starting" /\ onWire' = onWire \cup {k}
    <2>1. worker[w].step \in Running
      BY <1>12 DEF Running
    <2>2. Alone(w)
      BY <1>1, <1>2, <2>1, RunsAlone
    <2>3. Unstarted(k) /\ job[k].evidence # "false" /\ ~revoked[k] /\ job[k].status # "scheduled"
      BY <1>1, <1>2, <1>12, <2>1 DEF WorkerFits
    <2>4. Sound(k, job[k])
      BY <1>2, <1>12, <2>3 DEF Sound, JobFits, Unstarted
    <2>5. OthersRest(k)
      BY <1>12 DEF OthersRest
    <2>6. /\ TurnStays(k)
          /\ UNCHANGED <<mode, claims, worldVars, command, scheduler, observer>>
      BY DEF TurnStays
    <2> HIDE DEF WorkerDies, To, At, storeVars, to
    <2>7. QED
      BY <1>1, <1>3, <1>5, <1>7, <1>8, <1>9, <1>10, <2>2, <2>4, <2>5, <2>6, WorkerSteps
  <1>13. QED
    BY <1>11, <1>12

-----------------------------------------------------------------------------
(* Observers                                                               *)

\* An observer reads a Job that has a turn.
LEMMA ObserverLookKeeps ==
  ASSUME IInv, NEW o \in Observer, NEW k \in Job, ObserverLook(o, k)
  PROVE  IInv'
  <1> USE DEF ObserverLook, storeVars, worldVars, serverVars
  <1>1. Typed /\ Fits /\ job[k] # None /\ job[k].turnId
    BY DEF IInv, IsPending
  <1>2. PICK view \in Views(k) :
          observer' = [observer EXCEPT ![o] = [step |-> "writing", job |-> k, view |-> view]]
    OBVIOUS
  <1>3. view \in View
    BY DEF Views, View
  <1> DEFINE to == [step |-> "writing", job |-> k, view |-> view]
  <1>4. to \in ObserverState
    BY <1>3 DEF ObserverState
  <1>5. Typed'
    BY <1>1, <1>2, <1>4 DEF Typed
  <1>6. /\ observer'[o] = to /\ to.job = k
        /\ \A p \in Observer \ {o} : observer'[p] = observer[p]
    BY <1>1, <1>2 DEF Typed
  <1>7. ObserverFits(o)'
    BY <1>1, <1>6 DEF ObserverFits
  <1>8. \A j \in Job : Onward(j)
    BY DEF Onward
  <1>9. Revises(k, job[k]) /\ job' = [job EXCEPT ![k] = job[k]]
    BY <1>1, NothingRevises
  <1>10. QED
    BY <1>1, <1>5, <1>6, <1>7, <1>8, <1>9, JobMoves DEF IInv

\* It writes what it has seen, over whatever is there by then.
LEMMA ObserverWriteKeeps ==
  ASSUME IInv, NEW o \in Observer, ObserverWrite(o)
  PROVE  IInv'
  <1> USE DEF ObserverWrite, worldVars, serverVars, At
  <1> DEFINE k == observer[o].job
             view == observer[o].view
             new == [job[k] EXCEPT !.status = view.status,
                       !.result = IF view.status = "unknown" THEN @ ELSE view.result]
  <1>1. Typed /\ Fits /\ k \in Job /\ view \in View
    BY OthersTyped DEF IInv
  <1>2. job[k] # None /\ job[k].turnId /\ job[k] \in JobRecord /\ JobFits(k)
    BY <1>1, OthersTyped DEF Fits, ObserverFits
  <1>3. job' = [job EXCEPT ![k] = new]
    BY <1>1, <1>2 DEF Refreshed, JobRecord
  <1>4. /\ new \in JobRecord /\ new.status \in {"unknown", "completed", "failed"}
        /\ new.pid = job[k].pid /\ new.live = job[k].live /\ new.claim = job[k].claim
        /\ new.evidence = job[k].evidence /\ new.turnId = job[k].turnId
    BY <1>1, <1>2 DEF JobRecord, View, EndStatus
  <1>5. \A v \in Worker : worker[v].step \in {"ready", "authorized"} => worker[v].job # k
    BY <1>1, <1>2 DEF Fits, WorkerFits, JobFits, Unstarted, Unused
  <1>6. (new.live => new.claim # None) /\ new.turnId
    BY <1>2, <1>4 DEF JobFits
  <1>7. Revises(k, new)
    <2> HIDE DEF new
    <2>1. QED
      BY <1>4, <1>5, <1>6 DEF Revises
  <1>8. Idle \in ObserverState
    BY DEF ObserverState, Idle
  <1>9. Typed'
    BY <1>1, <1>3, <1>4, <1>8 DEF Typed
  <1>10. \A p \in Observer : observer'[p] = observer[p] \/ ObserverFits(p)'
    BY <1>1 DEF Typed, ObserverFits, Idle
  <1>11. \A j \in Job : Onward(j)
    BY DEF Onward
  <1> HIDE DEF new
  <1>12. QED
    BY <1>1, <1>2, <1>3, <1>7, <1>9, <1>10, <1>11, JobMoves DEF IInv

\* A Job is failed for a worker that runs no more.
LEMMA FailIfExitedKeeps ==
  ASSUME IInv, NEW k \in Job, FailIfExited(k)
  PROVE  IInv'
  <1> USE DEF FailIfExited, worldVars, serverVars, processVars
  <1>1. Typed /\ Fits
    BY DEF IInv
  <1>2. PICK new : Revises(k, new) /\ job' = [job EXCEPT ![k] = new]
    BY <1>1, ExitedRevises
  <1>3. Typed'
    BY <1>1, <1>2 DEF Typed, Revises
  <1>4. \A j \in Job : Onward(j)
    BY DEF Onward
  <1>5. QED
    BY <1>1, <1>2, <1>3, <1>4, JobMoves DEF IInv

-----------------------------------------------------------------------------
(* Approvals                                                               *)

AskedState == [step : {"asked", "waiting", "dead", "done"}, worker : Worker,
             status : {"approved", "denied", "timed_out", "pending", None},
             action : Action, answer : Action \cup {"lost", "error"}]

\* Once a request is done, its answer agrees with its record.
Agrees(new) ==
  /\ new.step = "asked" => new.status = None /\ new.action = None
  /\ new.step = "done" =>
       /\ new.status = "approved" <=> new.action = "approve"
       /\ new.answer = "approve" => new.status = "approved"
       /\ new.answer = "deny" => new.status # "approved"

\* A request belongs to a Job with a turn.
LEMMA RequestHasJob ==
  ASSUME IInv, NEW r \in Request, ~At(approval[r], "unasked")
  PROVE  /\ approval[r] \in AskedState /\ approval[r].worker \in Worker
         /\ ~Unused(approval[r].worker)
         /\ JobOf(r) \in Job /\ job[JobOf(r)] # None /\ job[JobOf(r)] \in JobRecord
         /\ turns[JobOf(r)] > 0 /\ job[JobOf(r)].status # "scheduled"
         /\ \A v \in Worker : worker[v].step \in {"ready", "authorized"} =>
              worker[v].job # JobOf(r)
  <1> DEFINE k == JobOf(r)
  <1>1. approval[r] \in AskedState /\ approval[r].worker \in Worker /\ ~Unused(approval[r].worker)
        /\ job[k] # None /\ turns[k] > 0
    BY ApprovalTyped DEF IInv, Fits, ApprovalFits, AskedState
  <1>2. k \in Job
    BY <1>1, WorkerTyped DEF IInv, JobOf
  <1>3. job[k] \in JobRecord
    BY <1>1, <1>2, OthersTyped DEF IInv
  <1>4. job[k].status # "scheduled"
    BY <1>1, <1>2 DEF IInv, Fits, JobFits, Unstarted
  <1>5. ASSUME NEW v \in Worker, worker[v].step \in {"ready", "authorized"}, worker[v].job = k
        PROVE  FALSE
    BY <1>1, <1>5 DEF IInv, Fits, WorkerFits, Unstarted, Unused, At
  <1>6. QED
    BY <1>1, <1>2, <1>3, <1>4, <1>5

\* A request and the status of its Job change.
LEMMA RequestMoves ==
  ASSUME IInv, NEW r \in Request, ~At(approval[r], "unasked"),
         NEW new \in AskedState, new.worker = approval[r].worker, Agrees(new),
         NEW status \in (PendingStatus \cup EndStatus) \ {"scheduled"},
         Change(r, new, JobOf(r), status)
  PROVE  IInv'
  <1> USE DEF Change, worldVars, serverVars, processVars
  <1> DEFINE k == JobOf(r)
             revised == [job[k] EXCEPT !.status = status]
  <1>1. Typed /\ Fits /\ k \in Job /\ job[k] # None /\ turns[k] > 0
        /\ approval[r].worker \in Worker /\ ~Unused(approval[r].worker)
    BY RequestHasJob DEF IInv
  <1>2. Revises(k, revised)
    BY <1>1, RequestHasJob, StatusRevises
  <1>3. job' = [job EXCEPT ![k] = revised]
    OBVIOUS
  <1>4. new \in ApprovalState
    BY DEF ApprovalState, AskedState
  <1>5. Typed'
    BY <1>1, <1>2, <1>3, <1>4 DEF Typed, Revises
  <1>6. approval'[r] = new /\ \A q \in Request \ {r} : approval'[q] = approval[q]
    BY <1>1 DEF Typed
  <1>7. job'[k] # None
    BY <1>1, <1>2, <1>3, NoneAssumption DEF Typed, Revises
  <1>8. ApprovalFits(r)'
    BY <1>1, <1>6, <1>7 DEF ApprovalFits, Agrees, JobOf, Unused, At
  <1>9. \A j \in Job : Onward(j)
    BY DEF Onward
  <1> HIDE DEF revised
  <1>10. QED
    BY <1>1, <1>2, <1>3, <1>5, <1>6, <1>8, <1>9, JobMoves DEF IInv

\* What settles a request agrees with what is recorded of it.
LEMMA SettledAgrees ==
  ASSUME IInv, NEW r \in Request, ~At(approval[r], "unasked"),
         NEW status \in {"approved", "denied", "timed_out"}, NEW action \in {"approve", "deny"},
         status = "approved" <=> action = "approve", NEW response \in Responses(action)
  PROVE  /\ Settled(r, status, action, response) \in AskedState
         /\ Settled(r, status, action, response).worker = approval[r].worker
         /\ Agrees(Settled(r, status, action, response))
  <1>1. approval[r] \in AskedState
    BY RequestHasJob
  <1>2. Answer(r, response) \in {action, "error", "lost"}
    BY DEF Answer, Responses
  <1>3. /\ Settled(r, status, action, response) \in AskedState
        /\ Settled(r, status, action, response).step = "done"
        /\ Settled(r, status, action, response).worker = approval[r].worker
        /\ Settled(r, status, action, response).status = status
        /\ Settled(r, status, action, response).action = action
        /\ Settled(r, status, action, response).answer \in {action, "error", "lost"}
    BY <1>1, <1>2 DEF Settled, AskedState, Action
  <1>4. QED
    BY <1>3 DEF Agrees

\* The handler of a request records it, and settles it.
LEMMA HandleKeeps ==
  ASSUME IInv, NEW r \in Request, Handle(r)
  PROVE  IInv'
  <1> DEFINE k == JobOf(r)
             Open == (PendingStatus \cup EndStatus) \ {"scheduled"}
  <1>1. ~At(approval[r], "unasked")
    BY DEF Handle, Refuse, Record, Resolve, TimeOut, At
  <1>2. approval[r] \in AskedState /\ job[k] \in JobRecord /\ job[k].status # "scheduled"
    BY <1>1, RequestHasJob
  <1>3. job[k].status \in Open /\ ApprovalJobStatus(r) \in Open
    BY <1>2 DEF JobRecord, ApprovalJobStatus, PendingStatus, EndStatus
  <1>4. CASE Record(r)
    <2>1. CASE Change(r, Settled(r, "approved", "approve", "approve"), k, job[k].status)
      <3>1. "approve" \in Responses("approve")
        BY DEF Responses
      <3>2. QED
        BY <1>1, <1>3, <2>1, <3>1, SettledAgrees, RequestMoves
    <2>2. CASE Change(r, [approval[r] EXCEPT !.step = "waiting", !.status = "pending"],
                      k, "awaiting_approval")
      <3> DEFINE new == [approval[r] EXCEPT !.step = "waiting", !.status = "pending"]
      <3>1. new \in AskedState /\ new.worker = approval[r].worker /\ new.step = "waiting"
        BY <1>2 DEF AskedState
      <3>2. Agrees(new)
        BY <3>1 DEF Agrees
      <3>3. "awaiting_approval" \in Open
        BY DEF PendingStatus
      <3> HIDE DEF new, Open
      <3>4. Change(r, new, k, "awaiting_approval")
        BY <2>2 DEF new
      <3>5. QED
        BY <1>1, <3>1, <3>2, <3>3, <3>4, RequestMoves DEF Open
    <2>3. QED
      BY <1>4, <2>1, <2>2 DEF Record
  <1>5. CASE Resolve(r)
    <2> DEFINE status == IF approval[r].action = "approve" THEN "approved" ELSE "denied"
               action == approval[r].action
    <2>1. action \in {"approve", "deny"} /\ status \in {"approved", "denied", "timed_out"}
          /\ (status = "approved" <=> action = "approve")
      BY <1>2, <1>5 DEF Resolve, AskedState, Action
    <2>2. PICK response \in Responses(action) :
            Change(r, Settled(r, status, action, response), k, ApprovalJobStatus(r))
      BY <1>5 DEF Resolve, Settle
    <2> HIDE DEF status, action
    <2>3. QED
      BY <1>1, <1>3, <2>1, <2>2, SettledAgrees, RequestMoves
  <1>6. CASE TimeOut(r)
    <2>1. PICK response \in Responses("deny") :
            Change(r, Settled(r, "timed_out", "deny", response), k, ApprovalJobStatus(r))
      BY <1>6 DEF TimeOut, Settle
    <2>2. QED
      BY <1>1, <1>3, <2>1, SettledAgrees, RequestMoves
  <1>7. CASE Refuse(r)
    <2> DEFINE answer == Answer(r, "error")
               new == [approval[r] EXCEPT !.step = "done", !.answer = answer]
    <2>1. answer \in {"error", "lost"}
      BY DEF Answer
    <2> HIDE DEF answer
    <2>2. new \in AskedState /\ new.worker = approval[r].worker /\ new.step = "done"
          /\ new.answer = answer
          /\ new.status = approval[r].status /\ new.action = approval[r].action
      BY <1>2, <2>1 DEF AskedState
    <2>3. approval[r].status = None /\ approval[r].action = None
      BY <1>1, <1>7 DEF Refuse, IInv, Fits, ApprovalFits
    <2>4. None # "approved" <=> None # "approve"
      BY DelegationAssumptions
    <2>5. Agrees(new)
      BY <2>1, <2>2, <2>3, <2>4 DEF Agrees
    <2>6. Change(r, new, k, job[k].status)
      BY <1>7 DEF Refuse, answer
    <2> HIDE DEF new
    <2>7. QED
      BY <1>1, <1>3, <2>2, <2>5, <2>6, RequestMoves
  <1>8. QED
    BY <1>4, <1>5, <1>6, <1>7 DEF Handle

\* The operator decides a request that is not settled.
LEMMA DecideKeeps ==
  ASSUME IInv, NEW r \in Request, NEW action \in {"approve", "deny"}, Decide(r, action)
  PROVE  IInv'
  <1> USE DEF Decide, storeVars, worldVars, serverVars, processVars
  <1> DEFINE k == JobOf(r)
             new == [approval[r] EXCEPT !.action = action]
  <1>1. ~At(approval[r], "unasked")
    BY DEF At
  <1>2. Typed /\ Fits /\ k \in Job /\ job[k] # None /\ turns[k] > 0
        /\ approval[r] \in AskedState /\ approval[r].worker \in Worker
        /\ ~Unused(approval[r].worker)
    BY <1>1, RequestHasJob DEF IInv
  <1>3. new \in ApprovalState /\ new.worker = approval[r].worker /\ new.step # "done"
        /\ approval' = [approval EXCEPT ![r] = new]
    BY <1>2 DEF ApprovalState, AskedState, Action
  <1>4. Typed'
    BY <1>2, <1>3 DEF Typed
  <1>5. approval'[r] = new /\ \A q \in Request \ {r} : approval'[q] = approval[q]
    BY <1>2, <1>3 DEF Typed
  <1> HIDE DEF new
  <1>6. ApprovalFits(r)'
    BY <1>2, <1>3, <1>5 DEF ApprovalFits, JobOf, Unused, At
  <1>7. \A j \in Job : Onward(j)
    BY DEF Onward
  <1>8. Revises(k, job[k]) /\ job' = [job EXCEPT ![k] = job[k]]
    BY <1>2, NothingRevises
  <1>9. QED
    BY <1>2, <1>4, <1>5, <1>6, <1>7, <1>8, JobMoves DEF IInv

\* A turn asks: there is a worker that watches it.
LEMMA AskKeeps ==
  ASSUME IInv, NEW r \in Request, NEW w \in Worker, Ask(r, w)
  PROVE  IInv'
  <1> USE DEF Ask, storeVars, worldVars, serverVars, processVars
  <1> DEFINE k == worker[w].job
             new == [step |-> "asked", worker |-> w, status |-> None, action |-> None,
                     answer |-> None]
  <1>1. ~Unused(w)
    BY DEF Unused, At
  <1>2. Typed /\ Fits /\ k \in Job /\ job[k] # None /\ WorkerFits(w)
    BY <1>1, WorkerHasJob
  <1>3. turns[k] > 0
    BY <1>1, <1>2 DEF WorkerFits
  <1>4. new \in ApprovalState
    BY DEF ApprovalState, Action
  <1>5. Typed'
    BY <1>2, <1>4 DEF Typed
  <1>6. approval'[r] = new /\ \A q \in Request \ {r} : approval'[q] = approval[q]
    BY <1>2 DEF Typed
  <1>7. ApprovalFits(r)'
    BY <1>1, <1>2, <1>3, <1>6 DEF ApprovalFits, JobOf, Unused, At
  <1>8. \A j \in Job : Onward(j)
    BY DEF Onward
  <1>9. Revises(k, job[k]) /\ job' = [job EXCEPT ![k] = job[k]]
    BY <1>2, NothingRevises
  <1>10. QED
    BY <1>2, <1>5, <1>6, <1>7, <1>8, <1>9, JobMoves DEF IInv

-----------------------------------------------------------------------------
(* The invariant                                                           *)

\* Nothing has happened yet.
LEMMA InitHolds == Init => IInv
  <1> SUFFICES ASSUME Init
               PROVE  IInv
    OBVIOUS
  <1> USE DEF Init, Idle
  <1>1. Typed
    BY DelegationAssumptions DEF Typed, CommandState, SchedulerState, WorkerState, ObserverState,
       ApprovalState
  <1>2. Fits
    BY DEF Fits, JobFits, CommandFits, WorkerFits, Lone, SchedulerFits, ObserverFits,
       ApprovalFits, Unstarted, Unused, At
  <1>3. QED
    BY <1>1, <1>2 DEF IInv

\* Every step keeps the invariant.
LEMMA NextKeeps == IInv /\ [Next]_vars => IInv'
  <1> SUFFICES ASSUME IInv, [Next]_vars
               PROVE  IInv'
    OBVIOUS
  <1>1. ASSUME NEW k \in Job,
               \/ Expire(k) \/ LeaseEnds(k) \/ LoseAuthority(k) \/ Forward(k)
               \/ CommandDies(k) \/ TurnEnds(k) \/ LateTurn(k) \/ FailIfExited(k)
        PROVE  IInv'
    <2>1. CASE Forward(k)
      BY <2>1, CreateKeeps, CommandMovesKeeps, CommandSpawnKeeps, CommandRegisterKeeps
         DEF Forward, CommandStep
    <2>2. QED
      BY <1>1, <2>1, ExpireKeeps, LeaseEndsKeeps, LoseAuthorityKeeps, CommandMovesKeeps,
         TurnEndsKeeps, LateTurnKeeps, FailIfExitedKeeps
  <1>2. ASSUME NEW s \in Scheduler, SchedulerStep(s) \/ SchedulerDies(s)
        PROVE  IInv'
    BY <1>2, SchedulerTurnsKeeps, SchedulerWritesKeeps, SchedulerClaimKeeps, SchedulerSpawnKeeps
       DEF SchedulerStep
  <1>3. ASSUME NEW w \in Worker, WorkerStep(w) \/ WorkerDies(w)
        PROVE  IInv'
    BY <1>3, WorkerTurnsKeeps, WorkerActivateKeeps, WorkerAdoptKeeps, WorkerWritesKeeps,
       WorkerStartKeeps, WorkerDiesKeeps DEF WorkerStep
  <1>4. ASSUME NEW o \in Observer, ObserverWrite(o) \/ \E k \in Job : ObserverLook(o, k)
        PROVE  IInv'
    BY <1>4, ObserverWriteKeeps, ObserverLookKeeps
  <1>5. ASSUME NEW r \in Request,
               \/ Handle(r) \/ \E w \in Worker : Ask(r, w)
               \/ \E action \in {"approve", "deny"} : Decide(r, action)
        PROVE  IInv'
    BY <1>5, HandleKeeps, AskKeeps, DecideKeeps
  <1>6. CASE UNCHANGED vars
    <2> USE <1>6 DEF vars, storeVars, worldVars, serverVars, processVars
    <2>1. Typed'
      BY DEF IInv, Typed
    <2>2. Fits'
      BY FitsFrame DEF IInv
    <2>3. QED
      BY <2>1, <2>2 DEF IInv
  <1>7. QED
    BY <1>1, <1>2, <1>3, <1>4, <1>5, <1>6 DEF Next

\* Whoever is at a Job is as far as the invariant says, in every state: an
\* activation, a lease that ends, a death or a late answer never leads out of it.
THEOREM DelegationIsInvariant == Spec => []IInv
  <1> USE InitHolds, NextKeeps
  <1>1. QED
    BY PTL DEF Spec

\* dispatchScheduledDelegation, activateScheduledDelegation and the worker: however
\* often a Job is claimed, whoever dies and whatever comes late, it has one turn at
\* most, one worker at a time, an authority that was not withdrawn before, and
\* evidence that is true of App Server.
THEOREM StartsAreAlwaysSafe == Spec => []StartsAreSafe
  <1>1. IInv => StartsAreSafe
    <2> SUFFICES ASSUME IInv
                 PROVE  StartsAreSafe
      OBVIOUS
    <2>1. Typed /\ Fits
      BY DEF IInv
    <2>2. TypeOK
      <3>1. ASSUME NEW w \in Worker, ~Unused(w)
            PROVE  job[worker[w].job] # None
        BY <2>1, <3>1 DEF Fits, WorkerFits
      <3>2. ASSUME NEW k \in Job, job[k] # None
            PROVE  /\ job[k].live => job[k].claim # None
                   /\ job[k].turnId => turns[k] > 0
                   /\ job[k].result # None => job[k].turnId
        BY <2>1, <3>2 DEF Fits, JobFits
      <3>3. QED
        BY <2>1, <3>1, <3>2 DEF TypeOK, Typed
    <2>3. AtMostOneTurn
      BY <2>1 DEF AtMostOneTurn, Fits, JobFits
    <2>4. OneActiveWorker
      BY <2>1 DEF OneActiveWorker, Fits, WorkerFits, Unused, At, Running
    <2>5. EvidenceIsHonest
      BY <2>1 DEF EvidenceIsHonest, Fits, JobFits, Unstarted
    <2>6. RevokedStartsNothing
      BY <2>1 DEF RevokedStartsNothing, Fits, JobFits, Unstarted
    <2>7. QED
      BY <2>2, <2>3, <2>4, <2>5, <2>6 DEF StartsAreSafe
  <1>2. QED
    BY <1>1, DelegationIsInvariant, PTL

-----------------------------------------------------------------------------
(* What a failed Job says stays true                                       *)

\* Only the worker writes the evidence, and only with a Job it may still work on.
LEMMA EvidenceStays ==
  ASSUME IInv, [Next]_vars, NEW k \in Job, mode[k].scheduled, Over(k),
         job[k].evidence = "false"
  PROVE  job'[k] # None /\ job'[k].evidence = "false"
  <1>1. Typed /\ Fits /\ job[k] # None /\ job[k] \in JobRecord /\ JobFits(k)
    BY OthersTyped DEF IInv, Fits, Over
  <1>2. job'[k] = job[k] => job'[k] # None /\ job'[k].evidence = "false"
    BY <1>1
  <1>3. ASSUME NEW j \in Job \ {k}, NEW new, job' = [job EXCEPT ![j] = new]
        PROVE  job'[k] # None /\ job'[k].evidence = "false"
    BY <1>1, <1>3 DEF Typed
  <1>4. job[k].status # "scheduled" /\ ~IsPending(k) /\ turns[k] = 0 /\ ~job[k].turnId
    BY <1>1 DEF Over, EndStatus, PendingStatus, IsPending, JobFits, Unstarted
  <1>5. ASSUME NEW j \in Job, LeaseEnds(j)
        PROVE  job'[k] # None /\ job'[k].evidence = "false"
    <2>1. CASE j = k
      <3> DEFINE new == [job[k] EXCEPT !.live = FALSE]
      <3>1. new \in JobRecord /\ new.evidence = "false"
        BY <1>1 DEF JobRecord
      <3>2. job'[k] = new
        BY <1>1, <1>5, <2>1 DEF LeaseEnds, Typed
      <3>3. QED
        BY <3>1, <3>2, NoneAssumption
    <2>2. QED
      BY <1>3, <1>5, <2>1 DEF LeaseEnds
  <1>6. ASSUME NEW j \in Job, Forward(j) \/ CommandDies(j) \/ FailIfExited(j)
        PROVE  job'[k] # None /\ job'[k].evidence = "false"
    <2>1. CASE Enqueue(j) \/ CommandCreate(j)
      <3>1. j # k
        BY <1>1, <2>1 DEF Enqueue, CommandCreate
      <3>2. QED
        BY <1>3, <2>1, <3>1 DEF Enqueue, CommandCreate
    <2>2. CASE FailIfExited(j)
      BY <1>2, <1>3, <1>4, <2>2 DEF FailIfExited, FailedIfExited
    <2>3. CASE \/ CommandQueue(j) \/ CommandRegister(j) \/ CommandReturn(j) \/ CommandThrow(j)
               \/ CommandFail(j) \/ CommandDies(j) \/ \E w \in Worker : CommandSpawn(j, w)
      <3>1. j # k
        <4>1. command[j].step # "idle"
          BY <2>3 DEF CommandQueue, CommandRegister, CommandReturn, CommandThrow, CommandFail,
             CommandDies, CommandSpawn, CommandGoes, At
        <4>2. QED
          BY <1>1, <4>1 DEF JobFits
      <3>2. CASE CommandReturn(j)
        BY <1>2, <1>3, <3>1, <3>2 DEF CommandReturn, FailedIfExited
      <3>3. QED
        BY <1>2, <1>3, <2>3, <3>1, <3>2 DEF CommandQueue, CommandRegister, CommandThrow,
           CommandFail, CommandDies, CommandSpawn
    <2>4. QED
      BY <1>6, <2>1, <2>2, <2>3 DEF Forward, CommandStep
  <1>7. ASSUME NEW s \in Scheduler, SchedulerStep(s) \/ SchedulerDies(s)
        PROVE  job'[k] # None /\ job'[k].evidence = "false"
    <2> DEFINE j == scheduler[s].job
    <2>1. CASE UNCHANGED job
      BY <1>2, <2>1
    <2>2. CASE ~UNCHANGED job
      <3>1. SchedulerRefuse(s) \/ SchedulerClaim(s) \/ SchedulerRelease(s)
        BY <1>7, <2>2 DEF SchedulerStep, SchedulerDies, SchedulerPick, SchedulerCheckAgain,
           SchedulerYield, SchedulerSpawn
      <3>2. job[j].status = "scheduled"
        BY <2>2, <3>1 DEF SchedulerRefuse, SchedulerClaim, SchedulerRelease, Released
      <3>3. j \in Job \ {k}
        BY <1>1, <1>4, <3>1, <3>2, SchedulerTyped
           DEF SchedulerRefuse, SchedulerClaim, SchedulerRelease, SchedulerGoes, At
      <3>4. \E new : job' = [job EXCEPT ![j] = new]
        BY <2>2, <3>1 DEF SchedulerRefuse, SchedulerClaim, SchedulerRelease, Released
      <3>5. QED
        BY <1>3, <3>3, <3>4
    <2>3. QED
      BY <2>1, <2>2
  <1>8. ASSUME NEW w \in Worker, WorkerStep(w) \/ WorkerDies(w)
        PROVE  job'[k] # None /\ job'[k].evidence = "false"
    <2> DEFINE j == worker[w].job
    <2>1. CASE UNCHANGED job
      BY <1>2, <2>1
    <2>2. CASE ~UNCHANGED job
      <3>1. \/ WorkerActivate(w) \/ WorkerAdopt(w) \/ WorkerAttempt(w) \/ WorkerRunning(w)
            \/ WorkerWrite(w) \/ WorkerRecord(w)
        BY <1>8, <2>2 DEF WorkerStep, WorkerDies, WorkerCall, WorkerAuthorize, WorkerStart,
           WorkerLook, WorkerTrouble, WorkerFail, storeVars
      <3>2. ~Unused(w)
        BY <3>1 DEF WorkerActivate, WorkerAdopt, WorkerAttempt, WorkerRunning, WorkerWrite,
           WorkerRecord, WorkerGoes, Unused, At
      <3>3. j \in Job /\ WorkerFits(w)
        BY <3>2, WorkerHasJob
      <3>4. CASE j # k
        <4>1. job \in [Job -> JobRecord \cup {None}]
          BY <1>1 DEF Typed
        <4>2. job'[k] = job[k]
          BY <2>2, <3>1, <3>3, <3>4, <4>1 DEF WorkerActivate, WorkerAdopt, WorkerAttempt,
             WorkerRunning, WorkerWrite, WorkerRecord, Refreshed
        <4>3. QED
          BY <1>2, <4>2
      <3>5. CASE j = k
        <4>1. WorkerRecord(w)
          <5>1. ~WorkerActivate(w)
            BY <1>4, <2>2, <3>5 DEF WorkerActivate
          <5>2. ~WorkerAdopt(w)
            BY <3>5 DEF WorkerAdopt
          <5>3. ~WorkerAttempt(w)
            BY <1>1, <3>2, <3>3, <3>5 DEF WorkerAttempt, WorkerFits, WorkerGoes, At, Over, EndStatus
          <5>4. ~WorkerRunning(w) /\ ~WorkerWrite(w)
            BY <1>1, <3>2, <3>3, <3>5 DEF WorkerRunning, WorkerWrite, WorkerFits, WorkerGoes, At
          <5>5. QED
            BY <3>1, <5>1, <5>2, <5>3, <5>4
        <4>2. worker[w].cause \in {"untried", "unsent"}
          BY <1>1, <3>2, <3>3, <3>5, <4>1, WorkerTyped DEF WorkerRecord, WorkerFits, WorkerGoes, At
        <4> DEFINE new == [job[k] EXCEPT !.status = "failed", !.evidence = "false"]
        <4>3. new \in JobRecord /\ new.evidence = "false"
          BY <1>1 DEF JobRecord, EndStatus
        <4>4. job'[k] = new
          BY <1>1, <3>5, <4>1, <4>2 DEF WorkerRecord, EvidenceOf, Typed, JobRecord
        <4>5. QED
          BY <4>3, <4>4, NoneAssumption
      <3>6. QED
        BY <3>4, <3>5
    <2>3. QED
      BY <2>1, <2>2
  <1>9. ASSUME NEW o \in Observer, ObserverWrite(o)
        PROVE  job'[k] # None /\ job'[k].evidence = "false"
    <2>1. observer[o].job \in Job /\ job[observer[o].job].turnId
      BY <1>1, <1>9, OthersTyped DEF ObserverWrite, Fits, ObserverFits, At
    <2>2. observer[o].job # k
      BY <1>4, <2>1
    <2>3. job'[k] = job[k]
      BY <1>1, <1>9, <2>1, <2>2 DEF ObserverWrite, Refreshed, Typed
    <2>4. QED
      BY <1>2, <2>3
  <1>10. ASSUME NEW r \in Request, Handle(r)
        PROVE  job'[k] # None /\ job'[k].evidence = "false"
    <2>1. ~At(approval[r], "unasked")
      BY <1>10 DEF Handle, Refuse, Record, Resolve, TimeOut, At
    <2>2. JobOf(r) \in Job /\ turns[JobOf(r)] > 0
      BY <2>1, RequestHasJob
    <2>3. JobOf(r) # k
      BY <1>4, <2>2
    <2>4. \E new : job' = [job EXCEPT ![JobOf(r)] = new]
      BY <1>10 DEF Handle, Refuse, Record, Resolve, TimeOut, Settle, Change
    <2>5. QED
      BY <1>3, <2>2, <2>3, <2>4
  <1>11. CASE UNCHANGED job
    BY <1>2, <1>11
  <1>12. CASE ~UNCHANGED job
    <2>1. ~UNCHANGED vars
      BY <1>12 DEF vars, storeVars
    <2>2. \A j \in Job : ~Expire(j) /\ ~LoseAuthority(j) /\ ~TurnEnds(j) /\ ~LateTurn(j)
      BY <1>12 DEF Expire, LoseAuthority, TurnEnds, LateTurn, storeVars
    <2>3. \A o \in Observer : \A j \in Job : ~ObserverLook(o, j)
      BY <1>12 DEF ObserverLook, storeVars
    <2>4. \A r \in Request : /\ \A w \in Worker : ~Ask(r, w)
                            /\ \A action \in {"approve", "deny"} : ~Decide(r, action)
      BY <1>12 DEF Ask, Decide, storeVars
    <2>5. QED
      BY <1>5, <1>6, <1>7, <1>8, <1>9, <1>10, <2>1, <2>2, <2>3, <2>4 DEF Next
  <1>13. QED
    BY <1>11, <1>12

\* A scheduled Job that has failed or expired without a turn never starts one, so
\* that it is safe to delegate the task again (modelTurnStarted); and App Server
\* is told what the record of an approval says (approvals.js).
THEOREM AnswersAreAlwaysHonest == Spec => AnswersAreHonest
  <1>1. ASSUME IInv, IInv', [Next]_vars, NEW k \in Job,
               mode[k].scheduled, Over(k), job[k].evidence = "false"
        PROVE  job'[k].evidence = "false" /\ turns'[k] = 0 /\ k \notin onWire'
    <2>1. job'[k] # None /\ job'[k].evidence = "false"
      BY <1>1, EvidenceStays
    <2>2. QED
      BY <1>1, <2>1 DEF IInv, Fits, JobFits, Unstarted
  <1>2. IInv /\ IInv' /\ [Next]_vars => [\A k \in Job :
          mode[k].scheduled /\ Over(k) /\ job[k].evidence = "false" =>
            job'[k].evidence = "false" /\ turns'[k] = 0 /\ k \notin onWire']_vars
    BY <1>1
  <1>3. IInv => AnswersMatchRecord
    BY DEF IInv, Fits, ApprovalFits, AnswersMatchRecord, At
  <1>4. Spec => FailedStartsNothing
    BY <1>2, DelegationIsInvariant, PTL DEF Spec, FailedStartsNothing
  <1>5. Spec => []AnswersMatchRecord
    BY <1>3, DelegationIsInvariant, PTL
  <1>6. QED
    BY <1>4, <1>5 DEF AnswersAreHonest
=============================================================================
