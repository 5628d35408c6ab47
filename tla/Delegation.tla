------------------------------- MODULE Delegation -------------------------------
(***************************************************************************)
(* Delegations: the Job record of jobs.js, the scheduler that claims a     *)
(* scheduled one, the command that starts an immediate one, the worker     *)
(* process that runs its turn, the approvals the turn asks for, and those  *)
(* who look at a Job and correct it.                                       *)
(*      src/jobs.js, src/delegation-worker.js, src/approvals.js,           *)
(*      src/delegation-authority.js, src/scheduler.js, bin/cxmsg.js        *)
(*                                                                         *)
(* A write of a Job is one step, under the Job's lock.  What a process     *)
(* read before is in its step, and may be old when it writes.  Time is the *)
(* three facts that depend on it: a lease is over, a Delegation has        *)
(* expired, a wait has lasted too long (always possible).  The threads a   *)
(* turn may run on and the mirror of a result are left out.                *)
(***************************************************************************)
EXTENDS Naturals, FiniteSets

CONSTANTS
  Job,
  Mode,        \* ways to delegate: scheduled or not, and who approves
  Scheduler,   \* scheduler processes
  Worker,      \* delegation worker processes, each runs once
  Observer,    \* commands that wait for a Job or ask for its result
  Request,     \* approval requests of App Server
  MaxClaims,   \* bound: claims of one Job
  MaxCrashes,  \* bound: deaths of processes
  None

ASSUME DelegationAssumptions ==
  /\ Mode \subseteq [scheduled : BOOLEAN, approval : {"never", "relay", "auto"}]
  /\ MaxClaims \in Nat /\ MaxCrashes \in Nat
  /\ None \notin Nat \cup Worker \cup Job \cup {"approve", "approved"}

VARIABLES
  mode,      \* how each Job was asked for
  job,       \* Job records
  claims,    \* claims of each Job so far
  granted,   \* the Delegation's authority is valid
  due,       \* the Delegation has expired
  command,   \* where the command of an immediate Delegation is
  scheduler, \* where each scheduler is
  worker,    \* where each worker is
  observer,  \* where each observer is
  approval,  \* approval requests, and what became of them
  turn,      \* the turn of each Job in App Server
  turns,     \* turns started for each Job
  onWire,    \* Jobs whose turn/start nobody waits for any more
  revoked,   \* authority was lost while the Job was scheduled
  crashes    \* deaths so far

storeVars == <<mode, job, claims>>
worldVars == <<granted, due, revoked>>
serverVars == <<turn, turns, onWire>>
processVars == <<command, scheduler, worker, observer>>
vars == <<storeVars, worldVars, serverVars, processVars, approval, crashes>>

PendingStatus == {"dispatching", "scheduled", "queued", "running", "awaiting_approval"}
EndStatus == {"completed", "failed", "expired", "unknown"}

Claim == 1..MaxClaims \cup {None}

\* evidence is modelTurnStarted: false, null or true.
JobRecord ==
  [status : PendingStatus \cup EndStatus, pid : Worker \cup {None}, claim : Claim,
   live : BOOLEAN, attempts : Nat, evidence : {"false", "null", "true"},
   turnId : BOOLEAN, result : {"text", None}]

ASSUME NoneAssumption == None \notin JobRecord

IsPending(k) == job[k] # None /\ job[k].status \in PendingStatus

NewJob(status) ==
  [status |-> status, pid |-> None, claim |-> None, live |-> FALSE, attempts |-> 0,
   evidence |-> "false", turnId |-> FALSE, result |-> None]

Idle == [step |-> "idle"]

Init ==
  /\ mode \in [Job -> Mode]
  /\ job = [k \in Job |-> None]
  /\ claims = [k \in Job |-> 0]
  /\ granted = [k \in Job |-> TRUE]
  /\ due = [k \in Job |-> FALSE]
  /\ command = [k \in Job |-> Idle]
  /\ scheduler = [s \in Scheduler |-> Idle]
  /\ worker = [w \in Worker |-> Idle]
  /\ observer = [o \in Observer |-> Idle]
  /\ approval = [r \in Request |-> [step |-> "unasked"]]
  /\ turn = [k \in Job |-> "none"]
  /\ turns = [k \in Job |-> 0]
  /\ onWire = {}
  /\ revoked = [k \in Job |-> FALSE]
  /\ crashes = 0

-----------------------------------------------------------------------------
(* Time and authority                                                      *)

Expire(k) ==
  /\ job[k] # None /\ ~due[k]
  /\ due' = [due EXCEPT ![k] = TRUE]
  /\ UNCHANGED <<storeVars, granted, revoked, serverVars, processVars, approval, crashes>>

LeaseEnds(k) ==
  /\ job[k] # None /\ job[k].claim # None /\ job[k].live
  /\ job' = [job EXCEPT ![k].live = FALSE]
  /\ UNCHANGED <<mode, claims, worldVars, serverVars, processVars, approval, crashes>>

\* The grant, permission profile, Node or Project of the target changes.
LoseAuthority(k) ==
  /\ granted[k]
  /\ granted' = [granted EXCEPT ![k] = FALSE]
  /\ revoked' = [revoked EXCEPT ![k] = job[k] = None \/ job[k].status = "scheduled"]
  /\ UNCHANGED <<storeVars, due, serverVars, processVars, approval, crashes>>

\* validateDelegationAuthority
Authorized(k) == granted[k] /\ (mode[k].scheduled => ~due[k])

-----------------------------------------------------------------------------
(* Workers come and go                                                     *)

At(p, step) == p.step = step

Spawned(w, k, claim) ==
  worker' = [worker EXCEPT ![w] = [step |-> "spawned", job |-> k, claim |-> claim]]

Unused(w) == At(worker[w], "idle")

Handling(w) == \E r \in Request :
  approval[r].step \in {"asked", "waiting"} /\ approval[r].worker = w

\* A worker that is through its own steps lives on while it handles a request.
IsMissing(w) == At(worker[w], "exited") /\ ~Handling(w)

-----------------------------------------------------------------------------
(* Enqueue, and the command of an immediate Delegation                     *)

\* createScheduledDelegationJob; a repetition of it finds the Job.
Enqueue(k) ==
  /\ mode[k].scheduled /\ job[k] = None
  /\ Authorized(k)
  /\ job' = [job EXCEPT ![k] = NewJob("scheduled")]
  /\ UNCHANGED <<mode, claims, worldVars, serverVars, processVars, approval, crashes>>

CommandGoes(k, from, to) ==
  /\ At(command[k], from)
  /\ command' = [command EXCEPT ![k] = to]
  /\ UNCHANGED <<mode, claims, worldVars, serverVars, scheduler, observer, approval>>

\* createJob looks for the id and writes without a lock; the command is the only one
\* of its Job, as its id is fresh.  Two that are given one --job-id are left out.
CommandCreate(k) ==
  /\ ~mode[k].scheduled /\ job[k] = None
  /\ granted[k]
  /\ CommandGoes(k, "idle", [step |-> "created"])
  /\ job' = [job EXCEPT ![k] = NewJob("dispatching")]
  /\ UNCHANGED <<worker, crashes>>

CommandQueue(k) ==
  /\ CommandGoes(k, "created", [step |-> "queued"])
  /\ job' = [job EXCEPT ![k].status = "queued"]
  /\ UNCHANGED <<worker, crashes>>

CommandSpawn(k, w) ==
  /\ Unused(w)
  /\ CommandGoes(k, "queued", [step |-> "spawned", worker |-> w])
  /\ Spawned(w, k, None)
  /\ UNCHANGED <<job, crashes>>

CommandRegister(k) ==
  /\ CommandGoes(k, "spawned", [step |-> "waiting", worker |-> command[k].worker])
  /\ job' = [job EXCEPT ![k].pid = command[k].worker]
  /\ UNCHANGED <<worker, crashes>>

\* A bug the checks must catch: only a worker that was never registered is missing, and at any time.
FailedIfLate(k) ==
  IF IsPending(k) /\ job[k].status # "scheduled"
    THEN [job EXCEPT ![k].status = "failed"]
    ELSE job

\* A bug the checks must catch: a Job that waits for an approval is not looked at.
FailedUnlessWaiting(k) ==
  IF /\ IsPending(k) /\ job[k].status \notin {"scheduled", "awaiting_approval"}
     /\ job[k].pid # None => IsMissing(job[k].pid)
    THEN [job EXCEPT ![k].status = "failed"]
    ELSE job

\* failJobIfWorkerExited, which looks again under the lock.
FailedIfExited(k) ==
  IF /\ IsPending(k) /\ job[k].status # "scheduled"
     /\ job[k].pid # None => IsMissing(job[k].pid)
    THEN [job EXCEPT ![k].status = "failed"]
    ELSE job

CommandReady(k) ==
  job[k].turnId \/ ~IsPending(k) \/ IsMissing(command[k].worker)

CommandReturn(k) ==
  /\ At(command[k], "waiting") /\ CommandReady(k)
  /\ CommandGoes(k, "waiting", [step |-> "done"])
  /\ job' = FailedIfExited(k)
  /\ UNCHANGED <<worker, crashes>>

\* A call fails, or ten seconds have passed: the catch block reads the Job,
\* and fails it in a step of its own.
CommandThrow(k) ==
  /\ \E step \in {"created", "queued", "spawned", "waiting"} :
       /\ CommandGoes(k, step, [step |-> IF IsPending(k) THEN "failing" ELSE "done"])
       /\ step = "waiting" => ~CommandReady(k)
  /\ UNCHANGED <<job, worker, crashes>>

CommandFail(k) ==
  /\ CommandGoes(k, "failing", [step |-> "done"])
  /\ job' = [job EXCEPT ![k].status = "failed"]
  /\ UNCHANGED <<worker, crashes>>

CommandDies(k) ==
  /\ crashes < MaxCrashes
  /\ crashes' = crashes + 1
  /\ \E step \in {"created", "queued", "spawned", "waiting", "failing"} :
       CommandGoes(k, step, [step |-> "done"])
  /\ UNCHANGED <<job, worker>>

CommandStep(k) ==
  \/ CommandCreate(k) \/ CommandQueue(k) \/ \E w \in Worker : CommandSpawn(k, w)
  \/ CommandRegister(k) \/ CommandReturn(k) \/ CommandThrow(k) \/ CommandFail(k)

-----------------------------------------------------------------------------
(* The scheduler: dispatchScheduledDelegation                              *)

SchedulerGoes(s, from, to) ==
  /\ At(scheduler[s], from)
  /\ scheduler' = [scheduler EXCEPT ![s] = to]
  /\ UNCHANGED <<mode, worldVars, serverVars, command, observer, approval>>

Refusing(k, status) == [step |-> "refusing", job |-> k, status |-> status]

\* eligibleScheduledDelegations, and the first validation.  App Server may not
\* answer, or the target be busy: then the Job is left alone.
SchedulerPick(s, k) ==
  /\ job[k] # None /\ job[k].status = "scheduled"
  /\ job[k].claim = None \/ ~job[k].live
  /\ SchedulerGoes(s, "idle",
       IF Authorized(k) THEN [step |-> "claiming", job |-> k]
       ELSE Refusing(k, IF due[k] THEN "expired" ELSE "failed"))
  /\ UNCHANGED <<job, claims, worker, crashes>>

\* failScheduledDelegation
SchedulerRefuse(s) ==
  LET k == scheduler[s].job IN
  /\ SchedulerGoes(s, "refusing", Idle)
  /\ job' = IF job[k].status # "scheduled" THEN job
            ELSE [job EXCEPT ![k].status = scheduler[s].status]
  /\ UNCHANGED <<claims, worker, crashes>>

\* claimScheduledDelegation.  Its time may be older than the lock.
SchedulerClaim(s) ==
  LET k == scheduler[s].job
      open == job[k].status = "scheduled" /\ (job[k].claim = None \/ ~job[k].live) IN
  /\ At(scheduler[s], "claiming")
  /\ \/ /\ ~open
        /\ SchedulerGoes(s, "claiming", Idle)
        /\ UNCHANGED <<job, claims>>
     \/ /\ job[k].status = "scheduled" /\ due[k]
        /\ SchedulerGoes(s, "claiming", Idle)
        /\ job' = [job EXCEPT ![k].status = "expired"]
        /\ UNCHANGED claims
     \/ /\ open /\ claims[k] < MaxClaims
        /\ claims' = [claims EXCEPT ![k] = @ + 1]
        /\ job' = [job EXCEPT ![k].claim = claims'[k], ![k].live = TRUE]
        /\ SchedulerGoes(s, "claiming", [step |-> "claimed", job |-> k, claim |-> claims'[k]])
  /\ UNCHANGED <<worker, crashes>>

SchedulerCheckAgain(s) ==
  /\ SchedulerGoes(s, "claimed",
       IF Authorized(scheduler[s].job) THEN [scheduler[s] EXCEPT !.step = "spawning"]
       ELSE [step |-> "releasing", job |-> scheduler[s].job, claim |-> scheduler[s].claim,
             status |-> IF granted[scheduler[s].job] THEN "expired" ELSE "failed"])
  /\ UNCHANGED <<job, claims, worker, crashes>>

SchedulerSpawn(s, w) ==
  /\ Unused(w)
  /\ SchedulerGoes(s, "spawning", Idle)
  /\ Spawned(w, scheduler[s].job, scheduler[s].claim)
  /\ UNCHANGED <<job, claims, crashes>>

\* The target is busy, App Server does not answer, or the spawn fails.
SchedulerYield(s) ==
  /\ \E step \in {"claimed", "spawning"} :
       SchedulerGoes(s, step, [scheduler[s] EXCEPT !.step = "yielding"])
  /\ UNCHANGED <<job, claims, worker, crashes>>

Released(k, claim) ==
  IF job[k].status = "scheduled" /\ job[k].claim = claim
    THEN [job EXCEPT ![k].claim = None, ![k].live = FALSE]
    ELSE job

\* releaseScheduledDelegationClaim, and for an authority that is gone
\* failScheduledDelegation next.
SchedulerRelease(s) ==
  /\ \/ SchedulerGoes(s, "releasing", Refusing(scheduler[s].job, scheduler[s].status))
     \/ SchedulerGoes(s, "yielding", Idle)
  /\ job' = Released(scheduler[s].job, scheduler[s].claim)
  /\ UNCHANGED <<claims, worker, crashes>>

SchedulerDies(s) ==
  /\ crashes < MaxCrashes
  /\ crashes' = crashes + 1
  /\ ~At(scheduler[s], "idle")
  /\ SchedulerGoes(s, scheduler[s].step, Idle)
  /\ UNCHANGED <<job, claims, worker>>

SchedulerStep(s) ==
  \/ \E k \in Job : SchedulerPick(s, k)
  \/ SchedulerRefuse(s) \/ SchedulerClaim(s)
  \/ SchedulerCheckAgain(s) \/ SchedulerYield(s) \/ SchedulerRelease(s)
  \/ \E w \in Worker : SchedulerSpawn(s, w)

-----------------------------------------------------------------------------
(* The worker: runDelegationWorker                                         *)

Connected(w) == worker[w].step \in {"starting", "started", "watching", "writing"}

WorkerGoes(w, from, to) ==
  /\ At(worker[w], from)
  /\ worker' = [worker EXCEPT ![w] = to]
  /\ UNCHANGED <<mode, claims, worldVars, command, scheduler, observer, approval>>

To(w, step) == [step |-> step, job |-> worker[w].job]
Failing(w, cause) == [step |-> "failing", job |-> worker[w].job, cause |-> cause]

\* The time of the activation is read here, before the wait for the lock.
WorkerCall(w) ==
  LET k == worker[w].job IN
  /\ At(worker[w], "spawned") /\ mode[k].scheduled
  /\ WorkerGoes(w, "spawned",
       [worker[w] EXCEPT !.step = IF job[k].claim = worker[w].claim /\ job[k].live
                                    THEN "activating" ELSE "exited"])
  /\ UNCHANGED <<job, serverVars, crashes>>

\* A bug the checks must catch: the worker trusts the lease it was started under.
WorkerActivateUnseen(w) ==
  /\ WorkerGoes(w, "activating", To(w, "ready"))
  /\ job' = [job EXCEPT ![worker[w].job].status = "queued", ![worker[w].job].pid = w]
  /\ UNCHANGED <<serverVars, crashes>>

\* activateScheduledDelegation, or ECLAIMLOST.
WorkerActivate(w) ==
  LET k == worker[w].job
      mine == job[k].status = "scheduled" /\ job[k].claim = worker[w].claim IN
  /\ WorkerGoes(w, "activating", To(w, IF mine THEN "ready" ELSE "exited"))
  /\ job' = IF ~mine THEN job
            ELSE [job EXCEPT ![k].status = "queued", ![k].pid = w, ![k].claim = None,
                             ![k].live = FALSE, ![k].attempts = @ + 1]
  /\ UNCHANGED <<serverVars, crashes>>

\* The worker of an immediate Delegation takes the Job as it finds it.
WorkerAdopt(w) ==
  LET k == worker[w].job IN
  /\ At(worker[w], "spawned") /\ ~mode[k].scheduled
  /\ WorkerGoes(w, "spawned", To(w, "ready"))
  /\ job' = [job EXCEPT ![k].status = "queued", ![k].pid = w]
  /\ UNCHANGED <<serverVars, crashes>>

WorkerAuthorize(w) ==
  /\ WorkerGoes(w, "ready", IF Authorized(worker[w].job) THEN To(w, "authorized")
                            ELSE Failing(w, "untried"))
  /\ UNCHANGED <<job, serverVars, crashes>>

\* beforeStart: the evidence is written before the request is.
WorkerAttempt(w) ==
  /\ WorkerGoes(w, "authorized", To(w, "starting"))
  /\ job' = [job EXCEPT ![worker[w].job].evidence = "null"]
  /\ UNCHANGED <<serverVars, crashes>>

Started(k) ==
  /\ turn' = [turn EXCEPT ![k] = "active"]
  /\ turns' = [turns EXCEPT ![k] = @ + 1]

\* turn/start: answered; taken and its answer lost; timed out, with the
\* request still on its way; refused; or never sent.
WorkerStart(w) ==
  LET k == worker[w].job IN
  /\ \/ /\ WorkerGoes(w, "starting", To(w, "started"))
        /\ Started(k) /\ UNCHANGED onWire
     \/ /\ WorkerGoes(w, "starting", Failing(w, "tried"))
        /\ Started(k) /\ UNCHANGED onWire
     \/ /\ WorkerGoes(w, "starting", Failing(w, "tried"))
        /\ onWire' = onWire \cup {k} /\ UNCHANGED <<turn, turns>>
     \/ /\ WorkerGoes(w, "starting", Failing(w, "tried"))
        /\ UNCHANGED serverVars
     \/ /\ WorkerGoes(w, "starting", Failing(w, "unsent"))
        /\ UNCHANGED serverVars
  /\ UNCHANGED <<job, crashes>>

WorkerRunning(w) ==
  /\ WorkerGoes(w, "started", To(w, "watching"))
  /\ job' = [job EXCEPT ![worker[w].job].status = "running",
                        ![worker[w].job].evidence = "true",
                        ![worker[w].job].turnId = TRUE]
  /\ UNCHANGED <<serverVars, crashes>>

\* What thread/read may show of the turn of a Job that refreshJob writes down.
\* A turn it cannot find for too long is unknown; a result may be out of reach.
Views(k) ==
  {[status |-> "unknown", result |-> None]}
    \cup (IF turn[k] = "completed" THEN [status : {"completed"}, result : {"text", None}]
          ELSE {})
    \cup (IF turn[k] = "failed" THEN {[status |-> "failed", result |-> None]} ELSE {})

\* refreshJob writes over whatever has become of the Job since it was read.
Refreshed(k, view) ==
  [job EXCEPT ![k].status = view.status,
              ![k].result = IF view.status = "unknown" THEN @ ELSE view.result]

\* waitForTerminal
WorkerLook(w) ==
  LET k == worker[w].job IN
  /\ At(worker[w], "watching")
  /\ \/ ~IsPending(k) /\ WorkerGoes(w, "watching", To(w, "exited"))
     \/ /\ job[k].status = "running" /\ job[k].turnId
        /\ \E view \in Views(k) :
             WorkerGoes(w, "watching", [step |-> "writing", job |-> k, view |-> view])
  /\ UNCHANGED <<job, serverVars, crashes>>

WorkerWrite(w) ==
  /\ WorkerGoes(w, "writing", To(w, "exited"))
  /\ job' = Refreshed(worker[w].job, worker[w].view)
  /\ UNCHANGED <<serverVars, crashes>>

\* App Server cannot be reached, a thread is gone, a file cannot be written.
WorkerTrouble(w) ==
  /\ \/ \E step \in {"ready", "authorized"} : WorkerGoes(w, step, Failing(w, "untried"))
     \/ \E step \in {"started", "watching"} : WorkerGoes(w, step, Failing(w, "started"))
  /\ UNCHANGED <<job, serverVars, crashes>>

WorkerFail(w) ==
  /\ WorkerGoes(w, "failing", IF IsPending(worker[w].job)
                                THEN [worker[w] EXCEPT !.step = "recording"]
                                ELSE To(w, "exited"))
  /\ UNCHANGED <<job, serverVars, crashes>>

EvidenceOf(cause) ==
  CASE cause = "started" -> "true"
    [] cause \in {"untried", "unsent"} -> "false"
    [] cause = "tried" -> "null"

WorkerRecord(w) ==
  /\ WorkerGoes(w, "recording", To(w, "exited"))
  /\ job' = [job EXCEPT ![worker[w].job].status = "failed",
                        ![worker[w].job].evidence = EvidenceOf(worker[w].cause)]
  /\ UNCHANGED <<serverVars, crashes>>

\* Its handlers die with it.  A turn/start it was sending may arrive.
WorkerDies(w) ==
  /\ crashes < MaxCrashes
  /\ crashes' = crashes + 1
  /\ ~Unused(w) /\ ~IsMissing(w)
  /\ worker' = [worker EXCEPT ![w] = To(w, "exited")]
  /\ approval' = [r \in Request |-> IF approval[r].step \in {"asked", "waiting"}
                                       /\ approval[r].worker = w
                                      THEN [approval[r] EXCEPT !.step = "dead"]
                                      ELSE approval[r]]
  /\ \/ UNCHANGED onWire
     \/ At(worker[w], "starting") /\ onWire' = onWire \cup {worker[w].job}
  /\ UNCHANGED <<storeVars, worldVars, turn, turns, command, scheduler, observer>>

WorkerStep(w) ==
  \/ WorkerCall(w) \/ WorkerActivate(w) \/ WorkerAdopt(w) \/ WorkerAuthorize(w)
  \/ WorkerAttempt(w) \/ WorkerStart(w) \/ WorkerRunning(w) \/ WorkerLook(w)
  \/ WorkerWrite(w) \/ WorkerTrouble(w) \/ WorkerFail(w) \/ WorkerRecord(w)

-----------------------------------------------------------------------------
(* App Server, and those who look at a Job                                 *)

Asks(k) == {r \in Request : approval[r].step \in {"asked", "waiting"}
                            /\ worker[approval[r].worker].job = k}

\* A turn waits for the answers it asked for, and may fail at any time.
TurnEnds(k) ==
  /\ turn[k] = "active"
  /\ \E end \in {"completed", "failed"} :
       /\ end = "completed" => Asks(k) = {}
       /\ turn' = [turn EXCEPT ![k] = end]
  /\ UNCHANGED <<storeVars, worldVars, turns, onWire, processVars, approval, crashes>>

\* A turn/start nobody waits for arrives, or does not.
LateTurn(k) ==
  /\ k \in onWire
  /\ onWire' = onWire \ {k}
  /\ Started(k) \/ UNCHANGED <<turn, turns>>
  /\ UNCHANGED <<storeVars, worldVars, processVars, approval, crashes>>

\* result, wait and status commands, and claude-requests: refreshJob in two steps.
ObserverLook(o, k) ==
  /\ At(observer[o], "idle")
  /\ IsPending(k) /\ job[k].status = "running" /\ job[k].turnId
  /\ \E view \in Views(k) :
       observer' = [observer EXCEPT ![o] = [step |-> "writing", job |-> k, view |-> view]]
  /\ UNCHANGED <<storeVars, worldVars, serverVars, command, scheduler, worker, approval,
                 crashes>>

ObserverWrite(o) ==
  /\ At(observer[o], "writing")
  /\ observer' = [observer EXCEPT ![o] = Idle]
  /\ job' = Refreshed(observer[o].job, observer[o].view)
  /\ UNCHANGED <<mode, claims, worldVars, serverVars, command, scheduler, worker, approval,
                 crashes>>

\* Commands that show a Job or wait for it, and the scheduler for a trigger Job.
FailIfExited(k) ==
  /\ job[k] # None
  /\ job' = FailedIfExited(k)
  /\ UNCHANGED <<mode, claims, worldVars, serverVars, processVars, approval, crashes>>

-----------------------------------------------------------------------------
(* Approvals                                                               *)

Change(r, new, k, status) ==
  /\ approval' = [approval EXCEPT ![r] = new]
  /\ job' = [job EXCEPT ![k].status = status]
  /\ UNCHANGED <<mode, claims, worldVars, serverVars, processVars, crashes>>

JobOf(r) == worker[approval[r].worker].job

\* A request of the turn reaches the worker's handler.
Ask(r, w) ==
  /\ At(approval[r], "unasked")
  /\ worker[w].step \in {"started", "watching", "writing"}
  /\ turn[worker[w].job] = "active"
  /\ mode[worker[w].job].approval # "never"
  /\ approval' = [approval EXCEPT ![r] =
       [step |-> "asked", worker |-> w, status |-> None, action |-> None, answer |-> None]]
  /\ UNCHANGED <<storeVars, worldVars, serverVars, processVars, crashes>>

\* An answer is lost when the worker has closed its connection.
Answer(r, answer) == IF Connected(approval[r].worker) THEN answer ELSE "lost"

\* approvalResponse throws for a question that offers no such option: then App
\* Server gets an error.
Settled(r, status, action, response) ==
  [approval[r] EXCEPT !.step = "done", !.status = status, !.action = action,
                      !.answer = Answer(r, response)]

Responses(action) == {action, "error"}

\* The handler throws before it has recorded the request: one that approves by
\* itself looks for the option first, and the record may not be written.
Refuse(r) ==
  /\ At(approval[r], "asked")
  /\ Change(r, [approval[r] EXCEPT !.step = "done", !.answer = Answer(r, "error")],
            JobOf(r), job[JobOf(r)].status)

Record(r) ==
  LET k == JobOf(r) IN
  /\ At(approval[r], "asked")
  /\ IF mode[k].approval = "auto"
       THEN Change(r, Settled(r, "approved", "approve", "approve"), k, job[k].status)
       ELSE Change(r, [approval[r] EXCEPT !.step = "waiting", !.status = "pending"],
                   k, "awaiting_approval")

\* decideApproval
Decide(r, action) ==
  /\ approval[r].step \in {"waiting", "dead"}
  /\ approval[r].status = "pending" /\ approval[r].action = None
  /\ approval' = [approval EXCEPT ![r].action = action]
  /\ UNCHANGED <<storeVars, worldVars, serverVars, processVars, crashes>>

\* approvalJobStatus, once r is settled.
ApprovalJobStatus(r) ==
  LET k == JobOf(r)
      others == {q \in Request \ {r} : approval[q].step \in {"waiting", "dead"} /\ JobOf(q) = k} IN
  IF \E q \in others : approval[q].status = "pending" /\ approval[q].action = None
    THEN "awaiting_approval"
  ELSE IF job[k].status \in {"completed", "failed", "unknown"} THEN job[k].status
  ELSE "running"

\* The record is written before the answer is looked for.
Settle(r, status, action) ==
  \E response \in Responses(action) :
    Change(r, Settled(r, status, action, response), JobOf(r), ApprovalJobStatus(r))

Resolve(r) ==
  /\ At(approval[r], "waiting") /\ approval[r].action # None
  /\ Settle(r, IF approval[r].action = "approve" THEN "approved" ELSE "denied",
            approval[r].action)

\* A bug the checks must catch: a decision made just before the deadline is answered, but not recorded.
TimeOutDecided(r) ==
  /\ At(approval[r], "waiting")
  /\ Settle(r, "timed_out", IF approval[r].action = None THEN "deny" ELSE approval[r].action)

\* The deadline, which does not look again.
TimeOut(r) ==
  /\ At(approval[r], "waiting")
  /\ Settle(r, "timed_out", "deny")

-----------------------------------------------------------------------------

Forward(k) == Enqueue(k) \/ CommandStep(k)
Handle(r) == Refuse(r) \/ Record(r) \/ Resolve(r) \/ TimeOut(r)

Next ==
  \/ \E k \in Job : \/ Expire(k) \/ LeaseEnds(k) \/ LoseAuthority(k) \/ Forward(k)
                    \/ CommandDies(k) \/ TurnEnds(k) \/ LateTurn(k) \/ FailIfExited(k)
  \/ \E s \in Scheduler : SchedulerStep(s) \/ SchedulerDies(s)
  \/ \E w \in Worker : WorkerStep(w) \/ WorkerDies(w)
  \/ \E o \in Observer : ObserverWrite(o) \/ \E k \in Job : ObserverLook(o, k)
  \/ \E r \in Request : \/ Handle(r) \/ \E w \in Worker : Ask(r, w)
                        \/ \E action \in {"approve", "deny"} : Decide(r, action)

Fairness ==
  /\ \A k \in Job : /\ WF_vars(CommandStep(k)) /\ WF_vars(Expire(k)) /\ WF_vars(LeaseEnds(k))
                    /\ WF_vars(TurnEnds(k)) /\ WF_vars(FailIfExited(k))
  /\ \A s \in Scheduler : WF_vars(SchedulerStep(s))
  /\ \A w \in Worker : WF_vars(WorkerStep(w))
  /\ \A o \in Observer : WF_vars(ObserverWrite(o))
  /\ \A r \in Request : WF_vars(Handle(r))

Spec == Init /\ [][Next]_vars /\ Fairness

-----------------------------------------------------------------------------
(* Properties                                                              *)

Running == {"ready", "authorized", "starting", "started", "watching", "writing",
            "failing", "recording"}

\* The variables have their types, and who is at a step knows what it needs there.
TypeOK ==
  /\ mode \in [Job -> Mode]
  /\ job \in [Job -> JobRecord \cup {None}]
  /\ \A k \in Job : job[k] # None =>
       /\ job[k].live => job[k].claim # None
       /\ job[k].turnId => turns[k] > 0
       /\ job[k].result # None => job[k].turnId
  /\ \A w \in Worker : ~Unused(w) => job[worker[w].job] # None
  /\ turn \in [Job -> {"none", "active", "completed", "failed"}]
  /\ onWire \subseteq Job

\* One Job starts one turn at most, whoever claims it, dies or is slow.
AtMostOneTurn == \A k \in Job : turns[k] <= 1

\* The evidence a Job carries is true of App Server: false says that no turn
\* was started and none will be, true says that one was.
EvidenceIsHonest == \A k \in Job : job[k] # None =>
  /\ job[k].evidence = "false" => turns[k] = 0 /\ k \notin onWire
  /\ job[k].evidence = "true" => turns[k] > 0

\* A scheduled Job, claimed again after a lease is over, has one worker that
\* runs it: the one whose process id it carries.
OneActiveWorker == \A k \in Job : \A w \in Worker :
  worker[w].step \in Running /\ worker[w].job = k => job[k].pid \in {w, None}

\* A Delegation whose authority was withdrawn while it waited starts nothing,
\* also when the scheduler that checked it was slow.
RevokedStartsNothing == \A k \in Job : revoked[k] => turns[k] = 0 /\ k \notin onWire

\* Claimed twice, slow, dying or without an answer: a Job has one turn at most, by
\* the worker it names, under an authority that holds, and says so truly.
StartsAreSafe ==
  TypeOK /\ AtMostOneTurn /\ OneActiveWorker /\ EvidenceIsHonest /\ RevokedStartsNothing

Over(k) == job[k] # None /\ job[k].status \in EndStatus

\* What has failed or expired without a turn is done with: a scheduled Job
\* never starts one later, so that the operator may delegate the task again.
FailedStartsNothing == [][\A k \in Job :
  mode[k].scheduled /\ Over(k) /\ job[k].evidence = "false" =>
    job'[k].evidence = "false" /\ turns'[k] = 0 /\ k \notin onWire']_vars

\* App Server is never told anything else than the record says: to go on only where
\* it says approved, not to only where it does not.  A question without a fitting
\* option it gets an error for, whatever is on record.  The record says approved
\* exactly when the operator did, or the Job approves by itself.
AnswersMatchRecord == \A r \in Request : At(approval[r], "done") =>
  /\ approval[r].status = "approved" <=> approval[r].action = "approve"
  /\ approval[r].answer = "approve" => approval[r].status = "approved"
  /\ approval[r].answer = "deny" => approval[r].status # "approved"

\* What the operator is told, and told App Server, stays true: no failed Job starts
\* after all, and no answer but an error differs from its record, whatever races with it.
AnswersAreHonest == FailedStartsNothing /\ []AnswersMatchRecord

\* Every Job comes to an end and stays there, whoever dies on the way.
JobsEnd == \A k \in Job : job[k] # None ~> [](~IsPending(k))

=============================================================================
