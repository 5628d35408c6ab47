------------------------------ MODULE ClaudeRequest ------------------------------
(***************************************************************************)
(* Requests of a Claude session: the bridge runs each in a turn of its own *)
(* and sends the result back.                                              *)
(*      src/claude-requests.js, src/claude-bridge.js, src/jobs.js,         *)
(*      src/approvals.js, bin/cxmsg.js                                     *)
(*                                                                         *)
(* The runner of a request lives in the memory of the bridge.  Others that *)
(* refresh the Job, and a turn/start that arrives late, are in Delegation. *)
(***************************************************************************)
EXTENDS ClaudeDelivery

CONSTANTS
  Operator,     \* commands that send a reply again
  MaxReplies    \* bound: replies to one request

PendingStatus == {"dispatching", "queued", "running", "awaiting_approval"}
IsPending(status) == status \in PendingStatus

RequestStatus == PendingStatus \cup Ended \cup {"unknown"}

RequestRecord ==
  [status : RequestStatus,
   turnId : BOOLEAN,
   reply  : {"pending", "delivered", "failed"}]

ASSUME RequestAssumptions == MaxReplies \in Nat /\ None \notin RequestRecord

VARIABLES
  request,      \* Job records of kind claude-request
  accepting,    \* Jobs that were created and are not queued yet
  runner,       \* where the run of each request is
  operator,     \* where each command is
  turn,         \* the turn of each request in App Server
  turns,        \* turns started for it
  ask,          \* the approval its turn asks for
  replies,      \* replies Claude was handed
  said,         \* what they said
  interrupted,  \* requests whose bridge died before the turn it started was recorded
  repeated      \* requests whose reply had to be sent again

requestVars == <<request, accepting, runner, operator, turn, turns, ask, replies, said,
                 interrupted, repeated>>

RequestInit ==
  /\ request = [k \in Job |-> None]
  /\ accepting = {}
  /\ runner = [k \in Job |-> Idle]
  /\ operator = [o \in Operator |-> Idle]
  /\ turn = [k \in Job |-> "none"] /\ turns = [k \in Job |-> 0]
  /\ ask = [k \in Job |-> "none"]
  /\ replies = [k \in Job |-> 0] /\ said = [k \in Job |-> {}]
  /\ interrupted = {} /\ repeated = {}

\* What the Job says when a reply is prepared.
Replying(k, status) == [step |-> "replying", job |-> k,
                        says |-> IF status = "completed" THEN "completed" ELSE "failed"]

\* A status that is left by the end of the run is failed first.
Closing(k, status) ==
  IF IsPending(status) THEN [step |-> "stopping"] ELSE Replying(k, status)

\* A bug the checks must catch: a turn on record is not looked for.
ResumedAnew(k, r) ==
  CASE r.reply = "delivered" -> Idle
    [] r.reply # "delivered" /\ IsPending(r.status) -> [step |-> "starting"]
    [] OTHER -> Closing(k, r.status)

\* processClaudeRequest, as far as it depends on the Job it is given.
Resumed(k, r) ==
  CASE r.reply = "delivered" -> Idle
    [] r.reply # "delivered" /\ IsPending(r.status) /\ ~r.turnId -> [step |-> "starting"]
    [] r.reply # "delivered" /\ r.status = "running" /\ r.turnId -> [step |-> "watching"]
    [] OTHER -> Closing(k, r.status)

\* scheduleRequest: one runner for each request.
Schedule(k, r) == IF At(runner[k], "idle") THEN Resumed(k, r) ELSE runner[k]

-----------------------------------------------------------------------------

\* An authorized frame; the same frame again finds the Job.
ReceiveRequest(k) ==
  /\ kind[k] = "request" /\ bridge = "up" /\ k \notin accepting
  /\ IF request[k] = None
       THEN /\ request' = [request EXCEPT ![k] =
                 [status |-> "dispatching", turnId |-> FALSE, reply |-> "pending"]]
            /\ accepting' = accepting \cup {k}
            /\ UNCHANGED runner
       ELSE /\ runner' = [runner EXCEPT ![k] = Schedule(k, request[k])]
            /\ UNCHANGED <<request, accepting>>
  /\ UNCHANGED <<operator, turn, turns, ask, replies, said, interrupted, repeated>>

QueueRequest(k) ==
  /\ k \in accepting
  /\ accepting' = accepting \ {k}
  /\ request' = [request EXCEPT ![k].status = "queued"]
  /\ runner' = [runner EXCEPT ![k] = Schedule(k, request'[k])]
  /\ UNCHANGED <<operator, turn, turns, ask, replies, said, interrupted, repeated>>

RunnerGoes(k, from, to) ==
  /\ At(runner[k], from)
  /\ runner' = [runner EXCEPT ![k] = to]
  /\ UNCHANGED <<accepting, operator, ask, interrupted>>

\* startClaudeRequest: the target stays busy or cannot be read; the turn starts;
\* or turn/start fails, and the turn has started all the same.
RunnerStart(k) ==
  /\ \E started \in BOOLEAN, known \in BOOLEAN :
       /\ known => started
       /\ RunnerGoes(k, "starting", [step |-> IF known THEN "started" ELSE "failing"])
       /\ IF started THEN /\ turn' = [turn EXCEPT ![k] = "active"]
                          /\ turns' = [turns EXCEPT ![k] = @ + 1]
                     ELSE UNCHANGED <<turn, turns>>
  /\ UNCHANGED <<request, replies, said, repeated>>

RunnerRecord(k) ==
  /\ RunnerGoes(k, "started", [step |-> "watching"])
  /\ request' = [request EXCEPT ![k].status = "running", ![k].turnId = TRUE]
  /\ UNCHANGED <<turn, turns, replies, said, repeated>>

\* waitForCompletion: the turn is over and refreshJob writes that down; the Job
\* is not running any more; the time is over; or App Server does not answer.
RunnerWatch(k) ==
  /\ At(runner[k], "watching")
  /\ \/ \E status \in {"unknown"} \cup ({turn[k]} \cap Ended) :
          /\ RunnerGoes(k, "watching", Replying(k, status))
          /\ request' = [request EXCEPT ![k].status = status]
     \/ /\ request[k].status # "running"
        /\ RunnerGoes(k, "watching", Closing(k, request[k].status))
        /\ UNCHANGED request
     \/ /\ RunnerGoes(k, "watching", [step |-> "stopping"])
        /\ UNCHANGED request
     \/ /\ RunnerGoes(k, "watching", [step |-> "failing"])
        /\ UNCHANGED request
  /\ UNCHANGED <<turn, turns, replies, said, repeated>>

RunnerFail(k) ==
  /\ At(runner[k], "failing")
  /\ RunnerGoes(k, "failing", Closing(k, request[k].status))
  /\ UNCHANGED <<request, turn, turns, replies, said, repeated>>

\* terminalFailure
RunnerStop(k) ==
  /\ RunnerGoes(k, "stopping", Replying(k, "failed"))
  /\ request' = [request EXCEPT ![k].status = "failed"]
  /\ UNCHANGED <<turn, turns, replies, said, repeated>>

RunnerStep(k) ==
  \/ RunnerStart(k) \/ RunnerRecord(k) \/ RunnerWatch(k) \/ RunnerFail(k) \/ RunnerStop(k)

-----------------------------------------------------------------------------
(* replyToClaudeRequest, by the runner or by claude retry                  *)

\* The reply is handed over and the socket closes; it is handed over and the
\* wait for the close fails; or Claude cannot be reached.
Handed(k, from, outcome) ==
  \/ /\ replies' = [replies EXCEPT ![k] = @ + 1]
     /\ said' = [said EXCEPT ![k] = @ \cup {from.says}]
  \/ outcome = "failed" /\ UNCHANGED <<replies, said>>

Noting(from, outcome) == [step |-> "noting", job |-> from.job, reply |-> outcome]

RunnerReply(k) ==
  /\ replies[k] < MaxReplies
  /\ At(runner[k], "replying")
  /\ \E outcome \in {"delivered", "failed"} :
       /\ RunnerGoes(k, "replying", Noting(runner[k], outcome))
       /\ Handed(k, runner[k], outcome)
  /\ UNCHANGED <<request, turn, turns, repeated>>

RunnerNote(k) ==
  /\ At(runner[k], "noting")
  /\ request' = [request EXCEPT ![k].reply = runner[k].reply]
  /\ repeated' = IF runner[k].reply = "failed" THEN repeated \cup {k} ELSE repeated
  /\ RunnerGoes(k, "noting", Idle)
  /\ UNCHANGED <<turn, turns, replies, said>>

OperatorGoes(o, from, to) ==
  /\ At(operator[o], from)
  /\ operator' = [operator EXCEPT ![o] = to]
  /\ UNCHANGED <<accepting, runner, turn, turns, ask, interrupted>>

\* commandClaudeRetry.  It does not know whether the bridge is at it too.
OperatorRetry(o, k) ==
  /\ bridge = "up" /\ request[k] # None
  /\ ~IsPending(request[k].status) /\ request[k].reply # "delivered"
  /\ OperatorGoes(o, "idle", Replying(k, request[k].status))
  /\ repeated' = repeated \cup {k}
  /\ UNCHANGED <<request, replies, said>>

OperatorReply(o) ==
  /\ At(operator[o], "replying")
  /\ replies[operator[o].job] < MaxReplies
  /\ \E outcome \in {"delivered", "failed"} :
       /\ OperatorGoes(o, "replying", Noting(operator[o], outcome))
       /\ Handed(operator[o].job, operator[o], outcome)
  /\ UNCHANGED <<request, repeated>>

OperatorNote(o) ==
  /\ At(operator[o], "noting")
  /\ request' = [request EXCEPT ![operator[o].job].reply = operator[o].reply]
  /\ OperatorGoes(o, "noting", Idle)
  /\ UNCHANGED <<replies, said, repeated>>

OperatorStep(o) == OperatorReply(o) \/ OperatorNote(o) \/ \E k \in Job : OperatorRetry(o, k)

-----------------------------------------------------------------------------
(* The turn, and the approval it asks for                                  *)

TurnEnds(k) ==
  /\ turn[k] = "active"
  /\ \E end \in Ended : /\ end = "completed" => ask[k] # "waiting"
                        /\ turn' = [turn EXCEPT ![k] = end]
  /\ UNCHANGED <<request, accepting, runner, operator, turns, ask, replies, said,
                 interrupted, repeated>>

Ask(k) ==
  /\ turn[k] = "active" /\ ask[k] = "none"
  /\ runner[k].step \in {"started", "watching"}
  /\ ask' = [ask EXCEPT ![k] = "waiting"]
  /\ request' = [request EXCEPT ![k].status = "awaiting_approval"]
  /\ UNCHANGED <<accepting, runner, operator, turn, turns, replies, said, interrupted, repeated>>

\* It is decided, or times out; an ended Job stays as it is.
Settle(k) ==
  /\ ask[k] = "waiting"
  /\ ask' = [ask EXCEPT ![k] = "settled"]
  /\ request' = [request EXCEPT ![k].status = IF @ \in Ended \cup {"unknown"} THEN @ ELSE "running"]
  /\ UNCHANGED <<accepting, runner, operator, turn, turns, replies, said, interrupted, repeated>>

RequestStep ==
  \/ \E k \in Job : \/ ReceiveRequest(k) \/ QueueRequest(k) \/ RunnerStep(k)
                    \/ RunnerReply(k) \/ RunnerNote(k) \/ TurnEnds(k) \/ Ask(k) \/ Settle(k)
  \/ \E o \in Operator : OperatorStep(o)

\* The bridge dies: what it had in memory is gone.  A start that was not yet
\* recorded, and a reply that was, are counted for the properties.
LoseRequests ==
  /\ runner' = [k \in Job |-> Idle]
  /\ accepting' = {}
  /\ ask' = [k \in Job |-> IF ask[k] = "waiting" THEN "dead" ELSE ask[k]]
  /\ interrupted' = interrupted \cup {k \in Job : turns[k] > 0 /\ ~request[k].turnId}
  /\ repeated' = repeated \cup {k \in Job : At(runner[k], "noting")}
  /\ UNCHANGED <<request, operator, turn, turns, replies, said>>

\* The bridge starts, and goes on with every request that needs it.
ResumeRequests ==
  /\ runner' = [k \in Job |-> IF request[k] = None THEN Idle ELSE Schedule(k, request[k])]
  /\ UNCHANGED <<request, accepting, operator, turn, turns, ask, replies, said,
                 interrupted, repeated>>

-----------------------------------------------------------------------------
(* Properties of requests                                                  *)

\* A request runs in one turn, however often its frame is repeated and the
\* bridge restarted, unless the bridge died before it recorded the turn.
RequestRunsOnce == \A k \in Job : turns[k] <= 1 \/ k \in interrupted

\* Claude gets one reply, unless the bridge died or was told of a failure
\* after the reply was handed over, or an operator sent one too.
RepliedOnce == \A k \in Job : replies[k] <= 1 \/ k \in repeated

\* A reply says completed only of a turn that completed; and when nobody had to
\* repeat it, it says what the Job says.
RepliesAreTrue == \A k \in Job :
  /\ "completed" \in said[k] => turn[k] = "completed"
  /\ "failed" \in said[k] => request[k].status # "completed"

IsUnanswered(k) == request[k] # None /\ request[k].reply = "pending"

\* Every request is replied to or has its reply recorded as failed, through all
\* restarts of the bridge.
RequestsAreAnswered == \A k \in Job : IsUnanswered(k) ~> ~IsUnanswered(k)
=============================================================================
