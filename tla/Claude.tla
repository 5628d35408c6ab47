--------------------------------- MODULE Claude ---------------------------------
(***************************************************************************)
(* The Claude bridge of one Codex session: deliveries to Claude, requests  *)
(* from Claude, and the process that serves both and may die and be        *)
(* started again.                                                          *)
(***************************************************************************)
EXTENDS ClaudeRequest

CONSTANT MaxCrashes  \* bound: deaths of the bridge

VARIABLE crashes

vars == <<kind, bridge, deliveryVars, requestVars, crashes>>

Init ==
  /\ kind \in [Job -> {"delivery", "request"}]
  /\ bridge = "up" /\ crashes = 0
  /\ DeliveryInit /\ RequestInit

BridgeDies ==
  /\ bridge = "up" /\ crashes < MaxCrashes
  /\ bridge' = "down" /\ crashes' = crashes + 1
  /\ LoseDeliveries /\ LoseRequests
  /\ UNCHANGED kind

BridgeStarts ==
  /\ bridge = "down"
  /\ bridge' = "up"
  /\ ResumeRequests
  /\ UNCHANGED <<kind, deliveryVars, crashes>>

Next ==
  \/ DeliveryStep /\ UNCHANGED <<kind, bridge, requestVars, crashes>>
  \/ RequestStep /\ UNCHANGED <<kind, bridge, deliveryVars, crashes>>
  \/ BridgeDies
  \/ BridgeStarts

\* The bridge is started again; its scans, timers and runners go on, a turn ends,
\* an approval is decided or times out.
Fairness ==
  /\ WF_vars(BridgeStarts)
  /\ \A s \in Sender : WF_vars(SendStep(s) /\ UNCHANGED <<kind, bridge, requestVars, crashes>>)
  /\ \A k \in Job :
       /\ WF_vars(Scan(k) /\ UNCHANGED <<kind, bridge, requestVars, crashes>>)
       /\ WF_vars((\E t \in Timer : TimerFires(t, k)) /\ UNCHANGED <<kind, bridge, requestVars, crashes>>)
       /\ WF_vars((QueueRequest(k) \/ RunnerStep(k) \/ RunnerReply(k) \/ RunnerNote(k))
                    /\ UNCHANGED <<kind, bridge, deliveryVars, crashes>>)

Spec == Init /\ [][Next]_vars /\ Fairness

-----------------------------------------------------------------------------

Steps(p) == {p[x].step : x \in DOMAIN p}

\* The records have their shapes, and each Job is of one kind.
TypeOK ==
  /\ bridge \in {"up", "down"}
  /\ \A k \in Job : delivery[k] # None =>
       /\ kind[k] = "delivery" /\ delivery[k] \in DeliveryRecord
       /\ DOMAIN delivery[k].receipts \subseteq 1..sends[k]
       /\ delivery[k].wake = "delivered" => wakes[k] > 0
  /\ \A k \in Job : request[k] # None =>
       /\ kind[k] = "request" /\ request[k] \in RequestRecord
       /\ request[k].turnId => turns[k] > 0
  /\ bridge = "down" => armed = {} /\ Steps(handler) \subseteq {"idle"}
                        /\ Steps(runner) \subseteq {"idle"}

\* However commands, timers, ACKs and deaths of the bridge interleave, a Job is
\* sent within its budget and wakes its Codex session once, at its end.
DeliveriesAreSafe == TypeOK /\ WakeFollowsEnd /\ WokenOnce /\ BudgetIsKept

\* A request has one turn and one reply, which is true, through restarts.
RequestsAreSafe == RequestRunsOnce /\ RepliedOnce /\ RepliesAreTrue

\* What Claude or its session has answered in the end is not undone.
AnswersAreFinal == AcceptedIsNotResent /\ ReceiptsAreFinal

\* Neither a delivery nor a request waits for ever, through restarts.
NothingWaitsForever == DeliveriesMoveOn /\ RequestsAreAnswered
=============================================================================
