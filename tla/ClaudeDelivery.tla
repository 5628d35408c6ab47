----------------------------- MODULE ClaudeDelivery -----------------------------
(***************************************************************************)
(* Deliveries to a Claude session: the commands and retry timers that send *)
(* the frame, the ACKs that come back and wake the Codex session, native   *)
(* receipts, and the deadlines.                                            *)
(*      src/claude-delivery.js, src/claude-bridge.js, bin/cxmsg.js         *)
(*                                                                         *)
(* A write of a Job is one step, under its lock.  updateJob merges the     *)
(* fields it is given into the Job as it is by then; a send gives it the   *)
(* whole "delivery" part, copied before the frame was sent.  A deadline    *)
(* may pass at any time.                                                   *)
(***************************************************************************)
EXTENDS Naturals, FiniteSets

CONSTANTS
  Job,
  Command,      \* commands that send: claude send, claude retry, the host relay
  Timer,        \* retry timers that may be running at once
  Handler,      \* frames the bridge handles at once
  MaxAttempts,  \* delivery.maxAttempts
  MaxSends,     \* bound: sends of one Job
  MaxAcks,      \* bound: ACKs of one Job
  Receipted,    \* bound: sends of a Job that Claude's session sends receipts for
  None

Open     == {"transport_delivered", "acknowledged", "retry_scheduled"}
Ended    == {"completed", "failed"}
Answered == {"acknowledged"} \cup Ended
Acks     == {"accepted", "completed", "failed", "retryable"}

DeliveryStatus ==
  Open \cup Ended \cup {"queued", "transport_error", "ack_timeout", "completion_timeout",
                       "ack_rejected"}

\* The last receipt for each frame that a record counts, by the number of its send.
Receipts == UNION {[ids -> {"none", "held", "delivered"}] : ids \in SUBSET (1..MaxSends)}

DeliveryRecord ==
  [status   : DeliveryStatus,
   ack      : Acks \cup {"rejected", "none"},
   wake     : {"none", "pending", "delivered", "failed"},
   attempt  : 0..MaxAttempts,
   accepted : BOOLEAN,
   receipts : Receipts]

ASSUME DeliveryAssumptions ==
  /\ MaxAttempts \in Nat \ {0} /\ MaxSends \in Nat /\ MaxAcks \in Nat
  /\ Receipted \subseteq 1..MaxSends
  /\ Command \cap Timer = {}
  /\ None \notin DeliveryRecord

VARIABLES
  kind,       \* what each Job is: "delivery" or "request"
  bridge,     \* "up" or "down"
  delivery,   \* Job records of kind claude-delivery
  sender,     \* where each send is
  armed,      \* Jobs with a retry timer in the bridge's memory
  handler,    \* where the handling of each ACK is
  sends,      \* sends of each Job
  taken,      \* frames Claude was handed, of each Job
  acks,       \* ACKs of each Job
  wakes,      \* turns started or steered to wake the sender
  accepted,   \* Jobs whose ACK "accepted" was recorded
  reopened,   \* Jobs whose recorded answer was written over
  uncounted,  \* Jobs with a send that the record does not count
  unwoken     \* Jobs with a wake that was recorded as failed

historyVars == <<accepted, reopened, uncounted, unwoken>>
claudeVars == <<taken, acks, wakes>>
deliveryVars == <<delivery, sender, armed, handler, sends, claudeVars, historyVars>>

Sender == Command \cup Timer
Idle == [step |-> "idle"]
At(p, step) == p.step = step

DeliveryInit ==
  /\ delivery = [k \in Job |-> None]
  /\ sender = [s \in Sender |-> Idle]
  /\ armed = {}
  /\ handler = [h \in Handler |-> Idle]
  /\ sends = [k \in Job |-> 0]
  /\ taken = [k \in Job |-> {}] /\ acks = [k \in Job |-> 0] /\ wakes = [k \in Job |-> 0]
  /\ accepted = {} /\ reopened = {} /\ uncounted = {} /\ unwoken = {}

-----------------------------------------------------------------------------
(* Sending                                                                 *)

\* createClaudeDeliveryJob; a repetition with the same id finds the Job.
CreateDelivery(k) ==
  /\ kind[k] = "delivery" /\ delivery[k] = None
  /\ delivery' = [delivery EXCEPT ![k] =
       [status |-> "queued", ack |-> "none", wake |-> "none",
        attempt |-> 0, accepted |-> FALSE, receipts |-> <<>>]]
  /\ UNCHANGED <<sender, armed, handler, sends, claudeVars, historyVars>>

Exhausted(d) == d.attempt >= MaxAttempts

\* sendClaudeDeliveryJob reads the Job it will write from.
StartSend(s, k) ==
  /\ At(sender[s], "idle")
  /\ sends[k] < MaxSends
  /\ sends' = [sends EXCEPT ![k] = @ + 1]
  /\ uncounted' = IF \E other \in Sender : ~At(sender[other], "idle")
                                            /\ sender[other].job = k
                     THEN uncounted \cup {k} ELSE uncounted
  /\ sender' = [sender EXCEPT ![s] =
       IF Exhausted(delivery[k])
         THEN [step |-> "exhausted", job |-> k]
         ELSE [step |-> "sending", job |-> k, id |-> sends'[k],
               seen |-> [attempt |-> delivery[k].attempt, accepted |-> delivery[k].accepted,
                         receipts |-> delivery[k].receipts]]]

\* A command sends a new Job, or any Job again, whatever its status.
CommandSend(c, k) ==
  /\ bridge = "up" /\ delivery[k] # None
  /\ StartSend(c, k)
  /\ UNCHANGED <<delivery, armed, handler, claudeVars, accepted, reopened, unwoken>>

\* The process of a send is gone before its write: the frame may be with Claude.
SendersLost(lost) ==
  /\ sender' = [s \in Sender |-> IF s \in lost THEN Idle ELSE sender[s]]
  /\ uncounted' = uncounted \cup {sender[s].job : s \in {x \in lost : At(sender[x], "writing")}}

CommandDies(c) ==
  /\ ~At(sender[c], "idle")
  /\ SendersLost({c})
  /\ UNCHANGED <<delivery, armed, handler, sends, claudeVars, accepted, reopened, unwoken>>

\* A retry timer fires, and looks whether the Job still waits for it.
TimerFires(t, k) ==
  /\ bridge = "up" /\ k \in armed
  /\ armed' = armed \ {k}
  /\ IF delivery[k].status = "retry_scheduled"
       THEN StartSend(t, k)
       ELSE UNCHANGED <<sender, sends, uncounted>>
  /\ UNCHANGED <<delivery, handler, claudeVars, accepted, reopened, unwoken>>

\* The frame is handed over and the socket closes; it is handed over and the
\* wait for the close fails; or Claude cannot be reached ("transport_error" is
\* also written for the code's "unreachable").
Send(s) ==
  LET k == sender[s].job IN
  /\ At(sender[s], "sending")
  /\ \E outcome \in {"transport_delivered", "transport_error"}, reached \in BOOLEAN :
       /\ outcome = "transport_delivered" => reached
       /\ taken' = IF reached THEN [taken EXCEPT ![k] = @ \cup {sender[s].id}] ELSE taken
       /\ sender' = [sender EXCEPT ![s] = [step |-> "writing", job |-> k, id |-> @.id,
                                           seen |-> @.seen, outcome |-> outcome]]
  /\ UNCHANGED <<delivery, armed, handler, sends, acks, wakes, historyVars>>

HasAnswer(d) ==
  d.accepted \/ d.ack \in {"accepted", "completed", "failed"} \/ d.status \in Answered

Reopened(k) == reopened' = IF HasAnswer(delivery[k]) THEN reopened \cup {k} ELSE reopened

Written(d, seen, id, outcome) ==
  [d EXCEPT !.status = outcome, !.attempt = seen.attempt + 1, !.accepted = seen.accepted,
            !.receipts = [n \in DOMAIN seen.receipts \cup {id} |->
                            IF n = id THEN "none" ELSE seen.receipts[n]]]

WriteSend(s) ==
  LET k == sender[s].job IN
  /\ At(sender[s], "writing")
  /\ delivery' = [delivery EXCEPT ![k] =
       Written(@, sender[s].seen, sender[s].id, sender[s].outcome)]
  /\ Reopened(k)
  /\ sender' = [sender EXCEPT ![s] = Idle]
  /\ UNCHANGED <<armed, handler, sends, claudeVars, accepted, uncounted, unwoken>>

\* The retry budget is spent.
WriteExhausted(s) ==
  LET k == sender[s].job IN
  /\ At(sender[s], "exhausted")
  /\ delivery' = [delivery EXCEPT ![k].status = "failed"]
  /\ Reopened(k)
  /\ sender' = [sender EXCEPT ![s] = Idle]
  /\ UNCHANGED <<armed, handler, sends, claudeVars, accepted, uncounted, unwoken>>

SendStep(s) == Send(s) \/ WriteSend(s) \/ WriteExhausted(s)

-----------------------------------------------------------------------------
(* What Claude sends back                                                  *)

\* The Job after an ACK of the target, when it changes the Job.
AfterAck(d, status) ==
  LET exhausted == Exhausted(d) IN
  [d EXCEPT
     !.status = CASE status = "retryable" /\ ~exhausted -> "retry_scheduled"
                  [] status = "retryable" /\ exhausted -> "failed"
                  [] status = "accepted" -> "acknowledged"
                  [] OTHER -> status,
     !.ack = status,
     !.accepted = @ \/ status = "accepted",
     !.wake = IF status \in Ended \/ exhausted THEN "pending" ELSE @]

\* A bug the checks must catch: an accepted Job may be asked for again.
StaleUnlessRetry(d, status) ==
  \/ d.status \in Ended
  \/ status = "accepted" /\ d.status \in {"acknowledged", "completion_timeout"}
       /\ d.ack = "accepted"

\* Not an answer any more: the Job has ended, says so already, or was accepted.
Stale(d, status) ==
  \/ d.status \in Ended
  \/ status = "accepted" /\ d.status \in {"acknowledged", "completion_timeout"}
       /\ d.ack = "accepted"
  \/ status = "retryable" /\ d.accepted

\* A repetition of the ACK that ended the Job is no error; other stale ones are.
Repeats(d, status) == d.status \in Ended /\ d.ack = status

\* A bug the checks must catch: a repetition wakes again, whatever became of the wake.
WakesAgain(d, after, status) ==
  after.status \in Ended /\ (~Stale(d, status) \/ Repeats(d, status))

\* handleClaudeDeliveryAck wakes for the end of the Job, or for a repetition when
\* the wake had failed.
Wakes(d, after, status) ==
  /\ after.status \in Ended
  /\ Stale(d, status) => Repeats(d, status) /\ d.wake = "failed"

\* recordClaudeDeliveryAck
ReceiveAck(h, k, status) ==
  LET d == delivery[k]
      after == IF Stale(d, status) THEN d ELSE AfterAck(d, status) IN
  /\ bridge = "up" /\ At(handler[h], "idle")
  /\ taken[k] # {} /\ acks[k] < MaxAcks
  /\ acks' = [acks EXCEPT ![k] = @ + 1]
  /\ delivery' = [delivery EXCEPT ![k] = after]
  /\ accepted' = IF status = "accepted" THEN accepted \cup {k} ELSE accepted
  /\ handler' = [handler EXCEPT ![h] =
       IF Wakes(d, after, status)
         THEN [step |-> "waking", job |-> k] ELSE Idle]
  /\ armed' = IF after.status = "retry_scheduled" THEN armed \cup {k} ELSE armed
  /\ UNCHANGED <<sender, sends, taken, wakes, reopened, uncounted, unwoken>>

\* An ACK from another session or address than the Job was sent to.
ReceiveForeignAck(k) ==
  /\ bridge = "up"
  /\ taken[k] # {} /\ acks[k] < MaxAcks
  /\ acks' = [acks EXCEPT ![k] = @ + 1]
  /\ delivery[k].status \notin {"ack_timeout", "completion_timeout"}
  /\ delivery' = [delivery EXCEPT ![k].status = "ack_rejected", ![k].ack = "rejected"]
  /\ Reopened(k)
  /\ UNCHANGED <<sender, armed, handler, sends, taken, wakes, accepted, uncounted, unwoken>>

\* The turn that tells the Codex session starts, or not, and the bridge may not
\* learn that it did.
Wake(h) ==
  /\ At(handler[h], "waking")
  /\ \E outcome \in {"delivered", "failed"}, started \in BOOLEAN :
       /\ outcome = "delivered" => started
       /\ wakes' = IF started THEN [wakes EXCEPT ![handler[h].job] = @ + 1] ELSE wakes
       /\ handler' = [handler EXCEPT ![h] = [step |-> "woken", job |-> @.job, outcome |-> outcome]]
  /\ UNCHANGED <<delivery, sender, armed, sends, taken, acks, historyVars>>

RecordWake(h) ==
  LET k == handler[h].job IN
  /\ At(handler[h], "woken")
  /\ delivery' = [delivery EXCEPT ![k].wake = handler[h].outcome]
  /\ unwoken' = IF handler[h].outcome = "failed" THEN unwoken \cup {k} ELSE unwoken
  /\ handler' = [handler EXCEPT ![h] = Idle]
  /\ UNCHANGED <<sender, armed, sends, claudeVars, accepted, reopened, uncounted>>

HandlerStep(h) == Wake(h) \/ RecordWake(h)

TerminalReceipts == {"denied", "expired", "delivered"}

\* recordClaudeNativeDeliveryReceipt: of a frame whose id is on record.
ReceiveReceipt(k, n, status) ==
  /\ bridge = "up" /\ delivery[k] # None
  /\ n \in taken[k] \cap DOMAIN delivery[k].receipts
  /\ delivery[k].receipts[n] \notin TerminalReceipts
  /\ delivery' = [delivery EXCEPT ![k].receipts[n] = status]
  /\ UNCHANGED <<sender, armed, handler, sends, claudeVars, historyVars>>

-----------------------------------------------------------------------------
(* Deadlines, and the scan of the bridge                                   *)

\* A bug the checks must catch: an accepted Job has no deadline.
AckDeadline(d) ==
  [d EXCEPT !.status = IF @ = "transport_delivered" THEN "ack_timeout" ELSE @]

AfterDeadline(d) ==
  [d EXCEPT !.status = CASE @ = "transport_delivered" -> "ack_timeout"
                         [] @ = "acknowledged" -> "completion_timeout"
                         [] OTHER -> @]

\* refreshClaudeDelivery, of a command that shows the Job.
Refresh(k) ==
  /\ delivery[k] # None
  /\ delivery' = [delivery EXCEPT ![k] = AfterDeadline(@)]
  /\ UNCHANGED <<sender, armed, handler, sends, claudeVars, historyVars>>

\* scanDeliveries: every five seconds, and when the bridge starts.
Scan(k) ==
  /\ bridge = "up" /\ delivery[k] # None
  /\ delivery' = [delivery EXCEPT ![k] = AfterDeadline(@)]
  /\ armed' = IF delivery[k].status = "retry_scheduled" THEN armed \cup {k} ELSE armed
  /\ UNCHANGED <<sender, handler, sends, claudeVars, historyVars>>

DeliveryStep ==
  \/ \E s \in Sender : SendStep(s)
  \/ \E c \in Command : CommandDies(c)
  \/ \E h \in Handler : HandlerStep(h)
  \/ \E k \in Job :
       \/ CreateDelivery(k) \/ ReceiveForeignAck(k) \/ Refresh(k) \/ Scan(k)
       \/ \E c \in Command : CommandSend(c, k)
       \/ \E t \in Timer : TimerFires(t, k)
       \/ \E h \in Handler, status \in Acks : ReceiveAck(h, k, status)
       \/ \E n \in Receipted, status \in {"held", "delivered"} : ReceiveReceipt(k, n, status)

\* The bridge dies, with its timers, retries and handlers.
LoseDeliveries ==
  /\ armed' = {}
  /\ handler' = [h \in Handler |-> Idle]
  /\ SendersLost(Timer)
  /\ UNCHANGED <<delivery, sends, claudeVars, accepted, reopened, unwoken>>

-----------------------------------------------------------------------------
(* Properties of deliveries                                                *)

\* The Codex session is woken only once the end of the Job is on record, and it
\* stays on record, unless a send or a foreign ACK wrote over it.
WakeFollowsEnd == \A k \in Job :
  wakes[k] > 0 => delivery[k].status \in Ended \/ k \in reopened

\* One end, one wake, however often the ACK is repeated, unless a wake failed
\* or the end was written over.
WokenOnce == \A k \in Job : wakes[k] <= 1 \/ k \in reopened \cup unwoken

\* A retry timer never sends again what Claude has accepted.
AcceptedIsNotResent == [][\A t \in Timer :
  At(sender[t], "idle") /\ ~At(sender'[t], "idle") =>
    sender'[t].job \notin accepted \/ sender'[t].job \in reopened]_sender

\* Claude is handed a Job as often as the budget allows, by timers, commands and
\* restarts of the bridge together, unless two sends of it overlapped or one died
\* before its write.
BudgetIsKept == \A k \in Job : Cardinality(taken[k]) <= MaxAttempts \/ k \in uncounted

\* What Claude's native receipt said of a frame in the end is kept, unless a
\* send writes the receipts back that it had read.
ReceiptsAreFinal == [][\A k \in Job :
  delivery[k] # None /\ (\A s \in Sender : sender'[s] = sender[s]) =>
    \A n \in DOMAIN delivery[k].receipts :
      delivery[k].receipts[n] \in TerminalReceipts =>
        delivery'[k].receipts[n] = delivery[k].receipts[n]]_<<delivery, sender>>

IsOpen(k) == delivery[k] # None /\ delivery[k].status \in Open

\* A Job that waits for Claude or for a retry goes on or times out, whatever
\* becomes of the bridge.
DeliveriesMoveOn == \A k \in Job : IsOpen(k) ~> ~IsOpen(k) \/ sends[k] = MaxSends
=============================================================================
