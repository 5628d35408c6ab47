------------------------------ MODULE ClaudeProofs ------------------------------
(***************************************************************************)
(* The safety properties of Claude for any numbers of Jobs, commands,      *)
(* timers, handlers, operators, deaths of the bridge, and any limits.      *)
(*                                                                         *)
(* Each property excuses the Jobs whose history names a certain event      *)
(* (reopened, unwoken, uncounted, interrupted, repeated).  The invariant   *)
(* says for every other Job who is at it and how far: one sender, one      *)
(* handler that wakes, one runner.  A Job's part of it is disturbed only   *)
(* by steps of that Job.                                                   *)
(***************************************************************************)
EXTENDS Claude, FiniteSetTheorems, TLAPS

-----------------------------------------------------------------------------
(* The inductive invariant of deliveries                                   *)

\* What a send has read of the Job; it has not spent the budget.
Seen == [attempt : 0..(MaxAttempts - 1), accepted : BOOLEAN, receipts : Receipts]

SenderAt ==
  {Idle} \cup [step : {"exhausted"}, job : Job]
    \cup [step : {"sending"}, job : Job, id : 1..MaxSends, seen : Seen]
    \cup [step : {"writing"}, job : Job, id : 1..MaxSends, seen : Seen,
          outcome : {"transport_delivered", "transport_error"}]

HandlerAt ==
  {Idle} \cup [step : {"waking"}, job : Job]
    \cup [step : {"woken"}, job : Job, outcome : {"delivered", "failed"}]

DeliveryTypes ==
  /\ delivery \in [Job -> DeliveryRecord \cup {None}]
  /\ sender \in [Sender -> SenderAt]
  /\ handler \in [Handler -> HandlerAt]
  /\ armed \subseteq Job
  /\ sends \in [Job -> 0..MaxSends] /\ acks \in [Job -> Nat] /\ wakes \in [Job -> Nat]
  /\ taken \in [Job -> SUBSET (1..MaxSends)]

Sends(s, k) == sender[s].step # "idle" /\ sender[s].job = k
Wakens(h, k) == handler[h].step # "idle" /\ handler[h].job = k

\* Nothing is done for a Job that is not there.
Unmade(k) == delivery[k] = None =>
  /\ wakes[k] = 0 /\ taken[k] = {} /\ k \notin armed \cup accepted
  /\ \A s \in Sender : ~Sends(s, k)
  /\ \A h \in Handler : ~Wakens(h, k)

\* Frames are counted by sends, and a wake that was recorded took place.
Counted(k) == delivery[k] # None =>
  /\ kind[k] = "delivery"
  /\ DOMAIN delivery[k].receipts \subseteq 1..sends[k]
  /\ delivery[k].wake = "delivered" => wakes[k] > 0
  /\ \A s \in Sender : Sends(s, k) /\ sender[s].step \in {"sending", "writing"} =>
       /\ sender[s].id \in 1..sends[k]
       /\ DOMAIN sender[s].seen.receipts \subseteq 1..sends[k]
  /\ \A h \in Handler : Wakens(h, k) /\ handler[h].step = "woken" =>
       (handler[h].outcome = "delivered" => wakes[k] > 0)

\* Nobody wakes before the end of the Job is on record.
EndFirst(k) ==
  \/ k \in reopened
  \/ delivery[k] # None /\ delivery[k].status \in Ended
  \/ wakes[k] = 0 /\ \A h \in Handler : ~Wakens(h, k)

\* One handler wakes, once.
OneWake(k) ==
  \/ k \in reopened \cup unwoken
  \/ /\ wakes[k] <= 1
     /\ delivery[k] # None => delivery[k].wake # "failed"
     /\ \A h, i \in Handler : Wakens(h, k) /\ Wakens(i, k) => h = i
     /\ \A h \in Handler : Wakens(h, k) /\ handler[h].step = "waking" => wakes[k] = 0

\* A Job that was accepted says so, and does not wait for a retry.
SaysAccepted(k) == delivery[k] # None =>
  \/ k \in reopened
  \/ /\ k \in accepted => delivery[k].status \in Ended \/ delivery[k].accepted
     /\ delivery[k].accepted => delivery[k].status # "retry_scheduled"
     /\ delivery[k].status \in {"acknowledged", "completion_timeout"} => delivery[k].accepted

\* One sender at a time counts the frames.
InBudget(k) == k \in uncounted \/ delivery[k] = None \/
  /\ \A s, t \in Sender : Sends(s, k) /\ Sends(t, k) => s = t
  /\ \A s \in Sender : Sends(s, k) /\ sender[s].step \in {"sending", "writing"} =>
       sender[s].seen.attempt = delivery[k].attempt
  /\ Cardinality(taken[k]) <= delivery[k].attempt
       \/ /\ Cardinality(taken[k]) <= delivery[k].attempt + 1
          /\ \E s \in Sender : Sends(s, k) /\ sender[s].step = "writing"

Delivers(k) ==
  Unmade(k) /\ Counted(k) /\ EndFirst(k) /\ OneWake(k) /\ SaysAccepted(k) /\ InBudget(k)

Deliveries == DeliveryTypes /\ \A k \in Job : Delivers(k)

-----------------------------------------------------------------------------
(* The inductive invariant of requests                                     *)

RunnerStepName == {"starting", "started", "watching", "failing", "stopping"}
Reply == [step : {"replying"}, job : Job, says : Ended]
           \cup [step : {"noting"}, job : Job, reply : {"delivered", "failed"}]

RunnerAt == {Idle} \cup [step : RunnerStepName] \cup Reply

RequestTypes ==
  /\ request \in [Job -> RequestRecord \cup {None}]
  /\ runner \in [Job -> RunnerAt]
  /\ operator \in [Operator -> {Idle} \cup Reply]
  /\ turn \in [Job -> {"none", "active"} \cup Ended]
  /\ turns \in [Job -> Nat] /\ replies \in [Job -> Nat]
  /\ ask \in [Job -> {"none", "waiting", "settled", "dead"}]
  /\ said \in [Job -> SUBSET Ended]

Operates(o, k) == operator[o].step # "idle" /\ operator[o].job = k

\* A request that is not there, or not queued yet, has nothing else.
Unqueued(k) ==
  /\ request[k] = None => k \notin accepting
  /\ request[k] = None \/ k \in accepting =>
       /\ runner[k] = Idle /\ turns[k] = 0 /\ ask[k] = "none"
       /\ replies[k] = 0 /\ said[k] = {}
       /\ \A o \in Operator : ~Operates(o, k)
  /\ k \in accepting =>
       request[k] = [status |-> "dispatching", turnId |-> FALSE, reply |-> "pending"]
  /\ request[k] # None => kind[k] = "request"

\* The runner's steps before the end of a request, and after it.
Running(k) == request[k] # None =>
  /\ runner[k].step \in RunnerStepName => request[k].status \in PendingStatus
  /\ runner[k].step \in {"replying", "noting"} => request[k].status \notin PendingStatus
  /\ runner[k].step \in {"started", "watching"} => turns[k] > 0
  /\ request[k].turnId => turns[k] > 0

\* Without a death before the turn was recorded there is one turn: a runner that
\* starts one has found none.
OneTurn(k) ==
  \/ k \in interrupted
  \/ /\ turns[k] <= 1
     /\ runner[k].step = "starting" => turns[k] = 0
     /\ request[k] # None /\ turns[k] > 0 =>
          \/ request[k].turnId \/ request[k].status \notin PendingStatus
          \/ runner[k].step \in RunnerStepName

\* Without a repetition there is one reply, which is being noted or on record.
OneReply(k) ==
  \/ k \in repeated
  \/ /\ \A o \in Operator : ~Operates(o, k)
     /\ \/ replies[k] = 0
        \/ /\ replies[k] = 1 /\ request[k] # None
           /\ \/ runner[k].step = "noting"
              \/ runner[k] = Idle /\ request[k].reply = "delivered"

\* What is said, or about to be, is what the Job says, and that stays.
SaysIt(k, says) == request[k] # None /\
  (IF says = "completed" THEN request[k].status = "completed"
                         ELSE request[k].status \in {"failed", "unknown"})

TrueReplies(k) ==
  /\ request[k] # None => (request[k].status = "completed" => turn[k] = "completed")
  /\ \A says \in said[k] : SaysIt(k, says)
  /\ runner[k].step = "replying" => SaysIt(k, runner[k].says)
  /\ \A o \in Operator : Operates(o, k) /\ operator[o].step = "replying" =>
       SaysIt(k, operator[o].says)

Requests(k) ==
  Unqueued(k) /\ Running(k) /\ OneTurn(k) /\ OneReply(k) /\ TrueReplies(k)

AllRequests == RequestTypes /\ \A k \in Job : Requests(k)

\* The memory of a bridge that is down is empty.
Down == bridge = "down" =>
  /\ armed = {} /\ accepting = {}
  /\ \A h \in Handler : handler[h] = Idle
  /\ \A k \in Job : runner[k] = Idle

IInv ==
  /\ bridge \in {"up", "down"}
  /\ Deliveries /\ AllRequests /\ Down

-----------------------------------------------------------------------------
(* Types of deliveries                                                     *)

\* The fields of a sender and of a handler, by its step.
LEMMA Fields ==
  ASSUME DeliveryTypes
  PROVE  /\ \A s \in Sender :
              /\ sender[s] \in SenderAt
              /\ sender[s].step \in {"idle", "exhausted", "sending", "writing"}
              /\ sender[s].step # "idle" => sender[s].job \in Job
              /\ sender[s].step \in {"sending", "writing"} =>
                   /\ sender[s].id \in 1..MaxSends /\ sender[s].seen \in Seen
              /\ sender[s].step = "writing" =>
                   sender[s].outcome \in {"transport_delivered", "transport_error"}
         /\ \A h \in Handler :
              /\ handler[h].step \in {"idle", "waking", "woken"}
              /\ handler[h].step # "idle" => handler[h].job \in Job
              /\ handler[h].step = "woken" => handler[h].outcome \in {"delivered", "failed"}
BY DEF DeliveryTypes, SenderAt, HandlerAt, Idle

\* The receipts of a record after a send, and after a receipt.
LEMMA ReceiptsGrow ==
  ASSUME NEW q \in Receipts, NEW id \in 1..MaxSends
  PROVE  /\ [n \in DOMAIN q \cup {id} |-> IF n = id THEN "none" ELSE q[n]] \in Receipts
         /\ DOMAIN q \subseteq 1..MaxSends
         /\ \A n \in DOMAIN q, status \in {"held", "delivered"} :
              /\ [q EXCEPT ![n] = status] \in Receipts
              /\ DOMAIN [q EXCEPT ![n] = status] = DOMAIN q
<1>1. PICK ids \in SUBSET (1..MaxSends) : q \in [ids -> {"none", "held", "delivered"}]
  BY DEF Receipts
<1>2. ids \cup {id} \in SUBSET (1..MaxSends)
  BY <1>1
<1>3. [n \in DOMAIN q \cup {id} |-> IF n = id THEN "none" ELSE q[n]]
        \in [ids \cup {id} -> {"none", "held", "delivered"}]
  BY <1>1
<1>4. ASSUME NEW n \in DOMAIN q, NEW status \in {"held", "delivered"}
      PROVE  /\ [q EXCEPT ![n] = status] \in [ids -> {"none", "held", "delivered"}]
             /\ DOMAIN [q EXCEPT ![n] = status] = DOMAIN q
  BY <1>1, <1>4
<1> QED
  BY <1>1, <1>2, <1>3, <1>4 DEF Receipts

\* The frames Claude was handed of a Job are finitely many.
LEMMA FramesAreFinite ==
  ASSUME DeliveryTypes, NEW k \in Job
  PROVE  IsFiniteSet(taken[k])
<1>1. MaxSends \in Nat
  BY DeliveryAssumptions
<1>2. IsFiniteSet(1..MaxSends)
  BY <1>1, FS_Interval
<1>3. taken[k] \subseteq 1..MaxSends
  BY DEF DeliveryTypes
<1> QED
  BY <1>2, <1>3, FS_Subset

-----------------------------------------------------------------------------
(* Frames                                                                  *)

\* Nobody does anything for k, but senders and handlers of it may be lost.
Quiet(k) ==
  /\ delivery'[k] = delivery[k] /\ kind'[k] = kind[k]
  /\ wakes'[k] = wakes[k] /\ taken'[k] = taken[k] /\ sends'[k] = sends[k]
  /\ k \in armed' => k \in armed
  /\ k \in accepted' => k \in accepted
  /\ k \in reopened => k \in reopened'
  /\ k \in unwoken => k \in unwoken'
  /\ k \in uncounted => k \in uncounted'
  /\ \A s \in Sender : Sends(s, k)' => Sends(s, k) /\ sender'[s] = sender[s]
  /\ \A s \in Sender : Sends(s, k) /\ sender[s].step = "writing" =>
       k \in uncounted' \/ Sends(s, k)'
  /\ \A h \in Handler : Wakens(h, k)' => Wakens(h, k) /\ handler'[h] = handler[h]

\* The invariant of a Job outlives the steps of others.
LEMMA QuietKeeps ==
  ASSUME NEW k \in Job, Delivers(k), Quiet(k)
  PROVE  Delivers(k)'
<1>1. Unmade(k)' /\ Counted(k)'
  BY DEF Delivers, Unmade, Counted, Quiet
<1>2. EndFirst(k)' /\ SaysAccepted(k)'
  BY DEF Delivers, EndFirst, SaysAccepted, Quiet
<1>3. OneWake(k)'
  BY DEF Delivers, OneWake, Quiet
<1>4. InBudget(k)'
  <2>1. CASE k \in uncounted' \/ delivery[k] = None
    BY <2>1 DEF InBudget, Quiet
  <2>2. CASE k \notin uncounted' /\ delivery[k] # None
    <3>1. k \notin uncounted /\ \A s \in Sender : Sends(s, k)' => Sends(s, k) /\ sender'[s] = sender[s]
      BY <2>2 DEF Quiet
    <3>2. /\ \A s, t \in Sender : Sends(s, k)' /\ Sends(t, k)' => s = t
          /\ \A s \in Sender : Sends(s, k)' /\ sender'[s].step \in {"sending", "writing"} =>
               sender'[s].seen.attempt = delivery'[k].attempt
      BY <2>2, <3>1 DEF Delivers, InBudget, Quiet
    <3>3. \A s \in Sender : Sends(s, k) /\ sender[s].step = "writing" =>
            Sends(s, k)' /\ sender'[s].step = "writing"
      BY <2>2 DEF Quiet
    <3>4. taken'[k] = taken[k] /\ delivery'[k] = delivery[k]
      BY DEF Quiet
    <3> QED
      BY <2>2, <3>1, <3>2, <3>3, <3>4 DEF Delivers, InBudget
  <2> QED
    BY <2>1, <2>2
<1> QED
  BY <1>1, <1>2, <1>3, <1>4 DEF Delivers

\* The step of one Job keeps the invariant of all, if it keeps that of the Job.
LEMMA OneJob ==
  ASSUME NEW j \in Job, \A k \in Job : Delivers(k), \A k \in Job \ {j} : Quiet(k), Delivers(j)'
  PROVE  \A k \in Job : Delivers(k)'
BY QuietKeeps

-----------------------------------------------------------------------------
(* Sending                                                                 *)

\* A Job is made with nothing done for it.
LEMMA CreateKeeps ==
  ASSUME NEW k \in Job, Deliveries, CreateDelivery(k), UNCHANGED kind
  PROVE  Deliveries'
<1> DEFINE new == [status |-> "queued", ack |-> "none", wake |-> "none",
                   attempt |-> 0, accepted |-> FALSE, receipts |-> <<>>]
<1>1. /\ kind[k] = "delivery" /\ delivery[k] = None
      /\ delivery' = [delivery EXCEPT ![k] = new]
      /\ sender' = sender /\ armed' = armed /\ handler' = handler /\ sends' = sends
      /\ taken' = taken /\ acks' = acks /\ wakes' = wakes /\ kind' = kind
      /\ accepted' = accepted /\ reopened' = reopened
      /\ uncounted' = uncounted /\ unwoken' = unwoken
  BY DEF CreateDelivery, claudeVars, historyVars
<1>2. new \in DeliveryRecord
  <2>1. <<>> \in Receipts
    <3>1. <<>> \in [{} -> {"none", "held", "delivered"}]
      OBVIOUS
    <3> QED
      BY <3>1 DEF Receipts
  <2> QED
    BY <2>1, DeliveryAssumptions DEF DeliveryRecord, DeliveryStatus
<1>3. new # None
  BY <1>2, DeliveryAssumptions
<1>4. DOMAIN new.receipts = {}
  OBVIOUS
<1>5. new.wake = "none" /\ new.status = "queued" /\ new.attempt = 0 /\ ~new.accepted
  OBVIOUS
<1> HIDE DEF new
<1>6. DeliveryTypes'
  BY <1>1, <1>2 DEF Deliveries, DeliveryTypes
<1>7. delivery'[k] = new
  BY <1>1 DEF Deliveries, DeliveryTypes
<1>8. \A j \in Job \ {k} : Quiet(j)
  BY <1>1 DEF Quiet, Sends, Wakens, Deliveries, DeliveryTypes
<1>9. Delivers(k)'
  <2>1. /\ wakes[k] = 0 /\ taken[k] = {} /\ k \notin accepted
        /\ \A s \in Sender : ~Sends(s, k)
        /\ \A h \in Handler : ~Wakens(h, k)
    BY <1>1 DEF Deliveries, Delivers, Unmade
  <2>2. Cardinality(taken'[k]) = 0
    BY <1>1, <2>1, FS_EmptySet
  <2>3. Unmade(k)' /\ Counted(k)' /\ EndFirst(k)' /\ OneWake(k)' /\ SaysAccepted(k)'
    BY <1>1, <1>3, <1>4, <1>5, <1>7, <2>1
       DEF Unmade, Counted, EndFirst, OneWake, SaysAccepted, Sends, Wakens, Ended
  <2>4. InBudget(k)'
    BY <1>1, <1>5, <1>7, <2>1, <2>2 DEF InBudget, Sends
  <2> QED
    BY <2>3, <2>4 DEF Delivers
<1> QED
  BY <1>6, <1>8, <1>9, OneJob DEF Deliveries

\* A send begins: it is the only one of the Job, or the Job is uncounted.
LEMMA StartKeeps ==
  ASSUME NEW s \in Sender, NEW k \in Job, Deliveries, delivery[k] # None, StartSend(s, k),
         armed' \subseteq armed,
         UNCHANGED <<delivery, handler, claudeVars, accepted, reopened, unwoken, kind>>
  PROVE  Deliveries'
<1> DEFINE new == IF Exhausted(delivery[k]) THEN [step |-> "exhausted", job |-> k]
                  ELSE [step |-> "sending", job |-> k, id |-> sends'[k],
                        seen |-> [attempt |-> delivery[k].attempt,
                                  accepted |-> delivery[k].accepted,
                                  receipts |-> delivery[k].receipts]]
<1>1. /\ sender[s].step = "idle" /\ sends[k] < MaxSends
      /\ sends' = [sends EXCEPT ![k] = @ + 1]
      /\ uncounted' = IF \E t \in Sender : Sends(t, k) THEN uncounted \cup {k} ELSE uncounted
      /\ sender' = [sender EXCEPT ![s] = new]
      /\ delivery' = delivery /\ handler' = handler
      /\ taken' = taken /\ acks' = acks /\ wakes' = wakes /\ kind' = kind
      /\ accepted' = accepted /\ reopened' = reopened /\ unwoken' = unwoken
  BY DEF StartSend, At, Sends, claudeVars
<1>2. /\ DeliveryTypes /\ Delivers(k) /\ delivery[k] \in DeliveryRecord
      /\ sends[k] \in Nat /\ MaxSends \in Nat /\ MaxAttempts \in Nat
  BY DeliveryAssumptions DEF Deliveries, DeliveryTypes
<1>3. /\ sends' \in [Job -> 0..MaxSends] /\ sends'[k] = sends[k] + 1
      /\ sends'[k] \in 1..MaxSends /\ \A j \in Job \ {k} : sends'[j] = sends[j]
  BY <1>1, <1>2 DEF DeliveryTypes
<1>4. /\ new \in SenderAt /\ new.step \in {"exhausted", "sending"} /\ new.job = k
      /\ new.step = "sending" => /\ new.id = sends'[k]
                                 /\ new.seen.attempt = delivery[k].attempt
                                 /\ new.seen.receipts = delivery[k].receipts
  <2>1. CASE Exhausted(delivery[k])
    BY <2>1 DEF SenderAt
  <2>2. CASE ~Exhausted(delivery[k])
    <3>1. delivery[k].attempt \in 0..(MaxAttempts - 1)
      BY <1>2, <2>2 DEF Exhausted, DeliveryRecord
    <3>2. [attempt |-> delivery[k].attempt, accepted |-> delivery[k].accepted,
           receipts |-> delivery[k].receipts] \in Seen
      BY <1>2, <3>1 DEF Seen, DeliveryRecord
    <3> QED
      BY <1>3, <2>2, <3>2 DEF SenderAt
  <2> QED
    BY <2>1, <2>2
<1> HIDE DEF new
<1>5. sender' \in [Sender -> SenderAt] /\ sender'[s] = new
      /\ \A t \in Sender \ {s} : sender'[t] = sender[t]
  BY <1>1, <1>2, <1>4 DEF DeliveryTypes
<1>6. DeliveryTypes'
  BY <1>1, <1>2, <1>3, <1>5 DEF DeliveryTypes
<1>7. \A j \in Job \ {k} : Quiet(j)
  BY <1>1, <1>3, <1>4, <1>5 DEF Quiet, Sends, Wakens
<1>8. Delivers(k)'
  <2>1. DOMAIN delivery[k].receipts \subseteq 1..sends'[k]
    BY <1>2, <1>3 DEF Delivers, Counted
  <2>2. Unmade(k)' /\ EndFirst(k)' /\ OneWake(k)' /\ SaysAccepted(k)'
    BY <1>1, <1>2 DEF Delivers, Unmade, EndFirst, OneWake, SaysAccepted, Wakens
  <2>3. Counted(k)'
    <3>1. ASSUME NEW t \in Sender, Sends(t, k)', sender'[t].step \in {"sending", "writing"}
          PROVE  /\ sender'[t].id \in 1..sends'[k]
                 /\ DOMAIN sender'[t].seen.receipts \subseteq 1..sends'[k]
      <4>1. CASE t = s
        BY <1>3, <1>4, <1>5, <2>1, <3>1, <4>1
      <4>2. CASE t # s
        BY <1>1, <1>2, <1>3, <1>5, <3>1, <4>2 DEF Delivers, Counted, Sends
      <4> QED
        BY <4>1, <4>2
    <3> QED
      BY <1>1, <1>2, <2>1, <3>1 DEF Delivers, Counted, Wakens
  <2>4. InBudget(k)'
    BY <1>1, <1>2, <1>4, <1>5 DEF Delivers, InBudget, Sends
  <2> QED
    BY <2>2, <2>3, <2>4 DEF Delivers
<1> QED
  BY <1>6, <1>7, <1>8, OneJob DEF Deliveries

\* The frame is handed over, or not.
LEMMA SendKeeps ==
  ASSUME NEW s \in Sender, Deliveries, Send(s), UNCHANGED kind
  PROVE  Deliveries'
<1>0. sender[s].step = "sending" /\ sender[s].job \in Job
  BY Fields DEF Send, At, Deliveries
<1> DEFINE job == sender[s].job
<1>01. PICK k \in Job : k = job
  BY <1>0
<1> HIDE DEF job
<1>1. PICK outcome \in {"transport_delivered", "transport_error"}, reached \in BOOLEAN :
        /\ taken' = IF reached THEN [taken EXCEPT ![k] = @ \cup {sender[s].id}] ELSE taken
        /\ sender' = [sender EXCEPT ![s] = [step |-> "writing", job |-> k, id |-> @.id,
                                            seen |-> @.seen, outcome |-> outcome]]
  BY <1>01 DEF Send, job
<1> DEFINE new == [step |-> "writing", job |-> k, id |-> sender[s].id,
                   seen |-> sender[s].seen, outcome |-> outcome]
<1>2. /\ sender[s].step = "sending"
      /\ delivery' = delivery /\ armed' = armed /\ handler' = handler /\ sends' = sends
      /\ acks' = acks /\ wakes' = wakes /\ kind' = kind
      /\ accepted' = accepted /\ reopened' = reopened
      /\ uncounted' = uncounted /\ unwoken' = unwoken
  BY DEF Send, At, historyVars
<1>3. /\ DeliveryTypes /\ k \in Job /\ Sends(s, k) /\ Delivers(k)
      /\ sender[s].id \in 1..MaxSends /\ sender[s].seen \in Seen
  BY <1>01, <1>2, Fields DEF Deliveries, Sends, job
<1>4. delivery[k] # None /\ delivery[k] \in DeliveryRecord
  BY <1>3 DEF Delivers, Unmade, DeliveryTypes
<1>5. /\ new \in SenderAt /\ new.step = "writing" /\ new.job = k
      /\ new.id = sender[s].id /\ new.seen = sender[s].seen
  BY <1>3 DEF SenderAt
<1>6. sender' = [sender EXCEPT ![s] = new]
  BY <1>1, <1>3 DEF DeliveryTypes
<1> HIDE DEF new
<1>7. /\ sender' \in [Sender -> SenderAt] /\ sender'[s] = new
      /\ \A t \in Sender \ {s} : sender'[t] = sender[t]
  BY <1>3, <1>5, <1>6 DEF DeliveryTypes
<1>8. /\ taken' \in [Job -> SUBSET (1..MaxSends)]
      /\ \A j \in Job \ {k} : taken'[j] = taken[j]
      /\ taken'[k] \in {taken[k], taken[k] \cup {sender[s].id}}
  BY <1>1, <1>3 DEF DeliveryTypes
<1>9. DeliveryTypes'
  BY <1>2, <1>3, <1>7, <1>8 DEF DeliveryTypes
<1>10. \A j \in Job \ {k} : Quiet(j)
  BY <1>2, <1>3, <1>5, <1>7, <1>8 DEF Quiet, Sends, Wakens
<1>11. Delivers(k)'
  <2>1. Unmade(k)' /\ EndFirst(k)' /\ OneWake(k)' /\ SaysAccepted(k)'
    BY <1>2, <1>3, <1>4 DEF Delivers, Unmade, EndFirst, OneWake, SaysAccepted, Wakens
  <2>2. Counted(k)'
    BY <1>2, <1>3, <1>5, <1>7 DEF Delivers, Counted, Sends, Wakens
  <2>3. InBudget(k)'
    <3>1. CASE k \in uncounted
      BY <1>2, <3>1 DEF InBudget
    <3>2. CASE k \notin uncounted
      <4>1. /\ \A t, u \in Sender : Sends(t, k)' /\ Sends(u, k)' => t = u
            /\ \A t \in Sender : Sends(t, k)' /\ sender'[t].step \in {"sending", "writing"} =>
                 sender'[t].seen.attempt = delivery'[k].attempt
            /\ Sends(s, k)' /\ sender'[s].step = "writing"
        BY <1>2, <1>3, <1>4, <1>5, <1>7, <3>2 DEF Delivers, InBudget, Sends
      <4>2. Cardinality(taken[k]) <= delivery[k].attempt
        BY <1>2, <1>3, <1>4, <3>2 DEF Delivers, InBudget, Sends
      <4>3. IsFiniteSet(taken[k])
        BY <1>3, FramesAreFinite
      <4>4. Cardinality(taken'[k]) <= Cardinality(taken[k]) + 1
        <5>1. Cardinality(taken[k]) \in Nat
          BY <4>3, FS_CardinalityType
        <5>2. Cardinality(taken[k] \cup {sender[s].id}) \in {Cardinality(taken[k]), Cardinality(taken[k]) + 1}
          BY <4>3, FS_AddElement
        <5> QED
          BY <1>8, <5>1, <5>2
      <4>5. delivery[k].attempt \in Nat /\ Cardinality(taken[k]) \in Nat /\ Cardinality(taken'[k]) \in Nat
        <5>1. IsFiniteSet(taken'[k])
          BY <1>8, <4>3, FS_AddElement
        <5> QED
          BY <1>4, <4>3, <5>1, FS_CardinalityType DEF DeliveryRecord
      <4> QED
        BY <1>2, <4>1, <4>2, <4>4, <4>5 DEF InBudget
    <3> QED
      BY <3>1, <3>2
  <2> QED
    BY <2>1, <2>2, <2>3 DEF Delivers
<1> QED
  BY <1>3, <1>9, <1>10, <1>11, OneJob DEF Deliveries

\* The outcome of a send is written, over whatever the record says by then.
LEMMA WriteSendKeeps ==
  ASSUME NEW s \in Sender, Deliveries, WriteSend(s), UNCHANGED kind
  PROVE  Deliveries'
<1>0. sender[s].step = "writing" /\ sender[s].job \in Job
  BY Fields DEF WriteSend, At, Deliveries
<1> DEFINE job == sender[s].job
<1>01. PICK k \in Job : k = job
  BY <1>0
<1> HIDE DEF job
<1> DEFINE new == Written(delivery[k], sender[s].seen, sender[s].id, sender[s].outcome)
<1>1. /\ delivery' = [delivery EXCEPT ![k] = new]
      /\ reopened' = IF HasAnswer(delivery[k]) THEN reopened \cup {k} ELSE reopened
      /\ sender' = [sender EXCEPT ![s] = Idle]
      /\ armed' = armed /\ handler' = handler /\ sends' = sends
      /\ taken' = taken /\ acks' = acks /\ wakes' = wakes /\ kind' = kind
      /\ accepted' = accepted /\ uncounted' = uncounted /\ unwoken' = unwoken
  BY <1>01 DEF WriteSend, Reopened, claudeVars, job
<1>2. /\ DeliveryTypes /\ Sends(s, k) /\ Delivers(k)
      /\ sender[s].id \in 1..MaxSends /\ sender[s].seen \in Seen
      /\ sender[s].outcome \in {"transport_delivered", "transport_error"}
  BY <1>0, <1>01, Fields DEF Deliveries, Sends, job
<1>3. delivery[k] # None /\ delivery[k] \in DeliveryRecord
  BY <1>2 DEF Delivers, Unmade, DeliveryTypes
<1>4. /\ new.status \in {"transport_delivered", "transport_error"}
      /\ new.wake = delivery[k].wake
      /\ new.attempt = sender[s].seen.attempt + 1
      /\ DOMAIN new.receipts = DOMAIN sender[s].seen.receipts \cup {sender[s].id}
      /\ new \in DeliveryRecord
  <2> DEFINE grown == [n \in DOMAIN sender[s].seen.receipts \cup {sender[s].id} |->
                         IF n = sender[s].id THEN "none" ELSE sender[s].seen.receipts[n]]
  <2>1. grown \in Receipts
    BY <1>2, ReceiptsGrow DEF Seen
  <2>2. DOMAIN grown = DOMAIN sender[s].seen.receipts \cup {sender[s].id}
    OBVIOUS
  <2>3. new = [delivery[k] EXCEPT !.status = sender[s].outcome,
                                  !.attempt = sender[s].seen.attempt + 1,
                                  !.accepted = sender[s].seen.accepted,
                                  !.receipts = grown]
    BY DEF Written
  <2> HIDE DEF grown, new
  <2>4. /\ sender[s].seen.attempt + 1 \in 0..MaxAttempts
        /\ sender[s].seen.accepted \in BOOLEAN
    BY <1>2, DeliveryAssumptions DEF Seen
  <2> QED
    BY <1>2, <1>3, <2>1, <2>2, <2>3, <2>4 DEF DeliveryRecord, DeliveryStatus, Open
<1> HIDE DEF new
<1>5. delivery'[k] = new /\ new # None /\ \A j \in Job \ {k} : delivery'[j] = delivery[j]
  BY <1>1, <1>2, <1>4, DeliveryAssumptions DEF DeliveryTypes
<1>6. /\ sender' \in [Sender -> SenderAt] /\ sender'[s].step = "idle"
      /\ \A t \in Sender \ {s} : sender'[t] = sender[t]
  BY <1>1, <1>2 DEF DeliveryTypes, SenderAt, Idle
<1>7. DeliveryTypes'
  BY <1>1, <1>2, <1>4, <1>6 DEF DeliveryTypes
<1>8. \A j \in Job \ {k} : Quiet(j)
  BY <1>1, <1>2, <1>5, <1>6 DEF Quiet, Sends, Wakens
<1>9. Delivers(k)'
  <2>1. Unmade(k)' /\ OneWake(k)'
    BY <1>1, <1>2, <1>3, <1>4, <1>5 DEF Delivers, Unmade, OneWake, Wakens
  <2>2. Counted(k)'
    <3>1. DOMAIN new.receipts \subseteq 1..sends[k]
      BY <1>0, <1>2, <1>3, <1>4 DEF Delivers, Counted
    <3> QED
      BY <1>1, <1>2, <1>3, <1>4, <1>5, <1>6, <3>1 DEF Delivers, Counted, Sends, Wakens
  <2>3. EndFirst(k)'
    BY <1>1, <1>2, <1>3 DEF Delivers, EndFirst, HasAnswer, Answered, Wakens
  <2>4. SaysAccepted(k)'
    BY <1>1, <1>2, <1>3, <1>4, <1>5 DEF Delivers, SaysAccepted, HasAnswer, Answered
  <2>5. InBudget(k)'
    <3>1. CASE k \in uncounted
      BY <1>1, <3>1 DEF InBudget
    <3>2. CASE k \notin uncounted
      <4>1. /\ \A t \in Sender : Sends(t, k) => t = s
            /\ sender[s].seen.attempt = delivery[k].attempt
            /\ \/ Cardinality(taken[k]) <= delivery[k].attempt
               \/ Cardinality(taken[k]) <= delivery[k].attempt + 1
        BY <1>0, <1>2, <1>3, <3>2 DEF Delivers, InBudget
      <4>2. \A t \in Sender : ~Sends(t, k)'
        BY <1>6, <4>1 DEF Sends
      <4>3. Cardinality(taken[k]) \in Nat /\ delivery[k].attempt \in Nat
        BY <1>2, <1>3, FramesAreFinite, FS_CardinalityType DEF DeliveryRecord
      <4>4. Cardinality(taken[k]) <= new.attempt
        BY <1>4, <4>1, <4>3
      <4> QED
        BY <1>1, <1>5, <4>2, <4>4 DEF InBudget
    <3> QED
      BY <3>1, <3>2
  <2> QED
    BY <2>1, <2>2, <2>3, <2>4, <2>5 DEF Delivers
<1> QED
  BY <1>7, <1>8, <1>9, OneJob DEF Deliveries

\* The retry budget was spent.
LEMMA WriteExhaustedKeeps ==
  ASSUME NEW s \in Sender, Deliveries, WriteExhausted(s), UNCHANGED kind
  PROVE  Deliveries'
<1>0. sender[s].step = "exhausted" /\ sender[s].job \in Job
  BY Fields DEF WriteExhausted, At, Deliveries
<1> DEFINE job == sender[s].job
<1>01. PICK k \in Job : k = job
  BY <1>0
<1> HIDE DEF job
<1> DEFINE new == [delivery[k] EXCEPT !.status = "failed"]
<1>1. /\ delivery' = [delivery EXCEPT ![k] = new]
      /\ reopened' = IF HasAnswer(delivery[k]) THEN reopened \cup {k} ELSE reopened
      /\ sender' = [sender EXCEPT ![s] = Idle]
      /\ armed' = armed /\ handler' = handler /\ sends' = sends
      /\ taken' = taken /\ acks' = acks /\ wakes' = wakes /\ kind' = kind
      /\ accepted' = accepted /\ uncounted' = uncounted /\ unwoken' = unwoken
  BY <1>01 DEF WriteExhausted, Reopened, claudeVars, job
<1>2. DeliveryTypes /\ Sends(s, k) /\ Delivers(k)
  BY <1>0, <1>01 DEF Deliveries, Sends, job
<1>3. delivery[k] # None /\ delivery[k] \in DeliveryRecord
  BY <1>2 DEF Delivers, Unmade, DeliveryTypes
<1>4. /\ new.status = "failed" /\ new.wake = delivery[k].wake
      /\ new.attempt = delivery[k].attempt /\ new.receipts = delivery[k].receipts
      /\ new \in DeliveryRecord
  BY <1>3 DEF DeliveryRecord, DeliveryStatus, Ended
<1> HIDE DEF new
<1>5. delivery'[k] = new /\ new # None /\ \A j \in Job \ {k} : delivery'[j] = delivery[j]
  BY <1>1, <1>2, <1>4, DeliveryAssumptions DEF DeliveryTypes
<1>6. /\ sender' \in [Sender -> SenderAt] /\ sender'[s].step = "idle"
      /\ \A t \in Sender \ {s} : sender'[t] = sender[t]
  BY <1>1, <1>2 DEF DeliveryTypes, SenderAt, Idle
<1>7. DeliveryTypes'
  BY <1>1, <1>2, <1>4, <1>6 DEF DeliveryTypes
<1>8. \A j \in Job \ {k} : Quiet(j)
  BY <1>1, <1>2, <1>5, <1>6 DEF Quiet, Sends, Wakens
<1>9. Delivers(k)'
  <2>1. Unmade(k)' /\ OneWake(k)' /\ EndFirst(k)' /\ SaysAccepted(k)'
    BY <1>1, <1>2, <1>3, <1>4, <1>5
       DEF Delivers, Unmade, OneWake, EndFirst, SaysAccepted, Wakens, Ended
  <2>2. Counted(k)'
    BY <1>1, <1>2, <1>3, <1>4, <1>5, <1>6 DEF Delivers, Counted, Sends, Wakens
  <2>3. InBudget(k)'
    BY <1>0, <1>1, <1>2, <1>3, <1>4, <1>5, <1>6 DEF Delivers, InBudget, Sends
  <2> QED
    BY <2>1, <2>2, <2>3 DEF Delivers
<1> QED
  BY <1>7, <1>8, <1>9, OneJob DEF Deliveries

\* The processes of some sends are gone, and with them perhaps handlers and timers.
LEMMA LossKeeps ==
  ASSUME NEW lost \in SUBSET Sender, Deliveries, SendersLost(lost), armed' \subseteq armed,
         \/ handler' = handler
         \/ handler' = [h \in Handler |-> Idle],
         UNCHANGED <<delivery, sends, claudeVars, accepted, reopened, unwoken, kind>>
  PROVE  Deliveries'
<1>1. /\ DeliveryTypes /\ \A k \in Job : Delivers(k)
      /\ sender' = [s \in Sender |-> IF s \in lost THEN Idle ELSE sender[s]]
      /\ uncounted' = uncounted \cup {sender[s].job : s \in {x \in lost : At(sender[x], "writing")}}
      /\ delivery' = delivery /\ sends' = sends /\ kind' = kind
      /\ taken' = taken /\ acks' = acks /\ wakes' = wakes
      /\ accepted' = accepted /\ reopened' = reopened /\ unwoken' = unwoken
  BY DEF Deliveries, SendersLost, claudeVars
<1>2. handler' \in [Handler -> HandlerAt]
      /\ \A h \in Handler : handler'[h] = handler[h] \/ handler'[h].step = "idle"
  BY <1>1 DEF DeliveryTypes, HandlerAt, Idle
<1>3. /\ sender' \in [Sender -> SenderAt]
      /\ \A s \in Sender : IF s \in lost THEN sender'[s].step = "idle" ELSE sender'[s] = sender[s]
  BY <1>1 DEF DeliveryTypes, SenderAt, Idle
<1>4. DeliveryTypes'
  BY <1>1, <1>2, <1>3 DEF DeliveryTypes
<1>5. ASSUME NEW k \in Job PROVE Quiet(k)
  <2>1. \A s \in Sender : Sends(s, k) /\ sender[s].step = "writing" =>
          k \in uncounted' \/ Sends(s, k)'
    BY <1>1, <1>3 DEF Sends, At
  <2>2. \A s \in Sender : Sends(s, k)' => Sends(s, k) /\ sender'[s] = sender[s]
    BY <1>3 DEF Sends
  <2>3. \A h \in Handler : Wakens(h, k)' => Wakens(h, k) /\ handler'[h] = handler[h]
    BY <1>2 DEF Wakens
  <2> QED
    BY <1>1, <2>1, <2>2, <2>3 DEF Quiet
<1> QED
  BY <1>1, <1>4, <1>5, QuietKeeps DEF Deliveries

\* A timer that fires sends, or finds that the Job does not wait for it.
LEMMA FireKeeps ==
  ASSUME NEW t \in Timer, NEW k \in Job, Deliveries, TimerFires(t, k), UNCHANGED kind
  PROVE  Deliveries'
<1>1. /\ k \in armed /\ armed' = armed \ {k}
      /\ UNCHANGED <<delivery, handler, claudeVars, accepted, reopened, unwoken>>
  BY DEF TimerFires
<1>2. delivery[k] # None /\ t \in Sender
  BY <1>1 DEF Deliveries, Delivers, Unmade, Sender
<1>3. CASE StartSend(t, k)
  BY <1>1, <1>2, <1>3, StartKeeps
<1>4. CASE UNCHANGED <<sender, sends, uncounted>>
  <2>1. DeliveryTypes'
    BY <1>1, <1>4 DEF Deliveries, DeliveryTypes, claudeVars
  <2>2. \A j \in Job : Quiet(j)
    BY <1>1, <1>4 DEF Quiet, Sends, Wakens, claudeVars
  <2> QED
    BY <2>1, <2>2, QuietKeeps DEF Deliveries
<1> QED
  BY <1>3, <1>4 DEF TimerFires

-----------------------------------------------------------------------------
(* What Claude sends back, and the deadlines                               *)

\* A record is edited while the senders stay where they are: what remains to
\* show is about the wake and the answer of this Job.
LEMMA EditKeeps ==
  ASSUME NEW k \in Job, NEW new \in DeliveryRecord, Deliveries, delivery[k] # None,
         delivery' = [delivery EXCEPT ![k] = new],
         new.attempt = delivery[k].attempt,
         DOMAIN new.receipts = DOMAIN delivery[k].receipts,
         UNCHANGED <<sender, sends, taken, uncounted, kind>>,
         handler' \in [Handler -> HandlerAt], armed' \subseteq armed \cup {k},
         acks' \in [Job -> Nat], wakes' \in [Job -> Nat],
         accepted' \subseteq accepted \cup {k},
         reopened \subseteq reopened', unwoken \subseteq unwoken',
         \A j \in Job \ {k} :
           /\ wakes'[j] = wakes[j]
           /\ \A h \in Handler : Wakens(h, j)' => Wakens(h, j) /\ handler'[h] = handler[h],
         new.wake = "delivered" => wakes'[k] > 0,
         \A h \in Handler : Wakens(h, k)' /\ handler'[h].step = "woken" =>
           (handler'[h].outcome = "delivered" => wakes'[k] > 0),
         EndFirst(k)', OneWake(k)', SaysAccepted(k)'
  PROVE  Deliveries'
<1>1. DeliveryTypes /\ Delivers(k)
  BY DEF Deliveries
<1>2. delivery'[k] = new /\ new # None /\ \A j \in Job \ {k} : delivery'[j] = delivery[j]
  BY <1>1, DeliveryAssumptions DEF DeliveryTypes
<1>3. DeliveryTypes'
  BY <1>1 DEF DeliveryTypes
<1>4. \A j \in Job \ {k} : Quiet(j)
  BY <1>2 DEF Quiet, Sends
<1>5. Unmade(k)' /\ Counted(k)'
  BY <1>1, <1>2 DEF Delivers, Unmade, Counted, Sends
<1>6. InBudget(k)'
  BY <1>1, <1>2 DEF Delivers, InBudget, Sends
<1> QED
  BY <1>3, <1>4, <1>5, <1>6, OneJob DEF Deliveries, Delivers

\* An ACK of the target.
LEMMA AckKeeps ==
  ASSUME NEW h \in Handler, NEW k \in Job, NEW status \in Acks, Deliveries,
         ReceiveAck(h, k, status), UNCHANGED kind
  PROVE  Deliveries'
<1> DEFINE d == delivery[k]
           after == IF Stale(d, status) THEN d ELSE AfterAck(d, status)
<1>1. /\ handler[h].step = "idle" /\ taken[k] # {}
      /\ acks' = [acks EXCEPT ![k] = @ + 1]
      /\ delivery' = [delivery EXCEPT ![k] = after]
      /\ accepted' = IF status = "accepted" THEN accepted \cup {k} ELSE accepted
      /\ handler' = [handler EXCEPT ![h] =
           IF Wakes(d, after, status) THEN [step |-> "waking", job |-> k] ELSE Idle]
      /\ armed' \subseteq armed \cup {k}
      /\ sender' = sender /\ sends' = sends /\ taken' = taken /\ wakes' = wakes
      /\ reopened' = reopened /\ uncounted' = uncounted /\ unwoken' = unwoken /\ kind' = kind
  BY DEF ReceiveAck, At
<1>2. DeliveryTypes /\ Delivers(k) /\ d # None /\ d \in DeliveryRecord
  BY <1>1 DEF Deliveries, Delivers, Unmade, DeliveryTypes
<1>3. /\ after \in DeliveryRecord /\ after.attempt = d.attempt /\ after.receipts = d.receipts
      /\ after.wake \in {"pending", d.wake}
      /\ Stale(d, status) => after = d
      /\ ~Stale(d, status) =>
           /\ status = "accepted" => after.status = "acknowledged"
           /\ status = "retryable" => after.status \in {"retry_scheduled", "failed"}
           /\ status \in Ended => after.status = status
           /\ after.accepted = (d.accepted \/ status = "accepted")
  <2>1. CASE Stale(d, status)
    BY <1>2, <2>1
  <2>2. CASE ~Stale(d, status)
    <3> DEFINE state == CASE status = "retryable" /\ ~Exhausted(d) -> "retry_scheduled"
                          [] status = "retryable" /\ Exhausted(d) -> "failed"
                          [] status = "accepted" -> "acknowledged"
                          [] OTHER -> status
               wake == IF status \in Ended \/ Exhausted(d) THEN "pending" ELSE d.wake
    <3>1. after = [d EXCEPT !.status = state, !.ack = status,
                            !.accepted = d.accepted \/ status = "accepted", !.wake = wake]
      BY <2>2 DEF AfterAck
    <3>2. /\ status = "accepted" => state = "acknowledged"
          /\ status = "retryable" => state \in {"retry_scheduled", "failed"}
          /\ status \in Ended => state = status
          /\ state \in DeliveryStatus
      BY DEF DeliveryStatus, Open, Ended, Acks
    <3>3. wake \in {"pending", d.wake} /\ d.wake \in {"none", "pending", "delivered", "failed"}
      BY <1>2 DEF DeliveryRecord
    <3> HIDE DEF state, wake, after
    <3> QED
      BY <1>2, <2>2, <3>1, <3>2, <3>3 DEF DeliveryRecord
  <2> QED
    BY <2>1, <2>2
<1> HIDE DEF after
<1>4. delivery'[k] = after
  BY <1>1, <1>2 DEF DeliveryTypes
<1>5. /\ handler' \in [Handler -> HandlerAt]
      /\ \A i \in Handler \ {h} : handler'[i] = handler[i]
      /\ Wakens(h, k)' => Wakes(d, after, status) /\ handler'[h].step = "waking"
      /\ \A j \in Job \ {k} : ~Wakens(h, j)'
  <2> DEFINE at == IF Wakes(d, after, status) THEN [step |-> "waking", job |-> k] ELSE Idle
  <2>1. at \in HandlerAt
    BY DEF HandlerAt
  <2>2. /\ at.step # "idle" => Wakes(d, after, status) /\ at.step = "waking" /\ at.job = k
    BY DEF Idle
  <2>3. handler' = [handler EXCEPT ![h] = at]
    BY <1>1
  <2> HIDE DEF at
  <2>4. handler'[h] = at
    BY <1>2, <2>3 DEF DeliveryTypes
  <2>5. \A i \in Handler \ {h} : handler'[i] = handler[i]
    BY <1>2, <2>3 DEF DeliveryTypes
  <2>6. handler' \in [Handler -> HandlerAt]
    BY <1>2, <2>1, <2>3 DEF DeliveryTypes
  <2> QED
    BY <2>2, <2>4, <2>5, <2>6 DEF Wakens
<1>6. acks' \in [Job -> Nat] /\ wakes' \in [Job -> Nat]
  BY <1>1, <1>2 DEF DeliveryTypes
<1>7. ~Wakens(h, k)
  BY <1>1 DEF Wakens
<1>8. after.wake = "delivered" => wakes'[k] > 0
  BY <1>1, <1>2, <1>3 DEF Delivers, Counted
<1>9. \A i \in Handler : Wakens(i, k)' /\ handler'[i].step = "woken" =>
        (handler'[i].outcome = "delivered" => wakes'[k] > 0)
  BY <1>1, <1>2, <1>5 DEF Delivers, Counted, Wakens
<1>10. d.status \in Ended => Stale(d, status)
  BY DEF Stale
<1>11. EndFirst(k)'
  <2>1. CASE after.status \in Ended
    BY <1>2, <1>3, <1>4, <2>1, DeliveryAssumptions DEF EndFirst
  <2>2. CASE after.status \notin Ended /\ k \notin reopened
    <3>1. d.status \notin Ended
      BY <1>3, <1>10, <2>2
    <3>2. wakes[k] = 0 /\ \A i \in Handler : ~Wakens(i, k)
      BY <1>2, <2>2, <3>1 DEF Delivers, EndFirst
    <3>3. ~Wakens(h, k)'
      BY <1>5, <2>2 DEF Wakes
    <3>4. \A i \in Handler \ {h} : ~Wakens(i, k)'
      BY <1>5, <3>2 DEF Wakens
    <3> QED
      BY <1>1, <3>2, <3>3, <3>4 DEF EndFirst
  <2>3. CASE k \in reopened
    BY <1>1, <2>3 DEF EndFirst
  <2> QED
    BY <2>1, <2>2, <2>3
<1>12. OneWake(k)'
  <2>1. CASE k \in reopened \cup unwoken
    BY <1>1, <2>1 DEF OneWake
  <2>2. CASE k \notin reopened \cup unwoken
    <3>1. /\ wakes[k] <= 1 /\ d.wake # "failed"
          /\ \A i, j \in Handler : Wakens(i, k) /\ Wakens(j, k) => i = j
          /\ \A i \in Handler : Wakens(i, k) /\ handler[i].step = "waking" => wakes[k] = 0
      BY <1>2, <2>2 DEF Delivers, OneWake
    <3>2. Wakes(d, after, status) => wakes[k] = 0 /\ \A i \in Handler : ~Wakens(i, k)
      BY <1>2, <1>10, <2>2, <3>1 DEF Delivers, EndFirst, Wakes, Stale
    <3>3. \A i \in Handler : Wakens(i, k)' => i = h \/ (Wakens(i, k) /\ handler'[i] = handler[i])
      BY <1>5 DEF Wakens
    <3>4. after.wake # "failed"
      BY <1>3, <3>1
    <3> QED
      BY <1>1, <1>4, <1>5, <3>1, <3>2, <3>3, <3>4 DEF OneWake
  <2> QED
    BY <2>1, <2>2
<1>13. SaysAccepted(k)'
  BY <1>1, <1>2, <1>3, <1>4, <1>10 DEF Delivers, SaysAccepted, Stale, Acks, Ended
<1> QED
  BY <1>1, <1>2, <1>3, <1>5, <1>6, <1>8, <1>9, <1>11, <1>12, <1>13, EditKeeps DEF Wakens

\* An ACK of another session writes over what the record says.
LEMMA ForeignAckKeeps ==
  ASSUME NEW k \in Job, Deliveries, ReceiveForeignAck(k), UNCHANGED kind
  PROVE  Deliveries'
<1> DEFINE new == [delivery[k] EXCEPT !.status = "ack_rejected", !.ack = "rejected"]
<1>1. /\ taken[k] # {} /\ acks' = [acks EXCEPT ![k] = @ + 1]
      /\ delivery' = [delivery EXCEPT ![k].status = "ack_rejected", ![k].ack = "rejected"]
      /\ reopened' = IF HasAnswer(delivery[k]) THEN reopened \cup {k} ELSE reopened
      /\ UNCHANGED <<sender, armed, handler, sends, taken, wakes, accepted, uncounted, unwoken>>
  BY DEF ReceiveForeignAck, Reopened
<1>2. /\ DeliveryTypes /\ Delivers(k) /\ delivery[k] # None
      /\ delivery[k] \in DeliveryRecord
  BY <1>1 DEF Deliveries, Delivers, Unmade, DeliveryTypes
<1>3. delivery' = [delivery EXCEPT ![k] = new]
  BY <1>1, <1>2 DEF DeliveryTypes
<1>4. /\ new \in DeliveryRecord /\ new.status = "ack_rejected" /\ new.wake = delivery[k].wake
      /\ new.attempt = delivery[k].attempt /\ new.receipts = delivery[k].receipts
      /\ new.accepted = delivery[k].accepted
  BY <1>2 DEF DeliveryRecord, DeliveryStatus
<1> HIDE DEF new
<1>5. delivery'[k] = new /\ new # None
  BY <1>2, <1>3, <1>4, DeliveryAssumptions DEF DeliveryTypes
<1>6. /\ handler' \in [Handler -> HandlerAt] /\ acks' \in [Job -> Nat] /\ wakes' \in [Job -> Nat]
  BY <1>1, <1>2 DEF DeliveryTypes
<1>7. EndFirst(k)' /\ OneWake(k)'
  BY <1>1, <1>2, <1>4, <1>5
     DEF Delivers, EndFirst, OneWake, HasAnswer, Answered, Wakens
<1>8. SaysAccepted(k)'
  BY <1>1, <1>2, <1>4, <1>5 DEF Delivers, SaysAccepted, HasAnswer, Answered
<1>9. /\ new.wake = "delivered" => wakes'[k] > 0
      /\ \A h \in Handler : Wakens(h, k)' /\ handler'[h].step = "woken" =>
           (handler'[h].outcome = "delivered" => wakes'[k] > 0)
  BY <1>1, <1>2, <1>4 DEF Delivers, Counted, Wakens
<1> QED
  BY <1>1, <1>2, <1>3, <1>4, <1>6, <1>7, <1>8, <1>9, EditKeeps DEF Wakens

\* The sender of the Job is woken, or not.
LEMMA WakeKeeps ==
  ASSUME NEW h \in Handler, Deliveries, Wake(h), UNCHANGED kind
  PROVE  Deliveries'
<1>0. handler[h].step = "waking" /\ handler[h].job \in Job
  BY Fields DEF Wake, At, Deliveries
<1> DEFINE job == handler[h].job
<1>01. PICK k \in Job : k = job
  BY <1>0
<1> HIDE DEF job
<1>1. PICK outcome \in {"delivered", "failed"}, started \in BOOLEAN :
        /\ outcome = "delivered" => started
        /\ wakes' = IF started THEN [wakes EXCEPT ![k] = @ + 1] ELSE wakes
        /\ handler' = [handler EXCEPT ![h] = [step |-> "woken", job |-> k, outcome |-> outcome]]
  <2>1. PICK outcome \in {"delivered", "failed"}, started \in BOOLEAN :
          /\ outcome = "delivered" => started
          /\ wakes' = IF started THEN [wakes EXCEPT ![handler[h].job] = @ + 1] ELSE wakes
          /\ handler' = [handler EXCEPT ![h] = [step |-> "woken", job |-> handler[h].job,
                                                outcome |-> outcome]]
    BY DEF Wake
  <2> QED
    BY <1>01, <2>1 DEF job
<1> DEFINE new == [step |-> "woken", job |-> k, outcome |-> outcome]
<1>2. UNCHANGED <<delivery, sender, armed, sends, taken, acks, accepted, reopened,
                  uncounted, unwoken>>
  BY DEF Wake, historyVars
<1>3. DeliveryTypes /\ Delivers(k) /\ Wakens(h, k) /\ handler[h].step = "waking"
  BY <1>0, <1>01 DEF Deliveries, Wakens, job
<1>4. /\ delivery[k] # None /\ delivery[k] \in DeliveryRecord
      /\ delivery' = [delivery EXCEPT ![k] = delivery[k]]
  BY <1>2, <1>3 DEF Delivers, Unmade, DeliveryTypes
<1>5. new \in HandlerAt /\ new.step = "woken" /\ new.job = k /\ new.outcome = outcome
  BY DEF HandlerAt
<1>6. handler' = [handler EXCEPT ![h] = new]
  BY <1>1
<1> HIDE DEF new
<1>7. /\ handler' \in [Handler -> HandlerAt] /\ handler'[h] = new
      /\ \A i \in Handler \ {h} : handler'[i] = handler[i]
  BY <1>3, <1>5, <1>6 DEF DeliveryTypes
<1>8. /\ wakes' \in [Job -> Nat] /\ acks' \in [Job -> Nat]
      /\ \A j \in Job \ {k} : wakes'[j] = wakes[j]
      /\ wakes'[k] = IF started THEN wakes[k] + 1 ELSE wakes[k]
      /\ wakes[k] \in Nat /\ wakes'[k] \in Nat
  BY <1>1, <1>2, <1>3 DEF DeliveryTypes
<1>9. \A j \in Job \ {k}, i \in Handler : Wakens(i, j)' => Wakens(i, j) /\ handler'[i] = handler[i]
  BY <1>5, <1>7 DEF Wakens
<1>10. /\ delivery[k].wake = "delivered" => wakes'[k] > 0
       /\ \A i \in Handler : Wakens(i, k)' /\ handler'[i].step = "woken" =>
            (handler'[i].outcome = "delivered" => wakes'[k] > 0)
  <2>1. /\ delivery[k].wake = "delivered" => wakes[k] > 0
        /\ \A i \in Handler : Wakens(i, k) /\ handler[i].step = "woken" =>
             (handler[i].outcome = "delivered" => wakes[k] > 0)
    BY <1>3, <1>4 DEF Delivers, Counted
  <2>2. wakes[k] > 0 => wakes'[k] > 0
    BY <1>8
  <2>3. outcome = "delivered" => wakes'[k] > 0
    BY <1>1, <1>8
  <2> QED
    BY <1>5, <1>7, <2>1, <2>2, <2>3 DEF Wakens
<1>11. EndFirst(k)'
  BY <1>2, <1>3, <1>4 DEF Delivers, EndFirst
<1>12. OneWake(k)'
  <2>1. CASE k \in reopened \cup unwoken
    BY <1>2, <2>1 DEF OneWake
  <2>2. CASE k \notin reopened \cup unwoken
    <3>1. /\ wakes[k] = 0 /\ delivery[k].wake # "failed"
          /\ \A i \in Handler : Wakens(i, k) => i = h
      BY <1>3, <1>4, <2>2 DEF Delivers, OneWake
    <3>2. \A i \in Handler : Wakens(i, k)' => i = h
      BY <1>7, <3>1 DEF Wakens
    <3>3. wakes'[k] <= 1
      BY <1>8, <3>1
    <3> QED
      BY <1>2, <1>5, <1>7, <3>1, <3>2, <3>3 DEF OneWake
  <2> QED
    BY <2>1, <2>2
<1>13. SaysAccepted(k)'
  BY <1>2, <1>3 DEF Delivers, SaysAccepted
<1> QED
  BY <1>2, <1>4, <1>7, <1>8, <1>9, <1>10, <1>11, <1>12, <1>13, EditKeeps

\* What became of the wake is recorded.
LEMMA RecordWakeKeeps ==
  ASSUME NEW h \in Handler, Deliveries, RecordWake(h), UNCHANGED kind
  PROVE  Deliveries'
<1>0. handler[h].step = "woken" /\ handler[h].job \in Job
  BY Fields DEF RecordWake, At, Deliveries
<1> DEFINE job == handler[h].job
           outcome == handler[h].outcome
<1>01. PICK k \in Job : k = job
  BY <1>0
<1>02. outcome \in {"delivered", "failed"}
  BY <1>0, Fields DEF Deliveries
<1> HIDE DEF job, outcome
<1> DEFINE new == [delivery[k] EXCEPT !.wake = outcome]
<1>1. /\ delivery' = [delivery EXCEPT ![k].wake = outcome]
      /\ unwoken' = IF outcome = "failed" THEN unwoken \cup {k} ELSE unwoken
      /\ handler' = [handler EXCEPT ![h] = Idle]
      /\ UNCHANGED <<sender, armed, sends, taken, acks, wakes, accepted, reopened, uncounted>>
  BY <1>01 DEF RecordWake, claudeVars, job, outcome
<1>2. DeliveryTypes /\ Delivers(k) /\ Wakens(h, k)
  BY <1>0, <1>01 DEF Deliveries, Wakens, job
<1>3. delivery[k] # None /\ delivery[k] \in DeliveryRecord
  BY <1>2 DEF Delivers, Unmade, DeliveryTypes
<1>4. delivery' = [delivery EXCEPT ![k] = new]
  BY <1>1, <1>3
<1>5. /\ new \in DeliveryRecord /\ new.wake = outcome /\ new.status = delivery[k].status
      /\ new.attempt = delivery[k].attempt /\ new.receipts = delivery[k].receipts
      /\ new.accepted = delivery[k].accepted
  BY <1>02, <1>3 DEF DeliveryRecord
<1> HIDE DEF new
<1>6. delivery'[k] = new /\ new # None
  BY <1>2, <1>4, <1>5, DeliveryAssumptions DEF DeliveryTypes
<1>7. /\ handler' \in [Handler -> HandlerAt] /\ handler'[h].step = "idle"
      /\ \A i \in Handler \ {h} : handler'[i] = handler[i]
  BY <1>1, <1>2 DEF DeliveryTypes, HandlerAt, Idle
<1>8. acks' \in [Job -> Nat] /\ wakes' \in [Job -> Nat]
  BY <1>1, <1>2 DEF DeliveryTypes
<1>9. \A j \in Job, i \in Handler : Wakens(i, j)' => Wakens(i, j) /\ handler'[i] = handler[i]
  BY <1>7 DEF Wakens
<1>10. /\ new.wake = "delivered" => wakes'[k] > 0
       /\ \A i \in Handler : Wakens(i, k)' /\ handler'[i].step = "woken" =>
            (handler'[i].outcome = "delivered" => wakes'[k] > 0)
  BY <1>0, <1>1, <1>2, <1>3, <1>5, <1>9 DEF Delivers, Counted, outcome
<1>11. EndFirst(k)'
  BY <1>1, <1>2, <1>3, <1>5, <1>6 DEF Delivers, EndFirst
<1>12. OneWake(k)'
  BY <1>1, <1>2, <1>3, <1>5, <1>6, <1>9 DEF Delivers, OneWake
<1>13. SaysAccepted(k)'
  BY <1>1, <1>2, <1>3, <1>5, <1>6 DEF Delivers, SaysAccepted
<1> QED
  BY <1>1, <1>3, <1>4, <1>5, <1>7, <1>8, <1>9, <1>10, <1>11, <1>12, <1>13, EditKeeps

\* A receipt, and a deadline, leave the wake and the attempts as they are.
LEMMA NoteKeeps ==
  ASSUME NEW k \in Job, NEW new \in DeliveryRecord, Deliveries, delivery[k] # None,
         delivery' = [delivery EXCEPT ![k] = new],
         new.attempt = delivery[k].attempt, new.wake = delivery[k].wake,
         new.accepted = delivery[k].accepted,
         DOMAIN new.receipts = DOMAIN delivery[k].receipts,
         \/ new.status = delivery[k].status
         \/ delivery[k].status = "transport_delivered" /\ new.status = "ack_timeout"
         \/ delivery[k].status = "acknowledged" /\ new.status = "completion_timeout",
         armed' \subseteq armed \cup {k},
         UNCHANGED <<sender, handler, sends, claudeVars, historyVars, kind>>
  PROVE  Deliveries'
<1>1. /\ DeliveryTypes /\ Delivers(k)
      /\ UNCHANGED <<sender, handler, sends, taken, acks, wakes, accepted, reopened, uncounted,
                     unwoken, kind>>
  BY DEF Deliveries, claudeVars, historyVars
<1>2. delivery'[k] = new /\ new # None
  BY <1>1, DeliveryAssumptions DEF DeliveryTypes
<1>3. /\ handler' \in [Handler -> HandlerAt] /\ acks' \in [Job -> Nat] /\ wakes' \in [Job -> Nat]
  BY <1>1 DEF DeliveryTypes
<1>4. EndFirst(k)' /\ OneWake(k)'
  BY <1>1, <1>2 DEF Delivers, EndFirst, OneWake, Wakens, Ended
<1>5. SaysAccepted(k)'
  BY <1>1, <1>2 DEF Delivers, SaysAccepted, Ended
<1>6. /\ new.wake = "delivered" => wakes'[k] > 0
      /\ \A h \in Handler : Wakens(h, k)' /\ handler'[h].step = "woken" =>
           (handler'[h].outcome = "delivered" => wakes'[k] > 0)
  BY <1>1 DEF Delivers, Counted, Wakens
<1> QED
  BY <1>1, <1>3, <1>4, <1>5, <1>6, EditKeeps DEF Wakens

\* A receipt for a frame that was handed over.
LEMMA ReceiptKeeps ==
  ASSUME NEW k \in Job, NEW n, NEW status \in {"held", "delivered"}, Deliveries,
         ReceiveReceipt(k, n, status), UNCHANGED kind
  PROVE  Deliveries'
<1> DEFINE noted == [delivery[k].receipts EXCEPT ![n] = status]
           new == [delivery[k] EXCEPT !.receipts = noted]
<1>1. /\ delivery[k] # None /\ n \in taken[k] \cap DOMAIN delivery[k].receipts
      /\ delivery' = [delivery EXCEPT ![k].receipts[n] = status]
      /\ UNCHANGED <<sender, armed, handler, sends, claudeVars, historyVars>>
  BY DEF ReceiveReceipt
<1>2. DeliveryTypes /\ delivery[k] \in DeliveryRecord
  BY <1>1 DEF Deliveries, DeliveryTypes
<1>3. delivery' = [delivery EXCEPT ![k] = new]
  BY <1>1, <1>2
<1>4. noted \in Receipts /\ DOMAIN noted = DOMAIN delivery[k].receipts
  <2>1. delivery[k].receipts \in Receipts /\ n \in 1..MaxSends
    BY <1>1, <1>2 DEF DeliveryRecord, DeliveryTypes
  <2> QED
    BY <1>1, <2>1, ReceiptsGrow
<1> HIDE DEF noted
<1>5. /\ new \in DeliveryRecord /\ new.attempt = delivery[k].attempt
      /\ new.wake = delivery[k].wake /\ new.accepted = delivery[k].accepted
      /\ new.receipts = noted /\ new.status = delivery[k].status
  BY <1>2, <1>4 DEF DeliveryRecord
<1> HIDE DEF new
<1> QED
  BY <1>1, <1>3, <1>4, <1>5, NoteKeeps

\* A deadline passes, or not yet.
LEMMA DeadlineKeeps ==
  ASSUME NEW k \in Job, Deliveries, delivery[k] # None,
         delivery' = [delivery EXCEPT ![k] = AfterDeadline(@)],
         armed' \subseteq armed \cup {k},
         UNCHANGED <<sender, handler, sends, claudeVars, historyVars, kind>>
  PROVE  Deliveries'
<1> DEFINE new == AfterDeadline(delivery[k])
<1>1. delivery[k] \in DeliveryRecord
  BY DEF Deliveries, DeliveryTypes
<1>2. /\ new \in DeliveryRecord /\ new.attempt = delivery[k].attempt
      /\ new.wake = delivery[k].wake /\ new.accepted = delivery[k].accepted
      /\ new.receipts = delivery[k].receipts
      /\ \/ new.status = delivery[k].status
         \/ delivery[k].status = "transport_delivered" /\ new.status = "ack_timeout"
         \/ delivery[k].status = "acknowledged" /\ new.status = "completion_timeout"
  BY <1>1 DEF AfterDeadline, DeliveryRecord, DeliveryStatus
<1>3. delivery' = [delivery EXCEPT ![k] = new]
  OBVIOUS
<1> HIDE DEF new
<1> QED
  BY <1>2, <1>3, NoteKeeps

\* Every step of a delivery keeps the invariant of deliveries.
LEMMA DeliveriesKeep ==
  ASSUME Deliveries, DeliveryStep, UNCHANGED kind
  PROVE  Deliveries'
<1>1. ASSUME NEW s \in Sender, SendStep(s) PROVE Deliveries'
  BY <1>1, SendKeeps, WriteSendKeeps, WriteExhaustedKeeps DEF SendStep
<1>2. ASSUME NEW c \in Command, CommandDies(c) PROVE Deliveries'
  <2>1. {c} \in SUBSET Sender
    BY DEF Sender
  <2> QED
    BY <1>2, <2>1, LossKeeps DEF CommandDies
<1>3. ASSUME NEW h \in Handler, HandlerStep(h) PROVE Deliveries'
  BY <1>3, WakeKeeps, RecordWakeKeeps DEF HandlerStep
<1>4. ASSUME NEW k \in Job, CreateDelivery(k) \/ ReceiveForeignAck(k) PROVE Deliveries'
  BY <1>4, CreateKeeps, ForeignAckKeeps
<1>5. ASSUME NEW k \in Job, Refresh(k) \/ Scan(k) PROVE Deliveries'
  BY <1>5, DeadlineKeeps DEF Refresh, Scan
<1>6. ASSUME NEW k \in Job, NEW c \in Command, CommandSend(c, k) PROVE Deliveries'
  BY <1>6, StartKeeps DEF CommandSend, Sender
<1>7. ASSUME NEW k \in Job, NEW t \in Timer, TimerFires(t, k) PROVE Deliveries'
  BY <1>7, FireKeeps
<1>8. ASSUME NEW k \in Job, NEW h \in Handler, NEW status \in Acks, ReceiveAck(h, k, status)
      PROVE Deliveries'
  BY <1>8, AckKeeps
<1>9. ASSUME NEW k \in Job, NEW n \in Receipted, NEW status \in {"held", "delivered"},
             ReceiveReceipt(k, n, status)
      PROVE Deliveries'
  BY <1>9, ReceiptKeeps
<1> QED
  BY <1>1, <1>2, <1>3, <1>4, <1>5, <1>6, <1>7, <1>8, <1>9 DEF DeliveryStep

-----------------------------------------------------------------------------
(* Requests                                                                *)

\* The fields of a runner and of a command, by its step.
LEMMA ReplyFields ==
  ASSUME RequestTypes
  PROVE  /\ \A k \in Job :
              /\ runner[k].step \in {"idle", "replying", "noting"} \cup RunnerStepName
              /\ runner[k].step = "idle" => runner[k] = Idle
              /\ runner[k].step \in {"replying", "noting"} => runner[k].job \in Job
              /\ runner[k].step = "replying" => runner[k].says \in Ended
              /\ runner[k].step = "noting" => runner[k].reply \in {"delivered", "failed"}
         /\ \A o \in Operator :
              /\ operator[o].step \in {"idle", "replying", "noting"}
              /\ operator[o].step # "idle" => operator[o].job \in Job
              /\ operator[o].step = "replying" => operator[o].says \in Ended
              /\ operator[o].step = "noting" => operator[o].reply \in {"delivered", "failed"}
BY DEF RequestTypes, RunnerAt, RunnerStepName, Reply, Idle

\* A reply says what the Job says, when the Job has ended.
LEMMA ReplySays ==
  ASSUME NEW k \in Job, NEW status \in RequestStatus \ PendingStatus
  PROVE  /\ Replying(k, status) \in Reply /\ Replying(k, status).step = "replying"
         /\ Replying(k, status).job = k
         /\ IF Replying(k, status).says = "completed" THEN status = "completed"
                                                    ELSE status \in {"failed", "unknown"}
BY DEF Replying, Reply, RequestStatus, Ended

\* Nobody does anything for the request k.
Rests(k) ==
  /\ request'[k] = request[k] /\ kind'[k] = kind[k]
  /\ (k \in accepting') = (k \in accepting)
  /\ runner'[k] = runner[k] /\ turn'[k] = turn[k] /\ turns'[k] = turns[k] /\ ask'[k] = ask[k]
  /\ replies'[k] = replies[k] /\ said'[k] = said[k]
  /\ k \in interrupted => k \in interrupted'
  /\ k \in repeated => k \in repeated'
  /\ \A o \in Operator : Operates(o, k)' => Operates(o, k) /\ operator'[o] = operator[o]

\* The invariant of a request outlives the steps of others.
LEMMA RestKeeps ==
  ASSUME NEW k \in Job, Requests(k), Rests(k)
  PROVE  Requests(k)'
<1>1. Unqueued(k)' /\ Running(k)' /\ OneTurn(k)'
  BY DEF Requests, Unqueued, Running, OneTurn, Rests
<1>2. OneReply(k)'
  BY DEF Requests, OneReply, Rests
<1>3. TrueReplies(k)'
  BY DEF Requests, TrueReplies, SaysIt, Rests
<1> QED
  BY <1>1, <1>2, <1>3 DEF Requests

\* The step of one request keeps the invariant of all, if it keeps that of the request.
LEMMA OneRequest ==
  ASSUME NEW j \in Job, AllRequests, RequestTypes', \A k \in Job \ {j} : Rests(k), Requests(j)'
  PROVE  AllRequests'
BY RestKeeps DEF AllRequests

\* A runner that has not come to the reply goes on: nobody has replied yet.
LEMMA RunKeeps ==
  ASSUME NEW k \in Job, AllRequests, runner[k].step \in RunnerStepName,
         NEW to \in RunnerAt, runner' = [runner EXCEPT ![k] = to],
         NEW new \in RequestRecord, request' = [request EXCEPT ![k] = new],
         turn' \in [Job -> {"none", "active"} \cup Ended], turns' \in [Job -> Nat],
         \A j \in Job \ {k} : turn'[j] = turn[j] /\ turns'[j] = turns[j],
         turns'[k] = turns[k] \/ (runner[k].step = "starting" /\ turns'[k] = turns[k] + 1),
         new.turnId => turns'[k] > 0,
         new.status = "completed" => turn'[k] = "completed",
         to.step \in RunnerStepName => to.step # "starting" /\ new.status \in PendingStatus,
         to.step \in {"started", "watching"} => turns'[k] > 0,
         to.step \notin RunnerStepName =>
           to = Replying(k, new.status) /\ new.status \notin PendingStatus,
         UNCHANGED <<kind, accepting, operator, ask, replies, said, interrupted, repeated>>
  PROVE  AllRequests'
<1>1. RequestTypes /\ Requests(k)
  BY DEF AllRequests
<1>2. /\ request[k] # None /\ k \notin accepting /\ request[k].status \in PendingStatus
      /\ runner[k].step \notin {"idle", "noting", "replying"}
  BY <1>1 DEF Requests, Unqueued, Running, RunnerStepName, Idle
<1>3. RequestTypes'
  BY <1>1 DEF RequestTypes
<1>4. /\ request'[k] = new /\ new # None /\ runner'[k] = to
      /\ \A j \in Job \ {k} : request'[j] = request[j] /\ runner'[j] = runner[j]
  BY <1>1, RequestAssumptions DEF RequestTypes
<1>5. \A j \in Job \ {k} : Rests(j)
  BY <1>4 DEF Rests, Operates
<1>6. \A says \in Ended : ~SaysIt(k, says)
  BY <1>2 DEF SaysIt, PendingStatus
<1>7. said[k] = {} /\ \A o \in Operator : ~(Operates(o, k) /\ operator[o].step = "replying")
  BY <1>1, <1>6, ReplyFields DEF Requests, TrueReplies, RequestTypes
<1>8. new.status \in RequestStatus
  BY DEF RequestRecord
<1>9. to.step \notin RunnerStepName => to.step = "replying" /\ SaysIt(k, to.says)'
  BY <1>4, <1>8, ReplySays DEF SaysIt
<1>10. Unqueued(k)' /\ Running(k)'
  BY <1>1, <1>2, <1>4, <1>9 DEF Requests, Unqueued, Running, RunnerStepName
<1>11. OneTurn(k)'
  <2>1. CASE k \in interrupted
    BY <2>1 DEF OneTurn
  <2>2. CASE k \notin interrupted
    <3>1. turns[k] \in Nat /\ turns[k] <= 1 /\ (runner[k].step = "starting" => turns[k] = 0)
      BY <1>1, <2>2 DEF Requests, OneTurn, RequestTypes
    <3>2. turns'[k] <= 1
      BY <3>1
    <3>3. to.step # "starting"
      BY DEF RunnerStepName
    <3> QED
      BY <1>4, <3>2, <3>3 DEF OneTurn
  <2> QED
    BY <2>1, <2>2
<1>12. OneReply(k)'
  <2>1. runner[k] # Idle /\ runner[k].step # "noting"
    BY <1>2 DEF Idle
  <2>2. k \in repeated \/ (replies[k] = 0 /\ \A o \in Operator : ~Operates(o, k))
    BY <1>1, <2>1 DEF Requests, OneReply
  <2>3. \A o \in Operator : Operates(o, k)' = Operates(o, k)
    BY DEF Operates
  <2> QED
    BY <2>2, <2>3 DEF OneReply
<1>13. TrueReplies(k)'
  <2>1. to.step = "replying" => SaysIt(k, to.says)'
    BY <1>9 DEF RunnerStepName
  <2>2. \A o \in Operator : ~(Operates(o, k)' /\ operator'[o].step = "replying")
    BY <1>7 DEF Operates
  <2> QED
    BY <1>4, <1>7, <2>1, <2>2 DEF TrueReplies
<1> QED
  BY <1>3, <1>5, <1>10, <1>11, <1>12, <1>13, OneRequest DEF Requests

\* The same, when the turn stays as it is.
LEMMA RunStays ==
  ASSUME NEW k \in Job, AllRequests, runner[k].step \in RunnerStepName,
         NEW to \in RunnerAt, runner' = [runner EXCEPT ![k] = to],
         NEW new \in RequestRecord, request' = [request EXCEPT ![k] = new],
         new.turnId => turns[k] > 0,
         new.status = "completed" => turn[k] = "completed",
         to.step \in RunnerStepName => to.step # "starting" /\ new.status \in PendingStatus,
         to.step \in {"started", "watching"} => turns[k] > 0,
         to.step \notin RunnerStepName =>
           to = Replying(k, new.status) /\ new.status \notin PendingStatus,
         UNCHANGED <<kind, accepting, operator, turn, turns, ask, replies, said, interrupted,
                     repeated>>
  PROVE  AllRequests'
<1>1. /\ turn' \in [Job -> {"none", "active"} \cup Ended] /\ turns' \in [Job -> Nat]
      /\ turn' = turn /\ turns' = turns
  BY DEF AllRequests, RequestTypes
<1> QED
  BY <1>1, RunKeeps

\* The steps of a runner up to the reply.
LEMMA RunnerKeeps ==
  ASSUME NEW k \in Job, AllRequests, RunnerStep(k), UNCHANGED kind
  PROVE  AllRequests'
<1> DEFINE old == request[k]
<1>1. RequestTypes /\ Requests(k)
  BY DEF AllRequests
<1>2. ASSUME runner[k].step \in RunnerStepName
      PROVE  /\ old \in RequestRecord /\ old.status \in PendingStatus
             /\ old.status # "completed" /\ (old.turnId => turns[k] > 0)
             /\ turns[k] \in Nat
             /\ runner[k].step \in {"started", "watching"} => turns[k] > 0
             /\ request = [request EXCEPT ![k] = old]
  <2>1. old # None
    BY <1>1, <1>2 DEF Requests, Unqueued, RunnerStepName, Idle
  <2> QED
    BY <1>1, <1>2, <2>1 DEF RequestTypes, Requests, Running, PendingStatus
<1>3. ASSUME NEW name \in RunnerStepName PROVE [step |-> name] \in RunnerAt
  BY DEF RunnerAt
<1>4. ASSUME NEW status \in RequestStatus \ PendingStatus
      PROVE  /\ Replying(k, status) \in RunnerAt /\ Replying(k, status).step = "replying"
  BY ReplySays DEF RunnerAt
<1>5. "replying" \notin RunnerStepName
  BY DEF RunnerStepName
<1>6. CASE RunnerStart(k)
  <2>1. PICK started \in BOOLEAN, known \in BOOLEAN :
          /\ known => started
          /\ RunnerGoes(k, "starting", [step |-> IF known THEN "started" ELSE "failing"])
          /\ IF started THEN /\ turn' = [turn EXCEPT ![k] = "active"]
                             /\ turns' = [turns EXCEPT ![k] = @ + 1]
                        ELSE UNCHANGED <<turn, turns>>
    BY <1>6 DEF RunnerStart
  <2> DEFINE to == [step |-> IF known THEN "started" ELSE "failing"]
  <2>2. /\ runner[k].step = "starting" /\ runner' = [runner EXCEPT ![k] = to]
        /\ UNCHANGED <<accepting, operator, ask, interrupted, request, replies, said, repeated>>
    BY <1>6, <2>1 DEF RunnerStart, RunnerGoes, At
  <2>3. runner[k].step \in RunnerStepName
    BY <2>2 DEF RunnerStepName
  <2>4. to \in RunnerAt /\ to.step \in RunnerStepName \ {"starting"} /\ (to.step = "started" => known)
    BY <1>3 DEF RunnerStepName
  <2>5. /\ turn' \in [Job -> {"none", "active"} \cup Ended] /\ turns' \in [Job -> Nat]
        /\ \A j \in Job \ {k} : turn'[j] = turn[j] /\ turns'[j] = turns[j]
        /\ turns'[k] \in {turns[k], turns[k] + 1}
        /\ (old.turnId => turns'[k] > 0) /\ (known => turns'[k] > 0)
    BY <1>1, <1>2, <2>1, <2>3 DEF RequestTypes
  <2>6. to.step # "watching"
    OBVIOUS
  <2>7. /\ to.step \in RunnerStepName /\ to.step # "starting"
        /\ to.step \in {"started", "watching"} => turns'[k] > 0
    BY <2>2, <2>4, <2>5, <2>6
  <2>8. /\ old \in RequestRecord /\ old.status \in PendingStatus /\ old.status # "completed"
        /\ request' = [request EXCEPT ![k] = old]
    BY <1>2, <2>2, <2>3
  <2> HIDE DEF to, old
  <2> QED
    BY <2>2, <2>3, <2>4, <2>5, <2>7, <2>8, RunKeeps
<1>7. CASE RunnerRecord(k)
  <2> DEFINE to == [step |-> "watching"]
             new == [old EXCEPT !.status = "running", !.turnId = TRUE]
  <2>1. /\ runner[k].step = "started" /\ runner' = [runner EXCEPT ![k] = to]
        /\ request' = [request EXCEPT ![k].status = "running", ![k].turnId = TRUE]
        /\ UNCHANGED <<accepting, operator, ask, interrupted, turn, turns, replies, said, repeated>>
    BY <1>7 DEF RunnerRecord, RunnerGoes, At
  <2>2. runner[k].step \in RunnerStepName
    BY <2>1 DEF RunnerStepName
  <2>3. to \in RunnerAt /\ to.step = "watching" /\ to.step \in RunnerStepName
    BY <1>3 DEF RunnerStepName
  <2>4. /\ new \in RequestRecord /\ new.status = "running" /\ new.status \in PendingStatus
        /\ request' = [request EXCEPT ![k] = new]
    BY <1>2, <2>1, <2>2 DEF RequestRecord, RequestStatus, PendingStatus
  <2> HIDE DEF to, new
  <2> QED
    BY <1>2, <2>1, <2>2, <2>3, <2>4, RunStays
<1>8. CASE RunnerWatch(k)
  <2>1. /\ runner[k].step = "watching"
        /\ UNCHANGED <<accepting, operator, ask, interrupted, turn, turns, replies, said, repeated>>
    BY <1>8 DEF RunnerWatch, RunnerGoes, At
  <2>2. runner[k].step \in RunnerStepName
    BY <2>1 DEF RunnerStepName
  <2>3. ASSUME NEW status \in {"unknown"} \cup ({turn[k]} \cap Ended),
               RunnerGoes(k, "watching", Replying(k, status)),
               request' = [request EXCEPT ![k].status = status]
        PROVE  AllRequests'
    <3> DEFINE to == Replying(k, status)
               new == [old EXCEPT !.status = status]
    <3>1. status \in RequestStatus \ PendingStatus
      BY DEF RequestStatus, PendingStatus, Ended
    <3>2. /\ new \in RequestRecord /\ new.status = status /\ new.turnId = old.turnId
          /\ request' = [request EXCEPT ![k] = new]
      BY <1>2, <2>2, <2>3, <3>1 DEF RequestRecord
    <3>3. /\ to \in RunnerAt /\ to.step \notin RunnerStepName
          /\ to.step \notin {"started", "watching"}
      BY <1>4, <1>5, <3>1
    <3>4. runner' = [runner EXCEPT ![k] = to]
      BY <2>3 DEF RunnerGoes
    <3>5. status = "completed" => turn[k] = "completed"
      OBVIOUS
    <3> HIDE DEF new
    <3> QED
      BY <1>2, <2>1, <2>2, <3>1, <3>2, <3>3, <3>4, <3>5, RunStays
  <2>4. ASSUME NEW name \in {"stopping", "failing"}, RunnerGoes(k, "watching", [step |-> name]),
               UNCHANGED request
        PROVE  AllRequests'
    <3> DEFINE to == [step |-> name]
    <3>1. /\ to \in RunnerAt /\ to.step \in RunnerStepName \ {"starting"}
          /\ to.step \notin {"started", "watching"}
      BY <1>3 DEF RunnerStepName
    <3>2. runner' = [runner EXCEPT ![k] = to]
      BY <2>4 DEF RunnerGoes
    <3> HIDE DEF to
    <3> QED
      BY <1>2, <2>1, <2>2, <2>4, <3>1, <3>2, RunStays
  <2>5. ASSUME RunnerGoes(k, "watching", Closing(k, request[k].status)), UNCHANGED request
        PROVE  AllRequests'
    <3>1. Closing(k, request[k].status) = [step |-> "stopping"]
      BY <1>2, <2>2 DEF Closing, IsPending
    <3> QED
      BY <2>4, <2>5, <3>1
  <2> QED
    BY <1>8, <2>3, <2>4, <2>5 DEF RunnerWatch
<1>9. CASE RunnerFail(k)
  <2> DEFINE to == [step |-> "stopping"]
  <2>1. /\ runner[k].step = "failing"
        /\ runner' = [runner EXCEPT ![k] = Closing(k, request[k].status)]
        /\ UNCHANGED <<accepting, operator, ask, interrupted, request, turn, turns, replies, said,
                       repeated>>
    BY <1>9 DEF RunnerFail, RunnerGoes, At
  <2>2. runner[k].step \in RunnerStepName
    BY <2>1 DEF RunnerStepName
  <2>3. Closing(k, request[k].status) = to
    BY <1>2, <2>2 DEF Closing, IsPending
  <2>4. /\ to \in RunnerAt /\ to.step \in RunnerStepName \ {"starting"}
        /\ to.step \notin {"started", "watching"}
    BY <1>3 DEF RunnerStepName
  <2> HIDE DEF to
  <2> QED
    BY <1>2, <2>1, <2>2, <2>3, <2>4, RunStays
<1>10. CASE RunnerStop(k)
  <2> DEFINE to == Replying(k, "failed")
             new == [old EXCEPT !.status = "failed"]
  <2>1. /\ runner[k].step = "stopping" /\ runner' = [runner EXCEPT ![k] = to]
        /\ request' = [request EXCEPT ![k].status = "failed"]
        /\ UNCHANGED <<accepting, operator, ask, interrupted, turn, turns, replies, said, repeated>>
    BY <1>10 DEF RunnerStop, RunnerGoes, At
  <2>2. runner[k].step \in RunnerStepName
    BY <2>1 DEF RunnerStepName
  <2>3. "failed" \in RequestStatus \ PendingStatus
    BY DEF RequestStatus, PendingStatus, Ended
  <2>4. /\ to \in RunnerAt /\ to.step \notin RunnerStepName
        /\ to.step \notin {"started", "watching"}
    BY <1>4, <1>5, <2>3
  <2>5. /\ new \in RequestRecord /\ new.status = "failed" /\ new.turnId = old.turnId
        /\ request' = [request EXCEPT ![k] = new]
    BY <1>2, <2>1, <2>2, <2>3 DEF RequestRecord
  <2>6. to = Replying(k, new.status) /\ new.status \notin PendingStatus
    BY <2>3, <2>5
  <2> HIDE DEF new, to
  <2> QED
    BY <1>2, <2>1, <2>2, <2>4, <2>5, <2>6, RunStays
<1> QED
  BY <1>6, <1>7, <1>8, <1>9, <1>10 DEF RunnerStep

\* The runner replies.
LEMMA ReplyKeeps ==
  ASSUME NEW k \in Job, AllRequests, RunnerReply(k), UNCHANGED kind
  PROVE  AllRequests'
<1>1. RequestTypes /\ Requests(k)
  BY DEF AllRequests
<1>2. PICK outcome \in {"delivered", "failed"} :
        /\ RunnerGoes(k, "replying", Noting(runner[k], outcome))
        /\ Handed(k, runner[k], outcome)
  BY DEF RunnerReply
<1> DEFINE to == Noting(runner[k], outcome)
           says == runner[k].says
<1>3. /\ runner[k].step = "replying" /\ runner' = [runner EXCEPT ![k] = to]
      /\ \/ /\ replies' = [replies EXCEPT ![k] = @ + 1]
            /\ said' = [said EXCEPT ![k] = @ \cup {says}]
         \/ UNCHANGED <<replies, said>>
      /\ UNCHANGED <<accepting, operator, ask, interrupted, request, turn, turns, repeated>>
  BY <1>2 DEF RunnerReply, RunnerGoes, Handed, At
<1>4. to \in RunnerAt /\ to.step = "noting" /\ says \in Ended /\ SaysIt(k, says)
  BY <1>1, <1>3, ReplyFields DEF Noting, RunnerAt, Reply, Requests, TrueReplies
<1> HIDE DEF to, says
<1>5. RequestTypes'
  BY <1>1, <1>3, <1>4 DEF RequestTypes
<1>6. \A j \in Job \ {k} : Rests(j)
  BY <1>1, <1>3 DEF Rests, Operates, RequestTypes
<1>7. runner'[k] = to /\ replies'[k] \in {replies[k], replies[k] + 1}
      /\ said'[k] \subseteq said[k] \cup {says} /\ replies[k] \in Nat
  BY <1>1, <1>3 DEF RequestTypes
<1>8. request[k] # None /\ k \notin accepting
  BY <1>1, <1>3 DEF Requests, Unqueued, Idle
<1>9. Unqueued(k)' /\ Running(k)' /\ OneTurn(k)'
  BY <1>1, <1>3, <1>4, <1>7, <1>8 DEF Requests, Unqueued, Running, OneTurn, RunnerStepName
<1>10. OneReply(k)'
  <2>1. k \in repeated \/ (replies[k] = 0 /\ \A o \in Operator : ~Operates(o, k))
    BY <1>1, <1>3 DEF Requests, OneReply, Idle
  <2> QED
    BY <1>3, <1>4, <1>7, <1>8, <2>1 DEF OneReply, Operates
<1>11. TrueReplies(k)'
  <2>1. \A x \in Ended : SaysIt(k, x)' = SaysIt(k, x)
    BY <1>3 DEF SaysIt
  <2>2. \A x \in said'[k] : SaysIt(k, x)'
    BY <1>1, <1>4, <1>5, <1>7, <2>1 DEF Requests, TrueReplies, RequestTypes
  <2> QED
    BY <1>1, <1>3, <1>4, <1>7, <2>2 DEF Requests, TrueReplies, SaysIt, Operates
<1> QED
  BY <1>5, <1>6, <1>9, <1>10, <1>11, OneRequest DEF Requests

\* The runner records what became of its reply.
LEMMA NotedKeeps ==
  ASSUME NEW k \in Job, AllRequests, RunnerNote(k), UNCHANGED kind
  PROVE  AllRequests'
<1> DEFINE outcome == runner[k].reply
           new == [request[k] EXCEPT !.reply = outcome]
<1>1. RequestTypes /\ Requests(k)
  BY DEF AllRequests
<1>2. /\ runner[k].step = "noting" /\ runner' = [runner EXCEPT ![k] = Idle]
      /\ request' = [request EXCEPT ![k].reply = outcome]
      /\ repeated' = IF outcome = "failed" THEN repeated \cup {k} ELSE repeated
      /\ UNCHANGED <<accepting, operator, ask, interrupted, turn, turns, replies, said>>
  BY DEF RunnerNote, RunnerGoes, At
<1>3. request[k] # None /\ k \notin accepting /\ request[k] \in RequestRecord
  BY <1>1, <1>2 DEF Requests, Unqueued, Idle, RequestTypes
<1>4. outcome \in {"delivered", "failed"}
  BY <1>1, <1>2, ReplyFields
<1> HIDE DEF outcome
<1>5. /\ new \in RequestRecord /\ new.status = request[k].status
      /\ new.turnId = request[k].turnId /\ new.reply = outcome
      /\ request' = [request EXCEPT ![k] = new]
  BY <1>2, <1>3, <1>4 DEF RequestRecord
<1> HIDE DEF new
<1>6. RequestTypes'
  BY <1>1, <1>2, <1>5 DEF RequestTypes, RunnerAt
<1>7. /\ request'[k] = new /\ new # None /\ runner'[k] = Idle
      /\ \A j \in Job \ {k} : request'[j] = request[j] /\ runner'[j] = runner[j]
  BY <1>1, <1>2, <1>5, RequestAssumptions DEF RequestTypes
<1>8. \A j \in Job \ {k} : Rests(j)
  BY <1>2, <1>7 DEF Rests, Operates
<1>9. Unqueued(k)' /\ Running(k)' /\ OneTurn(k)'
  BY <1>1, <1>2, <1>3, <1>5, <1>7 DEF Requests, Unqueued, Running, OneTurn, RunnerStepName, Idle
<1>10. OneReply(k)'
  BY <1>1, <1>2, <1>4, <1>5, <1>7 DEF Requests, OneReply, Operates
<1>11. TrueReplies(k)'
  <2>1. \A x : SaysIt(k, x) => SaysIt(k, x)'
    BY <1>5, <1>7 DEF SaysIt
  <2> QED
    BY <1>1, <1>2, <1>3, <1>5, <1>7, <2>1 DEF Requests, TrueReplies, Operates, Idle
<1> QED
  BY <1>6, <1>8, <1>9, <1>10, <1>11, OneRequest DEF Requests

\* A command prepares a reply, sends it, or records what became of it.
LEMMA OperatorKeeps ==
  ASSUME NEW o \in Operator, AllRequests, OperatorStep(o), UNCHANGED kind
  PROVE  AllRequests'
<1>1. RequestTypes /\ \A k \in Job : Requests(k)
  BY DEF AllRequests
<1>2. ASSUME NEW k \in Job, OperatorRetry(o, k) PROVE AllRequests'
  <2> DEFINE to == Replying(k, request[k].status)
  <2>1. /\ request[k] # None /\ request[k].status \notin PendingStatus
        /\ operator[o].step = "idle" /\ operator' = [operator EXCEPT ![o] = to]
        /\ repeated' = repeated \cup {k}
        /\ UNCHANGED <<accepting, runner, turn, turns, ask, interrupted, request, replies, said>>
    BY <1>2 DEF OperatorRetry, OperatorGoes, At, IsPending
  <2>2. request[k].status \in RequestStatus \ PendingStatus
    BY <1>1, <2>1 DEF RequestTypes, RequestRecord
  <2>3. to \in Reply /\ to.step = "replying" /\ to.job = k /\ SaysIt(k, to.says)
    BY <2>1, <2>2, ReplySays DEF SaysIt
  <2> HIDE DEF to
  <2>4. RequestTypes'
    BY <1>1, <2>1, <2>3 DEF RequestTypes
  <2>5. /\ operator'[o] = to /\ \A p \in Operator \ {o} : operator'[p] = operator[p]
    BY <1>1, <2>1 DEF RequestTypes
  <2>6. \A j \in Job \ {k} : Rests(j)
    BY <2>1, <2>3, <2>5 DEF Rests, Operates
  <2>7. k \notin accepting
    BY <1>1, <2>1 DEF Requests, Unqueued, PendingStatus
  <2>8. Unqueued(k)' /\ Running(k)' /\ OneTurn(k)' /\ OneReply(k)'
    BY <1>1, <2>1, <2>7 DEF Requests, Unqueued, Running, OneTurn, OneReply
  <2>9. TrueReplies(k)'
    BY <1>1, <2>1, <2>3, <2>5 DEF Requests, TrueReplies, Operates, SaysIt
  <2> QED
    BY <2>4, <2>6, <2>8, <2>9, OneRequest DEF Requests
<1>3. ASSUME OperatorReply(o) \/ OperatorNote(o) PROVE AllRequests'
  <2>0. operator[o].step \in {"replying", "noting"} /\ operator[o].job \in Job
    BY <1>1, <1>3, ReplyFields DEF OperatorReply, OperatorNote, OperatorGoes, At
  <2> DEFINE job == operator[o].job
  <2>1. PICK k \in Job : k = job
    BY <2>0
  <2> HIDE DEF job
  <2>2. Operates(o, k) /\ k \in repeated /\ request[k] # None /\ k \notin accepting
        /\ request[k] \in RequestRecord
    BY <1>1, <2>0, <2>1 DEF Operates, Requests, OneReply, Unqueued, RequestTypes, job
  <2>3. CASE OperatorReply(o)
    <3>1. PICK outcome \in {"delivered", "failed"} :
            /\ OperatorGoes(o, "replying", Noting(operator[o], outcome))
            /\ Handed(k, operator[o], outcome)
      BY <2>1, <2>3 DEF OperatorReply, job
    <3> DEFINE to == Noting(operator[o], outcome)
               says == operator[o].says
    <3>2. /\ operator[o].step = "replying" /\ operator' = [operator EXCEPT ![o] = to]
          /\ \/ /\ replies' = [replies EXCEPT ![k] = @ + 1]
                /\ said' = [said EXCEPT ![k] = @ \cup {says}]
             \/ UNCHANGED <<replies, said>>
          /\ UNCHANGED <<accepting, runner, turn, turns, ask, interrupted, request, repeated>>
      BY <2>3, <3>1 DEF OperatorReply, OperatorGoes, Handed, At
    <3>3. to \in Reply /\ to.step = "noting" /\ to.job = k /\ says \in Ended /\ SaysIt(k, says)
      BY <1>1, <2>0, <2>1, <2>2, <3>2, ReplyFields DEF Noting, Reply, Requests, TrueReplies, job
    <3> HIDE DEF to, says
    <3>4. RequestTypes'
      BY <1>1, <3>2, <3>3 DEF RequestTypes
    <3>5. /\ operator'[o] = to /\ \A p \in Operator \ {o} : operator'[p] = operator[p]
          /\ said'[k] \subseteq said[k] \cup {says}
          /\ \A j \in Job \ {k} : replies'[j] = replies[j] /\ said'[j] = said[j]
      BY <1>1, <3>2 DEF RequestTypes
    <3>6. \A j \in Job \ {k} : Rests(j)
      BY <3>2, <3>3, <3>5 DEF Rests, Operates
    <3>7. Unqueued(k)' /\ Running(k)' /\ OneTurn(k)' /\ OneReply(k)'
      BY <1>1, <2>2, <3>2 DEF Requests, Unqueued, Running, OneTurn, OneReply
    <3>8. TrueReplies(k)'
      <4>1. \A x \in said'[k] : SaysIt(k, x)'
        BY <1>1, <3>2, <3>3, <3>5 DEF Requests, TrueReplies, SaysIt
      <4> QED
        BY <1>1, <3>2, <3>3, <3>5, <4>1 DEF Requests, TrueReplies, Operates, SaysIt
    <3> QED
      BY <3>4, <3>6, <3>7, <3>8, OneRequest DEF Requests
  <2>4. CASE OperatorNote(o)
    <3> DEFINE outcome == operator[o].reply
               new == [request[k] EXCEPT !.reply = outcome]
    <3>1. /\ operator[o].step = "noting" /\ operator' = [operator EXCEPT ![o] = Idle]
          /\ request' = [request EXCEPT ![k].reply = outcome]
          /\ UNCHANGED <<accepting, runner, turn, turns, ask, interrupted, replies, said, repeated>>
      BY <2>1, <2>4 DEF OperatorNote, OperatorGoes, At, job
    <3>2. outcome \in {"delivered", "failed"}
      BY <1>1, <3>1, ReplyFields
    <3> HIDE DEF outcome
    <3>3. /\ new \in RequestRecord /\ new.status = request[k].status
          /\ new.turnId = request[k].turnId /\ request' = [request EXCEPT ![k] = new]
      BY <2>2, <3>1, <3>2 DEF RequestRecord
    <3> HIDE DEF new
    <3>4. RequestTypes'
      BY <1>1, <3>1, <3>3 DEF RequestTypes
    <3>5. /\ operator'[o] = Idle /\ \A p \in Operator \ {o} : operator'[p] = operator[p]
          /\ request'[k] = new /\ new # None
          /\ \A j \in Job \ {k} : request'[j] = request[j]
      BY <1>1, <3>1, <3>3, RequestAssumptions DEF RequestTypes
    <3>6. \A j \in Job \ {k} : Rests(j)
      BY <3>1, <3>5 DEF Rests, Operates, Idle
    <3>7. Unqueued(k)' /\ Running(k)' /\ OneTurn(k)' /\ OneReply(k)'
      BY <1>1, <2>2, <3>1, <3>3, <3>5 DEF Requests, Unqueued, Running, OneTurn, OneReply
    <3>8. TrueReplies(k)'
      <4>1. \A x : SaysIt(k, x) => SaysIt(k, x)'
        BY <3>3, <3>5 DEF SaysIt
      <4> QED
        BY <1>1, <2>2, <3>1, <3>3, <3>5, <4>1 DEF Requests, TrueReplies, Operates, Idle
    <3> QED
      BY <3>4, <3>6, <3>7, <3>8, OneRequest DEF Requests
  <2> QED
    BY <1>3, <2>3, <2>4
<1> QED
  BY <1>2, <1>3 DEF OperatorStep

\* The turn ends, or asks for an approval that is settled.
LEMMA TurnKeeps ==
  ASSUME NEW k \in Job, AllRequests, TurnEnds(k) \/ Ask(k) \/ Settle(k), UNCHANGED kind
  PROVE  AllRequests'
<1>1. RequestTypes /\ Requests(k)
  BY DEF AllRequests
<1>2. CASE TurnEnds(k)
  <2>1. PICK end \in Ended : turn' = [turn EXCEPT ![k] = end]
    BY <1>2 DEF TurnEnds
  <2>2. /\ turn[k] = "active"
        /\ UNCHANGED <<request, accepting, runner, operator, turns, ask, replies, said,
                       interrupted, repeated>>
    BY <1>2 DEF TurnEnds
  <2>3. RequestTypes'
    BY <1>1, <2>1, <2>2 DEF RequestTypes
  <2>4. \A j \in Job \ {k} : Rests(j)
    BY <1>1, <2>1, <2>2 DEF Rests, Operates, RequestTypes
  <2>5. Unqueued(k)' /\ Running(k)' /\ OneTurn(k)' /\ OneReply(k)'
    BY <1>1, <2>2 DEF Requests, Unqueued, Running, OneTurn, OneReply, Operates
  <2>6. TrueReplies(k)'
    BY <1>1, <2>2 DEF Requests, TrueReplies, SaysIt, Operates
  <2> QED
    BY <2>3, <2>4, <2>5, <2>6, OneRequest DEF Requests
<1>3. CASE Ask(k)
  <2> DEFINE new == [request[k] EXCEPT !.status = "awaiting_approval"]
  <2>1. /\ runner[k].step \in {"started", "watching"}
        /\ ask' = [ask EXCEPT ![k] = "waiting"]
        /\ request' = [request EXCEPT ![k].status = "awaiting_approval"]
        /\ UNCHANGED <<accepting, runner, operator, turn, turns, replies, said, interrupted, repeated>>
    BY <1>3 DEF Ask
  <2>2. /\ request[k] # None /\ k \notin accepting /\ request[k] \in RequestRecord
        /\ request[k].status \in PendingStatus
    BY <1>1, <2>1 DEF Requests, Unqueued, Running, Idle, RequestTypes, RunnerStepName
  <2>3. /\ new \in RequestRecord /\ new.status = "awaiting_approval"
        /\ new.turnId = request[k].turnId /\ request' = [request EXCEPT ![k] = new]
    BY <2>1, <2>2 DEF RequestRecord, RequestStatus, PendingStatus
  <2> HIDE DEF new
  <2>4. /\ request'[k] = new /\ new # None
        /\ \A j \in Job \ {k} : request'[j] = request[j] /\ ask'[j] = ask[j]
    BY <1>1, <2>1, <2>3, RequestAssumptions DEF RequestTypes
  <2>5. RequestTypes'
    BY <1>1, <2>1, <2>3 DEF RequestTypes
  <2>6. \A j \in Job \ {k} : Rests(j)
    BY <2>1, <2>4 DEF Rests, Operates
  <2>7. Unqueued(k)' /\ Running(k)' /\ OneTurn(k)' /\ OneReply(k)'
    BY <1>1, <2>1, <2>2, <2>3, <2>4
       DEF Requests, Unqueued, Running, OneTurn, OneReply, Operates, PendingStatus, RunnerStepName
  <2>8. TrueReplies(k)'
    <3>1. \A x : ~SaysIt(k, x)
      BY <2>2 DEF SaysIt, PendingStatus
    <3> QED
      BY <1>1, <2>1, <2>3, <2>4, <3>1 DEF Requests, TrueReplies, Operates
  <2> QED
    BY <2>5, <2>6, <2>7, <2>8, OneRequest DEF Requests
<1>4. CASE Settle(k)
  <2> DEFINE status == IF request[k].status \in Ended \cup {"unknown"}
                         THEN request[k].status ELSE "running"
             new == [request[k] EXCEPT !.status = status]
  <2>1. /\ ask[k] = "waiting" /\ ask' = [ask EXCEPT ![k] = "settled"]
        /\ request' = [request EXCEPT ![k] = new]
        /\ UNCHANGED <<accepting, runner, operator, turn, turns, replies, said, interrupted, repeated>>
    BY <1>4 DEF Settle
  <2>2. /\ request[k] # None /\ k \notin accepting /\ request[k] \in RequestRecord
    BY <1>1, <2>1 DEF Requests, Unqueued, RequestTypes
  <2>3. /\ new \in RequestRecord /\ new.turnId = request[k].turnId
        /\ (new.status \in PendingStatus) = (request[k].status \in PendingStatus)
        /\ request[k].status \notin PendingStatus => new.status = request[k].status
    BY <2>2 DEF RequestRecord, RequestStatus, PendingStatus, Ended
  <2> HIDE DEF new
  <2>4. /\ request'[k] = new /\ new # None
        /\ \A j \in Job \ {k} : request'[j] = request[j] /\ ask'[j] = ask[j]
    BY <1>1, <2>1, <2>3, RequestAssumptions DEF RequestTypes
  <2>5. RequestTypes'
    BY <1>1, <2>1, <2>3 DEF RequestTypes
  <2>6. \A j \in Job \ {k} : Rests(j)
    BY <2>1, <2>4 DEF Rests, Operates
  <2>7. Unqueued(k)' /\ Running(k)' /\ OneTurn(k)' /\ OneReply(k)'
    <3>1. Unqueued(k)'
      BY <1>1, <2>1, <2>2, <2>3, <2>4 DEF Requests, Unqueued
    <3>2. Running(k)'
      BY <1>1, <2>1, <2>2, <2>3, <2>4 DEF Requests, Running
    <3>3. OneTurn(k)'
      BY <1>1, <2>1, <2>2, <2>3, <2>4 DEF Requests, OneTurn
    <3>4. OneReply(k)'
      <4>1. new.reply = request[k].reply
        BY <2>2 DEF new, RequestRecord
      <4> QED
        BY <1>1, <2>1, <2>2, <2>4, <4>1 DEF Requests, OneReply, Operates
    <3> QED
      BY <3>1, <3>2, <3>3, <3>4
  <2>8. TrueReplies(k)'
    <3>1. \A x : SaysIt(k, x) => SaysIt(k, x)'
      BY <2>3, <2>4 DEF SaysIt, PendingStatus
    <3>2. new.status = "completed" => request[k].status = "completed"
      BY <2>3 DEF PendingStatus
    <3> QED
      BY <1>1, <2>1, <2>2, <2>4, <3>1, <3>2 DEF Requests, TrueReplies, Operates
  <2> QED
    BY <2>5, <2>6, <2>7, <2>8, OneRequest DEF Requests
<1> QED
  BY <1>2, <1>3, <1>4

\* A request is taken up: the runner starts where the record says.
LEMMA ScheduleKeeps ==
  ASSUME NEW k \in Job, RequestTypes, Requests(k), request[k] # None, k \notin accepting,
         k \notin accepting', runner'[k] = Schedule(k, request[k]),
         request'[k] = request[k], kind'[k] = kind[k],
         UNCHANGED <<operator, turn, turns, ask, replies, said, interrupted, repeated>>
  PROVE  Requests(k)' /\ runner'[k] \in RunnerAt
<1>1. CASE runner[k].step # "idle"
  <2>1. runner'[k] = runner[k]
    BY <1>1 DEF Schedule, At
  <2>2. Rests(k)
    BY <2>1 DEF Rests, Operates
  <2> QED
    BY <2>1, <2>2, RestKeeps DEF RequestTypes
<1>2. CASE runner[k].step = "idle"
  <2> DEFINE r == request[k]
             to == Resumed(k, r)
  <2>1. r \in RequestRecord /\ runner'[k] = to /\ runner[k] = Idle
    BY <1>2, ReplyFields DEF Schedule, At, RequestTypes
  <2>2. /\ to \in RunnerAt /\ to.step # "noting" /\ to.step \notin {"started", "failing"}
        /\ to.step \in RunnerStepName => r.status \in PendingStatus
        /\ to.step = "starting" => ~r.turnId
        /\ to.step = "watching" => r.turnId
        /\ to.step = "replying" => r.status \notin PendingStatus /\ SaysIt(k, to.says)
        /\ r.reply = "delivered" => to = Idle
    <3>1. CASE r.reply = "delivered"
      BY <3>1 DEF Resumed, RunnerAt, Idle, RunnerStepName
    <3>2. CASE r.reply # "delivered" /\ r.status \in PendingStatus /\ ~r.turnId
      BY <3>2 DEF Resumed, RunnerAt, IsPending, RunnerStepName
    <3>3. CASE r.reply # "delivered" /\ r.status \in PendingStatus /\ r.turnId
      <4>1. to \in {[step |-> "watching"], [step |-> "stopping"]}
        BY <3>3 DEF Resumed, Closing, IsPending, PendingStatus
      <4> QED
        BY <3>3, <4>1 DEF RunnerAt, RunnerStepName
    <3>4. CASE r.reply # "delivered" /\ r.status \notin PendingStatus
      <4>1. to = Replying(k, r.status)
        BY <3>4 DEF Resumed, Closing, IsPending, PendingStatus
      <4>2. r.status \in RequestStatus \ PendingStatus
        BY <2>1, <3>4 DEF RequestRecord
      <4>3. /\ to \in RunnerAt /\ to.step = "replying" /\ SaysIt(k, to.says)
        BY <4>1, <4>2, ReplySays DEF RunnerAt, SaysIt
      <4> QED
        BY <3>4, <4>3 DEF RunnerStepName
    <3> QED
      BY <3>1, <3>2, <3>3, <3>4
  <2> HIDE DEF to
  <2>3. Unqueued(k)' /\ Running(k)'
    BY <2>1, <2>2 DEF Requests, Unqueued, Running, RunnerStepName
  <2>4. OneTurn(k)'
    <3>1. \/ k \in interrupted
          \/ turns[k] <= 1 /\ (turns[k] > 0 => r.turnId \/ r.status \notin PendingStatus)
      BY <2>1 DEF Requests, OneTurn, RunnerStepName, Idle
    <3>2. turns[k] \in Nat
      BY DEF RequestTypes
    <3>3. to.step = "starting" => r.status \in PendingStatus
      BY <2>2 DEF RunnerStepName
    <3> QED
      BY <2>1, <2>2, <3>1, <3>2, <3>3 DEF OneTurn
  <2>5. OneReply(k)'
    BY <2>1, <2>2 DEF Requests, OneReply, Operates, Idle
  <2>6. TrueReplies(k)'
    BY <2>1, <2>2 DEF Requests, TrueReplies, SaysIt, Operates
  <2> QED
    BY <2>1, <2>2, <2>3, <2>4, <2>5, <2>6 DEF Requests
<1> QED
  BY <1>1, <1>2

\* A frame makes a request, or takes it up once more.
LEMMA ReceiveKeeps ==
  ASSUME NEW k \in Job, AllRequests, ReceiveRequest(k), UNCHANGED kind
  PROVE  AllRequests'
<1>1. /\ RequestTypes /\ Requests(k) /\ kind[k] = "request" /\ k \notin accepting
      /\ UNCHANGED <<operator, turn, turns, ask, replies, said, interrupted, repeated>>
  BY DEF AllRequests, ReceiveRequest
<1>2. CASE request[k] = None
  <2> DEFINE new == [status |-> "dispatching", turnId |-> FALSE, reply |-> "pending"]
  <2>1. /\ request' = [request EXCEPT ![k] = new] /\ accepting' = accepting \cup {k}
        /\ runner' = runner
    BY <1>2 DEF ReceiveRequest
  <2>2. new \in RequestRecord /\ new.status = "dispatching" /\ ~new.turnId
    BY DEF RequestRecord, RequestStatus, PendingStatus
  <2>3. /\ request'[k] = new /\ new # None /\ \A j \in Job \ {k} : request'[j] = request[j]
    BY <1>1, <2>1, <2>2, RequestAssumptions DEF RequestTypes
  <2>4. RequestTypes'
    BY <1>1, <2>1, <2>2 DEF RequestTypes
  <2>5. \A j \in Job \ {k} : Rests(j)
    BY <1>1, <2>1, <2>3 DEF Rests, Operates
  <2>6. /\ runner[k] = Idle /\ runner[k].step = "idle" /\ turns[k] = 0 /\ ask[k] = "none"
        /\ replies[k] = 0 /\ said[k] = {} /\ \A o \in Operator : ~Operates(o, k)
    BY <1>1, <1>2 DEF Requests, Unqueued, Idle
  <2>7. Unqueued(k)'
    BY <1>1, <2>1, <2>3, <2>6 DEF Unqueued, Operates
  <2> HIDE DEF new
  <2>8. Running(k)' /\ OneTurn(k)' /\ OneReply(k)' /\ TrueReplies(k)'
    BY <1>1, <2>1, <2>2, <2>3, <2>6
       DEF Running, OneTurn, OneReply, TrueReplies, Operates, RunnerStepName
  <2> QED
    BY <2>4, <2>5, <2>7, <2>8, OneRequest DEF Requests
<1>3. CASE request[k] # None
  <2>1. /\ runner' = [runner EXCEPT ![k] = Schedule(k, request[k])]
        /\ request' = request /\ accepting' = accepting
    BY <1>3 DEF ReceiveRequest
  <2>2. /\ runner'[k] = Schedule(k, request[k])
        /\ \A j \in Job \ {k} : runner'[j] = runner[j]
    BY <1>1, <2>1 DEF RequestTypes
  <2>3. Requests(k)' /\ runner'[k] \in RunnerAt
    BY <1>1, <1>3, <2>1, <2>2, ScheduleKeeps
  <2>4. RequestTypes'
    BY <1>1, <2>1, <2>2, <2>3 DEF RequestTypes
  <2>5. \A j \in Job \ {k} : Rests(j)
    BY <1>1, <2>1, <2>2 DEF Rests, Operates
  <2> QED
    BY <2>3, <2>4, <2>5, OneRequest
<1> QED
  BY <1>2, <1>3

\* The request is queued, and its runner starts.
LEMMA QueueKeeps ==
  ASSUME NEW k \in Job, AllRequests, QueueRequest(k), UNCHANGED kind
  PROVE  AllRequests'
<1> DEFINE new == [request[k] EXCEPT !.status = "queued"]
           to == [step |-> "starting"]
<1>1. /\ RequestTypes /\ Requests(k) /\ k \in accepting /\ accepting' = accepting \ {k}
      /\ request' = [request EXCEPT ![k].status = "queued"]
      /\ runner' = [runner EXCEPT ![k] = Schedule(k, request'[k])]
      /\ UNCHANGED <<operator, turn, turns, ask, replies, said, interrupted, repeated>>
  BY DEF AllRequests, QueueRequest
<1>2. /\ request[k] = [status |-> "dispatching", turnId |-> FALSE, reply |-> "pending"]
      /\ request[k] # None /\ kind[k] = "request"
      /\ runner[k] = Idle /\ turns[k] = 0 /\ replies[k] = 0 /\ said[k] = {}
      /\ \A o \in Operator : ~Operates(o, k)
  BY <1>1 DEF Requests, Unqueued
<1>3. /\ new \in RequestRecord /\ new.status = "queued" /\ ~new.turnId
      /\ new.reply = "pending" /\ request' = [request EXCEPT ![k] = new]
  <2>1. request[k] \in RequestRecord
    BY <1>1, <1>2 DEF RequestTypes
  <2>2. ~request[k].turnId /\ request[k].reply = "pending"
    BY <1>2
  <2> QED
    BY <1>1, <2>1, <2>2 DEF RequestRecord, RequestStatus, PendingStatus
<1> HIDE DEF new
<1>4. request'[k] = new /\ Schedule(k, request'[k]) = to
  <2>1. request'[k] = new
    BY <1>1, <1>3 DEF RequestTypes
  <2> QED
    BY <1>2, <1>3, <2>1 DEF Schedule, At, Idle, Resumed, IsPending, PendingStatus
<1>5. to \in RunnerAt /\ to.step = "starting"
  BY DEF RunnerAt, RunnerStepName
<1> HIDE DEF to
<1>6. /\ new # None /\ runner'[k] = to
      /\ \A j \in Job \ {k} : request'[j] = request[j] /\ runner'[j] = runner[j]
  BY <1>1, <1>3, <1>4, <1>5, RequestAssumptions DEF RequestTypes
<1>7. RequestTypes'
  BY <1>1, <1>3, <1>4, <1>5 DEF RequestTypes
<1>8. \A j \in Job \ {k} : Rests(j)
  BY <1>1, <1>6 DEF Rests, Operates
<1>9. /\ request'[k] = new /\ k \notin accepting' /\ turns'[k] = 0 /\ replies'[k] = 0 /\ said'[k] = {}
      /\ \A o \in Operator : ~Operates(o, k)'
  BY <1>1, <1>2, <1>4 DEF Operates
<1>10. Unqueued(k)'
  BY <1>2, <1>6, <1>9 DEF Unqueued, AllRequests
<1>11. Running(k)' /\ OneTurn(k)' /\ OneReply(k)' /\ TrueReplies(k)'
  BY <1>3, <1>5, <1>6, <1>9 DEF Running, OneTurn, OneReply, TrueReplies, PendingStatus
<1> QED
  BY <1>7, <1>8, <1>10, <1>11, OneRequest DEF Requests

\* Every step of a request keeps the invariant of requests.
LEMMA RequestsKeep ==
  ASSUME AllRequests, RequestStep, UNCHANGED kind
  PROVE  AllRequests'
<1>1. ASSUME NEW k \in Job, ReceiveRequest(k) \/ QueueRequest(k) PROVE AllRequests'
  BY <1>1, ReceiveKeeps, QueueKeeps
<1>2. ASSUME NEW k \in Job, RunnerStep(k) \/ RunnerReply(k) \/ RunnerNote(k) PROVE AllRequests'
  BY <1>2, RunnerKeeps, ReplyKeeps, NotedKeeps
<1>3. ASSUME NEW k \in Job, TurnEnds(k) \/ Ask(k) \/ Settle(k) PROVE AllRequests'
  BY <1>3, TurnKeeps
<1>4. ASSUME NEW o \in Operator, OperatorStep(o) PROVE AllRequests'
  BY <1>4, OperatorKeeps
<1> QED
  BY <1>1, <1>2, <1>3, <1>4 DEF RequestStep

\* The bridge dies: runners are lost, and what they had not recorded is excused.
LEMMA LoseKeeps ==
  ASSUME AllRequests, LoseRequests, UNCHANGED kind
  PROVE  AllRequests'
<1>1. /\ RequestTypes /\ \A k \in Job : Requests(k)
      /\ runner' = [k \in Job |-> Idle] /\ accepting' = {}
      /\ ask' = [k \in Job |-> IF ask[k] = "waiting" THEN "dead" ELSE ask[k]]
      /\ interrupted' = interrupted \cup {k \in Job : turns[k] > 0 /\ ~request[k].turnId}
      /\ repeated' = repeated \cup {k \in Job : runner[k].step = "noting"}
      /\ UNCHANGED <<request, operator, turn, turns, replies, said>>
  BY DEF AllRequests, LoseRequests, At
<1>2. RequestTypes'
  BY <1>1 DEF RequestTypes, RunnerAt
<1>3. ASSUME NEW k \in Job PROVE Requests(k)'
  <2>1. runner'[k] = Idle /\ runner'[k].step = "idle" /\ k \notin accepting'
        /\ Requests(k)
        /\ \A o \in Operator : Operates(o, k)' = Operates(o, k)
    BY <1>1 DEF Idle, Operates
  <2>2. Unqueued(k)'
    BY <1>1, <2>1 DEF Requests, Unqueued
  <2>3. Running(k)'
    BY <1>1, <2>1 DEF Requests, Running, RunnerStepName
  <2>4. OneTurn(k)'
    <3>1. k \in interrupted' \/ turns[k] = 0 \/ request[k].turnId
      BY <1>1 DEF RequestTypes
    <3>2. k \in interrupted' \/ turns[k] <= 1
      BY <1>1 DEF Requests, OneTurn
    <3> QED
      BY <1>1, <2>1, <3>1, <3>2 DEF OneTurn
  <2>5. OneReply(k)'
    BY <1>1, <2>1 DEF Requests, OneReply
  <2>6. TrueReplies(k)'
    BY <1>1, <2>1 DEF Requests, TrueReplies, SaysIt
  <2> QED
    BY <2>2, <2>3, <2>4, <2>5, <2>6 DEF Requests
<1> QED
  BY <1>2, <1>3 DEF AllRequests

\* The bridge starts, and takes up every request.
LEMMA ResumeKeeps ==
  ASSUME AllRequests, ResumeRequests, UNCHANGED kind,
         accepting = {}, \A k \in Job : runner[k] = Idle
  PROVE  AllRequests'
<1>1. /\ RequestTypes /\ \A k \in Job : Requests(k)
      /\ runner' = [k \in Job |-> IF request[k] = None THEN Idle ELSE Schedule(k, request[k])]
      /\ UNCHANGED <<request, accepting, operator, turn, turns, ask, replies, said, interrupted,
                     repeated>>
  BY DEF AllRequests, ResumeRequests
<1>2. ASSUME NEW k \in Job PROVE Requests(k)' /\ runner'[k] \in RunnerAt
  <2>1. CASE request[k] = None
    <3>1. runner'[k] = Idle /\ runner[k] = Idle
      BY <1>1, <2>1
    <3>2. Rests(k)
      BY <1>1, <3>1 DEF Rests, Operates
    <3> QED
      BY <1>1, <3>1, <3>2, RestKeeps DEF RunnerAt
  <2>2. CASE request[k] # None
    <3>1. runner'[k] = Schedule(k, request[k]) /\ k \notin accepting /\ k \notin accepting'
      BY <1>1, <2>2
    <3> QED
      BY <1>1, <2>2, <3>1, ScheduleKeeps
  <2> QED
    BY <2>1, <2>2
<1>3. RequestTypes'
  BY <1>1, <1>2 DEF RequestTypes
<1> QED
  BY <1>2, <1>3 DEF AllRequests

-----------------------------------------------------------------------------
(* The bridge, and the invariant                                           *)

\* Commands and Claude give a bridge that is down nothing to remember.
LEMMA DownStays ==
  ASSUME bridge = "down", Down, Deliveries, AllRequests, UNCHANGED bridge,
         \/ DeliveryStep /\ UNCHANGED requestVars
         \/ RequestStep /\ UNCHANGED deliveryVars
  PROVE  Down'
<1>1. /\ armed = {} /\ accepting = {} /\ bridge # "up"
      /\ \A h \in Handler : handler[h] = Idle /\ handler[h].step = "idle"
      /\ \A k \in Job : runner[k] = Idle /\ runner[k].step = "idle"
  BY DEF Down, Idle
<1>2. CASE DeliveryStep /\ UNCHANGED requestVars
  <2>1. accepting' = accepting /\ runner' = runner
    BY <1>2 DEF requestVars
  <2>2. armed' = armed /\ handler' = handler
    <3>1. ASSUME NEW s \in Sender, SendStep(s) PROVE UNCHANGED <<armed, handler>>
      BY <3>1 DEF SendStep, Send, WriteSend, WriteExhausted
    <3>2. ASSUME NEW c \in Command, CommandDies(c) PROVE UNCHANGED <<armed, handler>>
      BY <3>2 DEF CommandDies
    <3>3. ASSUME NEW h \in Handler PROVE ~HandlerStep(h)
      BY <1>1 DEF HandlerStep, Wake, RecordWake, At
    <3>4. ASSUME NEW k \in Job, CreateDelivery(k) \/ Refresh(k) PROVE UNCHANGED <<armed, handler>>
      BY <3>4 DEF CreateDelivery, Refresh
    <3>5. ASSUME NEW k \in Job
          PROVE  /\ ~ReceiveForeignAck(k) /\ ~Scan(k)
                 /\ \A c \in Command : ~CommandSend(c, k)
                 /\ \A t \in Timer : ~TimerFires(t, k)
                 /\ \A h \in Handler, status \in Acks : ~ReceiveAck(h, k, status)
                 /\ \A n \in Receipted, status \in {"held", "delivered"} :
                      ~ReceiveReceipt(k, n, status)
      BY <1>1 DEF ReceiveForeignAck, Scan, CommandSend, TimerFires, ReceiveAck, ReceiveReceipt
    <3> QED
      BY <1>2, <3>1, <3>2, <3>3, <3>4, <3>5 DEF DeliveryStep
  <2> QED
    BY <1>1, <2>1, <2>2 DEF Down
<1>3. CASE RequestStep /\ UNCHANGED deliveryVars
  <2>1. armed' = armed /\ handler' = handler
    BY <1>3 DEF deliveryVars
  <2>2. accepting' = accepting /\ runner' = runner
    <3>1. ASSUME NEW k \in Job
          PROVE  /\ ~ReceiveRequest(k) /\ ~QueueRequest(k) /\ ~RunnerStep(k)
                 /\ ~RunnerReply(k) /\ ~RunnerNote(k)
      BY <1>1 DEF ReceiveRequest, QueueRequest, RunnerStep, RunnerReply, RunnerNote, RunnerStart,
                  RunnerRecord, RunnerWatch, RunnerFail, RunnerStop, RunnerGoes, At
    <3>2. ASSUME NEW k \in Job, TurnEnds(k) \/ Ask(k) \/ Settle(k)
          PROVE  UNCHANGED <<accepting, runner>>
      BY <3>2 DEF TurnEnds, Ask, Settle
    <3>3. ASSUME NEW o \in Operator, OperatorStep(o) PROVE UNCHANGED <<accepting, runner>>
      BY <3>3 DEF OperatorStep, OperatorReply, OperatorNote, OperatorRetry, OperatorGoes
    <3> QED
      BY <1>3, <3>1, <3>2, <3>3 DEF RequestStep
  <2> QED
    BY <1>1, <2>1, <2>2 DEF Down
<1> QED
  BY <1>2, <1>3

\* Nothing is done for any Job at first.
LEMMA Initially == Init => IInv
<1> SUFFICES ASSUME Init PROVE IInv
  OBVIOUS
<1>1. /\ bridge = "up"
      /\ delivery = [k \in Job |-> None] /\ sender = [s \in Sender |-> Idle] /\ armed = {}
      /\ handler = [h \in Handler |-> Idle] /\ sends = [k \in Job |-> 0]
      /\ taken = [k \in Job |-> {}] /\ acks = [k \in Job |-> 0] /\ wakes = [k \in Job |-> 0]
      /\ accepted = {}
  BY DEF Init, DeliveryInit
<1>2. Deliveries
  <2>1. DeliveryTypes
    BY <1>1, DeliveryAssumptions DEF DeliveryTypes, SenderAt, HandlerAt
  <2>2. ASSUME NEW k \in Job PROVE Delivers(k)
    <3>1. /\ delivery[k] = None /\ wakes[k] = 0 /\ taken[k] = {} /\ k \notin armed \cup accepted
          /\ \A s \in Sender : ~Sends(s, k)
          /\ \A h \in Handler : ~Wakens(h, k)
      BY <1>1 DEF Sends, Wakens, Idle
    <3> QED
      BY <3>1 DEF Delivers, Unmade, Counted, EndFirst, OneWake, SaysAccepted, InBudget
  <2> QED
    BY <2>1, <2>2 DEF Deliveries
<1>3. /\ request = [k \in Job |-> None] /\ accepting = {} /\ runner = [k \in Job |-> Idle]
      /\ operator = [o \in Operator |-> Idle]
      /\ turn = [k \in Job |-> "none"] /\ turns = [k \in Job |-> 0]
      /\ ask = [k \in Job |-> "none"]
      /\ replies = [k \in Job |-> 0] /\ said = [k \in Job |-> {}]
  BY DEF Init, RequestInit
<1>4. AllRequests
  <2>1. RequestTypes
    BY <1>3 DEF RequestTypes, RunnerAt
  <2>2. ASSUME NEW k \in Job PROVE Requests(k)
    <3>1. /\ request[k] = None /\ k \notin accepting /\ runner[k] = Idle
          /\ runner[k].step = "idle"
          /\ turns[k] = 0 /\ ask[k] = "none" /\ replies[k] = 0 /\ said[k] = {}
          /\ \A o \in Operator : ~Operates(o, k)
      BY <1>3 DEF Operates, Idle
    <3> QED
      BY <3>1 DEF Requests, Unqueued, Running, OneTurn, OneReply, TrueReplies
  <2> QED
    BY <2>1, <2>2 DEF AllRequests
<1> QED
  BY <1>1, <1>2, <1>4 DEF IInv, Down

\* Every step keeps the invariant.
LEMMA StepKeeps == IInv /\ [Next]_vars => IInv'
<1> SUFFICES ASSUME IInv, [Next]_vars PROVE IInv'
  OBVIOUS
<1>1. bridge \in {"up", "down"} /\ Deliveries /\ AllRequests /\ Down
  BY DEF IInv
<1>2. ASSUME UNCHANGED deliveryVars, UNCHANGED kind PROVE Deliveries'
  BY <1>1, <1>2
     DEF deliveryVars, claudeVars, historyVars, Deliveries, DeliveryTypes, Delivers, Unmade,
         Counted, EndFirst, OneWake, SaysAccepted, InBudget, Sends, Wakens
<1>3. ASSUME UNCHANGED requestVars, UNCHANGED kind PROVE AllRequests'
  BY <1>1, <1>3
     DEF requestVars, AllRequests, RequestTypes, Requests, Unqueued, Running, OneTurn, OneReply,
         TrueReplies, SaysIt, Operates
<1>4. CASE DeliveryStep /\ UNCHANGED <<kind, bridge, requestVars, crashes>>
  <2>1. Deliveries' /\ AllRequests'
    BY <1>1, <1>3, <1>4, DeliveriesKeep
  <2>2. Down'
    BY <1>1, <1>4, DownStays DEF Down
  <2> QED
    BY <1>1, <1>4, <2>1, <2>2 DEF IInv
<1>5. CASE RequestStep /\ UNCHANGED <<kind, bridge, deliveryVars, crashes>>
  <2>1. Deliveries' /\ AllRequests'
    BY <1>1, <1>2, <1>5, RequestsKeep
  <2>2. Down'
    BY <1>1, <1>5, DownStays DEF Down
  <2> QED
    BY <1>1, <1>5, <2>1, <2>2 DEF IInv
<1>6. CASE BridgeDies
  <2>1. Deliveries'
    <3>1. Timer \in SUBSET Sender
      BY DEF Sender
    <3> QED
      BY <1>1, <1>6, <3>1, LossKeeps DEF BridgeDies, LoseDeliveries
  <2>2. AllRequests'
    BY <1>1, <1>6, LoseKeeps DEF BridgeDies
  <2>3. bridge' = "down" /\ Down'
    BY <1>6 DEF BridgeDies, LoseDeliveries, LoseRequests, Down
  <2> QED
    BY <2>1, <2>2, <2>3 DEF IInv
<1>7. CASE BridgeStarts
  <2>1. bridge = "down" /\ bridge' = "up" /\ UNCHANGED <<kind, deliveryVars>> /\ ResumeRequests
    BY <1>7 DEF BridgeStarts
  <2>2. AllRequests'
    BY <1>1, <2>1, ResumeKeeps DEF Down
  <2> QED
    BY <1>2, <2>1, <2>2 DEF IInv, Down
<1>8. CASE UNCHANGED vars
  <2>1. UNCHANGED <<kind, bridge, deliveryVars, requestVars>>
    BY <1>8 DEF vars
  <2>2. Down'
    BY <1>1, <2>1 DEF Down, deliveryVars, requestVars
  <2> QED
    BY <1>1, <1>2, <1>3, <2>1, <2>2 DEF IInv
<1> QED
  BY <1>4, <1>5, <1>6, <1>7, <1>8 DEF Next

\* The invariant holds throughout.
LEMMA Invariance == Spec => []IInv
BY Initially, StepKeeps, PTL DEF Spec

-----------------------------------------------------------------------------
(* The theorems                                                            *)

\* However commands, timers, ACKs and deaths of the bridge interleave, a Job is
\* sent within its budget and wakes its Codex session once, at its end.
THEOREM DeliveriesAreAlwaysSafe == Spec => []DeliveriesAreSafe
<1>1. ASSUME IInv PROVE DeliveriesAreSafe
  <2>1. DeliveryTypes /\ AllRequests /\ Down /\ \A k \in Job : Delivers(k)
    BY <1>1 DEF IInv, Deliveries
  <2>2. TypeOK
    <3>1. ASSUME NEW k \in Job, delivery[k] # None
          PROVE  /\ kind[k] = "delivery" /\ delivery[k] \in DeliveryRecord
                 /\ DOMAIN delivery[k].receipts \subseteq 1..sends[k]
                 /\ delivery[k].wake = "delivered" => wakes[k] > 0
      BY <2>1, <3>1 DEF Delivers, Counted, DeliveryTypes
    <3>2. ASSUME NEW k \in Job, request[k] # None
          PROVE  /\ kind[k] = "request" /\ request[k] \in RequestRecord
                 /\ request[k].turnId => turns[k] > 0
      BY <2>1, <3>2 DEF AllRequests, Requests, Unqueued, Running, RequestTypes
    <3>3. DOMAIN handler = Handler /\ DOMAIN runner = Job
      BY <2>1 DEF AllRequests, RequestTypes, DeliveryTypes
    <3>4. bridge = "down" => armed = {} /\ Steps(handler) \subseteq {"idle"}
                             /\ Steps(runner) \subseteq {"idle"}
      BY <2>1, <3>3 DEF Down, Steps, Idle
    <3> QED
      BY <1>1, <3>1, <3>2, <3>4 DEF TypeOK, IInv
  <2>3. WakeFollowsEnd
    <3>1. ASSUME NEW k \in Job, wakes[k] > 0 PROVE delivery[k].status \in Ended \/ k \in reopened
      BY <2>1, <3>1 DEF Delivers, EndFirst, DeliveryTypes
    <3> QED
      BY <3>1 DEF WakeFollowsEnd
  <2>4. WokenOnce
    BY <2>1 DEF Delivers, OneWake, WokenOnce
  <2>5. BudgetIsKept
    <3>1. ASSUME NEW k \in Job, k \notin uncounted PROVE Cardinality(taken[k]) <= MaxAttempts
      <4>1. MaxAttempts \in Nat /\ Cardinality(taken[k]) \in Nat
        BY <2>1, FramesAreFinite, FS_CardinalityType, DeliveryAssumptions
      <4>2. CASE delivery[k] = None
        BY <2>1, <4>1, <4>2, FS_EmptySet DEF Delivers, Unmade
      <4>3. CASE delivery[k] # None
        <5>1. delivery[k].attempt \in 0..MaxAttempts
          BY <2>1, <4>3 DEF DeliveryTypes, DeliveryRecord
        <5>2. \A s \in Sender : Sends(s, k) /\ sender[s].step = "writing" =>
                delivery[k].attempt \in 0..(MaxAttempts - 1)
          BY <2>1, <3>1, <4>3, Fields DEF Delivers, InBudget, Seen
        <5> QED
          BY <2>1, <3>1, <4>1, <4>3, <5>1, <5>2 DEF Delivers, InBudget
      <4> QED
        BY <4>2, <4>3
    <3> QED
      BY <3>1 DEF BudgetIsKept
  <2> QED
    BY <2>2, <2>3, <2>4, <2>5 DEF DeliveriesAreSafe
<1> QED
  BY <1>1, Invariance, PTL

\* A request has one turn and one reply, which is true, through restarts of the
\* bridge and repetitions of its frame.
THEOREM RequestsAreAlwaysSafe == Spec => []RequestsAreSafe
<1>1. ASSUME IInv PROVE RequestsAreSafe
  <2>1. RequestTypes /\ \A k \in Job : Requests(k)
    BY <1>1 DEF IInv, AllRequests
  <2>2. RequestRunsOnce
    BY <2>1 DEF Requests, OneTurn, RequestRunsOnce
  <2>3. RepliedOnce
    BY <2>1 DEF Requests, OneReply, RepliedOnce, RequestTypes
  <2>4. RepliesAreTrue
    BY <2>1 DEF Requests, TrueReplies, SaysIt, RepliesAreTrue
  <2> QED
    BY <2>2, <2>3, <2>4 DEF RequestsAreSafe
<1> QED
  BY <1>1, Invariance, PTL

\* A timer begins to send only a Job that waits for a retry.
LEMMA TimersStart ==
  ASSUME Deliveries, DeliveryStep, NEW t \in Timer,
         sender[t].step = "idle", sender'[t].step # "idle"
  PROVE  \E k \in Job : /\ delivery[k].status = "retry_scheduled" /\ k \in armed
                        /\ sender'[t].job = k
<1>1. DeliveryTypes /\ t \in Sender /\ t \notin Command
  BY DeliveryAssumptions DEF Deliveries, Sender
<1>2. ASSUME sender' = sender PROVE FALSE
  BY <1>2
<1>3. ASSUME NEW s \in Sender, NEW at, sender[s].step # "idle", sender' = [sender EXCEPT ![s] = at]
      PROVE  FALSE
  BY <1>1, <1>3 DEF DeliveryTypes
<1>4. ASSUME NEW s \in Sender, SendStep(s) PROVE FALSE
  <2>1. sender[s].step # "idle" /\ \E at : sender' = [sender EXCEPT ![s] = at]
    BY <1>4 DEF SendStep, Send, WriteSend, WriteExhausted, At
  <2> QED
    BY <1>3, <2>1
<1>5. ASSUME NEW c \in Command PROVE ~CommandDies(c)
  BY <1>1 DEF CommandDies, SendersLost, Idle
<1>6. ASSUME NEW h \in Handler PROVE ~HandlerStep(h)
  BY <1>2 DEF HandlerStep, Wake, RecordWake
<1>7. ASSUME NEW k \in Job
      PROVE  /\ ~CreateDelivery(k) /\ ~ReceiveForeignAck(k) /\ ~Refresh(k) /\ ~Scan(k)
             /\ \A h \in Handler, status \in Acks : ~ReceiveAck(h, k, status)
             /\ \A n \in Receipted, status \in {"held", "delivered"} : ~ReceiveReceipt(k, n, status)
  BY <1>2 DEF CreateDelivery, ReceiveForeignAck, Refresh, Scan, ReceiveAck, ReceiveReceipt
<1>8. ASSUME NEW k \in Job, NEW c \in Command PROVE ~CommandSend(c, k)
  <2>1. ASSUME CommandSend(c, k) PROVE sender'[t] = sender[t]
    BY <1>1, <2>1 DEF CommandSend, StartSend, DeliveryTypes, Sender
  <2> QED
    BY <2>1
<1>9. PICK k \in Job, u \in Timer : TimerFires(u, k)
  BY <1>4, <1>5, <1>6, <1>7, <1>8 DEF DeliveryStep
<1>10. /\ k \in armed /\ delivery[k].status = "retry_scheduled" /\ StartSend(u, k)
  BY <1>2, <1>9 DEF TimerFires
<1>11. u = t
  BY <1>1, <1>10 DEF StartSend, DeliveryTypes
<1>12. sender'[t].job = k
  <2> DEFINE to == IF Exhausted(delivery[k])
                     THEN [step |-> "exhausted", job |-> k]
                     ELSE [step |-> "sending", job |-> k, id |-> sends'[k],
                           seen |-> [attempt |-> delivery[k].attempt,
                                     accepted |-> delivery[k].accepted,
                                     receipts |-> delivery[k].receipts]]
  <2>1. sender' = [sender EXCEPT ![t] = to]
    BY <1>10, <1>11 DEF StartSend
  <2>2. to.job = k
    OBVIOUS
  <2> HIDE DEF to
  <2> QED
    BY <1>1, <2>1, <2>2 DEF DeliveryTypes
<1> QED
  BY <1>10, <1>12

\* A receipt that ends a frame is written over by no step that leaves the senders.
LEMMA ReceiptsStay ==
  ASSUME Deliveries, DeliveryStep, UNCHANGED kind,
         NEW k \in Job, delivery[k] # None, \A s \in Sender : sender'[s] = sender[s],
         NEW n \in DOMAIN delivery[k].receipts, delivery[k].receipts[n] \in TerminalReceipts
  PROVE  delivery'[k].receipts[n] = delivery[k].receipts[n]
<1>1. DeliveryTypes /\ delivery[k] \in DeliveryRecord
  BY DEF Deliveries, DeliveryTypes
<1>2. ASSUME delivery' = delivery PROVE delivery'[k].receipts[n] = delivery[k].receipts[n]
  BY <1>2
<1>3. ASSUME NEW j \in Job, NEW new, delivery' = [delivery EXCEPT ![j] = new],
             j = k => new.receipts[n] = delivery[k].receipts[n]
      PROVE  delivery'[k].receipts[n] = delivery[k].receipts[n]
  BY <1>1, <1>3 DEF DeliveryTypes
<1>4. ASSUME NEW s \in Sender, SendStep(s) PROVE delivery'[k].receipts[n] = delivery[k].receipts[n]
  <2>1. CASE Send(s)
    BY <1>2, <2>1 DEF Send
  <2>2. ~WriteSend(s) /\ ~WriteExhausted(s)
    BY <1>1 DEF WriteSend, WriteExhausted, At, Idle, DeliveryTypes
  <2> QED
    BY <1>4, <2>1, <2>2 DEF SendStep
<1>5. ASSUME NEW c \in Command, CommandDies(c)
      PROVE  delivery'[k].receipts[n] = delivery[k].receipts[n]
  BY <1>2, <1>5 DEF CommandDies
<1>6. ASSUME NEW h \in Handler, HandlerStep(h)
      PROVE  delivery'[k].receipts[n] = delivery[k].receipts[n]
  <2>1. CASE Wake(h)
    BY <1>2, <2>1 DEF Wake
  <2>2. CASE RecordWake(h)
    <3>1. delivery' = [delivery EXCEPT ![handler[h].job].wake = handler[h].outcome]
      BY <2>2 DEF RecordWake
    <3> QED
      BY <1>1, <3>1 DEF DeliveryTypes, DeliveryRecord
  <2> QED
    BY <1>6, <2>1, <2>2 DEF HandlerStep
<1>7. ASSUME NEW j \in Job, CreateDelivery(j)
      PROVE  delivery'[k].receipts[n] = delivery[k].receipts[n]
  <2>1. j # k
    BY <1>7 DEF CreateDelivery
  <2> QED
    BY <1>3, <1>7, <2>1 DEF CreateDelivery
<1>8. ASSUME NEW j \in Job, ReceiveForeignAck(j)
      PROVE  delivery'[k].receipts[n] = delivery[k].receipts[n]
  <2>1. delivery' = [delivery EXCEPT ![j].status = "ack_rejected", ![j].ack = "rejected"]
    BY <1>8 DEF ReceiveForeignAck
  <2> QED
    BY <1>1, <2>1 DEF DeliveryTypes, DeliveryRecord
<1>9. ASSUME NEW j \in Job, Refresh(j) \/ Scan(j)
      PROVE  delivery'[k].receipts[n] = delivery[k].receipts[n]
  <2>1. delivery' = [delivery EXCEPT ![j] = AfterDeadline(delivery[j])]
    BY <1>9 DEF Refresh, Scan
  <2>2. AfterDeadline(delivery[k]).receipts = delivery[k].receipts
    BY <1>1 DEF AfterDeadline, DeliveryRecord
  <2> QED
    BY <1>3, <2>1, <2>2
<1>10. ASSUME NEW j \in Job,
              \/ \E c \in Command : CommandSend(c, j)
              \/ \E t \in Timer : TimerFires(t, j)
       PROVE  delivery'[k].receipts[n] = delivery[k].receipts[n]
  BY <1>2, <1>10 DEF CommandSend, TimerFires
<1>11. ASSUME NEW j \in Job, NEW h \in Handler, NEW status \in Acks, ReceiveAck(h, j, status)
       PROVE  delivery'[k].receipts[n] = delivery[k].receipts[n]
  <2> DEFINE new == IF Stale(delivery[j], status) THEN delivery[j] ELSE AfterAck(delivery[j], status)
  <2>1. delivery' = [delivery EXCEPT ![j] = new]
    BY <1>11 DEF ReceiveAck
  <2>2. j = k => new.receipts = delivery[k].receipts
    BY <1>1 DEF AfterAck, DeliveryRecord
  <2> HIDE DEF new
  <2> QED
    BY <1>3, <2>1, <2>2
<1>12. ASSUME NEW j \in Job, NEW i \in Receipted, NEW status \in {"held", "delivered"},
              ReceiveReceipt(j, i, status)
       PROVE  delivery'[k].receipts[n] = delivery[k].receipts[n]
  <2> DEFINE noted == [delivery[j].receipts EXCEPT ![i] = status]
             new == [delivery[j] EXCEPT !.receipts = noted]
  <2>1. /\ delivery' = [delivery EXCEPT ![j] = new]
        /\ delivery[j] # None /\ delivery[j].receipts[i] \notin TerminalReceipts
    BY <1>12 DEF ReceiveReceipt
  <2>2. delivery[j] \in DeliveryRecord
    BY <1>1, <2>1 DEF DeliveryTypes
  <2>3. new.receipts = noted
    BY <2>2 DEF DeliveryRecord
  <2>4. j = k => noted[n] = delivery[k].receipts[n]
    BY <2>1
  <2> HIDE DEF noted, new
  <2> QED
    BY <1>3, <2>1, <2>3, <2>4
<1> QED
  BY <1>4, <1>5, <1>6, <1>7, <1>8, <1>9, <1>10, <1>11, <1>12 DEF DeliveryStep

\* What Claude or its session has answered in the end is not undone: no timer
\* sends an accepted Job again, and no step but a send's touches a last receipt.
THEOREM AnswersAreAlwaysFinal == Spec => AnswersAreFinal
<1> DEFINE Resent ==
             \A t \in Timer :
               At(sender[t], "idle") /\ ~At(sender'[t], "idle") =>
                 sender'[t].job \notin accepted \/ sender'[t].job \in reopened
           Received ==
             \A k \in Job :
               delivery[k] # None /\ (\A s \in Sender : sender'[s] = sender[s]) =>
                 \A n \in DOMAIN delivery[k].receipts :
                   delivery[k].receipts[n] \in TerminalReceipts =>
                     delivery'[k].receipts[n] = delivery[k].receipts[n]
<1>1. IInv /\ [Next]_vars => [Resent]_sender
  <2> SUFFICES ASSUME IInv, [Next]_vars, sender' # sender PROVE Resent
    OBVIOUS
  <2> SUFFICES ASSUME NEW t \in Timer, sender[t].step = "idle", sender'[t].step # "idle"
               PROVE  sender'[t].job \notin accepted \/ sender'[t].job \in reopened
    BY DEF At
  <2>1. Deliveries /\ DeliveryTypes /\ t \in Sender
    BY DEF IInv, Deliveries, Sender
  <2>2. CASE DeliveryStep
    <3>1. PICK k \in Job : /\ delivery[k].status = "retry_scheduled" /\ k \in armed
                           /\ sender'[t].job = k
      BY <2>1, <2>2, TimersStart
    <3>2. delivery[k] # None
      BY <2>1, <3>1 DEF Deliveries, Delivers, Unmade
    <3>3. k \notin accepted \/ k \in reopened
      BY <2>1, <3>1, <3>2 DEF Deliveries, Delivers, SaysAccepted, Ended
    <3> QED
      BY <3>1, <3>3
  <2>3. CASE BridgeDies
    BY <2>1, <2>3 DEF BridgeDies, LoseDeliveries, SendersLost, Idle
  <2>4. CASE UNCHANGED sender
    BY <2>4
  <2> QED
    BY <2>2, <2>3, <2>4 DEF Next, vars, deliveryVars, BridgeStarts
<1>2. IInv /\ [Next]_vars => [Received]_<<delivery, sender>>
  <2> SUFFICES ASSUME IInv, [Next]_vars PROVE Received
    OBVIOUS
  <2>1. CASE DeliveryStep /\ UNCHANGED kind
    BY <2>1, ReceiptsStay DEF IInv
  <2>2. CASE UNCHANGED delivery
    BY <2>2
  <2>3. BridgeDies => UNCHANGED delivery
    BY DEF BridgeDies, LoseDeliveries
  <2> QED
    BY <2>1, <2>2, <2>3 DEF Next, vars, deliveryVars, BridgeStarts
<1>3. Spec => [][Resent]_sender /\ [][Received]_<<delivery, sender>>
  BY <1>1, <1>2, Invariance, PTL DEF Spec
<1> QED
  BY <1>3 DEF AnswersAreFinal, AcceptedIsNotResent, ReceiptsAreFinal
=============================================================================
