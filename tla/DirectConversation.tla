--------------------------- MODULE DirectConversation ---------------------------
(***************************************************************************)
(* Direct Conversations: one record for each pair of Nodes, with the order *)
(* of its messages.                        src/conversations.js            *)
(*                                                                         *)
(* A sender records its message in the Conversation, writes it to its      *)
(* source - the Delivery Ledger, or a Claude Job - and then refreshes the  *)
(* summary of the Conversation.  Each of the three is alone under a lock,  *)
(* and senders interleave between them (route-admission.js,                *)
(* claude-delivery.js).  What is written under one lock is one step here,  *)
(* cut short where the writer fails or dies: files are written one after   *)
(* the other, and no reader looks at two of them without the lock.         *)
(***************************************************************************)
EXTENDS Naturals, FiniteSetsExt, SequencesExt

CONSTANTS
  Node,
  Successor,       \* of a Node: its predecessor (the Directory's relation)
  DirectMessage,
  JobMessage,      \* those of DirectMessage whose source is a Claude Job
  From, To,        \* the Nodes of a message
  MaxTries,        \* bound: attempts to send a message, all in all
  MaxTime,         \* bound of the clock
  MaxFaults,       \* bound: writers that fail or die
  None

ASSUME DirectAssumptions ==
  /\ JobMessage \subseteq DirectMessage
  /\ \A m \in DirectMessage : {From[m], To[m]} \subseteq Node /\ From[m] # To[m]
  /\ DOMAIN Successor \subseteq Node
  /\ MaxTime \in Nat /\ MaxFaults \in Nat

VARIABLES
  liveNodes, \* Nodes the Directory holds as live; not registered yet, or tombstoned,
             \*   are the others
  direct,    \* the records, by the pair of original members
  summary,   \* of each Conversation: the version of the record it was made from
  source,    \* of each message: None, or the place its Ledger record or Job names
  sender,    \* of each message: how far its sender is
  clock, tries,
  faults,
  unlisted   \* history: Conversations that a fault may have left without summary

directVars == <<direct, source, sender, clock, tries>>

Pairs == kSubset(2, Node)
Nowhere == <<>>

DirectRecord ==
  [members : SUBSET Node, messages : Seq([id : DirectMessage, at : Nat]),
   migrations : Seq(Node), created : Nat]

SenderSteps == {"none", "begun", "recorded", "committed", "again", "sent", "deduplicated", "stopped"}

\* What stands for no record is not one, and no place.
ASSUME DirectNoneAssumption == None \notin {Nowhere} \cup (Pairs \X Nat) \cup DirectRecord

DirectInit ==
  /\ direct = [c \in Pairs |-> None]
  /\ source = [m \in DirectMessage |-> None]
  /\ sender = [m \in DirectMessage |->
                 [step |-> "none", sent |-> 0, at |-> 0, place |-> Nowhere]]
  /\ clock = 0 /\ tries = 0

-----------------------------------------------------------------------------
(* Records                                                                 *)

Conversations == {c \in Pairs : direct[c] # None}

\* A record is written anew at every change; its file tells its version.
Version(r) == <<Len(r.messages), Len(r.migrations)>>

\* Where a message is recorded: its Conversation and its sequence.
Places(m) ==
  UNION {{<<c, i>> : i \in {j \in DOMAIN direct[c].messages : direct[c].messages[j].id = m}} :
           c \in Conversations}

\* findCurrentConversation
CurrentOf(pair) == {c \in Conversations : direct[c].members = pair}

NewConversation(pair) ==
  [members |-> pair, messages |-> <<>>, migrations |-> <<>>, created |-> clock]

\* derivedActivity: the message of the latest time; of those, the last.
Activity(r) ==
  CHOOSE i \in DOMAIN r.messages :
    \A j \in DOMAIN r.messages :
      \/ r.messages[j].at < r.messages[i].at
      \/ r.messages[j].at = r.messages[i].at /\ j <= i

\* activitySourceMatches, and directSourceMatches of a reader of summaries.
SourceMatches(c) ==
  LET r == direct[c] IN
  r.messages # <<>> => source[r.messages[Activity(r)].id] = <<c, Activity(r)>>

-----------------------------------------------------------------------------
(* Steps under CONVERSATIONS_LOCK_PATH                                     *)

\* writeConversationSummary
Summarize(c, version) == summary' = [summary EXCEPT ![c] = version]

\* What an operation writes: the records of c in turn, and then the summary, or not
\* all of it.  c may be left without a current summary.
WriteDirect(c, versions, last) ==
  \/ /\ direct' = [direct EXCEPT ![c] = Last(versions)]
     /\ Summarize(c, Version(last))
     /\ UNCHANGED <<faults, unlisted>>
  \/ /\ faults < MaxFaults
     /\ faults' = faults + 1
     /\ unlisted' = unlisted \cup {c}
     /\ UNCHANGED summary
     /\ \E n \in DOMAIN versions : direct' = [direct EXCEPT ![c] = versions[n]]

\* ensureDirectConversationLocked: which Conversation it finds or creates.  The id
\* of a pair is that of its original members: a Conversation that went on to a
\* successor keeps it.
Ensured(pair) ==
  IF ~(pair \subseteq liveNodes) THEN {}
  ELSE IF CurrentOf(pair) # {} THEN CurrentOf(pair)
  ELSE IF direct[pair] = None THEN {pair} ELSE {}

\* ensureDirectConversation
EnsureDirect(pair) ==
  /\ \E c \in Ensured(pair) :
       LET r == IF direct[c] = None THEN NewConversation(pair) ELSE direct[c] IN
       WriteDirect(c, <<r>>, r)
  /\ UNCHANGED <<liveNodes, source, sender, clock, tries>>

\* migrateDirectConversationMember; again, it writes the summary.
Migrate(c, successor) ==
  LET r == direct[c]
      new == [r EXCEPT !.members = (@ \ {Successor[successor]}) \cup {successor},
                       !.migrations = Append(@, successor)] IN
  /\ r # None
  /\ IF successor \in Range(r.migrations) /\ successor \in r.members
       THEN WriteDirect(c, <<r>>, r)
       ELSE /\ Successor[successor] \in r.members /\ successor \in liveNodes
            /\ Cardinality(new.members) = 2
            /\ CurrentOf(new.members) = {}
            /\ WriteDirect(c, <<new>>, new)
  /\ UNCHANGED <<liveNodes, source, sender, clock, tries>>

-----------------------------------------------------------------------------
(* Senders                                                                 *)

SenderGoes(m, from, to) ==
  /\ sender[m].step = from
  /\ sender' = [sender EXCEPT ![m] = to]

\* The sender of m at another step, and as one that knows the place of m.
AtStep(m, step) == [sender[m] EXCEPT !.step = step]
Placed(m, place) == [sender[m] EXCEPT !.step = "recorded", !.place = place]

Stays == UNCHANGED <<direct, summary, faults, unlisted>>

\* A message is sent, or sent again with the same id: its time is the time of now.
\* The routes of the Ledger look there first, and are done.
Begin(m) ==
  /\ \E from \in {"none", "stopped", "sent"} :
       SenderGoes(m, from, [sender[m] EXCEPT !.at = clock, !.step =
         IF source[m] # None /\ m \notin JobMessage THEN "deduplicated" ELSE "begun"])
  /\ tries < MaxTries /\ tries' = tries + 1
  /\ Stays /\ UNCHANGED <<liveNodes, source, clock>>

\* recordDirectMessageIfKnown: without two live Nodes there is no Conversation.  A
\* message that is recorded keeps its place.
RecordKnown(m) ==
  /\ \/ /\ ~({From[m], To[m]} \subseteq liveNodes)
        /\ SenderGoes(m, "begun", Placed(m, Nowhere))
     \/ /\ {From[m], To[m]} \subseteq liveNodes
        /\ \E p \in Places(m) : SenderGoes(m, "begun", Placed(m, p))
  /\ Stays /\ UNCHANGED <<liveNodes, source, clock, tries>>

\* A message of before the Conversation was created, unless it creates it, is refused.
Predates(m, c) == direct[c] # None /\ sender[m].at < direct[c].created

\* recordDirectMessage: the Conversation is found or created and its summary
\* written; then the message is appended.  The summary is now behind.
RecordMessage(m) ==
  /\ sender[m].step = "begun"
  /\ {From[m], To[m]} \subseteq liveNodes /\ Places(m) = {}
  /\ \E c \in Ensured({From[m], To[m]}) :
       LET old == IF direct[c] = None THEN NewConversation({From[m], To[m]}) ELSE direct[c]
           at == IF direct[c] = None THEN old.created ELSE sender[m].at
           new == [old EXCEPT !.messages = Append(@, [id |-> m, at |-> at])] IN
       /\ ~Predates(m, c)
       /\ WriteDirect(c, <<old, new>>, old)
       /\ SenderGoes(m, "begun",
            IF faults' > faults THEN AtStep(m, "stopped")
            ELSE Placed(m, <<c, Len(new.messages)>>))
  /\ UNCHANGED <<liveNodes, source, clock, tries>>

\* "identity collision", or "predates its Conversation".
RecordRefused(m) ==
  /\ {From[m], To[m]} \subseteq liveNodes /\ Places(m) = {}
  /\ \A c \in Ensured({From[m], To[m]}) : Predates(m, c)
  /\ SenderGoes(m, "begun", AtStep(m, "stopped"))
  /\ Stays /\ UNCHANGED <<liveNodes, source, clock, tries>>

\* Its caller goes on to dispatch the message.
Sends(m) == [sender[m] EXCEPT !.step = "sent", !.sent = @ + 1]

\* What a message that is new to its source does next.
Committed(m) == IF sender[m].place = Nowhere THEN Sends(m) ELSE AtStep(m, "committed")

\* A bug the checks must catch: the sequence is read when the source is written.
CommitAtTheEnd(m) ==
  LET c == sender[m].place[1] IN
  /\ m \notin JobMessage /\ sender[m].place # Nowhere
  /\ SenderGoes(m, "recorded", Committed(m))
  /\ source' = [source EXCEPT ![m] = <<c, Len(direct[c].messages)>>]
  /\ Stays /\ UNCHANGED <<liveNodes, clock, tries>>

\* commitSingleRecipientDelivery; its route lock is held since Begin.
CommitToLedger(m) ==
  /\ m \notin JobMessage
  /\ SenderGoes(m, "recorded", Committed(m))
  /\ source' = [source EXCEPT ![m] = sender[m].place]
  /\ Stays /\ UNCHANGED <<liveNodes, clock, tries>>

\* createJobOnce: a Job that is there must have the same place, if one is known now.
\* A Job of before its Nodes were registered has none.
CommitToJob(m) ==
  LET place == sender[m].place IN
  /\ m \in JobMessage
  /\ SenderGoes(m, "recorded",
       CASE source[m] = None -> Committed(m)
         [] source[m] # None /\ place = Nowhere -> AtStep(m, "deduplicated")
         [] place # Nowhere /\ place = source[m] -> AtStep(m, "again")
         [] OTHER -> AtStep(m, "stopped"))
  /\ source' = [source EXCEPT ![m] = IF @ = None THEN place ELSE @]
  /\ Stays /\ UNCHANGED <<liveNodes, clock, tries>>

\* A bug the checks must catch: the summary is left to the next ensure.
RefreshNothing(m) ==
  /\ SenderGoes(m, "committed", Sends(m))
  /\ Stays /\ UNCHANGED <<liveNodes, source, clock, tries>>

\* refreshDirectConversationSummary: only from a message whose source is there.
\* Otherwise the sender of a new message throws, and does not go on to dispatch.
Refresh(m) ==
  LET c == sender[m].place[1] IN
  /\ \E from \in {sender[m].step} \cap {"committed", "again"} :
       LET next == IF from = "committed" THEN Sends(m) ELSE AtStep(m, "deduplicated") IN
       IF SourceMatches(c)
         THEN /\ WriteDirect(c, <<direct[c]>>, direct[c])
              /\ SenderGoes(m, from, IF faults' > faults THEN AtStep(m, "stopped") ELSE next)
         ELSE /\ SenderGoes(m, from, IF from = "committed" THEN AtStep(m, "stopped") ELSE next)
              /\ Stays
  /\ UNCHANGED <<liveNodes, source, clock, tries>>

\* A sender fails or dies between two steps.
SenderStops(m) ==
  /\ faults < MaxFaults
  /\ \E from \in {"recorded", "committed", "again"} : SenderGoes(m, from, AtStep(m, "stopped"))
  /\ faults' = faults + 1
  /\ unlisted' = unlisted \cup {p[1] : p \in Places(m)}
  /\ UNCHANGED <<liveNodes, direct, summary, source, clock, tries>>

Tick ==
  /\ clock < MaxTime
  /\ clock' = clock + 1
  /\ Stays /\ UNCHANGED <<liveNodes, source, sender, tries>>

SendStep(m) ==
  \/ Begin(m) \/ RecordKnown(m) \/ RecordMessage(m) \/ RecordRefused(m)
  \/ CommitToLedger(m) \/ CommitToJob(m) \/ Refresh(m) \/ SenderStops(m)

DirectStep(messages) ==
  \/ \E m \in messages : SendStep(m)
  \/ \E pair \in {{From[m], To[m]} : m \in messages} : EnsureDirect(pair)
  \/ \E c \in Conversations, s \in DOMAIN Successor : Migrate(c, s)
  \/ messages # {} /\ Tick
=============================================================================
