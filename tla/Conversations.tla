------------------------------ MODULE Conversations ------------------------------
(***************************************************************************)
(* Direct and Group Conversations with their summaries, and the list of    *)
(* recent Conversations that is read from the summaries.                   *)
(*      src/conversation-summaries.js, src/recent-conversations.js         *)
(***************************************************************************)
EXTENDS GroupConversation

CONSTANTS
  Workloads,       \* what is sent: sets of messages of either kind
  Late,            \* bound: Nodes that may be registered later than the others
  Mortal           \* bound: Nodes that may be tombstoned

ASSUME ConversationAssumptions == Late \subseteq Node /\ Mortal \cap Late = {}

VARIABLE workload

conversationVars == <<workload, liveNodes, directVars, groupVars, summary, faults, unlisted>>

ConversationInit ==
  /\ workload \in Workloads
  /\ liveNodes \in {Node, Node \ Late}
  /\ DirectInit /\ GroupInit
  /\ summary = [c \in Pairs \cup {TheGroup} |-> None]
  /\ faults = 0 /\ unlisted = {}

\* The Directory registers a Node.
Register(n) ==
  /\ n \notin liveNodes
  /\ liveNodes' = liveNodes \cup {n}
  /\ UNCHANGED <<workload, directVars, groupVars, summary, faults, unlisted>>

\* The Directory tombstones a Node, which is never registered again.
Tombstone(n) ==
  /\ n \in liveNodes
  /\ liveNodes' = liveNodes \ {n}
  /\ UNCHANGED <<workload, directVars, groupVars, summary, faults, unlisted>>

ConversationNext ==
  \/ DirectStep(workload \cap DirectMessage) /\ UNCHANGED <<workload, groupVars>>
  \/ GroupStep(workload \cap GroupMessage) /\ UNCHANGED <<workload, directVars>>
  \/ \E n \in Late : Register(n)
  \/ \E n \in Mortal : Tombstone(n)

ConversationSpec == ConversationInit /\ [][ConversationNext]_conversationVars

-----------------------------------------------------------------------------
(* listRecentConversations                                                 *)

\* The summary was made from the record as it is.
SummaryMatches(c, version) == summary[c] = version

\* The Conversations of a present member whose summary counts, if they have messages
\* and the last of them is in its source.
RecentDirect(n) ==
  {c \in Conversations :
     /\ n \in direct[c].members /\ direct[c].messages # <<>>
     /\ SummaryMatches(c, Version(direct[c])) /\ SourceMatches(c)}

RecentGroup(n) ==
  {g \in {TheGroup} :
     /\ group # None /\ n \in Members(group) /\ group.messages # <<>>
     /\ SummaryMatches(g, GroupVersion(group)) /\ ledger[Last(group.messages).id] # None}

Recent(n) == RecentDirect(n) \cup RecentGroup(n)

-----------------------------------------------------------------------------
(* Properties                                                              *)

Ids(r) == {r.messages[i].id : i \in DOMAIN r.messages}

Once(r) ==
  \A i, j \in DOMAIN r.messages : r.messages[i].id = r.messages[j].id => i = j

\* The records are valid: a message is in one record and once, not before the
\* Conversation and, in a Group, not before the message ahead of it; members are two,
\* or as many as a Group needs.
TypeOK ==
  /\ \A c \in Conversations :
       LET r == direct[c] IN
       /\ Once(r) /\ Cardinality(r.members) = 2
       /\ \A m \in Ids(r) : {From[m], To[m]} \subseteq c \cup Range(r.migrations)
       /\ \A i \in DOMAIN r.messages : r.messages[i].at \in r.created..MaxTime
       /\ \A d \in Conversations \ {c} : Ids(r) \cap Ids(direct[d]) = {}
  /\ group # None =>
       /\ Once(group)
       /\ \A v \in DOMAIN group.snapshots : Cardinality(group.snapshots[v]) >= MinMembers
       /\ \A i \in DOMAIN group.messages :
            /\ i > 1 => group.messages[i].at >= group.messages[i - 1].at
            /\ group.messages[i].hop <= MaxHops

\* Two Nodes have one Direct Conversation, through creations and migrations: with
\* two, no message of the pair could be recorded any more.
UniquePairs ==
  \A c, d \in Conversations : direct[c].members = direct[d].members => c = d

\* The Ledger or the Job of a message names the place where its Conversation has
\* it, whatever is recorded or migrated before the source is written.
SourcesAgree ==
  \A m \in DirectMessage : source[m] \notin {None, Nowhere} => source[m] \in Places(m)

\* However often a message is sent again, one of its senders goes on to dispatch.
SentOnce == \A m \in DirectMessage : sender[m].sent <= 1

\* A message was recorded when its Job had been created without a place: the sender
\* gets an idempotency conflict, and leaves an entry that no source will ever match.
\* It hides the Conversation while it is the last one by time, or until a summary is
\* written with it.
HiddenByOrphan(c) ==
  \E i \in DOMAIN direct[c].messages :
    /\ source[direct[c].messages[i].id] = Nowhere
    /\ i = Activity(direct[c]) \/ i > summary[c][1]

\* A Conversation that no sender is at, and in which no writer has failed, is listed for
\* its members with its last message: also if a sender's own refresh came too early, or messages
\* were recorded out of the order of their times.  The one exception is HiddenByOrphan.
SettledIsListed ==
  /\ \A c \in Conversations :
       \/ direct[c].messages = <<>> \/ c \in unlisted \/ HiddenByOrphan(c)
       \/ \E m \in DirectMessage :
            /\ sender[m].step \in {"recorded", "committed"}
            /\ sender[m].place \in {<<c, i>> : i \in DOMAIN direct[c].messages}
       \/ \A n \in direct[c].members : c \in Recent(n)
  /\ \/ group = None \/ TheGroup \in unlisted
     \/ group.messages = <<>> \/ \A n \in Members(group) : TheGroup \in Recent(n)

\* The recipients in the Ledger are the members at the version of the message without
\* its sender, also when the record is finished after the Group has changed.
RecipientsAreFrozen ==
  \A m \in GroupMessage : ledger[m] # None =>
    ledger[m].recipients
      = group.snapshots[MessageOf(group, m).version] \ {GroupFrom[m]}

\* The cursor of a Node passes a message only if it was in an accepted turn, or was
\* acknowledged by hand, or came to the Ledger when the cursor had passed it.
NothingIsSkipped ==
  group # None =>
    \A n \in Reader, i \in DOMAIN group.messages :
      i <= cursor[n] /\ IsFor(i, n) =>
        i \in shown[n] \cup late[n] \/ i <= byHand[n]

\* A Group message that is recorded can be finished by a retry, whoever was
\* tombstoned or has left the Group meanwhile.
RecordedCanBeFinished ==
  \A m \in GroupMessage :
    group # None /\ IsRecorded(m) /\ ledger[m] = None =>
      ENABLED (SendGroupMessage(m) /\ ledger'[m] # None)

\* A pair has one Conversation, a message one place in it which its source names,
\* and one dispatch; a Group message goes to whom it was recorded for.
ConversationsAreConsistent ==
  TypeOK /\ UniquePairs /\ SourcesAgree /\ SentOnce /\ RecipientsAreFrozen

\* The cursor of an inbox moves forward only, also for a digest consumed late, and
\* over no unseen message.
CursorsAreSound ==
  [][(\A n \in Reader : cursor'[n] >= cursor[n]) /\ NothingIsSkipped']_conversationVars
=============================================================================
