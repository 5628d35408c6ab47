--------------------------- MODULE GroupConversation ---------------------------
(***************************************************************************)
(* A Group Conversation: its members by version, its messages, each to     *)
(* the members of one version, and the inbox of a member: a cursor, and    *)
(* digests that a Codex Node asks for and that the next turn brings.       *)
(*      src/group-conversations.js, src/messaging.js                       *)
(*                                                                         *)
(* A digest is composed without a lock, given to App Server with the turn, *)
(* and consumed under the lock; senders and the Node's own                 *)
(* acknowledgements come in between.                                       *)
(***************************************************************************)
EXTENDS DirectConversation

CONSTANTS
  TheGroup,        \* the id of the Group Conversation
  GroupMessage,    \* message ids, as numbers: ids have an order of their own
  GroupFrom,       \* the sender of a message
  Parent,          \* the message it replies to, or None
  Founders,        \* the members of the first version
  Joiner,          \* Nodes that join and leave
  Reader,          \* Codex Nodes that ask for digests
  Starter,         \* deliveries of a Peer Message to a Node, which start a turn
  MayDeny,         \* Nodes with an inbound policy that may deny
  MinMembers, MaxVersions, MaxHops, Limits,  \* the code's bounds; limits of a digest
  MaxRequests, MaxHands                      \* bounds: digests, manual acknowledgements

ASSUME GroupAssumptions ==
  /\ GroupMessage \subseteq Nat /\ Founders \cup Joiner \subseteq Node
  /\ \A m \in GroupMessage : Parent[m] = None \/ Parent[m] \in GroupMessage
  /\ Limits \subseteq Nat \ {0}
  /\ \A c \in Pairs : TheGroup # c
  /\ Cardinality(Founders) >= MinMembers /\ MaxHops \in Nat

VARIABLES
  group,     \* the record: members by version, messages
  ledger,    \* of each message: None, or the recipients and which were admitted
  cursor,    \* of each reader: its inbox is acknowledged up to here
  intent,    \* of each reader: the digest it asks for
  turn,      \* of each starter: the digest its turn brings
  requests, hands,
  shown,     \* history: messages (by sequence) in accepted turns of a reader
  byHand,    \* history: acknowledged by hand up to here
  late       \* history: messages whose Ledger record came after the cursor

inboxVars == <<cursor, intent, turn, requests, hands, shown, byHand>>
groupVars == <<group, ledger, inboxVars, late>>

GroupRecord ==
  [snapshots : Seq(SUBSET Node),
   messages : Seq([id : GroupMessage, version : Nat, hop : Nat, at : Nat,
                   recipients : SUBSET Node])]

ASSUME GroupNoneAssumption ==
  None \notin GroupRecord \cup [recipients : SUBSET Node, admitted : SUBSET Node]

GroupInit ==
  /\ group = None
  /\ ledger = [m \in GroupMessage |-> None]
  /\ cursor = [n \in Reader |-> 0] /\ intent = [n \in Reader |-> None]
  /\ turn = [s \in Starter |-> None]
  /\ requests = 0 /\ hands = 0
  /\ shown = [n \in Reader |-> {}] /\ byHand = [n \in Reader |-> 0]
  /\ late = [n \in Reader |-> {}]

-----------------------------------------------------------------------------
(* The record                                                              *)

Members(g) == Last(g.snapshots)
GroupVersion(g) == <<Len(g.messages), Len(g.snapshots)>>

SequenceOf(g, m) == {i \in DOMAIN g.messages : g.messages[i].id = m}
IsRecorded(m) == SequenceOf(group, m) # {}

\* As in DirectConversation: what an operation writes, and the summary of it.
WriteGroup(new, written) ==
  /\ group' = new
  /\ \/ /\ written
        /\ Summarize(TheGroup, GroupVersion(new))
        /\ UNCHANGED <<faults, unlisted>>
     \/ /\ faults < MaxFaults
        /\ faults' = faults + 1
        /\ unlisted' = unlisted \cup {TheGroup}
        /\ UNCHANGED summary

\* ensureGroupConversation: the one that is there must have the same founders.
EnsureGroup ==
  /\ IF group # None THEN WriteGroup(group, TRUE)
     ELSE Founders \subseteq liveNodes /\ WriteGroup([snapshots |-> <<Founders>>, messages |-> <<>>], TRUE)
  /\ UNCHANGED <<liveNodes, ledger, inboxVars, late>>

\* changeGroupMember: add or remove
ChangeMember(n) ==
  LET new == IF n \in Members(group) THEN Members(group) \ {n} ELSE Members(group) \cup {n} IN
  /\ group # None
  /\ Cardinality(new) >= MinMembers /\ new \subseteq liveNodes
  /\ Len(group.snapshots) < MaxVersions
  /\ WriteGroup([group EXCEPT !.snapshots = Append(@, new)], TRUE)
  /\ UNCHANGED <<liveNodes, ledger, inboxVars, late>>

-----------------------------------------------------------------------------
(* storeOnlyGroupMessage                                                   *)

HopOf(m) == IF Parent[m] = None THEN 0
            ELSE group.messages[CHOOSE i \in SequenceOf(group, Parent[m]) : TRUE].hop + 1

\* A new message: its sender and all members are live, its parent is in the record.
MaySend(m) ==
  /\ ~IsRecorded(m)
  /\ GroupFrom[m] \in Members(group) /\ Members(group) \subseteq liveNodes
  /\ Parent[m] # None => IsRecorded(Parent[m]) /\ HopOf(m) <= MaxHops

LastTime == IF group.messages = <<>> THEN 0 ELSE Last(group.messages).at

\* The record with the message; the clock may not have moved since the last one.
WithMessage(m) ==
  {[group EXCEPT !.messages = Append(@,
      [id |-> m, version |-> Len(group.snapshots), hop |-> HopOf(m), at |-> at,
       recipients |-> Members(group) \ {GroupFrom[m]}])] : at \in LastTime..(LastTime + 1)}

MessageOf(g, m) == g.messages[CHOOSE i \in SequenceOf(g, m) : TRUE]

\* A bug the checks must catch: a retry is checked as a new message is.
MayRetryIfLive(m) == IsRecorded(m) /\ Members(group) \subseteq liveNodes

\* A message that is recorded is not checked again.
MayRetry(m) == IsRecorded(m)

Recipients(g, m) == MessageOf(g, m).recipients

\* commitStoreOnlyGroupDelivery, with what the policies say now; it is not said twice.
CommitGroup(g, m, denied) ==
  LET i == CHOOSE i \in SequenceOf(g, m) : TRUE
      admitted == Recipients(g, m) \ denied IN
  IF ledger[m] # None THEN UNCHANGED <<ledger, late>>
  ELSE /\ ledger' = [ledger EXCEPT ![m] =
                       [recipients |-> Recipients(g, m), admitted |-> admitted]]
       /\ late' = [n \in Reader |->
                     late[n] \cup (IF n \in admitted /\ cursor[n] >= i THEN {i} ELSE {})]

\* The record, the Ledger, the summary; or the record, or these two.
SendGroupMessage(m) ==
  /\ group # None
  /\ \E g \in IF MayRetry(m) THEN {group} ELSE IF MaySend(m) THEN WithMessage(m) ELSE {} :
       \/ \E denied \in SUBSET (MayDeny \cap Recipients(g, m)) :
            CommitGroup(g, m, denied) /\ WriteGroup(g, TRUE)
       \/ WriteGroup(g, FALSE) /\ UNCHANGED <<ledger, late>>
  /\ UNCHANGED <<liveNodes, inboxVars>>

-----------------------------------------------------------------------------
(* The inbox                                                               *)

\* The message at i is in the Ledger and n was admitted.
IsFor(i, n) ==
  LET l == ledger[group.messages[i].id] IN l # None /\ n \in l.admitted

\* groupInboxEntries: what is not acknowledged, to be read by time and then by id.
Unread(n) == {i \in DOMAIN group.messages : i > cursor[n] /\ IsFor(i, n)}

Sooner(i, j) ==
  LET x == group.messages[i] y == group.messages[j] IN
  x.at < y.at \/ (x.at = y.at /\ x.id < y.id)

\* acknowledgeGroupInbox: this message and all before it.
Acknowledge(n, i) ==
  /\ hands < MaxHands /\ hands' = hands + 1
  /\ group # None /\ i \in DOMAIN group.messages /\ IsFor(i, n) /\ i > cursor[n]
  /\ cursor' = [cursor EXCEPT ![n] = i]
  /\ byHand' = [byHand EXCEPT ![n] = i]
  /\ UNCHANGED <<liveNodes, group, ledger, summary, faults, unlisted, late,
                 intent, turn, requests, shown>>

\* requestGroupInboxDigest; with the same bounds the one that is there stays.
RequestDigest(n, limit) ==
  /\ requests < MaxRequests /\ n \in liveNodes
  /\ intent[n] # None => intent[n].limit # limit
  /\ requests' = requests + 1
  /\ intent' = [intent EXCEPT ![n] = [limit |-> limit, requested |-> requests + 1]]
  /\ UNCHANGED <<liveNodes, group, ledger, summary, faults, unlisted, late,
                 cursor, turn, hands, shown, byHand>>

CancelDigest(n) ==
  /\ intent[n] # None
  /\ intent' = [intent EXCEPT ![n] = None]
  /\ UNCHANGED <<liveNodes, group, ledger, summary, faults, unlisted, late,
                 cursor, turn, requests, hands, shown, byHand>>

InboxUnread(n) == IF group = None THEN {} ELSE Unread(n)

\* composeGroupInboxDigest: the oldest entries that its limit and its bytes allow,
\* and one of them at least.
Compose(s, n) ==
  /\ turn[s] = None /\ intent[n] # None
  /\ \E digest \in SUBSET InboxUnread(n) :
       /\ Cardinality(digest) <= intent[n].limit
       /\ digest = {} => InboxUnread(n) = {}
       /\ \A i \in digest, j \in InboxUnread(n) \ digest : Sooner(i, j)
       /\ turn' = [turn EXCEPT ![s] = [node |-> n, requested |-> intent[n].requested,
                                      digest |-> digest, accepted |-> FALSE]]
  /\ UNCHANGED <<liveNodes, group, ledger, summary, faults, unlisted, late,
                 cursor, intent, requests, hands, shown, byHand>>

\* turn/start: it is accepted, and the answer may be lost; or it is refused.
StartTurn(s) ==
  LET t == turn[s] IN
  /\ t # None /\ ~t.accepted
  /\ \/ /\ turn' \in {[turn EXCEPT ![s].accepted = TRUE], [turn EXCEPT ![s] = None]}
        /\ shown' = [shown EXCEPT ![t.node] = @ \cup t.digest]
     \/ turn' = [turn EXCEPT ![s] = None] /\ UNCHANGED shown
  /\ UNCHANGED <<liveNodes, group, ledger, summary, faults, unlisted, late,
                 cursor, intent, requests, hands, byHand>>

\* A bug the checks must catch: a digest is consumed whatever it leaves out.
OmitsNothing(t) == FALSE

\* A message that n should see, up to the last of the digest, is not in it.
Omits(t) ==
  \E i \in DOMAIN group.messages :
    /\ i > cursor[t.node] /\ i <= Max(t.digest)
    /\ IsFor(i, t.node) /\ i \notin t.digest

Advanced(t) == Max(t.digest \cup {cursor[t.node]})

\* consumeGroupInboxDigest, of the digest that is still asked for: the cursor, then
\* the request is removed, unless the process dies before.
Consume(s) ==
  LET t == turn[s] IN
  /\ t # None /\ t.accepted
  /\ turn' = [turn EXCEPT ![s] = None]
  /\ IF \/ intent[t.node] = None \/ intent[t.node].requested # t.requested
        \/ t.digest # {} /\ Omits(t)
       THEN UNCHANGED <<cursor, intent, faults>>
       ELSE /\ cursor' = [cursor EXCEPT ![t.node] = IF t.digest = {} THEN @ ELSE Advanced(t)]
            /\ \/ intent' = [intent EXCEPT ![t.node] = None] /\ UNCHANGED faults
               \/ faults < MaxFaults /\ faults' = faults + 1 /\ UNCHANGED intent
  /\ UNCHANGED <<liveNodes, group, ledger, summary, unlisted, late, requests, hands, shown, byHand>>

GroupStep(messages) ==
  /\ messages # {}
  /\ \/ EnsureGroup
     \/ \E n \in Joiner : ChangeMember(n)
     \/ \E m \in messages : SendGroupMessage(m)
     \/ \E n \in Reader :
          \/ \E i \in 1..Cardinality(GroupMessage) : Acknowledge(n, i)
          \/ \E limit \in Limits : RequestDigest(n, limit)
          \/ CancelDigest(n)
          \/ \E s \in Starter : Compose(s, n)
     \/ \E s \in Starter : StartTurn(s) \/ Consume(s)
=============================================================================
