----------------------------- MODULE InboundPolicy -----------------------------
(***************************************************************************)
(* Inbound deny rules of a recipient Node, and what they decide on a       *)
(* message of a sender that the Node Directory may or may not know.        *)
(*                                                 src/inbound-policy.js   *)
(*                                                                         *)
(* A policy record is replaced whole under one lock, and removed with its  *)
(* last rule.  Rules of a record that fails its checks are not modelled:   *)
(* no operation writes one.                                                *)
(***************************************************************************)
EXTENDS NodeDirectory

CONSTANTS
  RuleLimit  \* INBOUND_POLICY_MAX_RULES_PER_TARGET

ASSUME PolicyAssumptions == RuleLimit \in Nat

VARIABLES
  rules  \* deny rules of each recipient

Rule ==
  [kind : {"sender-node"}, node : Node]
  \cup [kind : {"sender-project"}, project : Project]
  \cup [kind : {"unknown-sender"}]

PolicyInit == rules = [n \in Node |-> {}]

\* A rule that is there already changes nothing.
UpsertInboundDenyRule(n, rule) ==
  /\ AtOnce("policy", {"inbound-policies"})
  /\ rule \notin rules[n]
  /\ Cardinality(rules[n]) < RuleLimit
  /\ rules' = [rules EXCEPT ![n] = @ \cup {rule}]

RemoveInboundDenyRule(n, rule) ==
  /\ AtOnce("policy", {"inbound-policies"})
  /\ rule \in rules[n]
  /\ rules' = [rules EXCEPT ![n] = @ \ {rule}]

PolicyStep ==
  \E n \in workload.nodes, rule \in Rule : UpsertInboundDenyRule(n, rule) \/ RemoveInboundDenyRule(n, rule)

\* resolveInboundSenderIdentity; None is a message without a sender Node.
SenderIdentity(sender) ==
  IF sender = None
    THEN [state |-> "unidentified"]
    ELSE IF node[sender] = None \/ tombstone[sender] # None
      THEN [state |-> "unverifiable"]
      ELSE [state |-> "verified", node |-> sender, project |-> node[sender]]

\* A bug the checks must catch: rules of Projects bind verified senders only.
EvaluateVerified(n, sender) ==
  LET who == SenderIdentity(sender)
      verified == who.state = "verified"
  IN
  CASE rules[n] = {} -> "no_policy"
    [] verified /\ [kind |-> "sender-node", node |-> sender] \in rules[n] -> "sender_denied"
    [] verified /\ [kind |-> "sender-project", project |-> node[sender]] \in rules[n] ->
         "project_denied"
    [] ~verified /\ [kind |-> "unknown-sender"] \in rules[n] -> "unknown_denied"
    [] OTHER -> "continue"

\* evaluateInboundPolicyRecord: its reason, in the order of its tests.
Evaluate(n, sender) ==
  LET who == SenderIdentity(sender)
      verified == who.state = "verified"
  IN
  CASE rules[n] = {} -> "no_policy"
    [] verified /\ [kind |-> "sender-node", node |-> sender] \in rules[n] -> "sender_denied"
    [] verified /\ [kind |-> "sender-project", project |-> node[sender]] \in rules[n] ->
         "project_denied"
    [] who.state = "unverifiable" /\ (\E r \in rules[n] : r.kind = "sender-project") ->
         "identity_unverifiable"
    [] ~verified /\ [kind |-> "unknown-sender"] \in rules[n] -> "unknown_denied"
    [] OTHER -> "continue"

Continues(n, sender) == Evaluate(n, sender) \in {"no_policy", "continue"}

PoliciesTypeOK == rules \in [Node -> SUBSET Rule]

\* A recipient that denies a Project hears from no Node of it, live or
\* retired, also while its retirement is under way or was interrupted.
DeniedProjectsStayDenied ==
  \A n, sender \in Node :
    ProjectOf(sender) # None /\ [kind |-> "sender-project", project |-> ProjectOf(sender)] \in rules[n]
      => ~Continues(n, sender)
=============================================================================
