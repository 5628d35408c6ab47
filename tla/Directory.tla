------------------------------- MODULE Directory -------------------------------
(***************************************************************************)
(* The Node Directory with its Clusters and the inbound policies that ask  *)
(* it who a sender is: processes that run commands on all of them.         *)
(***************************************************************************)
EXTENDS ClusterDirectory, InboundPolicy

vars == <<directoryVars, clusterVars, rules>>

Init == DirectoryInit /\ ClusterInit /\ PolicyInit

Next ==
  \/ DirectoryStep /\ UNCHANGED <<clusterVars, rules>>
  \/ ClusterStep /\ UNCHANGED <<recordVars, rules>>
  \/ PolicyStep /\ UNCHANGED <<recordVars, clusterVars>>

Spec == Init /\ [][Next]_vars

\* Every record has its shape, and every process is where its locks say.
TypeOK ==
  /\ RecordsTypeOK
  /\ ClustersTypeOK
  /\ PoliciesTypeOK
  /\ op \in [Process -> NodeWork \cup ClusterWork]
  /\ workload \in Workloads

\* An identity is one thing, in one Project, although a Project, a Node, a Thread
\* and a successor are each a file with a lock of its own, and processes die
\* between two files.
IdentitiesAgree ==
  /\ UniqueHomes /\ MovesNeverBranch
  /\ NodesAreNoThreads /\ OneThreadPerJob /\ ThreadsKnowTheirProject
  /\ SuccessorsShareAProject

\* Chains end, endpoints have the evidence they were selected on, and policies
\* bind the Nodes they were made for.
RecordsAreSound ==
  TypeOK /\ SuccessorsAreAcyclic /\ SelectionsHaveEvidence /\ DeniedProjectsStayDenied

\* The head of a Cluster, its snapshots, its Tombstone and the Nodes they name
\* agree, although they are files written one after the other.
ClustersAreConsistent ==
  /\ HeadsFollowSnapshots /\ RemovedClustersAreComplete
  /\ ClusterNamesAreUnique /\ MembersAreKnown

\* What is recorded as history is not rewritten: moves, Tombstones, endpoint
\* generations and Cluster snapshots.
HistoryIsFinal ==
  HeadsFollowTransitions /\ TombstonesAreFinal /\ GenerationsNeverGoBack /\ SnapshotsAreImmutable
=============================================================================
