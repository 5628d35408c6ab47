---------------------------- MODULE ClusterDirectory ----------------------------
(***************************************************************************)
(* Clusters of Nodes: a head with the current members, and an immutable    *)
(* snapshot of every membership version.         src/node-directory.js     *)
(*                                                                         *)
(* Every operation holds the one lock of all Clusters.  It first applies   *)
(* the snapshot that an interrupted operation left without a head, then    *)
(* writes the next snapshot, and the head last.                            *)
(***************************************************************************)
EXTENDS NodeDirectory

CONSTANTS
  Cluster,      \* Cluster ids
  Name,         \* their routing ids
  MemberLimit,  \* CLUSTER_MEMBER_LIMIT
  MaxVersion    \* bound: membership versions

ASSUME ClusterAssumptions ==
  /\ MemberLimit \in Nat
  /\ MaxVersion \in Nat \ {0}
  /\ None \notin Cluster \cup Name
  /\ None \notin [name : Name, version : Nat, members : SUBSET Node]
  /\ None \notin [name : Name, version : Nat]

VARIABLES
  head,             \* current membership of each Cluster
  snapshots,        \* membership versions on record, the first one first
  clusterTombstone  \* name and last version of a removed Cluster

clusterVars == <<head, snapshots, clusterTombstone>>

HeadRecord == [name : Name, version : 1..MaxVersion, members : SUBSET Node]
Snapshot == [members : SUBSET Node, change : {"created", "added", "removed"},
             changed : Node \cup {None}]

ClusterInit ==
  /\ head = [c \in Cluster |-> None]
  /\ snapshots = [c \in Cluster |-> <<>>]
  /\ clusterTombstone = [c \in Cluster |-> None]

-----------------------------------------------------------------------------
(* Recovery of an interrupted change                                       *)

Latest(c) == Last(snapshots[c])

\* A snapshot is on record that the head has not taken over.
Unapplied(c) == Len(snapshots[c]) > head[c].version

ValidTransition(before, next) ==
  \/ /\ next.change = "added"
     /\ next.changed \notin before /\ next.members = before \cup {next.changed}
  \/ /\ next.change = "removed"
     /\ next.changed \in before /\ next.members = before \ {next.changed}

\* recoverClusterMembershipLocked does not throw.
MayRecover(c) ==
  /\ snapshots[c] # <<>> /\ head[c].version <= Len(snapshots[c])
  /\ snapshots[c][head[c].version].members = head[c].members
  /\ Unapplied(c) =>
       /\ Len(snapshots[c]) = head[c].version + 1
       /\ ValidTransition(head[c].members, Latest(c))
       /\ \A n \in Latest(c).members : Resolves(n)

Recovered(c) ==
  IF Unapplied(c)
    THEN [head EXCEPT ![c].version = @ + 1, ![c].members = Latest(c).members]
    ELSE head

\* The Cluster is on record, and not removed, and its head is up to date now.
RecoverFirst(c) ==
  /\ head[c] # None /\ clusterTombstone[c] = None
  /\ MayRecover(c)
  /\ head' = Recovered(c)
  /\ UNCHANGED <<snapshots, clusterTombstone>>

-----------------------------------------------------------------------------
(* Operations                                                              *)

ClusterLock == {"clusters"}

Removed(c, name) ==
  \E d \in Cluster : clusterTombstone[d] # None /\ (d = c \/ clusterTombstone[d].name = name)

NamedCluster(name) == {d \in Cluster : head[d] # None /\ head[d].name = name}

\* ensureCluster of a name that is on record.
EnsureExistingCluster(c, name) ==
  /\ AtOnce("ensureCluster", ClusterLock)
  /\ ~Removed(c, name)
  /\ head[c] # None => c \in NamedCluster(name)
  /\ \E d \in NamedCluster(name) : RecoverFirst(d)

\* ensureCluster writes the first snapshot, unless an interrupted call did.
EnsureCluster(p, c, name) ==
  /\ ~Removed(c, name)
  /\ NamedCluster(name) = {} /\ head[c] = None
  /\ Begin(p, "ensureCluster",
       [step |-> "createHead", locks |-> ClusterLock, cluster |-> c, name |-> name])
  /\ LET created == [members |-> {}, change |-> "created", changed |-> None]
     IN  /\ snapshots[c] \in {<<>>, <<created>>}
         /\ snapshots' = [snapshots EXCEPT ![c] = <<created>>]
  /\ UNCHANGED <<head, clusterTombstone>>

WriteFirstHead(p) ==
  /\ op[p].step = "createHead"
  /\ head' = [head EXCEPT ![op[p].cluster] =
       [name |-> op[p].name, version |-> 1, members |-> {}]]
  /\ End(p)
  /\ UNCHANGED <<snapshots, clusterTombstone>>

\* changeClusterMember
BeginChange(p, c, n, change) ==
  /\ RecoverFirst(c)
  /\ Begin(p, "changeMember",
       [step |-> "change", locks |-> ClusterLock, cluster |-> c, node |-> n, change |-> change])

\* A change that is made already, or refused.
NothingToChange(c, n, change) ==
  IF change = "added"
    THEN \/ node[n] = None \/ tombstone[n] # None
         \/ n \in head[c].members
         \/ Cardinality(head[c].members) >= MemberLimit
    ELSE n \notin head[c].members

EndUnchanged(p) ==
  /\ op[p].step = "change"
  /\ NothingToChange(op[p].cluster, op[p].node, op[p].change)
  /\ End(p)
  /\ UNCHANGED clusterVars

\* A bug the checks must catch: the snapshot gets the version of the head.
WriteSnapshotOver(p) ==
  LET c == op[p].cluster  n == op[p].node  change == op[p].change IN
  /\ op[p].step = "change"
  /\ ~NothingToChange(c, n, change)
  /\ snapshots' = [snapshots EXCEPT ![c][head[c].version] =
       [members |-> IF change = "added" THEN head[c].members \cup {n} ELSE head[c].members \ {n},
        change |-> change, changed |-> n]]
  /\ Continue(p, [step |-> "changeHead", locks |-> ClusterLock, cluster |-> c])
  /\ UNCHANGED <<head, clusterTombstone>>

WriteSnapshot(p) ==
  LET c == op[p].cluster  n == op[p].node  change == op[p].change IN
  /\ op[p].step = "change"
  /\ ~NothingToChange(c, n, change)
  /\ head[c].version < MaxVersion
  /\ Len(snapshots[c]) = head[c].version
  /\ snapshots' = [snapshots EXCEPT ![c] = Append(@,
       [members |-> IF change = "added" THEN head[c].members \cup {n} ELSE head[c].members \ {n},
        change |-> change, changed |-> n])]
  /\ Continue(p, [step |-> "changeHead", locks |-> ClusterLock, cluster |-> c])
  /\ UNCHANGED <<head, clusterTombstone>>

WriteHead(p) ==
  LET c == op[p].cluster IN
  /\ op[p].step = "changeHead"
  /\ head' = [head EXCEPT ![c].version = Len(snapshots[c]), ![c].members = Latest(c).members]
  /\ End(p)
  /\ UNCHANGED <<snapshots, clusterTombstone>>

\* recoverClusterMembership
RecoverClusterMembership(c) ==
  /\ AtOnce("recoverCluster", ClusterLock)
  /\ RecoverFirst(c)

\* A bug the checks must catch: the interrupted change is not applied first.
RemoveUnrecovered(p, c) ==
  /\ head[c] # None /\ clusterTombstone[c] = None
  /\ Begin(p, "removeCluster", [step |-> "tombstoneCluster", locks |-> ClusterLock, cluster |-> c])
  /\ UNCHANGED clusterVars

\* tombstoneCluster: the head is brought up to date, the Tombstone is written,
\* and the head unlinked.
BeginRemoval(p, c) ==
  /\ RecoverFirst(c)
  /\ Begin(p, "removeCluster", [step |-> "tombstoneCluster", locks |-> ClusterLock, cluster |-> c])

TombstoneCluster(p) ==
  LET c == op[p].cluster IN
  /\ op[p].step = "tombstoneCluster"
  /\ clusterTombstone' =
       [clusterTombstone EXCEPT ![c] = [name |-> head[c].name, version |-> head[c].version]]
  /\ Continue(p, [step |-> "unlinkCluster", locks |-> ClusterLock, cluster |-> c])
  /\ UNCHANGED <<head, snapshots>>

UnlinkCluster(p) ==
  /\ op[p].step = "unlinkCluster"
  /\ head' = [head EXCEPT ![op[p].cluster] = None]
  /\ End(p)
  /\ UNCHANGED <<snapshots, clusterTombstone>>

ClusterStep ==
  \/ \E c \in Cluster, name \in Name : EnsureExistingCluster(c, name)
  \/ \E c \in Cluster : RecoverClusterMembership(c)
  \/ \E p \in Process :
       \/ \E c \in Cluster, name \in Name : EnsureCluster(p, c, name)
       \/ WriteFirstHead(p)
       \/ \E c \in Cluster, n \in workload.nodes, change \in {"added", "removed"} :
            BeginChange(p, c, n, change)
       \/ EndUnchanged(p) \/ WriteSnapshot(p) \/ WriteHead(p)
       \/ \E c \in Cluster : BeginRemoval(p, c)
       \/ TombstoneCluster(p) \/ UnlinkCluster(p)

-----------------------------------------------------------------------------
(* What Clusters promise                                                   *)

ClusterWork ==
  [step : {"createHead"}, locks : {ClusterLock}, cluster : Cluster, name : Name]
  \cup [step : {"change"}, locks : {ClusterLock}, cluster : Cluster, node : Node,
        change : {"added", "removed"}]
  \cup [step : {"changeHead", "tombstoneCluster", "unlinkCluster"}, locks : {ClusterLock},
        cluster : Cluster]

ClustersTypeOK ==
  /\ head \in [Cluster -> HeadRecord \cup {None}]
  /\ \A c \in Cluster : snapshots[c] \in Seq(Snapshot) /\ Len(snapshots[c]) <= MaxVersion
  /\ clusterTombstone \in [Cluster -> [name : Name, version : 1..MaxVersion] \cup {None}]

\* A live Cluster is what its snapshots say, or one redo away from it, and
\* each snapshot is one change from the one before: recovery never finds a
\* history that it must refuse.
HeadsFollowSnapshots ==
  \A c \in Cluster : head[c] # None =>
    /\ head[c].version \in {Len(snapshots[c]), Len(snapshots[c]) - 1}
    /\ snapshots[c][head[c].version].members = head[c].members
    /\ \A v \in 2..Len(snapshots[c]) :
         ValidTransition(snapshots[c][v-1].members, snapshots[c][v])

\* A snapshot on record is never rewritten, whoever redoes what.
SnapshotsAreImmutable ==
  [][\A c \in Cluster :
       /\ Len(snapshots'[c]) - Len(snapshots[c]) \in {0, 1}
       /\ IsPrefix(snapshots[c], snapshots'[c])]_clusterVars

\* A removed Cluster is at its last version: nothing interrupted is redone
\* after its Tombstone is there.
RemovedClustersAreComplete ==
  \A c \in Cluster : clusterTombstone[c] # None =>
    /\ clusterTombstone[c].version = Len(snapshots[c])
    /\ head[c] # None => head[c].version = clusterTombstone[c].version

\* Names of Clusters are unique, those of removed ones included.
ClusterNamesAreUnique ==
  \A c, d \in Cluster : c # d =>
    /\ head[c] # None /\ head[d] # None => head[c].name # head[d].name
    /\ head[c] # None /\ clusterTombstone[d] # None => head[c].name # clusterTombstone[d].name

\* A member of any version is a Node, live or tombstoned, though Nodes are
\* retired under other locks.
MembersAreKnown ==
  \A c \in Cluster : \A v \in DOMAIN snapshots[c] :
    \A n \in snapshots[c][v].members : ProjectOf(n) # None
=============================================================================
