---------------------------- MODULE DirectoryProofs ----------------------------
(***************************************************************************)
(* Proofs about Directory for any finite set of Nodes, any sets of         *)
(* processes, Projects, places, Jobs and Clusters, and any limits.         *)
(*                                                                         *)
(* What was read before the first write of an operation is still true at   *)
(* its last one, either because its lock keeps the others out (Exclusive)  *)
(* or because what it read never changes again once it is there (a known   *)
(* Node keeps its Project: KnownStaysKnown).  Pending says what is carried *)
(* over between the two writes, and Attached that a Tombstone beside its   *)
(* record names the same Project, which is what makes the latter true.     *)
(***************************************************************************)
EXTENDS Directory, FiniteSetTheorems, SequenceTheorems, TLAPS

ClusterSteps == {"createHead", "change", "changeHead", "tombstoneCluster", "unlinkCluster"}

Provenance == [job : Job, project : Project \cup {None}]

\* The work of a process names what it locks.
Shape(work) ==
  /\ work.step = "move" =>
       work.locks = {"projects"} /\ work.project \in Project /\ work.to \in Place
  /\ work.step = "retire" => work.node \in Node /\ work.locks = {work.node}
  /\ work.step = "link" =>
       work.locks = {"successors"} /\ work.from \in Node /\ work.to \in Node
  /\ work.step = "classify" =>
       /\ work.thread \in Codex /\ work.record \in Provenance
       /\ work.locks = {work.thread, "execution-threads"}
  /\ work.step \in ClusterSteps => work.locks = {"clusters"}

\* What an operation found before its first write, and needs at its last.
MovePending(work) == work.step = "move" =>
  /\ home[work.project] \notin {None, work.to}
  /\ \A i \in Project : home[i] # work.to
  /\ [from |-> home[work.project], to |-> work.to] \in transitions[work.project]

RetirePending(work) == work.step = "retire" => tombstone[work.node] # None

LinkPending(work) == work.step = "link" =>
  ProjectOf(work.to) # None /\ ProjectOf(work.from) = ProjectOf(work.to)

ClassifyPending(work) == work.step = "classify" =>
  /\ node[work.thread] = None /\ tombstone[work.thread] = None
  /\ \A m \in Codex : thread[m] # None => thread[m].job # work.record.job
  /\ work.record.project # None =>
       ProjectOf(SourceOf[work.record.job]) = work.record.project

Typed ==
  /\ home \in [Project -> Place \cup {None}]
  /\ transitions \in [Project -> SUBSET [from : Place, to : Place]]
  /\ node \in [Node -> Project \cup {None}]
  /\ tombstone \in [Node -> Project \cup {None}]
  /\ selected \in [Node -> [Transport -> Endpoint \cup {None}]]
  /\ predecessor \in [Node -> Node \cup {None}]
  /\ thread \in [Codex -> Provenance \cup {None}]
  /\ workload \in Workloads

Exclusive ==
  /\ op = [p \in Process |-> op[p]]
  /\ \A p \in Process : Shape(op[p])
  /\ \A p, q \in Process : p # q => op[p].locks \cap op[q].locks = {}

\* A Node whose retirement was interrupted is in one Project.
Attached == \A n \in Node : node[n] # None /\ tombstone[n] # None => node[n] = tombstone[n]

ProjectsSound ==
  /\ UniqueHomes /\ MovesNeverBranch
  /\ \A p \in Process : MovePending(op[p])

NodesSound ==
  /\ Attached
  /\ NodesAreNoThreads /\ OneThreadPerJob
  /\ ThreadsKnowTheirProject /\ SuccessorsShareAProject
  /\ \A p \in Process :
       RetirePending(op[p]) /\ LinkPending(op[p]) /\ ClassifyPending(op[p])

IInv == Typed /\ Exclusive /\ ProjectsSound /\ NodesSound

-----------------------------------------------------------------------------
(* Processes and locks                                                     *)

LEMMA IdleShape == Shape(Idle) /\ Idle.step = "idle" /\ Idle.locks = {}
  BY DEF Shape, Idle, ClusterSteps

\* Work on locks that no other process holds keeps the locks exclusive.
LEMMA TakingKeepsExclusive ==
  ASSUME Exclusive, NEW p \in Process, NEW work, Shape(work),
         \A q \in Process : q # p => work.locks \cap op[q].locks = {},
         op' = [op EXCEPT ![p] = work]
  PROVE  Exclusive'
  <1>1. op' = [q \in Process |-> IF q = p THEN work ELSE op[q]]
    BY DEF Exclusive
  <1>2. op' = [q \in Process |-> op'[q]]
    BY <1>1
  <1>3. \A q \in Process : Shape(op'[q])
    BY <1>1 DEF Exclusive
  <1>4. \A q, r \in Process : q # r => op'[q].locks \cap op'[r].locks = {}
    BY <1>1 DEF Exclusive
  <1>5. QED
    BY <1>2, <1>3, <1>4 DEF Exclusive, Shape

LEMMA BeginKeepsExclusive ==
  ASSUME Exclusive, NEW p \in Process, NEW command, NEW work, Shape(work),
         Begin(p, command, work)
  PROVE  Exclusive'
  <1>1. \A q \in Process : work.locks \cap op[q].locks = {}
    BY DEF Begin, Free
  <1>2. QED
    BY <1>1, TakingKeepsExclusive DEF Begin

LEMMA IdleKeepsExclusive ==
  ASSUME Exclusive, NEW p \in Process, op' = [op EXCEPT ![p] = Idle]
  PROVE  Exclusive'
  BY IdleShape, TakingKeepsExclusive

\* Another step under the same locks.
LEMMA ContinueKeepsExclusive ==
  ASSUME Exclusive, NEW p \in Process, NEW work, Shape(work),
         work.locks = op[p].locks, op' = [op EXCEPT ![p] = work]
  PROVE  Exclusive'
  <1>1. \A q \in Process : q # p => work.locks \cap op[q].locks = {}
    BY DEF Exclusive
  <1>2. QED
    BY <1>1, TakingKeepsExclusive

\* Two processes are never both at work on the Projects, on the Execution
\* Threads, or on one Node.
LEMMA OneAtWork ==
  ASSUME Exclusive, NEW p \in Process, NEW q \in Process, p # q
  PROVE  /\ op[p].step = "move" => op[q].step # "move"
         /\ op[p].step = "classify" => op[q].step # "classify"
         /\ op[p].step = "classify" /\ op[q].step = "retire" => op[p].thread # op[q].node
  <1>1. Shape(op[p]) /\ Shape(op[q]) /\ op[p].locks \cap op[q].locks = {}
    BY DEF Exclusive
  <1>2. QED
    BY <1>1 DEF Shape

-----------------------------------------------------------------------------
(* Frames                                                                  *)

LEMMA ProjectsFrame ==
  ASSUME IInv, UNCHANGED projectVars,
         \A q \in Process : op'[q] = op[q] \/ op'[q].step # "move"
  PROVE  ProjectsSound'
  <1>1. UniqueHomes' /\ MovesNeverBranch'
    BY DEF IInv, ProjectsSound, projectVars, UniqueHomes, MovesNeverBranch
  <1>2. \A q \in Process : MovePending(op[q])'
    BY DEF IInv, ProjectsSound, projectVars, MovePending
  <1>3. QED
    BY <1>1, <1>2 DEF ProjectsSound

LEMMA NodesFrame ==
  ASSUME IInv, UNCHANGED <<node, tombstone, predecessor, thread>>,
         \A q \in Process :
           \/ op'[q] = op[q]
           \/ RetirePending(op'[q]) /\ LinkPending(op'[q]) /\ ClassifyPending(op'[q])
  PROVE  NodesSound'
  <1>1. /\ Attached' /\ NodesAreNoThreads' /\ OneThreadPerJob'
        /\ ThreadsKnowTheirProject' /\ SuccessorsShareAProject'
    BY DEF IInv, NodesSound, Attached, NodesAreNoThreads, OneThreadPerJob,
           ThreadsKnowTheirProject, SuccessorsShareAProject, ProjectOf
  <1>2. ASSUME NEW q \in Process
        PROVE  RetirePending(op[q])' /\ LinkPending(op[q])' /\ ClassifyPending(op[q])'
    <2>1. RetirePending(op[q]) /\ LinkPending(op[q]) /\ ClassifyPending(op[q])
      BY DEF IInv, NodesSound
    <2>2. QED
      BY <2>1 DEF RetirePending, LinkPending, ClassifyPending, ProjectOf
  <1>3. QED
    BY <1>1, <1>2 DEF NodesSound

\* Of all processes only p changes what it is at.
LEMMA OnlyOneTurns ==
  ASSUME IInv, NEW p \in Process, NEW work, op' = [op EXCEPT ![p] = work]
  PROVE  op'[p] = work /\ \A q \in Process : q # p => op'[q] = op[q]
  BY DEF IInv, Exclusive

LEMMA IdlePends == RetirePending(Idle) /\ LinkPending(Idle) /\ ClassifyPending(Idle)
  BY IdleShape DEF RetirePending, LinkPending, ClassifyPending

\* What is known of a Node stays known.
Stable == \A n \in Node : ProjectOf(n) # None => ProjectOf(n)' = ProjectOf(n)

-----------------------------------------------------------------------------
(* Projects                                                                *)

LEMMA EnsureProjectIInv ==
  ASSUME IInv, NEW j \in Project, NEW a \in Place, EnsureProject(j, a)
  PROVE  IInv'
  <1> USE DEF EnsureProject, AtOnce
  <1>1. Typed' /\ Exclusive'
    BY DEF IInv, Typed, Exclusive, Shape, nodeVars
  <1>2. home' = [i \in Project |-> IF i = j THEN a ELSE home[i]]
    BY DEF IInv, Typed
  <1>3. UniqueHomes' /\ MovesNeverBranch'
    BY <1>2 DEF IInv, ProjectsSound, UniqueHomes, MovesNeverBranch
  <1>4. \A q \in Process : op[q].step # "move"
    BY DEF IInv, Exclusive, Shape, Free
  <1>5. ProjectsSound'
    BY <1>3, <1>4 DEF ProjectsSound, MovePending
  <1>6. NodesSound'
    BY DEF IInv, NodesSound, Attached, NodesAreNoThreads, OneThreadPerJob, ThreadsKnowTheirProject,
           SuccessorsShareAProject, ProjectOf, RetirePending, LinkPending, ClassifyPending, nodeVars
  <1>7. QED
    BY <1>1, <1>5, <1>6 DEF IInv

LEMMA MoveProjectIInv ==
  ASSUME IInv, NEW p \in Process, NEW j \in Project, NEW a \in Place, MoveProject(p, j, a)
  PROVE  IInv'
  <1> DEFINE work == [step |-> "move", locks |-> {"projects"}, project |-> j, to |-> a]
  <1>0. Begin(p, "move", work) /\ op' = [op EXCEPT ![p] = work]
    BY DEF MoveProject, Begin
  <1>1. Shape(work)
    BY DEF Shape, ClusterSteps
  <1>2. Exclusive'
    BY <1>0, <1>1, BeginKeepsExclusive DEF IInv
  <1>3. transitions' = [i \in Project |->
          IF i = j THEN transitions[j] \cup {[from |-> home[j], to |-> a]} ELSE transitions[i]]
    BY DEF IInv, Typed, MoveProject
  <1>4. home[j] \in Place /\ home' = home
    BY DEF IInv, Typed, MoveProject
  <1>5. Typed'
    BY <1>3, <1>4 DEF IInv, Typed, MoveProject, Begin, nodeVars
  <1>6. UniqueHomes' /\ MovesNeverBranch'
    <2>1. ASSUME NEW i \in Project, NEW s \in transitions'[i], NEW t \in transitions'[i],
                 s.from = t.from
          PROVE  s = t
      <3>1. s \in [from : Place, to : Place] /\ t \in [from : Place, to : Place]
        BY <1>5 DEF Typed
      <3>2. s.to = t.to
        BY <1>3, <2>1 DEF IInv, ProjectsSound, MovesNeverBranch, MoveProject
      <3>3. QED
        BY <2>1, <3>1, <3>2
    <2>2. QED
      BY <1>4, <2>1 DEF IInv, ProjectsSound, UniqueHomes, MovesNeverBranch
  <1>7. ASSUME NEW q \in Process PROVE MovePending(op[q])'
    <2>1. CASE q = p
      <3>1. op'[q] = work
        BY <1>0, <2>1 DEF IInv, Exclusive
      <3>2. QED
        BY <3>1, <1>3, <1>4 DEF MovePending, MoveProject
    <2>2. CASE q # p
      <3>1. op'[q] = op[q]
        BY <1>0, <2>2 DEF IInv, Exclusive
      <3>2. op[q].step # "move"
        BY DEF MoveProject, Begin, Free, IInv, Exclusive, Shape
      <3>3. QED
        BY <3>1, <3>2 DEF MovePending
    <2>3. QED
      BY <2>1, <2>2
  <1>8. RetirePending(work) /\ LinkPending(work) /\ ClassifyPending(work)
    BY DEF RetirePending, LinkPending, ClassifyPending
  <1>9. NodesSound'
    BY <1>0, <1>8, OnlyOneTurns, NodesFrame DEF MoveProject, nodeVars
  <1>10. QED
    BY <1>2, <1>5, <1>6, <1>7, <1>9 DEF IInv, ProjectsSound

LEMMA MoveProjectHeadIInv ==
  ASSUME IInv, NEW p \in Process, MoveProjectHead(p)
  PROVE  IInv'
  <1> DEFINE j == op[p].project  a == op[p].to
  <1>0. op' = [op EXCEPT ![p] = Idle]
    BY DEF MoveProjectHead, End, Continue
  <1>1. /\ j \in Project /\ a \in Place
        /\ \A i \in Project : home[i] # a
        /\ op[p].step = "move"
    BY DEF IInv, Exclusive, Shape, ProjectsSound, MovePending, MoveProjectHead
  <1>2. home' = [i \in Project |-> IF i = j THEN a ELSE home[i]] /\ transitions' = transitions
    BY DEF IInv, Typed, MoveProjectHead
  <1>3. Typed'
    BY <1>1, <1>2 DEF IInv, Typed, MoveProjectHead, End, Continue, nodeVars
  <1>4. Exclusive'
    BY <1>0, IdleKeepsExclusive DEF IInv
  <1>5. UniqueHomes' /\ MovesNeverBranch'
    BY <1>1, <1>2 DEF IInv, ProjectsSound, UniqueHomes, MovesNeverBranch
  <1>6. ASSUME NEW q \in Process PROVE op'[q].step # "move"
    BY <1>0, <1>1, OneAtWork, IdleShape DEF IInv, Exclusive
  <1>7. ProjectsSound'
    BY <1>5, <1>6 DEF ProjectsSound, MovePending
  <1>8. NodesSound'
    BY <1>0, IdlePends, OnlyOneTurns, NodesFrame DEF MoveProjectHead, nodeVars
  <1>9. QED
    BY <1>3, <1>4, <1>7, <1>8 DEF IInv

-----------------------------------------------------------------------------
(* Nodes                                                                   *)

\* A step that leaves successors and threads alone, and what is known of
\* Nodes, keeps what is said about them.
LEMMA StableKeeps ==
  ASSUME IInv, Stable, UNCHANGED <<predecessor, thread>>,
         \A q \in Process : op'[q] = op[q] \/ op'[q].step # "link"
  PROVE  /\ OneThreadPerJob' /\ ThreadsKnowTheirProject' /\ SuccessorsShareAProject'
         /\ \A q \in Process : LinkPending(op[q])'
  <1>1. OneThreadPerJob'
    BY DEF IInv, NodesSound, OneThreadPerJob
  <1>2. ASSUME NEW n \in Codex, thread[n] # None, thread[n].project # None
        PROVE  ProjectOf(SourceOf[thread[n].job])' = thread[n].project
    <2>1. thread[n].job \in Job /\ thread[n].project \in Project
      BY <1>2 DEF IInv, Typed, Provenance
    <2>2. SourceOf[thread[n].job] \in Node
      BY <2>1, DirectoryAssumptions
    <2>3. ProjectOf(SourceOf[thread[n].job]) = thread[n].project
      BY <1>2 DEF IInv, NodesSound, ThreadsKnowTheirProject
    <2>4. QED
      BY <1>2, <2>2, <2>3 DEF Stable
  <1>3. ThreadsKnowTheirProject'
    BY <1>2 DEF ThreadsKnowTheirProject, ProjectOf
  <1>4. ASSUME NEW n \in Node, predecessor[n] # None
        PROVE  ProjectOf(n)' # None /\ ProjectOf(predecessor[n])' = ProjectOf(n)'
    <2>1. predecessor[n] \in Node
      BY <1>4 DEF IInv, Typed
    <2>2. ProjectOf(n) # None /\ ProjectOf(predecessor[n]) = ProjectOf(n)
      BY <1>4 DEF IInv, NodesSound, SuccessorsShareAProject
    <2>3. QED
      BY <2>1, <2>2 DEF Stable
  <1>5. SuccessorsShareAProject'
    BY <1>4 DEF SuccessorsShareAProject, ProjectOf
  <1>6. ASSUME NEW q \in Process PROVE LinkPending(op[q])'
    <2>1. CASE op'[q] = op[q]
      <3>1. op[q].step = "link" => op[q].from \in Node /\ op[q].to \in Node
        BY DEF IInv, Exclusive, Shape
      <3>2. LinkPending(op[q])
        BY DEF IInv, NodesSound
      <3>3. QED
        BY <2>1, <3>1, <3>2 DEF LinkPending, Stable, ProjectOf
    <2>2. CASE op'[q] # op[q]
      BY <2>2 DEF LinkPending
    <2>3. QED
      BY <2>1, <2>2
  <1>7. QED
    BY <1>1, <1>3, <1>5, <1>6

LEMMA SourceStaysKnown ==
  ASSUME IInv, Stable, NEW q \in Process, op'[q] = op[q],
         op[q].step = "classify", op[q].record.project # None
  PROVE  ProjectOf(SourceOf[op[q].record.job])' = op[q].record.project
  <1>1. op[q].record.job \in Job /\ op[q].record.project \in Project
    BY DEF IInv, Exclusive, Shape, Provenance
  <1>2. SourceOf[op[q].record.job] \in Node
    BY <1>1, DirectoryAssumptions
  <1>3. ProjectOf(SourceOf[op[q].record.job]) = op[q].record.project
    BY DEF IInv, NodesSound, ClassifyPending
  <1>4. QED
    BY <1>2, <1>3 DEF Stable

\* RegisterNode, and what ObserveEndpoint does to the identity of the Node.
LEMMA RegisteringKeeps ==
  ASSUME IInv, NEW n \in Node, NEW j \in Project, NEW command,
         AtOnce(command, {n}), MayBeNode(n, j),
         node' = [node EXCEPT ![n] = j],
         UNCHANGED <<projectVars, tombstone, predecessor, thread>>,
         selected' \in [Node -> [Transport -> Endpoint \cup {None}]]
  PROVE  IInv' /\ Stable
  <1>0. op' = op /\ workload' = workload
    BY DEF AtOnce
  <1>1. node' = [m \in Node |-> IF m = n THEN j ELSE node[m]] /\ tombstone' = tombstone
    BY DEF IInv, Typed
  <1>2. Typed' /\ Exclusive'
    BY <1>0, <1>1 DEF IInv, Typed, Exclusive, Shape, projectVars
  <1>3. Stable /\ Attached'
    BY <1>1 DEF Stable, ProjectOf, MayBeNode, IInv, NodesSound, Attached
  <1>4. NodesAreNoThreads'
    BY <1>1 DEF MayBeNode, IInv, NodesSound, NodesAreNoThreads
  <1>5. ProjectsSound'
    BY <1>0, ProjectsFrame
  <1>6. /\ OneThreadPerJob' /\ ThreadsKnowTheirProject' /\ SuccessorsShareAProject'
        /\ \A q \in Process : LinkPending(op[q])'
    BY <1>0, <1>3, StableKeeps
  <1>7. ASSUME NEW q \in Process PROVE RetirePending(op[q])'
    BY <1>0, <1>1 DEF RetirePending, IInv, NodesSound
  <1>8. ASSUME NEW q \in Process PROVE ClassifyPending(op[q])'
    <2>1. CASE op[q].step = "classify"
      <3>1. op[q].thread # n /\ op[q].thread \in Node
        BY <2>1, DirectoryAssumptions DEF AtOnce, Free, IInv, Exclusive, Shape
      <3>2. ClassifyPending(op[q])
        BY DEF IInv, NodesSound
      <3>3. op[q].record.project # None =>
              ProjectOf(SourceOf[op[q].record.job])' = op[q].record.project
        BY <1>0, <1>3, <2>1, SourceStaysKnown
      <3>4. QED
        BY <1>0, <1>1, <3>1, <3>2, <3>3 DEF ClassifyPending, ProjectOf
    <2>2. CASE op[q].step # "classify"
      BY <1>0, <2>2 DEF ClassifyPending
    <2>3. QED
      BY <2>1, <2>2
  <1>9. NodesSound'
    BY <1>3, <1>4, <1>6, <1>7, <1>8 DEF NodesSound
  <1>10. QED
    BY <1>2, <1>3, <1>5, <1>9 DEF IInv

LEMMA RegisterNodeIInv ==
  ASSUME IInv, NEW n \in Node, NEW j \in Project, RegisterNode(n, j)
  PROVE  IInv'
  BY RegisteringKeeps DEF RegisterNode, IInv, Typed

LEMMA ObserveEndpointIInv ==
  ASSUME IInv, NEW n \in Node, NEW j \in Project, NEW e \in Endpoint, ObserveEndpoint(n, j, e)
  PROVE  IInv'
  <1>1. e.transport \in Transport
    BY DEF Endpoint
  <1>2. selected' \in [Node -> [Transport -> Endpoint \cup {None}]]
    BY <1>1 DEF ObserveEndpoint, IInv, Typed
  <1>3. QED
    BY <1>2, RegisteringKeeps DEF ObserveEndpoint

LEMMA TombstoneNodeIInv ==
  ASSUME IInv, NEW p \in Process, NEW n \in Node, TombstoneNode(p, n)
  PROVE  IInv'
  <1> DEFINE work == [step |-> "retire", locks |-> {n}, node |-> n]
  <1>0. /\ Begin(p, "retire", work) /\ op' = [op EXCEPT ![p] = work]
        /\ node' = node /\ UNCHANGED <<projectVars, predecessor, thread>>
    BY DEF TombstoneNode, Begin
  <1>1. Shape(work)
    BY DEF Shape, ClusterSteps
  <1>2. Exclusive'
    BY <1>0, <1>1, BeginKeepsExclusive DEF IInv
  <1>3. tombstone' = [m \in Node |-> IF m = n THEN node[n] ELSE tombstone[m]]
    BY DEF IInv, Typed, TombstoneNode
  <1>4. node[n] \in Project /\ node[n] # None /\ tombstone[n] = None
    BY DEF IInv, Typed, TombstoneNode
  <1>5. Typed'
    BY <1>3, <1>4 DEF IInv, Typed, TombstoneNode, Begin, projectVars
  <1>6. Stable /\ Attached'
    BY <1>0, <1>3, <1>4 DEF Stable, ProjectOf, IInv, NodesSound, Attached
  <1>7. NodesAreNoThreads'
    BY <1>0, <1>3, <1>4, DirectoryAssumptions DEF IInv, NodesSound, NodesAreNoThreads
  <1>8. op'[p] = work /\ \A q \in Process : q # p => op'[q] = op[q]
    BY <1>0, OnlyOneTurns
  <1>9. ProjectsSound'
    BY <1>0, <1>8, ProjectsFrame
  <1>10. /\ OneThreadPerJob' /\ ThreadsKnowTheirProject' /\ SuccessorsShareAProject'
         /\ \A q \in Process : LinkPending(op[q])'
    BY <1>0, <1>6, <1>8, StableKeeps
  <1>11. ASSUME NEW q \in Process PROVE RetirePending(op[q])'
    <2>1. CASE q = p
      BY <1>3, <1>4, <1>8, <2>1 DEF RetirePending
    <2>2. CASE q # p
      BY <1>3, <1>4, <1>8, <2>2 DEF RetirePending, IInv, NodesSound, Exclusive, Shape
    <2>3. QED
      BY <2>1, <2>2
  <1>12. ASSUME NEW q \in Process PROVE ClassifyPending(op[q])'
    <2>1. CASE q # p /\ op[q].step = "classify"
      <3>1. ClassifyPending(op[q]) /\ op'[q] = op[q]
        BY <1>8, <2>1 DEF IInv, NodesSound
      <3>2. op[q].thread # n /\ op[q].thread \in Node
        BY <2>1, <3>1, <1>4, DirectoryAssumptions DEF ClassifyPending, IInv, Exclusive, Shape
      <3>3. op[q].record.project # None =>
              ProjectOf(SourceOf[op[q].record.job])' = op[q].record.project
        BY <1>6, <2>1, <3>1, SourceStaysKnown
      <3>4. QED
        BY <1>0, <1>3, <3>1, <3>2, <3>3 DEF ClassifyPending, ProjectOf
    <2>2. CASE ~(q # p /\ op[q].step = "classify")
      BY <1>8, <2>2 DEF ClassifyPending
    <2>3. QED
      BY <2>1, <2>2
  <1>13. NodesSound'
    BY <1>6, <1>7, <1>10, <1>11, <1>12 DEF NodesSound
  <1>14. QED
    BY <1>2, <1>5, <1>9, <1>13 DEF IInv

LEMMA UnlinkNodeIInv ==
  ASSUME IInv, NEW p \in Process, UnlinkNode(p)
  PROVE  IInv'
  <1> DEFINE n == op[p].node
  <1>0. /\ op' = [op EXCEPT ![p] = Idle] /\ tombstone' = tombstone
        /\ UNCHANGED <<projectVars, predecessor, thread>>
    BY DEF UnlinkNode, End, Continue
  <1>1. n \in Node /\ tombstone[n] # None
    BY DEF UnlinkNode, IInv, Exclusive, Shape, NodesSound, RetirePending
  <1>2. Exclusive'
    BY <1>0, IdleKeepsExclusive DEF IInv
  <1>3. node' = [m \in Node |-> IF m = n THEN None ELSE node[m]]
    BY DEF IInv, Typed, UnlinkNode
  <1>4. Typed'
    BY <1>0, <1>3 DEF IInv, Typed, UnlinkNode, End, Continue, projectVars, NoEndpoints
  <1>5. Stable /\ Attached'
    BY <1>0, <1>1, <1>3 DEF Stable, ProjectOf, IInv, NodesSound, Attached
  <1>6. NodesAreNoThreads'
    BY <1>0, <1>3, DirectoryAssumptions DEF IInv, NodesSound, NodesAreNoThreads
  <1>7. /\ op'[p] = Idle /\ Idle.step = "idle"
        /\ \A q \in Process : q # p => op'[q] = op[q]
    BY <1>0, OnlyOneTurns, IdleShape
  <1>8. ProjectsSound'
    BY <1>0, <1>7, ProjectsFrame
  <1>9. /\ OneThreadPerJob' /\ ThreadsKnowTheirProject' /\ SuccessorsShareAProject'
        /\ \A q \in Process : LinkPending(op[q])'
    BY <1>0, <1>5, <1>7, StableKeeps
  <1>10. ASSUME NEW q \in Process PROVE RetirePending(op[q])'
    BY <1>0, <1>7 DEF RetirePending, IInv, NodesSound
  <1>11. ASSUME NEW q \in Process PROVE ClassifyPending(op[q])'
    <2>1. CASE q # p /\ op[q].step = "classify"
      <3>1. ClassifyPending(op[q]) /\ op'[q] = op[q]
        BY <1>7, <2>1 DEF IInv, NodesSound
      <3>2. op[q].thread \in Node
        BY <2>1, DirectoryAssumptions DEF IInv, Exclusive, Shape
      <3>3. op[q].record.project # None =>
              ProjectOf(SourceOf[op[q].record.job])' = op[q].record.project
        BY <1>5, <2>1, <3>1, SourceStaysKnown
      <3>4. QED
        BY <1>0, <1>3, <3>1, <3>2, <3>3 DEF ClassifyPending, ProjectOf
    <2>2. CASE ~(q # p /\ op[q].step = "classify")
      BY <1>7, <2>2 DEF ClassifyPending
    <2>3. QED
      BY <2>1, <2>2
  <1>12. NodesSound'
    BY <1>5, <1>6, <1>9, <1>10, <1>11 DEF NodesSound
  <1>13. QED
    BY <1>2, <1>4, <1>8, <1>12 DEF IInv

-----------------------------------------------------------------------------
(* Successors and Execution Threads                                        *)

\* The first step of an operation that only reads.
LEMMA BeginningKeeps ==
  ASSUME IInv, NEW p \in Process, NEW command, NEW work,
         Begin(p, command, work), Shape(work), work.step # "move",
         RetirePending(work), LinkPending(work), ClassifyPending(work),
         UNCHANGED recordVars
  PROVE  IInv'
  <1>1. op'[p] = work /\ \A q \in Process : q # p => op'[q] = op[q]
    BY OnlyOneTurns DEF Begin
  <1>2. Typed'
    BY DEF IInv, Typed, Begin, recordVars, projectVars, nodeVars
  <1>3. Exclusive'
    BY BeginKeepsExclusive DEF IInv
  <1>4. ProjectsSound'
    BY <1>1, ProjectsFrame DEF recordVars
  <1>5. NodesSound'
    BY <1>1, NodesFrame DEF recordVars, nodeVars
  <1>6. QED
    BY <1>2, <1>3, <1>4, <1>5 DEF IInv

LEMMA AddSuccessorIInv ==
  ASSUME IInv, NEW p \in Process, NEW from \in Node, NEW to \in Node, AddSuccessor(p, from, to)
  PROVE  IInv'
  <1> DEFINE work == [step |-> "link", locks |-> {"successors"}, from |-> from, to |-> to]
  <1>1. Begin(p, "link", work) /\ UNCHANGED recordVars
    BY DEF AddSuccessor
  <1>2. Shape(work) /\ work.step # "move"
    BY DEF Shape, ClusterSteps
  <1>3. RetirePending(work) /\ LinkPending(work) /\ ClassifyPending(work)
    BY DEF RetirePending, LinkPending, ClassifyPending, AddSuccessor, ProjectOf
  <1>4. QED
    BY <1>1, <1>2, <1>3, BeginningKeeps

LEMMA ClassifyExecutionThreadIInv ==
  ASSUME IInv, NEW p \in Process, NEW n \in Codex, NEW k \in Job,
         ClassifyExecutionThread(p, n, k)
  PROVE  IInv'
  <1> DEFINE record == [job |-> k, project |-> node[SourceOf[k]]]
             work == [step |-> "classify", locks |-> {n, "execution-threads"},
                      thread |-> n, record |-> record]
  <1>1. Begin(p, "classify", work) /\ UNCHANGED recordVars
    BY DEF ClassifyExecutionThread
  <1>2. SourceOf[k] \in Node
    BY DirectoryAssumptions
  <1>3. record \in Provenance
    BY <1>2 DEF Provenance, IInv, Typed
  <1>4. Shape(work) /\ work.step # "move"
    BY <1>3 DEF Shape, ClusterSteps
  <1>5. RetirePending(work) /\ LinkPending(work)
    BY DEF RetirePending, LinkPending
  <1>6. ClassifyPending(work)
    BY DEF ClassifyPending, ClassifyExecutionThread, ProjectOf
  <1>7. QED
    BY <1>1, <1>4, <1>5, <1>6, BeginningKeeps

LEMMA WriteSuccessorIInv ==
  ASSUME IInv, NEW p \in Process, WriteSuccessor(p)
  PROVE  IInv'
  <1> DEFINE from == op[p].from  to == op[p].to
  <1>0. /\ op' = [op EXCEPT ![p] = Idle]
        /\ UNCHANGED <<projectVars, node, tombstone, thread>>
    BY DEF WriteSuccessor, End, Continue, nodeVars
  <1>1. /\ from \in Node /\ to \in Node
        /\ ProjectOf(to) # None /\ ProjectOf(from) = ProjectOf(to)
    BY DEF WriteSuccessor, IInv, Exclusive, Shape, NodesSound, LinkPending
  <1>2. predecessor' = [n \in Node |-> IF n = to THEN from ELSE predecessor[n]]
    BY DEF WriteSuccessor, IInv, Typed
  <1>3. Typed'
    BY <1>0, <1>1, <1>2 DEF WriteSuccessor, End, Continue, IInv, Typed, projectVars, nodeVars
  <1>4. Exclusive'
    BY <1>0, IdleKeepsExclusive DEF IInv
  <1>5. /\ op'[p] = Idle /\ Idle.step = "idle"
        /\ \A q \in Process : q # p => op'[q] = op[q]
    BY <1>0, OnlyOneTurns, IdleShape
  <1>6. ProjectsSound'
    BY <1>0, <1>5, ProjectsFrame
  <1>7. SuccessorsShareAProject'
    BY <1>0, <1>1, <1>2 DEF IInv, NodesSound, SuccessorsShareAProject, ProjectOf
  <1>8. Attached' /\ NodesAreNoThreads' /\ OneThreadPerJob' /\ ThreadsKnowTheirProject'
    BY <1>0 DEF IInv, NodesSound, Attached, NodesAreNoThreads, OneThreadPerJob,
                ThreadsKnowTheirProject, ProjectOf
  <1>9. ASSUME NEW q \in Process
        PROVE  RetirePending(op[q])' /\ LinkPending(op[q])' /\ ClassifyPending(op[q])'
    BY <1>0, <1>5 DEF RetirePending, LinkPending, ClassifyPending, ProjectOf, IInv, NodesSound
  <1>10. QED
    BY <1>3, <1>4, <1>6, <1>7, <1>8, <1>9 DEF IInv, NodesSound

LEMMA WriteExecutionThreadIInv ==
  ASSUME IInv, NEW p \in Process, WriteExecutionThread(p)
  PROVE  IInv'
  <1> DEFINE n == op[p].thread  record == op[p].record
  <1>0. /\ op' = [op EXCEPT ![p] = Idle] /\ op[p].step = "classify"
        /\ UNCHANGED <<projectVars, node, tombstone, predecessor>>
    BY DEF WriteExecutionThread, End, Continue, nodeVars
  <1>1. n \in Codex /\ record \in Provenance
    BY <1>0 DEF IInv, Exclusive, Shape
  <1>2. /\ node[n] = None /\ tombstone[n] = None
        /\ \A m \in Codex : thread[m] # None => thread[m].job # record.job
        /\ record.project # None => ProjectOf(SourceOf[record.job]) = record.project
    BY <1>0 DEF IInv, NodesSound, ClassifyPending
  <1>3. thread' = [m \in Codex |-> IF m = n THEN record ELSE thread[m]]
    BY DEF WriteExecutionThread, IInv, Typed
  <1>4. Typed'
    BY <1>0, <1>1, <1>3
    DEF WriteExecutionThread, End, Continue, IInv, Typed, projectVars, nodeVars
  <1>5. Exclusive'
    BY <1>0, IdleKeepsExclusive DEF IInv
  <1>6. /\ op'[p] = Idle /\ Idle.step = "idle"
        /\ \A q \in Process : q # p => op'[q] = op[q] /\ op[q].step # "classify"
    BY <1>0, OnlyOneTurns, OneAtWork, IdleShape DEF IInv
  <1>7. ProjectsSound'
    BY <1>0, <1>6, ProjectsFrame
  <1>8. NodesAreNoThreads' /\ OneThreadPerJob'
    BY <1>0, <1>2, <1>3 DEF IInv, NodesSound, NodesAreNoThreads, OneThreadPerJob
  <1>9. ThreadsKnowTheirProject'
    BY <1>0, <1>2, <1>3 DEF IInv, NodesSound, ThreadsKnowTheirProject, ProjectOf
  <1>10. Attached' /\ SuccessorsShareAProject'
    BY <1>0 DEF IInv, NodesSound, Attached, SuccessorsShareAProject, ProjectOf
  <1>11. ASSUME NEW q \in Process
         PROVE  RetirePending(op[q])' /\ LinkPending(op[q])' /\ ClassifyPending(op[q])'
    BY <1>0, <1>6 DEF RetirePending, LinkPending, ClassifyPending, ProjectOf, IInv, NodesSound
  <1>12. QED
    BY <1>4, <1>5, <1>7, <1>8, <1>9, <1>10, <1>11 DEF IInv, NodesSound

-----------------------------------------------------------------------------
(* Clusters, policies and crashes                                          *)

\* A step that ends, or goes on with, work on Clusters changes no record of
\* the Directory.
LEMMA ClusterWorkKeeps ==
  ASSUME IInv, UNCHANGED recordVars, workload' = workload, NEW p \in Process, NEW work,
         work.step \notin {"move", "retire", "link", "classify"},
         op' = [op EXCEPT ![p] = work], Exclusive'
  PROVE  IInv'
  <1>1. op'[p] = work /\ \A q \in Process : q # p => op'[q] = op[q]
    BY OnlyOneTurns
  <1>2. Typed'
    BY DEF IInv, Typed, recordVars, projectVars, nodeVars
  <1>3. ProjectsSound'
    BY <1>1, ProjectsFrame DEF recordVars
  <1>4. RetirePending(work) /\ LinkPending(work) /\ ClassifyPending(work)
    BY DEF RetirePending, LinkPending, ClassifyPending
  <1>5. NodesSound'
    BY <1>1, <1>4, NodesFrame DEF recordVars, nodeVars
  <1>6. QED
    BY <1>2, <1>3, <1>5 DEF IInv

LEMMA NothingOfOursChanges ==
  ASSUME IInv, UNCHANGED <<recordVars, op, workload>>
  PROVE  IInv'
  <1>1. Typed' /\ Exclusive'
    BY DEF IInv, Typed, Exclusive, Shape, recordVars, projectVars, nodeVars
  <1>2. ProjectsSound'
    BY ProjectsFrame DEF recordVars
  <1>3. NodesSound'
    BY NodesFrame DEF recordVars, nodeVars
  <1>4. QED
    BY <1>1, <1>2, <1>3 DEF IInv

LEMMA CrashIInv ==
  ASSUME IInv, NEW p \in Process, op' = [op EXCEPT ![p] = Idle],
         UNCHANGED recordVars, workload' = workload
  PROVE  IInv'
  <1>1. Exclusive'
    BY IdleKeepsExclusive DEF IInv
  <1>2. QED
    BY <1>1, IdleShape, ClusterWorkKeeps

LEMMA ClusterStepIInv ==
  ASSUME IInv, ClusterStep, UNCHANGED recordVars
  PROVE  IInv'
  <1>1. ASSUME NEW p \in Process, NEW command, NEW work,
               work.step \in ClusterSteps, work.locks = {"clusters"}, Begin(p, command, work)
        PROVE  IInv'
    <2>1. Shape(work) /\ work.step \notin {"move", "retire", "link", "classify"}
      BY <1>1 DEF Shape, ClusterSteps
    <2>2. Exclusive'
      BY <1>1, <2>1, BeginKeepsExclusive DEF IInv
    <2>3. QED
      BY <1>1, <2>1, <2>2, ClusterWorkKeeps DEF Begin
  <1>2. ASSUME NEW p \in Process, NEW work, op[p].step \in ClusterSteps,
               work.step \in ClusterSteps, work.locks = {"clusters"}, Continue(p, work)
        PROVE  IInv'
    <2>1. Shape(work) /\ work.step \notin {"move", "retire", "link", "classify"}
      BY <1>2 DEF Shape, ClusterSteps
    <2>2. work.locks = op[p].locks
      BY <1>2 DEF IInv, Exclusive, Shape
    <2>3. Exclusive'
      BY <1>2, <2>1, <2>2, ContinueKeepsExclusive DEF IInv, Continue
    <2>4. QED
      BY <1>2, <2>1, <2>3, ClusterWorkKeeps DEF Continue
  <1>3. ASSUME NEW p \in Process, End(p) PROVE IInv'
    BY <1>3, CrashIInv DEF End, Continue
  <1>4. ASSUME NEW c \in Cluster, NEW name \in Name, EnsureExistingCluster(c, name) PROVE IInv'
    BY <1>4, NothingOfOursChanges DEF EnsureExistingCluster, AtOnce
  <1>5. ASSUME NEW c \in Cluster, RecoverClusterMembership(c) PROVE IInv'
    BY <1>5, NothingOfOursChanges DEF RecoverClusterMembership, AtOnce
  <1>6. ASSUME NEW p \in Process, NEW c \in Cluster, NEW name \in Name, EnsureCluster(p, c, name)
        PROVE  IInv'
    BY <1>1, <1>6 DEF EnsureCluster, ClusterLock, ClusterSteps
  <1>7. ASSUME NEW p \in Process, NEW c \in Cluster, NEW n, NEW change, BeginChange(p, c, n, change)
        PROVE  IInv'
    BY <1>1, <1>7 DEF BeginChange, ClusterLock, ClusterSteps
  <1>8. ASSUME NEW p \in Process, NEW c \in Cluster, BeginRemoval(p, c) PROVE IInv'
    BY <1>1, <1>8 DEF BeginRemoval, ClusterLock, ClusterSteps
  <1>9. ASSUME NEW p \in Process, WriteSnapshot(p) PROVE IInv'
    BY <1>2, <1>9 DEF WriteSnapshot, ClusterLock, ClusterSteps
  <1>10. ASSUME NEW p \in Process, TombstoneCluster(p) PROVE IInv'
    BY <1>2, <1>10 DEF TombstoneCluster, ClusterLock, ClusterSteps
  <1>11. ASSUME NEW p \in Process,
                WriteFirstHead(p) \/ EndUnchanged(p) \/ WriteHead(p) \/ UnlinkCluster(p)
         PROVE  IInv'
    BY <1>3, <1>11 DEF WriteFirstHead, EndUnchanged, WriteHead, UnlinkCluster
  <1>12. QED
    BY <1>4, <1>5, <1>6, <1>7, <1>8, <1>9, <1>10, <1>11 DEF ClusterStep

LEMMA PolicyStepIInv ==
  ASSUME IInv, PolicyStep, UNCHANGED recordVars
  PROVE  IInv'
  BY NothingOfOursChanges DEF PolicyStep, UpsertInboundDenyRule, RemoveInboundDenyRule, AtOnce

-----------------------------------------------------------------------------
(* The theorems                                                            *)

LEMMA InitIInv == Init => IInv
  <1> SUFFICES ASSUME Init PROVE IInv
    OBVIOUS
  <1> USE DEF Init, DirectoryInit
  <1>1. Typed
    BY DirectoryAssumptions DEF Typed, NoEndpoints
  <1>2. op = [p \in Process |-> op[p]] /\ \A p \in Process : op[p] = Idle
    OBVIOUS
  <1>3. Exclusive
    BY <1>2, IdleShape DEF Exclusive
  <1>4. ProjectsSound
    BY <1>2, IdleShape, DirectoryAssumptions
    DEF ProjectsSound, UniqueHomes, MovesNeverBranch, MovePending
  <1>5. /\ Attached /\ NodesAreNoThreads /\ OneThreadPerJob
        /\ ThreadsKnowTheirProject /\ SuccessorsShareAProject
    BY DEF Attached, NodesAreNoThreads, OneThreadPerJob, ThreadsKnowTheirProject,
           SuccessorsShareAProject
  <1>6. NodesSound
    BY <1>2, <1>5, IdlePends DEF NodesSound
  <1>7. QED
    BY <1>1, <1>3, <1>4, <1>6 DEF IInv

LEMMA DirectoryStepIInv ==
  ASSUME IInv, DirectoryStep
  PROVE  IInv'
  <1>0. workload.nodes \subseteq Node /\ Codex \subseteq Node
    BY DirectoryAssumptions DEF IInv, Typed
  <1>1. CASE \E j \in Project, a \in Place : EnsureProject(j, a)
    BY <1>1, EnsureProjectIInv
  <1>2. CASE \E n \in workload.nodes, j \in Project : RegisterNode(n, j)
    BY <1>0, <1>2, RegisterNodeIInv
  <1>3. CASE \E n \in workload.nodes, j \in Project, e \in Endpoint : ObserveEndpoint(n, j, e)
    BY <1>0, <1>3, ObserveEndpointIInv
  <1>4. CASE \E p \in Process : (\E j \in Project, a \in Place : MoveProject(p, j, a))
                                \/ MoveProjectHead(p)
    BY <1>4, MoveProjectIInv, MoveProjectHeadIInv
  <1>5. CASE \E p \in Process : (\E n \in Node : TombstoneNode(p, n)) \/ UnlinkNode(p)
    BY <1>5, TombstoneNodeIInv, UnlinkNodeIInv
  <1>6. CASE \E p \in Process : (\E from, to \in Node : AddSuccessor(p, from, to))
                                \/ WriteSuccessor(p)
    BY <1>6, AddSuccessorIInv, WriteSuccessorIInv
  <1>7. CASE \E p \in Process :
               \/ \E n \in workload.nodes \cap Codex, k \in Job : ClassifyExecutionThread(p, n, k)
               \/ WriteExecutionThread(p)
    BY <1>7, ClassifyExecutionThreadIInv, WriteExecutionThreadIInv
  <1>8. CASE \E p \in Process : Crash(p)
    BY <1>8, CrashIInv DEF Crash
  <1>9. QED
    BY <1>1, <1>2, <1>3, <1>4, <1>5, <1>6, <1>7, <1>8 DEF DirectoryStep

LEMMA NextIInv == IInv /\ [Next]_vars => IInv'
  <1> SUFFICES ASSUME IInv, [Next]_vars PROVE IInv'
    OBVIOUS
  <1>1. CASE DirectoryStep
    BY <1>1, DirectoryStepIInv
  <1>2. CASE ClusterStep /\ UNCHANGED recordVars
    BY <1>2, ClusterStepIInv
  <1>3. CASE PolicyStep /\ UNCHANGED recordVars
    BY <1>3, PolicyStepIInv
  <1>4. CASE UNCHANGED vars
    BY <1>4, NothingOfOursChanges DEF vars, directoryVars
  <1>5. QED
    BY <1>1, <1>2, <1>3, <1>4 DEF Next

LEMMA Inductive == Spec => []IInv
  BY InitIInv, NextIInv, PTL DEF Spec

\* Whatever processes run on the Directory, and wherever they die, an identity
\* is one thing in one Project: no place has two Projects and no move branches,
\* no Node is an Execution Thread, no Job has two, and successors and threads
\* are in the Project of the Nodes they come from.
THEOREM Identities == Spec => []IdentitiesAgree
  <1>1. IInv => IdentitiesAgree
    BY DEF IInv, ProjectsSound, NodesSound, IdentitiesAgree
  <1>2. QED
    BY Inductive, <1>1, PTL

-----------------------------------------------------------------------------
(* What a step may never do                                                *)

\* Only these steps change a live Node or a Tombstone.
LEMMA NodeChanges ==
  ASSUME IInv, [Next]_vars
  PROVE  \/ UNCHANGED nodeVars
         \/ \E n \in Node, j \in Project : RegisterNode(n, j)
         \/ \E n \in Node, j \in Project, e \in Endpoint : ObserveEndpoint(n, j, e)
         \/ \E p \in Process, n \in Node : TombstoneNode(p, n)
         \/ \E p \in Process : UnlinkNode(p) /\ op[p].node \in Node /\ tombstone[op[p].node] # None
  <1>0. workload.nodes \subseteq Node
    BY DirectoryAssumptions DEF IInv, Typed
  <1>1. CASE DirectoryStep
    <2>1. CASE \E p \in Process : UnlinkNode(p)
      BY <2>1 DEF UnlinkNode, IInv, Exclusive, Shape, NodesSound, RetirePending
    <2>2. CASE ~ \E p \in Process : UnlinkNode(p)
      BY <1>0, <1>1, <2>2
      DEF DirectoryStep, EnsureProject, MoveProject, MoveProjectHead, AddSuccessor, WriteSuccessor,
          ClassifyExecutionThread, WriteExecutionThread, Crash, recordVars
    <2>3. QED
      BY <2>1, <2>2
  <1>2. CASE UNCHANGED recordVars \/ UNCHANGED vars
    BY <1>2 DEF recordVars, vars, directoryVars
  <1>3. QED
    BY <1>1, <1>2 DEF Next

LEMMA KnownStaysKnown ==
  ASSUME IInv, [Next]_vars
  PROVE  Stable
  <1> USE DEF IInv, Typed, NodesSound, Attached, Stable, ProjectOf
  <1>1. CASE UNCHANGED nodeVars
    BY <1>1 DEF nodeVars
  <1>2. CASE \E n \in Node, j \in Project : RegisterNode(n, j)
    BY <1>2 DEF RegisterNode, MayBeNode
  <1>3. CASE \E n \in Node, j \in Project, e \in Endpoint : ObserveEndpoint(n, j, e)
    BY <1>3 DEF ObserveEndpoint, MayBeNode
  <1>4. CASE \E p \in Process, n \in Node : TombstoneNode(p, n)
    BY <1>4 DEF TombstoneNode
  <1>5. CASE \E p \in Process : UnlinkNode(p) /\ op[p].node \in Node /\ tombstone[op[p].node] # None
    BY <1>5 DEF UnlinkNode
  <1>6. QED
    BY NodeChanges, <1>1, <1>2, <1>3, <1>4, <1>5

LEMMA TombstonesStay ==
  ASSUME IInv, [Next]_vars, NEW n \in Node, tombstone[n] # None
  PROVE  tombstone'[n] = tombstone[n] /\ node'[n] \in {node[n], None}
  <1> USE DEF IInv, Typed
  <1>1. CASE UNCHANGED nodeVars
    BY <1>1 DEF nodeVars
  <1>2. CASE \E m \in Node, j \in Project : RegisterNode(m, j)
    BY <1>2 DEF RegisterNode, MayBeNode
  <1>3. CASE \E m \in Node, j \in Project, e \in Endpoint : ObserveEndpoint(m, j, e)
    BY <1>3 DEF ObserveEndpoint, MayBeNode
  <1>4. CASE \E p \in Process, m \in Node : TombstoneNode(p, m)
    BY <1>4 DEF TombstoneNode
  <1>5. CASE \E p \in Process : UnlinkNode(p)
    BY <1>5 DEF UnlinkNode
  <1>6. QED
    BY NodeChanges, <1>1, <1>2, <1>3, <1>4, <1>5

\* Of two generations of an endpoint the later one stays selected.
LEMMA GenerationsGrow ==
  ASSUME IInv, [Next]_vars, NEW n \in Node, NEW t \in Transport,
         selected[n][t] # None, node'[n] # None
  PROVE  \/ selected'[n][t] = selected[n][t]
         \/ selected'[n][t].generation > selected[n][t].generation
  <1> USE DEF IInv, Typed
  <1>1. CASE UNCHANGED nodeVars
    BY <1>1 DEF nodeVars
  <1>2. CASE \E m \in Node, j \in Project : RegisterNode(m, j)
    BY <1>2 DEF RegisterNode
  <1>3. ASSUME NEW m \in Node, NEW j \in Project, NEW e \in Endpoint, ObserveEndpoint(m, j, e)
        PROVE  \/ selected'[n][t] = selected[n][t]
               \/ selected'[n][t].generation > selected[n][t].generation
    <2> DEFINE decision == EndpointSelection(m, e)
               endpoints == IF decision \in Successful
                              THEN [selected[m] EXCEPT ![e.transport] = e]
                              ELSE selected[m]
    <2>1. selected' = [selected EXCEPT ![m] = endpoints]
      BY <1>3 DEF ObserveEndpoint
    <2>2. CASE m = n /\ e.transport = t /\ decision \in Successful
      <3>1. decision \in {"replaced", "refreshed"}
        BY <2>2 DEF EndpointSelection, Successful
      <3>2. e = selected[n][t] \/ e.generation > selected[n][t].generation
        BY <3>1, <2>2 DEF EndpointSelection
      <3>3. selected'[n][t] = e
        BY <2>1, <2>2
      <3>4. QED
        BY <3>2, <3>3
    <2>3. CASE ~(m = n /\ e.transport = t /\ decision \in Successful)
      BY <2>1, <2>3
    <2>4. QED
      BY <2>2, <2>3
  <1>4. CASE \E p \in Process, m \in Node : TombstoneNode(p, m)
    BY <1>4 DEF TombstoneNode
  <1>5. CASE \E p \in Process : UnlinkNode(p) /\ op[p].node \in Node
    BY <1>5 DEF UnlinkNode
  <1>6. QED
    BY NodeChanges, <1>1, <1>2, <1>3, <1>4, <1>5

LEMMA HeadsMoveOnRecord ==
  ASSUME IInv, [Next]_vars, NEW j \in Project
  PROVE  \/ home'[j] = home[j] \/ home[j] = None
         \/ [from |-> home[j], to |-> home'[j]] \in transitions[j]
  <1>1. CASE home' = home
    BY <1>1
  <1>2. CASE \E i \in Project, a \in Place : EnsureProject(i, a)
    BY <1>2 DEF EnsureProject, IInv, Typed
  <1>3. ASSUME NEW p \in Process, MoveProjectHead(p)
        PROVE  \/ home'[j] = home[j]
               \/ [from |-> home[j], to |-> home'[j]] \in transitions[j]
    <2>1. /\ op[p].project \in Project
          /\ [from |-> home[op[p].project], to |-> op[p].to] \in transitions[op[p].project]
      BY <1>3 DEF MoveProjectHead, IInv, Exclusive, Shape, ProjectsSound, MovePending
    <2>2. home' = [home EXCEPT ![op[p].project] = op[p].to]
      BY <1>3 DEF MoveProjectHead
    <2>3. QED
      BY <2>1, <2>2 DEF IInv, Typed
  <1>4. \/ home' = home
        \/ \E i \in Project, a \in Place : EnsureProject(i, a)
        \/ \E p \in Process : MoveProjectHead(p)
    <2>1. CASE DirectoryStep
      BY <2>1 DEF DirectoryStep, RegisterNode, ObserveEndpoint, MoveProject, TombstoneNode, UnlinkNode,
                  AddSuccessor, WriteSuccessor, ClassifyExecutionThread, WriteExecutionThread,
                  Crash, recordVars, projectVars
    <2>2. CASE UNCHANGED recordVars \/ UNCHANGED vars
      BY <2>2 DEF recordVars, projectVars, vars, directoryVars
    <2>3. QED
      BY <2>1, <2>2 DEF Next
  <1>5. QED
    BY <1>1, <1>2, <1>3, <1>4
------------------------------------------------------------------------------
(***************************************************************************)
(* The Clusters.  One lock keeps all of them, so what an operation on them *)
(* has found is there at its next file (AtWork).  What a death leaves      *)
(* behind is stated by the properties themselves: one snapshot more than   *)
(* the head has, or a Tombstone with a head of the same version.  That the *)
(* members of every version stay known rests on the Nodes, which other     *)
(* locks keep.                                                             *)
(***************************************************************************)

Membership == [name : Name, version : Nat \ {0}, members : SUBSET Node]

ClustersTyped ==
  /\ head \in [Cluster -> Membership \cup {None}]
  /\ snapshots \in [Cluster -> Seq(Snapshot)]
  /\ clusterTombstone \in [Cluster -> [name : Name, version : Nat] \cup {None}]

Created == <<[members |-> {}, change |-> "created", changed |-> None]>>

\* What an operation has found, and needs at its next write.
AtWork(work) ==
  /\ work.step \in ClusterSteps => work.cluster \in Cluster
  /\ work.step = "createHead" =>
       /\ work.name \in Name
       /\ snapshots[work.cluster] = Created /\ head[work.cluster] = None
       /\ NamedCluster(work.name) = {} /\ ~Removed(work.cluster, work.name)
  /\ work.step = "change" => work.node \in Node /\ work.change \in {"added", "removed"}
  /\ work.step \in {"change", "changeHead", "tombstoneCluster"} =>
       head[work.cluster] # None /\ clusterTombstone[work.cluster] = None
  /\ work.step \in {"change", "tombstoneCluster"} =>
       Len(snapshots[work.cluster]) = head[work.cluster].version
  /\ work.step = "changeHead" =>
       Len(snapshots[work.cluster]) = head[work.cluster].version + 1

ClusterFacts == ClustersTyped /\ ClustersAreConsistent

Busy == \A p \in Process : AtWork(op[p])

ClusterInv == ClusterFacts /\ Busy

-----------------------------------------------------------------------------
(* Who is at work                                                          *)

LEMMA OneOnClusters ==
  ASSUME Exclusive, NEW p \in Process, NEW q \in Process, p # q,
         op[p].step \in ClusterSteps
  PROVE  op[q].step \notin ClusterSteps
  <1>1. Shape(op[p]) /\ Shape(op[q]) /\ op[p].locks \cap op[q].locks = {}
    BY DEF Exclusive
  <1>2. QED
    BY <1>1 DEF Shape

LEMMA LockedOut ==
  ASSUME Exclusive, \A lock \in ClusterLock : Free(lock), NEW q \in Process
  PROVE  op[q].step \notin ClusterSteps
  BY DEF ClusterLock, Free, Exclusive, Shape

LEMMA IdleAtWork ==
  ASSUME NEW q, op'[q].step \notin ClusterSteps
  PROVE  AtWork(op[q])'
  BY DEF AtWork, ClusterSteps

\* While p is at work on the Clusters nobody else is.
LEMMA AlonePending ==
  ASSUME IInv, NEW p \in Process, NEW work, op' = [op EXCEPT ![p] = work],
         op[p].step \in ClusterSteps \/ (\A lock \in ClusterLock : Free(lock)),
         AtWork(op[p])'
  PROVE  Busy'
  <1>1. ASSUME NEW q \in Process PROVE AtWork(op[q])'
    <2>1. CASE q = p
      BY <2>1
    <2>2. CASE q # p
      <3>1. op'[q] = op[q]
        BY <2>2, OnlyOneTurns
      <3>2. op[q].step \notin ClusterSteps
        BY <2>2, OneOnClusters, LockedOut DEF IInv
      <3>3. QED
        BY <3>1, <3>2, IdleAtWork
    <2>3. QED
      BY <2>1, <2>2
  <1>2. QED
    BY <1>1 DEF Busy

LEMMA SnapshotTyped ==
  ASSUME ClustersTyped, NEW c \in Cluster, NEW v \in DOMAIN snapshots[c]
  PROVE  snapshots[c][v] \in Snapshot
  <1>1. snapshots[c] \in Seq(Snapshot)
    BY DEF ClustersTyped
  <1>2. QED
    BY <1>1

\* A step that writes no file of a Cluster.
LEMMA ClustersFrame ==
  ASSUME IInv, ClusterInv, Stable, UNCHANGED clusterVars,
         \A q \in Process : op'[q] = op[q] \/ op'[q].step \notin ClusterSteps
  PROVE  ClusterInv'
  <1>1. ClustersTyped' /\ HeadsFollowSnapshots' /\ RemovedClustersAreComplete' /\ ClusterNamesAreUnique'
    BY DEF ClusterInv, ClusterFacts, ClustersAreConsistent, ClustersTyped, HeadsFollowSnapshots,
           RemovedClustersAreComplete, ClusterNamesAreUnique, clusterVars, ValidTransition
  <1>2. ASSUME NEW c \in Cluster, NEW v \in DOMAIN snapshots[c], NEW n \in snapshots[c][v].members
        PROVE  ProjectOf(n)' # None
    <2>1. n \in Node
      BY SnapshotTyped DEF ClusterInv, ClusterFacts, Snapshot
    <2>2. ProjectOf(n) # None
      BY DEF ClusterInv, ClusterFacts, ClustersAreConsistent, MembersAreKnown
    <2>3. QED
      BY <2>1, <2>2 DEF Stable
  <1>3. MembersAreKnown'
    BY <1>2 DEF MembersAreKnown, clusterVars, ProjectOf
  <1>4. ASSUME NEW q \in Process PROVE AtWork(op[q])'
    <2>1. CASE op'[q] = op[q]
      BY <2>1 DEF ClusterInv, Busy, AtWork, clusterVars, NamedCluster, Removed
    <2>2. CASE op'[q].step \notin ClusterSteps
      BY <2>2, IdleAtWork
    <2>3. QED
      BY <2>1, <2>2
  <1>5. QED
    BY <1>1, <1>3, <1>4 DEF ClusterInv, ClusterFacts, ClustersAreConsistent, Busy

-----------------------------------------------------------------------------
(* A head and its snapshots                                                *)

\* What HeadsFollowSnapshots says of the head h of a Cluster with snapshots s.
Follows(h, s) ==
  /\ h.version \in {Len(s), Len(s) - 1}
  /\ s[h.version].members = h.members
  /\ \A v \in 2..Len(s) : ValidTransition(s[v-1].members, s[v])

LEMMA FollowsDef ==
  HeadsFollowSnapshots <=>
    \A c \in Cluster : head[c] # None => Follows(head[c], snapshots[c])
  BY DEF HeadsFollowSnapshots, Follows

LEMMA FollowsCreated ==
  ASSUME NEW h, h.version = 1, h.members = {}
  PROVE  Follows(h, Created)
  BY DEF Follows, Created

LEMMA FollowsLatest ==
  ASSUME NEW s \in Seq(Snapshot), NEW h, NEW next, Follows(h, s),
         next.version = Len(s), next.members = s[Len(s)].members
  PROVE  Follows(next, s)
  BY DEF Follows

LEMMA FollowsAppend ==
  ASSUME NEW s \in Seq(Snapshot), NEW h, NEW next \in Snapshot, Follows(h, s),
         h.version = Len(s), s # <<>>, ValidTransition(h.members, next)
  PROVE  Follows(h, Append(s, next))
  <1> DEFINE t == Append(s, next)
  <1>1. /\ Len(s) \in Nat \ {0} /\ Len(t) = Len(s) + 1 /\ t[Len(s) + 1] = next
        /\ \A v \in 1..Len(s) : t[v] = s[v]
    OBVIOUS
  <1>2. ASSUME NEW v \in 2..Len(t) PROVE ValidTransition(t[v-1].members, t[v])
    <2>1. CASE v = Len(t)
      <3>1. v - 1 = Len(s) /\ t[v] = next /\ t[v-1] = s[Len(s)]
        BY <1>1, <2>1
      <3>2. QED
        BY <3>1 DEF Follows
    <2>2. CASE v # Len(t)
      <3>1. v \in 2..Len(s) /\ t[v] = s[v] /\ t[v-1] = s[v-1]
        BY <1>1, <2>2
      <3>2. QED
        BY <3>1 DEF Follows
    <2>3. QED
      BY <2>1, <2>2
  <1>3. Len(s) \in {Len(t), Len(t) - 1} /\ t[Len(s)].members = h.members
    BY <1>1 DEF Follows
  <1>4. QED
    BY <1>2, <1>3 DEF Follows

-----------------------------------------------------------------------------
(* Recovery                                                                *)

\* Members stay known as long as no snapshot is added.
LEMMA KnownMembers ==
  ASSUME ClusterFacts, UNCHANGED <<node, tombstone, snapshots>>
  PROVE  MembersAreKnown'
  BY DEF ClusterFacts, ClustersAreConsistent, MembersAreKnown, ProjectOf

\* RecoverFirst leaves a head that is up to date.
LEMMA RecoveryKeeps ==
  ASSUME ClusterFacts, NEW c \in Cluster, RecoverFirst(c), UNCHANGED recordVars
  PROVE  /\ ClusterFacts'
         /\ head'[c] # None /\ clusterTombstone'[c] = None
         /\ Len(snapshots'[c]) = head'[c].version
  <1> USE DEF ClusterFacts, ClustersAreConsistent
  <1> DEFINE last == Len(snapshots[c])
  <1>1. snapshots' = snapshots /\ clusterTombstone' = clusterTombstone /\ head[c] # None
        /\ clusterTombstone[c] = None
    BY DEF RecoverFirst
  <1>2. /\ head[c] \in Membership /\ last \in Nat \ {0}
        /\ snapshots[c] \in Seq(Snapshot) /\ snapshots[c] # <<>>
    BY <1>1 DEF ClustersTyped, RecoverFirst, MayRecover
  <1>3. head[c].version \in Nat /\ head[c].version <= last
        /\ head[c].version \in {last, last - 1}
    BY <1>1, <1>2 DEF Membership, RecoverFirst, MayRecover, HeadsFollowSnapshots
  <1>4. head'[c] = [name |-> head[c].name, version |-> last, members |-> snapshots[c][last].members]
        /\ \A d \in Cluster : d # c => head'[d] = head[d]
    <2>1. CASE Unapplied(c)
      <3>1. head[c].version + 1 = last /\ Latest(c) = snapshots[c][last]
        BY <1>2, <1>3, <2>1 DEF Unapplied, Latest, Last
      <3>2. head' = [head EXCEPT ![c].version = last, ![c].members = snapshots[c][last].members]
        BY <1>1, <2>1, <3>1 DEF RecoverFirst, Recovered, ClustersTyped
      <3>3. head[c] = [name |-> head[c].name, version |-> head[c].version,
                       members |-> head[c].members]
        BY <1>2 DEF Membership
      <3>4. QED
        BY <3>2, <3>3 DEF ClustersTyped
    <2>2. CASE ~Unapplied(c)
      <3>1. head' = head /\ head[c].version = last
        BY <1>3, <2>2 DEF RecoverFirst, Recovered, Unapplied
      <3>2. snapshots[c][last].members = head[c].members
        BY <1>1, <3>1 DEF HeadsFollowSnapshots
      <3>3. QED
        BY <1>2, <3>1, <3>2 DEF Membership
    <2>3. QED
      BY <2>1, <2>2
  <1>5. snapshots[c][last] \in Snapshot
    BY <1>2
  <1>6. head'[c] \in Membership /\ head' \in [Cluster -> Membership \cup {None}]
    <2>1. head'[c] \in Membership
      BY <1>2, <1>4, <1>5 DEF Membership, Snapshot
    <2>2. head' = [d \in Cluster |-> head'[d]]
      BY DEF RecoverFirst, Recovered, ClustersTyped
    <2>3. QED
      BY <1>4, <2>1, <2>2 DEF ClustersTyped
  <1>7. ClustersTyped'
    BY <1>1, <1>6 DEF ClustersTyped
  <1>8. head'[c] # None
    BY <1>6, ClusterAssumptions DEF Membership
  <1>9. HeadsFollowSnapshots'
    <2>1. Follows(head[c], snapshots[c])
      BY <1>1, FollowsDef
    <2>2. Follows(head'[c], snapshots[c])
      BY <1>2, <1>4, <2>1, FollowsLatest
    <2>3. QED
      BY <1>1, <1>4, <2>2, FollowsDef DEF HeadsFollowSnapshots, Follows
  <1>10. RemovedClustersAreComplete'
    BY <1>1, <1>4 DEF RemovedClustersAreComplete
  <1>11. ClusterNamesAreUnique'
    BY <1>1, <1>4 DEF ClusterNamesAreUnique
  <1>12. MembersAreKnown'
    BY <1>1, KnownMembers DEF recordVars, nodeVars
  <1>13. QED
    BY <1>1, <1>4, <1>7, <1>8, <1>9, <1>10, <1>11, <1>12

-----------------------------------------------------------------------------
(* The operations                                                          *)

LEMMA RecoverAloneInv ==
  ASSUME IInv, ClusterInv, NEW c \in Cluster, RecoverFirst(c), UNCHANGED recordVars,
         op' = op, \A lock \in ClusterLock : Free(lock)
  PROVE  ClusterInv'
  <1>1. ClusterFacts'
    BY RecoveryKeeps DEF ClusterInv
  <1>2. \A q \in Process : op'[q].step \notin ClusterSteps
    BY LockedOut DEF IInv
  <1>3. QED
    BY <1>1, <1>2, IdleAtWork DEF ClusterInv, Busy

LEMMA EnsureExistingClusterInv ==
  ASSUME IInv, ClusterInv, UNCHANGED recordVars,
         NEW c \in Cluster, NEW name \in Name, EnsureExistingCluster(c, name)
  PROVE  ClusterInv'
  <1>1. PICK d \in NamedCluster(name) : RecoverFirst(d)
    BY DEF EnsureExistingCluster
  <1>2. d \in Cluster
    BY DEF NamedCluster
  <1>3. QED
    BY <1>1, <1>2, RecoverAloneInv DEF EnsureExistingCluster, AtOnce

LEMMA RecoverClusterMembershipInv ==
  ASSUME IInv, ClusterInv, UNCHANGED recordVars,
         NEW c \in Cluster, RecoverClusterMembership(c)
  PROVE  ClusterInv'
  BY RecoverAloneInv DEF RecoverClusterMembership, AtOnce

\* The first step of an operation on a Cluster whose head it has recovered.
LEMMA RecoverAndBeginInv ==
  ASSUME IInv, ClusterInv, UNCHANGED recordVars, NEW c \in Cluster, RecoverFirst(c),
         NEW p \in Process, NEW command, NEW work, Begin(p, command, work),
         work.locks = ClusterLock, work.cluster = c,
         work.step = "tombstoneCluster" \/
           (work.step = "change" /\ work.node \in Node /\ work.change \in {"added", "removed"})
  PROVE  ClusterInv'
  <1>1. /\ ClusterFacts' /\ head'[c] # None /\ clusterTombstone'[c] = None
        /\ Len(snapshots'[c]) = head'[c].version
    BY RecoveryKeeps DEF ClusterInv
  <1>2. op' = [op EXCEPT ![p] = work] /\ \A lock \in ClusterLock : Free(lock)
    BY DEF Begin
  <1>3. op'[p] = work
    BY <1>2, OnlyOneTurns
  <1>4. AtWork(op[p])'
    BY <1>1, <1>3 DEF AtWork
  <1>5. Busy'
    BY <1>2, <1>4, AlonePending
  <1>6. QED
    BY <1>1, <1>5 DEF ClusterInv

LEMMA BeginChangeInv ==
  ASSUME IInv, ClusterInv, UNCHANGED recordVars, NEW p \in Process, NEW c \in Cluster,
         NEW n \in Node, NEW change \in {"added", "removed"}, BeginChange(p, c, n, change)
  PROVE  ClusterInv'
  BY RecoverAndBeginInv DEF BeginChange

LEMMA BeginRemovalInv ==
  ASSUME IInv, ClusterInv, UNCHANGED recordVars, NEW p \in Process, NEW c \in Cluster,
         BeginRemoval(p, c)
  PROVE  ClusterInv'
  BY RecoverAndBeginInv DEF BeginRemoval

LEMMA EnsureClusterInv ==
  ASSUME IInv, ClusterInv, UNCHANGED recordVars, NEW p \in Process, NEW c \in Cluster,
         NEW name \in Name, EnsureCluster(p, c, name)
  PROVE  ClusterInv'
  <1> USE DEF ClusterInv, ClusterFacts, ClustersAreConsistent
  <1> DEFINE work == [step |-> "createHead", locks |-> ClusterLock, cluster |-> c, name |-> name]
  <1>1. /\ op' = [op EXCEPT ![p] = work] /\ \A lock \in ClusterLock : Free(lock)
        /\ head' = head /\ clusterTombstone' = clusterTombstone
        /\ head[c] = None /\ clusterTombstone[c] = None
        /\ NamedCluster(name) = {} /\ ~Removed(c, name)
    BY DEF EnsureCluster, Begin, Removed
  <1>2. snapshots' = [snapshots EXCEPT ![c] = Created] /\ snapshots[c] \in {<<>>, Created}
    BY DEF EnsureCluster, Created
  <1>3. snapshots'[c] = Created /\ \A d \in Cluster : d # c => snapshots'[d] = snapshots[d]
    BY <1>2 DEF ClustersTyped
  <1>4. Created \in Seq(Snapshot) /\ Len(Created) = 1 /\ Created[1].members = {}
    BY DEF Created, Snapshot
  <1>5. ClustersTyped'
    BY <1>1, <1>2, <1>4 DEF ClustersTyped
  <1>6. HeadsFollowSnapshots' /\ RemovedClustersAreComplete' /\ ClusterNamesAreUnique'
    <2>1. HeadsFollowSnapshots'
      BY <1>1, <1>3, FollowsDef DEF HeadsFollowSnapshots, Follows
    <2>2. RemovedClustersAreComplete' /\ ClusterNamesAreUnique'
      BY <1>1, <1>3 DEF RemovedClustersAreComplete, ClusterNamesAreUnique
    <2>3. QED
      BY <2>1, <2>2
  <1>7. MembersAreKnown'
    BY <1>3, <1>4 DEF MembersAreKnown, ProjectOf, recordVars, nodeVars
  <1>8. op'[p] = work
    BY <1>1, OnlyOneTurns
  <1>9. AtWork(op[p])'
    BY <1>1, <1>3, <1>8 DEF AtWork, NamedCluster, Removed
  <1>10. Busy'
    BY <1>1, <1>9, AlonePending
  <1>11. QED
    BY <1>5, <1>6, <1>7, <1>10

LEMMA WriteFirstHeadInv ==
  ASSUME IInv, ClusterInv, UNCHANGED recordVars, NEW p \in Process, WriteFirstHead(p)
  PROVE  ClusterInv'
  <1> USE DEF ClusterInv, ClusterFacts, ClustersAreConsistent
  <1> DEFINE c == op[p].cluster
             first == [name |-> op[p].name, version |-> 1, members |-> {}]
  <1>1. /\ op[p].step = "createHead" /\ op' = [op EXCEPT ![p] = Idle]
        /\ snapshots' = snapshots /\ clusterTombstone' = clusterTombstone
    BY DEF WriteFirstHead, End, Continue
  <1>2. /\ c \in Cluster /\ op[p].name \in Name /\ snapshots[c] = Created
        /\ NamedCluster(op[p].name) = {} /\ ~Removed(c, op[p].name)
    BY <1>1 DEF Busy, AtWork, ClusterSteps
  <1>3. head' = [head EXCEPT ![c] = first]
    BY DEF WriteFirstHead
  <1>4. head'[c] = first /\ \A d \in Cluster : d # c => head'[d] = head[d]
    BY <1>2, <1>3 DEF ClustersTyped
  <1>5. ClustersTyped'
    BY <1>1, <1>2, <1>3 DEF ClustersTyped, Membership
  <1>6. Follows(first, Created)
    BY FollowsCreated
  <1>7. HeadsFollowSnapshots'
    BY <1>1, <1>2, <1>4, <1>6, FollowsDef DEF HeadsFollowSnapshots, Follows
  <1>8. RemovedClustersAreComplete' /\ ClusterNamesAreUnique'
    <2>1. \A d \in Cluster :
            /\ head[d] # None => head[d].name # op[p].name
            /\ clusterTombstone[d] # None => d # c /\ clusterTombstone[d].name # op[p].name
      BY <1>2 DEF NamedCluster, Removed
    <2>2. first.name = op[p].name
      OBVIOUS
    <2>3. RemovedClustersAreComplete'
      BY <1>1, <1>4, <2>1 DEF RemovedClustersAreComplete
    <2>4. ClusterNamesAreUnique'
      BY <1>1, <1>4, <2>1, <2>2 DEF ClusterNamesAreUnique
    <2>5. QED
      BY <2>3, <2>4
  <1>9. MembersAreKnown'
    BY <1>1, KnownMembers DEF recordVars, nodeVars
  <1>10. op'[p] = Idle
    BY <1>1, OnlyOneTurns
  <1>11. Busy'
    BY <1>1, <1>10, IdleAtWork, IdleShape, AlonePending DEF ClusterSteps
  <1>12. QED
    BY <1>5, <1>7, <1>8, <1>9, <1>11

LEMMA EndUnchangedInv ==
  ASSUME IInv, ClusterInv, UNCHANGED recordVars, NEW p \in Process, EndUnchanged(p)
  PROVE  ClusterInv'
  <1>1. op' = [op EXCEPT ![p] = Idle] /\ UNCHANGED clusterVars
    BY DEF EndUnchanged, End, Continue
  <1>2. Stable
    BY DEF Stable, ProjectOf, recordVars, nodeVars
  <1>3. \A q \in Process : op'[q] = op[q] \/ op'[q].step \notin ClusterSteps
    BY <1>1, OnlyOneTurns, IdleShape DEF ClusterSteps
  <1>4. QED
    BY <1>1, <1>2, <1>3, ClustersFrame

LEMMA WriteSnapshotInv ==
  ASSUME IInv, ClusterInv, UNCHANGED recordVars, NEW p \in Process, WriteSnapshot(p)
  PROVE  ClusterInv'
  <1> USE DEF ClusterInv, ClusterFacts, ClustersAreConsistent
  <1> DEFINE c == op[p].cluster
             n == op[p].node
             change == op[p].change
             before == head[c].members
             next == [members |-> IF change = "added" THEN before \cup {n} ELSE before \ {n},
                      change |-> change, changed |-> n]
             work == [step |-> "changeHead", locks |-> ClusterLock, cluster |-> c]
             last == Len(snapshots[c])
  <1>1. /\ op[p].step = "change" /\ op' = [op EXCEPT ![p] = work]
        /\ head' = head /\ clusterTombstone' = clusterTombstone
        /\ ~NothingToChange(c, n, change) /\ last = head[c].version
    BY DEF WriteSnapshot, Continue
  <1>2. /\ c \in Cluster /\ n \in Node /\ change \in {"added", "removed"}
        /\ head[c] # None /\ clusterTombstone[c] = None
    BY <1>1 DEF Busy, AtWork, ClusterSteps
  <1>3. snapshots' = [snapshots EXCEPT ![c] = Append(@, next)]
    BY DEF WriteSnapshot
  <1>4. head[c] \in Membership /\ snapshots[c] \in Seq(Snapshot) /\ last \in Nat
        /\ head[c].version # 0 /\ snapshots[c] # <<>>
    BY <1>1, <1>2 DEF ClustersTyped, Membership
  <1>5. next \in Snapshot
    BY <1>2, <1>4 DEF Membership, Snapshot
  <1>6. /\ snapshots'[c] = Append(snapshots[c], next)
        /\ \A d \in Cluster : d # c => snapshots'[d] = snapshots[d]
    BY <1>2, <1>3 DEF ClustersTyped
  <1>7. /\ Len(snapshots'[c]) = last + 1 /\ snapshots'[c][last + 1] = next
        /\ \A v \in 1..last : snapshots'[c][v] = snapshots[c][v]
    BY <1>4, <1>5, <1>6
  <1>8. ClustersTyped'
    <2>1. Append(snapshots[c], next) \in Seq(Snapshot)
      BY <1>4, <1>5
    <2>2. QED
      BY <1>1, <1>2, <1>3, <2>1 DEF ClustersTyped
  <1>9. Follows(head[c], snapshots[c])
    BY <1>2, FollowsDef
  <1>10. ValidTransition(before, next)
    BY <1>1, <1>2, SMTT(30) DEF NothingToChange, ValidTransition
  <1>11. HeadsFollowSnapshots'
    <2>1. Follows(head[c], Append(snapshots[c], next))
      BY <1>1, <1>4, <1>5, <1>9, <1>10, FollowsAppend
    <2>2. QED
      BY <1>1, <1>6, <2>1, FollowsDef, ZenonT(30) DEF HeadsFollowSnapshots, Follows
  <1>12. RemovedClustersAreComplete' /\ ClusterNamesAreUnique'
    BY <1>1, <1>2, <1>6 DEF RemovedClustersAreComplete, ClusterNamesAreUnique
  <1>13. MembersAreKnown'
    <2>1. ASSUME NEW m \in next.members PROVE ProjectOf(m) # None
      <3>1. CASE m \in before
        BY <1>1, <1>2, <1>4, <1>9, <3>1 DEF MembersAreKnown, Follows
      <3>2. CASE m \notin before
        BY <1>1, <1>2, <2>1, <3>2 DEF NothingToChange, ProjectOf
      <3>3. QED
        BY <3>1, <3>2
    <2>2. ASSUME NEW d \in Cluster, NEW v \in DOMAIN snapshots'[d],
                 NEW m \in snapshots'[d][v].members
          PROVE  ProjectOf(m) # None
      <3>1. CASE d # c
        BY <1>6, <2>2, <3>1 DEF MembersAreKnown
      <3>2. CASE d = c /\ v = last + 1
        BY <1>7, <2>1, <2>2, <3>2
      <3>3. CASE d = c /\ v # last + 1
        <4>1. DOMAIN snapshots'[c] = 1..(last + 1)
          BY <1>4, <1>5, <1>6
        <4>2. v \in 1..last /\ snapshots'[c][v] = snapshots[c][v]
          BY <1>4, <1>7, <2>2, <3>3, <4>1
        <4>3. v \in DOMAIN snapshots[c] /\ m \in snapshots[c][v].members
          BY <1>4, <2>2, <3>3, <4>2
        <4>4. QED
          BY <1>2, <4>3 DEF MembersAreKnown
      <3>4. QED
        BY <3>1, <3>2, <3>3
    <2>3. QED
      BY <2>2 DEF MembersAreKnown, ProjectOf, recordVars, nodeVars
  <1>14. op'[p] = work
    BY <1>1, OnlyOneTurns
  <1>15. AtWork(op[p])'
    BY <1>1, <1>2, <1>4, <1>7, <1>14 DEF AtWork
  <1>16. Busy'
    BY <1>1, <1>15, AlonePending DEF ClusterSteps
  <1>17. QED
    BY <1>8, <1>11, <1>12, <1>13, <1>16

LEMMA WriteHeadInv ==
  ASSUME IInv, ClusterInv, UNCHANGED recordVars, NEW p \in Process, WriteHead(p)
  PROVE  ClusterInv'
  <1> USE DEF ClusterInv, ClusterFacts, ClustersAreConsistent
  <1> DEFINE c == op[p].cluster
             last == Len(snapshots[c])
             next == [name |-> head[c].name, version |-> last,
                      members |-> snapshots[c][last].members]
  <1>1. /\ op[p].step = "changeHead" /\ op' = [op EXCEPT ![p] = Idle]
        /\ snapshots' = snapshots /\ clusterTombstone' = clusterTombstone
    BY DEF WriteHead, End, Continue
  <1>2. /\ c \in Cluster /\ head[c] # None /\ clusterTombstone[c] = None
        /\ last = head[c].version + 1
    BY <1>1 DEF Busy, AtWork, ClusterSteps
  <1>3. head[c] \in Membership /\ snapshots[c] \in Seq(Snapshot) /\ last \in Nat \ {0}
    BY <1>2 DEF ClustersTyped, Membership
  <1>4. head[c] = [name |-> head[c].name, version |-> head[c].version, members |-> head[c].members]
        /\ Latest(c) = snapshots[c][last] /\ snapshots[c][last] \in Snapshot
    BY <1>3 DEF Membership, Latest, Last
  <1>5. head' = [head EXCEPT ![c].version = last, ![c].members = snapshots[c][last].members]
    BY <1>4, SMTT(30) DEF WriteHead
  <1>6. /\ head' = [d \in Cluster |-> head'[d]]
        /\ head'[c] = next /\ \A d \in Cluster : d # c => head'[d] = head[d]
    BY <1>2, <1>4, <1>5 DEF ClustersTyped
  <1>7. next \in Membership
    BY <1>3, <1>4 DEF Membership, Snapshot
  <1>8. ClustersTyped'
    BY <1>1, <1>2, <1>6, <1>7 DEF ClustersTyped
  <1>9. HeadsFollowSnapshots'
    <2>1. Follows(head[c], snapshots[c])
      BY <1>2, FollowsDef
    <2>2. Follows(next, snapshots[c])
      BY <1>3, <2>1, FollowsLatest
    <2>3. QED
      BY <1>1, <1>6, <2>2, FollowsDef DEF HeadsFollowSnapshots, Follows
  <1>10. RemovedClustersAreComplete' /\ ClusterNamesAreUnique'
    BY <1>1, <1>2, <1>6 DEF RemovedClustersAreComplete, ClusterNamesAreUnique
  <1>11. MembersAreKnown'
    BY <1>1, KnownMembers DEF recordVars, nodeVars
  <1>12. op'[p] = Idle
    BY <1>1, OnlyOneTurns
  <1>13. Busy'
    BY <1>1, <1>12, IdleAtWork, IdleShape, AlonePending DEF ClusterSteps
  <1>14. QED
    BY <1>8, <1>9, <1>10, <1>11, <1>13

LEMMA TombstoneClusterInv ==
  ASSUME IInv, ClusterInv, UNCHANGED recordVars, NEW p \in Process, TombstoneCluster(p)
  PROVE  ClusterInv'
  <1> USE DEF ClusterInv, ClusterFacts, ClustersAreConsistent
  <1> DEFINE c == op[p].cluster
             removed == [name |-> head[c].name, version |-> head[c].version]
             work == [step |-> "unlinkCluster", locks |-> ClusterLock, cluster |-> c]
  <1>1. /\ op[p].step = "tombstoneCluster" /\ op' = [op EXCEPT ![p] = work]
        /\ snapshots' = snapshots /\ head' = head
        /\ clusterTombstone' = [clusterTombstone EXCEPT ![c] = removed]
    BY DEF TombstoneCluster, Continue
  <1>2. /\ c \in Cluster /\ head[c] # None /\ clusterTombstone[c] = None
        /\ Len(snapshots[c]) = head[c].version
    BY <1>1 DEF Busy, AtWork, ClusterSteps
  <1>3. removed \in [name : Name, version : Nat]
    BY <1>2 DEF ClustersTyped, Membership
  <1>4. /\ clusterTombstone'[c] = removed
        /\ \A d \in Cluster : d # c => clusterTombstone'[d] = clusterTombstone[d]
    BY <1>1, <1>2 DEF ClustersTyped
  <1>5. ClustersTyped'
    BY <1>1, <1>2, <1>3 DEF ClustersTyped
  <1>6. HeadsFollowSnapshots'
    BY <1>1, FollowsDef DEF HeadsFollowSnapshots, Follows
  <1>7. RemovedClustersAreComplete' /\ ClusterNamesAreUnique'
    BY <1>1, <1>2, <1>4 DEF RemovedClustersAreComplete, ClusterNamesAreUnique
  <1>8. MembersAreKnown'
    BY <1>1, KnownMembers DEF recordVars, nodeVars
  <1>9. op'[p] = work
    BY <1>1, OnlyOneTurns
  <1>10. AtWork(op[p])'
    BY <1>2, <1>9 DEF AtWork
  <1>11. Busy'
    BY <1>1, <1>10, AlonePending DEF ClusterSteps
  <1>12. QED
    BY <1>5, <1>6, <1>7, <1>8, <1>11

LEMMA UnlinkClusterInv ==
  ASSUME IInv, ClusterInv, UNCHANGED recordVars, NEW p \in Process, UnlinkCluster(p)
  PROVE  ClusterInv'
  <1> USE DEF ClusterInv, ClusterFacts, ClustersAreConsistent
  <1> DEFINE c == op[p].cluster
  <1>1. /\ op[p].step = "unlinkCluster" /\ op' = [op EXCEPT ![p] = Idle]
        /\ snapshots' = snapshots /\ clusterTombstone' = clusterTombstone
        /\ head' = [head EXCEPT ![c] = None]
    BY DEF UnlinkCluster, End, Continue
  <1>2. c \in Cluster
    BY <1>1 DEF Busy, AtWork, ClusterSteps
  <1>3. head'[c] = None /\ \A d \in Cluster : d # c => head'[d] = head[d]
    BY <1>1, <1>2 DEF ClustersTyped
  <1>4. ClustersTyped'
    BY <1>1, <1>2 DEF ClustersTyped
  <1>5. HeadsFollowSnapshots'
    BY <1>1, <1>3, FollowsDef DEF HeadsFollowSnapshots, Follows
  <1>6. RemovedClustersAreComplete' /\ ClusterNamesAreUnique'
    BY <1>1, <1>3 DEF RemovedClustersAreComplete, ClusterNamesAreUnique
  <1>7. MembersAreKnown'
    BY <1>1, KnownMembers DEF recordVars, nodeVars
  <1>8. op'[p] = Idle
    BY <1>1, OnlyOneTurns
  <1>9. Busy'
    BY <1>1, <1>8, IdleAtWork, IdleShape, AlonePending DEF ClusterSteps
  <1>10. QED
    BY <1>4, <1>5, <1>6, <1>7, <1>9

-----------------------------------------------------------------------------
(* The theorems                                                            *)

LEMMA InitClusterInv == Init => ClusterInv
  <1> SUFFICES ASSUME Init PROVE ClusterInv
    OBVIOUS
  <1>1. ClustersTyped
    BY DEF Init, ClusterInit, ClustersTyped
  <1>2. ClustersAreConsistent
    BY DEF Init, ClusterInit, ClustersAreConsistent, HeadsFollowSnapshots,
           RemovedClustersAreComplete, ClusterNamesAreUnique, MembersAreKnown
  <1>3. Busy
    BY IdleShape DEF Init, DirectoryInit, Busy, AtWork, ClusterSteps
  <1>4. QED
    BY <1>1, <1>2, <1>3 DEF ClusterInv, ClusterFacts

\* The steps of the Directory start no work on Clusters.
LEMMA DirectoryWork ==
  ASSUME IInv, DirectoryStep, NEW q \in Process
  PROVE  op'[q] = op[q] \/ op'[q].step \notin ClusterSteps
  <1>1. CASE op' = op
    BY <1>1
  <1>2. ASSUME NEW p \in Process, NEW work, op' = [op EXCEPT ![p] = work],
               work.step \notin ClusterSteps
        PROVE  op'[q] = op[q] \/ op'[q].step \notin ClusterSteps
    BY <1>2, OnlyOneTurns
  <1>3. ASSUME NEW p \in Process, op' = [op EXCEPT ![p] = Idle]
        PROVE  op'[q] = op[q] \/ op'[q].step \notin ClusterSteps
    BY <1>2, <1>3, IdleShape DEF ClusterSteps
  <1>4. \/ op' = op
        \/ \E p \in Process : op' = [op EXCEPT ![p] = Idle]
        \/ \E p \in Process : \/ \E j \in Project, a \in Place : MoveProject(p, j, a)
                              \/ \E n \in Node : TombstoneNode(p, n)
                              \/ \E from, to \in Node : AddSuccessor(p, from, to)
                              \/ \E n \in Codex, k \in Job : ClassifyExecutionThread(p, n, k)
    BY DEF DirectoryStep, EnsureProject, RegisterNode, ObserveEndpoint, MoveProjectHead, UnlinkNode,
           WriteSuccessor, WriteExecutionThread, Crash, End, Continue, AtOnce
  <1>5. ASSUME NEW p \in Process, NEW j \in Project, NEW a \in Place, MoveProject(p, j, a)
        PROVE  op'[q] = op[q] \/ op'[q].step \notin ClusterSteps
    BY <1>2, <1>5 DEF MoveProject, Begin, ClusterSteps
  <1>6. ASSUME NEW p \in Process, NEW n \in Node, TombstoneNode(p, n)
        PROVE  op'[q] = op[q] \/ op'[q].step \notin ClusterSteps
    BY <1>2, <1>6 DEF TombstoneNode, Begin, ClusterSteps
  <1>7. ASSUME NEW p \in Process, NEW from \in Node, NEW to \in Node, AddSuccessor(p, from, to)
        PROVE  op'[q] = op[q] \/ op'[q].step \notin ClusterSteps
    BY <1>2, <1>7 DEF AddSuccessor, Begin, ClusterSteps
  <1>8. ASSUME NEW p \in Process, NEW n \in Codex, NEW k \in Job, ClassifyExecutionThread(p, n, k)
        PROVE  op'[q] = op[q] \/ op'[q].step \notin ClusterSteps
    BY <1>2, <1>8 DEF ClassifyExecutionThread, Begin, ClusterSteps
  <1>9. QED
    BY <1>1, <1>3, <1>4, <1>5, <1>6, <1>7, <1>8

LEMMA NextClusterInv == IInv /\ ClusterInv /\ [Next]_vars => ClusterInv'
  <1> SUFFICES ASSUME IInv, ClusterInv, [Next]_vars PROVE ClusterInv'
    OBVIOUS
  <1>0. Stable
    BY KnownStaysKnown
  <1>1. CASE DirectoryStep /\ UNCHANGED clusterVars
    BY <1>0, <1>1, DirectoryWork, ClustersFrame
  <1>2. CASE ClusterStep /\ UNCHANGED recordVars
    <2>1. workload.nodes \subseteq Node
      BY DirectoryAssumptions DEF IInv, Typed
    <2>2. QED
      BY <1>2, <2>1, EnsureExistingClusterInv, RecoverClusterMembershipInv, EnsureClusterInv,
         WriteFirstHeadInv, BeginChangeInv, EndUnchangedInv, WriteSnapshotInv, WriteHeadInv,
         BeginRemovalInv, TombstoneClusterInv, UnlinkClusterInv
      DEF ClusterStep
  <1>3. CASE PolicyStep /\ UNCHANGED clusterVars
    BY <1>0, <1>3, ClustersFrame
    DEF PolicyStep, UpsertInboundDenyRule, RemoveInboundDenyRule, AtOnce
  <1>4. CASE UNCHANGED vars
    BY <1>0, <1>4, ClustersFrame DEF vars, directoryVars
  <1>5. QED
    BY <1>1, <1>2, <1>3, <1>4 DEF Next

LEMMA ClusterInductive == Spec => []ClusterInv
  BY InitClusterInv, NextClusterInv, Inductive, PTL DEF Spec

\* Whoever dies between the snapshot, the head and the Tombstone of a Cluster,
\* its history is one that recovery accepts, a removed Cluster is at its last
\* version, names are unique, and every member there ever was is known.
THEOREM Clusters == Spec => []ClustersAreConsistent
  <1>1. ClusterInv => ClustersAreConsistent
    BY DEF ClusterInv, ClusterFacts
  <1>2. QED
    BY ClusterInductive, <1>1, PTL

LEMMA SnapshotsGrow ==
  ASSUME IInv, ClusterInv, [Next]_vars, NEW c \in Cluster
  PROVE  /\ Len(snapshots'[c]) - Len(snapshots[c]) \in {0, 1}
         /\ IsPrefix(snapshots[c], snapshots'[c])
  <1> DEFINE old == snapshots[c]  new == snapshots'[c]
  <1>1. old \in Seq(Snapshot) /\ Len(old) \in Nat
    BY DEF ClusterInv, ClusterFacts, ClustersTyped
  <1>2. CASE new = old
    BY <1>1, <1>2 DEF IsPrefix
  <1>3. CASE old = <<>> /\ new = Created
    BY <1>3 DEF IsPrefix, Created
  <1>4. ASSUME NEW next \in Snapshot, new = Append(old, next)
        PROVE  Len(new) - Len(old) \in {0, 1} /\ IsPrefix(old, new)
    <2>1. Len(new) = Len(old) + 1 /\ \A v \in 1..Len(old) : new[v] = old[v]
      BY <1>1, <1>4
    <2>2. SubSeq(old, 1, Len(old)) = SubSeq(new, 1, Len(old))
      BY <1>1, <1>4, <2>1
    <2>3. QED
      BY <1>1, <2>1, <2>2 DEF IsPrefix
  <1>5. ASSUME NEW p \in Process, NEW d \in Cluster, NEW name \in Name, EnsureCluster(p, d, name)
        PROVE  new = old \/ (old = <<>> /\ new = Created)
    BY <1>5 DEF EnsureCluster, Created, ClusterInv, ClusterFacts, ClustersTyped
  <1>6. ASSUME NEW p \in Process, WriteSnapshot(p)
        PROVE  new = old \/ \E next \in Snapshot : new = Append(old, next)
    <2> DEFINE d == op[p].cluster
               change == op[p].change
               next == [members |-> IF change = "added" THEN head[d].members \cup {op[p].node}
                                                         ELSE head[d].members \ {op[p].node},
                        change |-> change, changed |-> op[p].node]
    <2>1. snapshots' = [snapshots EXCEPT ![d] = Append(@, next)] /\ op[p].step = "change"
      BY <1>6 DEF WriteSnapshot
    <2>2. /\ d \in Cluster /\ op[p].node \in Node /\ change \in {"added", "removed"}
          /\ head[d] # None
      BY <2>1 DEF ClusterInv, Busy, AtWork, ClusterSteps
    <2>3. next \in Snapshot
      BY <2>2 DEF ClusterInv, ClusterFacts, ClustersTyped, Membership, Snapshot
    <2>4. QED
      BY <2>1, <2>3 DEF ClusterInv, ClusterFacts, ClustersTyped
  <1>7. \/ snapshots' = snapshots
        \/ \E p \in Process, d \in Cluster, name \in Name : EnsureCluster(p, d, name)
        \/ \E p \in Process : WriteSnapshot(p)
    BY DEF Next, ClusterStep, EnsureExistingCluster, RecoverClusterMembership, RecoverFirst,
           WriteFirstHead, BeginChange, EndUnchanged, WriteHead, BeginRemoval, TombstoneCluster,
           UnlinkCluster, clusterVars, vars
  <1>8. QED
    BY <1>2, <1>3, <1>4, <1>5, <1>6, <1>7

\* No step rewrites what is recorded as history, whatever it was that died
\* before it.
THEOREM History == Spec => HistoryIsFinal
  <1>1. IInv /\ [Next]_vars =>
          [\A j \in Project :
             home'[j] = home[j] \/ home[j] = None
             \/ [from |-> home[j], to |-> home'[j]] \in transitions[j]]_directoryVars
    BY HeadsMoveOnRecord
  <1>2. IInv /\ [Next]_vars =>
          [\A n \in Node : tombstone[n] # None =>
             /\ tombstone'[n] = tombstone[n]
             /\ node'[n] \in {node[n], None}]_directoryVars
    BY TombstonesStay
  <1>3. IInv /\ [Next]_vars =>
          [\A n \in Node, t \in Transport :
             selected[n][t] # None /\ node'[n] # None =>
               \/ selected'[n][t] = selected[n][t]
               \/ selected'[n][t].generation > selected[n][t].generation]_directoryVars
    BY GenerationsGrow
  <1>4. IInv /\ ClusterInv /\ [Next]_vars =>
          [\A c \in Cluster :
             /\ Len(snapshots'[c]) - Len(snapshots[c]) \in {0, 1}
             /\ IsPrefix(snapshots[c], snapshots'[c])]_clusterVars
    BY SnapshotsGrow
  <1>5. QED
    BY Inductive, ClusterInductive, <1>1, <1>2, <1>3, <1>4, PTL
    DEF Spec, HistoryIsFinal, HeadsFollowTransitions, TombstonesAreFinal, GenerationsNeverGoBack,
        SnapshotsAreImmutable

-----------------------------------------------------------------------------
(***************************************************************************)
(* The records.  Chains of successors end because the Nodes can be ranked  *)
(* so that every successor ranks higher: a walk only goes down, and a link *)
(* that is to be written (LinkFree) starts from a walk that was found to   *)
(* end, so that ranking all others above it makes room for it.  A history  *)
(* keeps the evidence of what is selected because one observation for each *)
(* transport is all that is required, and there are fewer of those than    *)
(* observations when one has to go.                                        *)
(***************************************************************************)

(* Least numbers, and walks along the predecessors                         *)

\* A non-empty set of numbers has a least one.  It stands in for induction over
\* a recursive function.
LEMMA LeastNat ==
  ASSUME NEW T, T \subseteq Nat, T # {}
  PROVE  \E x \in T : \A y \in T : x <= y
  <1> DEFINE R == {ss \in Nat \X Nat : ss[1] < ss[2]}
  <1>1. IsWellFoundedOn(R, Nat)
    BY NatLessThanWellFounded DEF OpToRel
  <1> HIDE DEF R
  <1>2. PICK x \in T : \A y \in T : ~(<<y, x>> \in R)
    BY <1>1, WFMin
  <1>3. \A y \in T : ~(y < x)
    BY <1>2 DEF R
  <1>4. QED
    BY <1>2, <1>3

\* Induction up to a bound.
LEMMA UpTo ==
  ASSUME NEW b \in Nat, NEW S, 0 \in S, \A i \in 1..b : i - 1 \in S => i \in S
  PROVE  \A i \in 0..b : i \in S
  <1> DEFINE T == {i \in 0..b : i \notin S}
  <1>1. SUFFICES ASSUME T # {} PROVE FALSE
    OBVIOUS
  <1>2. PICK x \in T : \A y \in T : x <= y
    <2>1. T \subseteq Nat
      OBVIOUS
    <2> HIDE DEF T
    <2>2. QED
      BY <1>1, <2>1, LeastNat
  <1>3. x \in 1..b /\ x - 1 \in 0..b /\ x - 1 \notin T
    BY <1>2
  <1>4. QED
    BY <1>2, <1>3

Steps == Cardinality(Node)

\* at is the walk from n along the predecessors.
Walks(at, n) ==
  /\ at[0] = n
  /\ \A i \in 1..Steps : at[i] = IF at[i-1] = None THEN None ELSE predecessor[at[i-1]]

LEMMA StepsType == Steps \in Nat
  BY DirectoryAssumptions, FS_CardinalityType DEF Steps

LEMMA LastStep == Steps \in 0..Steps
  BY StepsType

LEMMA WalkIsThere ==
  ASSUME NEW n
  PROVE  \E at : Walks(at, n) /\ Walk(n) = {at[i] : i \in 0..Steps}
  <1> DEFINE Body(at, i) == IF i = 0 THEN n
                            ELSE IF at[i-1] = None THEN None ELSE predecessor[at[i-1]]
             S == {k \in Nat : \E at : at = [i \in 0..k |-> Body(at, i)]}
  <1>1. 0 \in S
    <2>1. [i \in 0..0 |-> n] = [i \in 0..0 |-> Body([j \in 0..0 |-> n], i)]
      OBVIOUS
    <2>2. QED
      BY <2>1
  <1>2. ASSUME NEW k \in 1..Steps, k - 1 \in S PROVE k \in S
    <2>1. PICK f : f = [i \in 0..k-1 |-> Body(f, i)]
      BY <1>2
    <2> DEFINE g == [i \in 0..k |-> IF i < k THEN f[i] ELSE Body(f, k)]
    <2>2. \A i \in 0..k : g[i] = Body(g, i)
      <3> TAKE i \in 0..k
      <3>0. k \in Nat
        BY StepsType
      <3>1. i # 0 => g[i-1] = f[i-1]
        BY <3>0
      <3>2. Body(g, i) = Body(f, i)
        BY <3>1
      <3>3. i < k => f[i] = Body(f, i)
        BY <2>1, <3>0
      <3>4. QED
        BY <3>0, <3>2, <3>3
    <2>3. g = [i \in 0..k |-> Body(g, i)]
      BY <2>2
    <2> HIDE DEF g
    <2>4. \E at : at = [i \in 0..k |-> Body(at, i)]
      BY <2>3
    <2>5. QED
      BY <2>4, StepsType
  <1>3. Steps \in S
    <2> HIDE DEF S
    <2>1. \A i \in 1..Steps : i - 1 \in S => i \in S
      BY <1>2
    <2>2. \A i \in 0..Steps : i \in S
      BY <1>1, <2>1, StepsType, UpTo, SMTT(30)
    <2>3. QED
      BY <2>2, LastStep
  <1> DEFINE walk == CHOOSE at : at = [i \in 0..Steps |-> Body(at, i)]
  <1>4. walk = [i \in 0..Steps |-> Body(walk, i)]
    BY <1>3
  <1>5. Walk(n) = {walk[i] : i \in 0..Steps}
    BY DEF Walk, Steps
  <1> HIDE DEF walk
  <1>6. Walks(walk, n)
    BY <1>4, StepsType DEF Walks
  <1>7. QED
    BY <1>5, <1>6

-----------------------------------------------------------------------------
(* Ranks                                                                   *)

\* Ranks of Nodes that grow along the successors.
Ranks(rank) ==
  /\ rank \in [Node -> Nat]
  /\ \A n \in Node : predecessor[n] # None => rank[predecessor[n]] < rank[n]

LEMMA WalkOfNodes ==
  ASSUME Typed, NEW n \in Node, NEW at, Walks(at, n), NEW rank, Ranks(rank)
  PROVE  \A i \in 0..Steps : at[i] = None \/ (at[i] \in Node /\ rank[at[i]] <= rank[n])
  <1> DEFINE S == {i \in Nat : at[i] = None \/ (at[i] \in Node /\ rank[at[i]] <= rank[n])}
  <1>1. 0 \in S
    BY DEF Walks, Ranks
  <1>2. ASSUME NEW i \in 1..Steps, i - 1 \in S PROVE i \in S
    <2>1. CASE at[i-1] = None
      BY <2>1, StepsType DEF Walks
    <2>2. CASE at[i-1] \in Node /\ rank[at[i-1]] <= rank[n] /\ at[i-1] # None
      <3>1. at[i] = predecessor[at[i-1]] /\ i \in Nat
        BY <2>2, StepsType DEF Walks
      <3>2. at[i] = None \/ (at[i] \in Node /\ rank[at[i]] < rank[at[i-1]])
        BY <2>2, <3>1 DEF Ranks, Typed
      <3>3. rank[n] \in Nat /\ rank[at[i-1]] \in Nat /\ (at[i] \in Node => rank[at[i]] \in Nat)
        BY <2>2 DEF Ranks
      <3>4. QED
        BY <2>2, <3>1, <3>2, <3>3
    <2>3. QED
      BY <1>2, <2>1, <2>2
  <1> HIDE DEF S
  <1>3. \A i \in 1..Steps : i - 1 \in S => i \in S
    BY <1>2
  <1>4. \A i \in 0..Steps : i \in S
    BY <1>1, <1>3, StepsType, UpTo
  <1>5. QED
    BY <1>4 DEF S

LEMMA RanksMeanAcyclic ==
  ASSUME Typed, NEW rank, Ranks(rank)
  PROVE  SuccessorsAreAcyclic
  <1> SUFFICES ASSUME NEW n \in Node, predecessor[n] # None, n \in Walk(predecessor[n]) PROVE FALSE
    BY DEF SuccessorsAreAcyclic
  <1>1. PICK m \in Node : m = predecessor[n]
    BY DEF Typed
  <1>2. PICK at : Walks(at, m) /\ Walk(m) = {at[i] : i \in 0..Steps}
    BY WalkIsThere
  <1>3. PICK i \in 0..Steps : n = at[i]
    BY <1>1, <1>2
  <1>4. n # None
    BY DirectoryAssumptions
  <1>5. rank[n] <= rank[m]
    BY <1>1, <1>2, <1>3, <1>4, WalkOfNodes
  <1>6. rank[m] < rank[n] /\ rank[n] \in Nat /\ rank[m] \in Nat
    BY <1>1 DEF Ranks
  <1>7. QED
    BY <1>5, <1>6

\* What a walk that ends has met, it has met the predecessor of.
LEMMA WalkIsClosed ==
  ASSUME NEW n \in Node, None \in Walk(n)
  PROVE  n \in Walk(n) /\ \A m \in Walk(n) : m # None => predecessor[m] \in Walk(n)
  <1>0. Steps \in Nat
    BY StepsType
  <1>1. PICK at : Walks(at, n) /\ Walk(n) = {at[i] : i \in 0..Steps}
    BY WalkIsThere
  <1>2. PICK j \in 0..Steps : at[j] = None
    BY <1>1
  <1> DEFINE S == {k \in Nat : j <= k => at[k] = None}
  <1>3. 0 \in S
    BY <1>2
  <1>4. ASSUME NEW i \in 1..Steps, i - 1 \in S PROVE i \in S
    <2>1. CASE j <= i - 1
      BY <1>0, <1>1, <1>4, <2>1 DEF Walks
    <2>2. CASE ~(j <= i - 1)
      BY <1>0, <1>2, <2>2
    <2>3. QED
      BY <2>1, <2>2
  <1>5. at[Steps] = None
    <2> HIDE DEF S
    <2>1. \A i \in 1..Steps : i - 1 \in S => i \in S
      BY <1>4
    <2>2. Steps \in S
      BY <1>0, <1>3, <2>1, UpTo
    <2>3. QED
      BY <1>0, <2>2 DEF S
  <1>6. at[0] = n /\ 0 \in 0..Steps
    BY <1>0, <1>1 DEF Walks
  <1>7. ASSUME NEW i \in 0..Steps, at[i] # None PROVE predecessor[at[i]] \in Walk(n)
    <2>1. i # Steps
      BY <1>5, <1>7
    <2>2. i + 1 \in 1..Steps /\ (i + 1) - 1 = i
      BY <1>0, <2>1
    <2>3. at[i+1] = predecessor[at[i]]
      BY <1>1, <1>7, <2>2 DEF Walks
    <2>4. QED
      BY <1>0, <1>1, <2>2, <2>3
  <1>8. QED
    BY <1>1, <1>6, <1>7

\* A link from the end of a walk that ends, and does not meet to, is no circle.
LEMMA LinkKeepsRanks ==
  ASSUME Typed, NEW rank, Ranks(rank), NEW from \in Node, NEW to \in Node,
         to \notin Walk(from), None \in Walk(from),
         predecessor' = [predecessor EXCEPT ![to] = from]
  PROVE  \E r : Ranks(r)'
  <1>a. PICK W : W = Walk(from)
    OBVIOUS
  <1>b. PICK r : r = [m \in Node |-> IF m \in W THEN rank[m] ELSE rank[m] + rank[from] + 1]
    OBVIOUS
  <1>1. from \in W /\ \A m \in W : m # None => predecessor[m] \in W
    BY <1>a, WalkIsClosed
  <1>2. to \notin W
    BY <1>a
  <1>3. rank[from] \in Nat
    BY DEF Ranks
  <1>4. r \in [Node -> Nat]
    BY <1>b, <1>3 DEF Ranks
  <1>5. ASSUME NEW n \in Node, predecessor'[n] # None PROVE r[predecessor'[n]] < r[n]
    <2>0. rank[n] \in Nat /\ n # None
      BY DirectoryAssumptions DEF Ranks
    <2>1. CASE n = to
      <3>1. predecessor'[n] = from
        BY <2>1 DEF Typed
      <3>2. r[from] = rank[from] /\ r[n] = rank[n] + rank[from] + 1
        BY <1>1, <1>2, <1>b, <2>1
      <3>3. QED
        BY <1>3, <2>0, <3>1, <3>2
    <2>2. CASE n # to
      <3>1. PICK q \in Node : predecessor'[n] = q /\ predecessor[n] = q
        BY <1>5, <2>2 DEF Typed
      <3>2. rank[q] < rank[n] /\ rank[q] \in Nat
        BY <1>5, <2>2, <3>1 DEF Ranks, Typed
      <3>3. n \in W => q \in W
        BY <1>1, <2>0, <3>1
      <3>4. QED
        BY <1>3, <1>b, <2>0, <3>1, <3>2, <3>3
    <2>3. QED
      BY <2>1, <2>2
  <1>6. Ranks(r)'
    BY <1>4, <1>5 DEF Ranks
  <1>7. QED
    BY <1>6

-----------------------------------------------------------------------------
(* What processes turn to                                                  *)

Work == NodeWork \cup ClusterWork

\* p turns to some work; a link is begun by AddSuccessor only.
TurnsTo(p, work) ==
  /\ work \in Work
  /\ op' = [op EXCEPT ![p] = work]
  /\ work.step = "link" => \E from, to \in Node : AddSuccessor(p, from, to)

LEMMA IdleWork == Idle \in Work
  BY DEF Work, NodeWork

LEMMA EndTurns ==
  ASSUME NEW p \in Process, op' = [op EXCEPT ![p] = Idle]
  PROVE  \E work : TurnsTo(p, work)
  BY IdleWork, IdleShape DEF TurnsTo

LEMMA ClusterTurns ==
  ASSUME NEW p \in Process, NEW work \in ClusterWork, op' = [op EXCEPT ![p] = work]
  PROVE  \E w : TurnsTo(p, w)
  <1>1. work.step # "link"
    BY DEF ClusterWork
  <1>2. QED
    BY <1>1 DEF TurnsTo, Work

\* Every step turns one process, or none.
LEMMA OneTurnsToWork ==
  ASSUME IInv, ClusterInv, [Next]_vars
  PROVE  op' = op \/ \E p \in Process : \E work : TurnsTo(p, work)
  <1>0. workload.nodes \subseteq Node /\ Codex \subseteq Node
    BY DirectoryAssumptions DEF IInv, Typed
  <1>1. CASE DirectoryStep
    <2>1. ASSUME NEW p \in Process, NEW j \in Project, NEW a \in Place, MoveProject(p, j, a)
          PROVE  \E work : TurnsTo(p, work)
      <3> DEFINE work == [step |-> "move", locks |-> {"projects"}, project |-> j, to |-> a]
      <3>1. work \in Work /\ work.step # "link" /\ op' = [op EXCEPT ![p] = work]
        BY <2>1 DEF Work, NodeWork, MoveWork, MoveProject, Begin
      <3>2. QED
        BY <3>1 DEF TurnsTo
    <2>2. ASSUME NEW p \in Process, NEW n \in Node, TombstoneNode(p, n)
          PROVE  \E work : TurnsTo(p, work)
      <3> DEFINE work == [step |-> "retire", locks |-> {n}, node |-> n]
      <3>1. work \in [step : {"retire"}, locks : {{n}}, node : {n}]
        OBVIOUS
      <3>2. work \in RetireWork
        BY <3>1 DEF RetireWork
      <3>3. work \in Work
        BY <3>2 DEF Work, NodeWork
      <3>4. work.step # "link" /\ op' = [op EXCEPT ![p] = work]
        BY <2>2 DEF TombstoneNode, Begin
      <3>5. QED
        BY <3>3, <3>4 DEF TurnsTo
    <2>3. ASSUME NEW p \in Process, NEW from \in Node, NEW to \in Node, AddSuccessor(p, from, to)
          PROVE  \E work : TurnsTo(p, work)
      <3> DEFINE work == [step |-> "link", locks |-> {"successors"}, from |-> from, to |-> to]
      <3>1. work \in Work
        BY DEF Work, NodeWork, LinkWork
      <3>2. op' = [op EXCEPT ![p] = work]
        BY <2>3 DEF AddSuccessor, Begin
      <3>3. QED
        BY <2>3, <3>1, <3>2 DEF TurnsTo
    <2>4. ASSUME NEW p \in Process, NEW n \in Codex, NEW k \in Job, ClassifyExecutionThread(p, n, k)
          PROVE  \E work : TurnsTo(p, work)
      <3> DEFINE record == [job |-> k, project |-> node[SourceOf[k]]]
                 work == [step |-> "classify", locks |-> {n, "execution-threads"}, thread |-> n,
                          record |-> record]
      <3>1. record \in [job : Job, project : Project \cup {None}]
        BY <1>0, DirectoryAssumptions DEF IInv, Typed
      <3>2. work \in [step : {"classify"}, locks : {{n, "execution-threads"}}, thread : {n},
                      record : [job : Job, project : Project \cup {None}]]
        BY <3>1
      <3>3. work \in ClassifyWork
        BY <3>2 DEF ClassifyWork
      <3>4. work \in Work
        BY <3>3 DEF Work, NodeWork
      <3>5. work.step # "link" /\ op' = [op EXCEPT ![p] = work]
        BY <2>4 DEF ClassifyExecutionThread, Begin
      <3>6. QED
        BY <3>4, <3>5 DEF TurnsTo
    <2>5. \/ op' = op
          \/ \E p \in Process : op' = [op EXCEPT ![p] = Idle]
          \/ \E p \in Process : \/ \E j \in Project, a \in Place : MoveProject(p, j, a)
                                \/ \E n \in Node : TombstoneNode(p, n)
                                \/ \E from, to \in Node : AddSuccessor(p, from, to)
                                \/ \E n \in Codex, k \in Job : ClassifyExecutionThread(p, n, k)
      BY <1>1 DEF DirectoryStep, EnsureProject, RegisterNode, ObserveEndpoint, MoveProjectHead,
             UnlinkNode, WriteSuccessor, WriteExecutionThread, Crash, End, Continue, AtOnce
    <2>6. QED
      BY <2>1, <2>2, <2>3, <2>4, <2>5, EndTurns
  <1>2. CASE ClusterStep
    <2>1. ASSUME NEW p \in Process, NEW c \in Cluster, NEW name \in Name, EnsureCluster(p, c, name)
          PROVE  \E work : TurnsTo(p, work)
      BY <2>1, ClusterTurns DEF EnsureCluster, Begin, ClusterWork
    <2>2. ASSUME NEW p \in Process, NEW c \in Cluster, NEW n \in Node,
                 NEW change \in {"added", "removed"}, BeginChange(p, c, n, change)
          PROVE  \E work : TurnsTo(p, work)
      BY <2>2, ClusterTurns DEF BeginChange, Begin, ClusterWork
    <2>3. ASSUME NEW p \in Process, NEW c \in Cluster, BeginRemoval(p, c)
          PROVE  \E work : TurnsTo(p, work)
      BY <2>3, ClusterTurns DEF BeginRemoval, Begin, ClusterWork
    <2>4. ASSUME NEW p \in Process, WriteSnapshot(p) \/ TombstoneCluster(p)
          PROVE  \E work : TurnsTo(p, work)
      <3>1. op[p].cluster \in Cluster
        BY <2>4 DEF WriteSnapshot, TombstoneCluster, ClusterInv, Busy, AtWork, ClusterSteps
      <3>2. QED
        BY <2>4, <3>1, ClusterTurns DEF WriteSnapshot, TombstoneCluster, Continue, ClusterWork
    <2>5. \/ op' = op
          \/ \E p \in Process : op' = [op EXCEPT ![p] = Idle]
          \/ \E p \in Process :
               \/ \E c \in Cluster, name \in Name : EnsureCluster(p, c, name)
               \/ \E c \in Cluster, n \in Node, change \in {"added", "removed"} :
                    BeginChange(p, c, n, change)
               \/ \E c \in Cluster : BeginRemoval(p, c)
               \/ WriteSnapshot(p) \/ TombstoneCluster(p)
      BY <1>0, <1>2 DEF ClusterStep, EnsureExistingCluster, RecoverClusterMembership, WriteFirstHead,
             EndUnchanged, WriteHead, UnlinkCluster, End, Continue, AtOnce
    <2>6. QED
      BY <2>1, <2>2, <2>3, <2>4, <2>5, EndTurns
  <1>3. CASE PolicyStep \/ UNCHANGED vars
    BY <1>3 DEF PolicyStep, UpsertInboundDenyRule, RemoveInboundDenyRule, AtOnce, vars, directoryVars
  <1>4. QED
    BY <1>1, <1>2, <1>3 DEF Next

\* The successor to be written closes no circle.
LinkFree(work) == work.step = "link" => work.to \notin Walk(work.from) /\ None \in Walk(work.from)

Linked ==
  /\ \E rank : Ranks(rank)
  /\ \A p \in Process : LinkFree(op[p])

LEMMA PredecessorChanges ==
  ASSUME [Next]_vars
  PROVE  predecessor' = predecessor \/ \E p \in Process : WriteSuccessor(p)
  <1>1. CASE DirectoryStep
    BY <1>1
    DEF DirectoryStep, EnsureProject, RegisterNode, ObserveEndpoint, MoveProject, MoveProjectHead,
        TombstoneNode, UnlinkNode, AddSuccessor, ClassifyExecutionThread, WriteExecutionThread,
        Crash, recordVars
  <1>2. CASE UNCHANGED recordVars \/ UNCHANGED vars
    BY <1>2 DEF recordVars, vars, directoryVars
  <1>3. QED
    BY <1>1, <1>2 DEF Next

LEMMA LinkedStep ==
  ASSUME IInv, ClusterInv, Linked, [Next]_vars
  PROVE  Linked'
  <1>1. CASE predecessor' = predecessor
    <2>1. \E rank : Ranks(rank)'
      BY <1>1 DEF Linked, Ranks
    <2>2. \A n : Walk(n)' = Walk(n)
      BY <1>1 DEF Walk
    <2>3. ASSUME NEW q \in Process PROVE LinkFree(op[q])'
      <3>1. CASE op'[q] = op[q] \/ op'[q].step # "link"
        BY <2>2, <3>1 DEF Linked, LinkFree
      <3>2. ASSUME NEW p \in Process, NEW work, TurnsTo(p, work)
            PROVE  \/ op'[q] = op[q] \/ op'[q].step # "link"
                   \/ \E from, to \in Node : AddSuccessor(q, from, to)
        BY <3>2, OnlyOneTurns DEF TurnsTo
      <3>3. ASSUME NEW from \in Node, NEW to \in Node, AddSuccessor(q, from, to)
            PROVE  LinkFree(op[q])'
        <4>1. PICK work :
                /\ work = [step |-> "link", locks |-> {"successors"}, from |-> from, to |-> to]
                /\ op' = [op EXCEPT ![q] = work]
          BY <3>3 DEF AddSuccessor, Begin
        <4>2. op'[q] = work
          BY <4>1, OnlyOneTurns
        <4>3. to \notin Walk(from) /\ None \in Walk(from)
          BY <3>3 DEF AddSuccessor
        <4>4. QED
          BY <2>2, <4>1, <4>2, <4>3 DEF LinkFree
      <3>4. QED
        BY <3>1, <3>2, <3>3, OneTurnsToWork
    <2>4. QED
      BY <2>1, <2>3 DEF Linked
  <1>2. ASSUME NEW p \in Process, WriteSuccessor(p) PROVE Linked'
    <2>1. op[p].step = "link" /\ op[p].from \in Node /\ op[p].to \in Node
      BY <1>2 DEF WriteSuccessor, IInv, Exclusive, Shape
    <2>2. \E rank : Ranks(rank)'
      BY <1>2, <2>1, LinkKeepsRanks DEF WriteSuccessor, Linked, LinkFree, IInv
    <2>3. op'[p] = Idle /\ \A q \in Process : q # p => op'[q] = op[q]
      BY <1>2, OnlyOneTurns DEF WriteSuccessor, End, Continue
    <2>4. \A q \in Process : q # p => op[q].step # "link"
      BY <2>1 DEF IInv, Exclusive, Shape
    <2>5. QED
      BY <2>2, <2>3, <2>4, IdleShape DEF Linked, LinkFree
  <1>3. QED
    BY <1>1, <1>2, PredecessorChanges

-----------------------------------------------------------------------------
(* Histories and their evidence                                            *)

\* Successful observations of transport t.
Seen(observations, t) ==
  {i \in DOMAIN observations : /\ observations[i].endpoint.transport = t
                               /\ observations[i].decision \in Successful}

\* The last of them is of the endpoint selected.
Attested(observations, endpoints) ==
  \A t \in Transport :
    IF endpoints[t] = None
      THEN Seen(observations, t) = {}
      ELSE \E i \in Seen(observations, t) :
             /\ \A k \in Seen(observations, t) : k <= i
             /\ observations[i].endpoint = endpoints[t]

InUse(endpoints) == {t \in Transport : endpoints[t] # None}

\* What is selected after observation o.
Selecting(endpoints, o) ==
  IF o.decision \in Successful
    THEN [endpoints EXCEPT ![o.endpoint.transport] = o.endpoint]
    ELSE endpoints

\* A history that one more observation fits in.
Evidence(observations, endpoints) ==
  /\ observations \in Seq(Observation) /\ Len(observations) <= HistoryLimit
  /\ endpoints \in [Transport -> Endpoint \cup {None}]
  /\ IsFiniteSet(InUse(endpoints)) /\ Cardinality(InUse(endpoints)) <= TransportLimit
  /\ Attested(observations, endpoints)

LEMMA Limits == TransportLimit \in Nat /\ HistoryLimit \in Nat /\ TransportLimit <= HistoryLimit
  BY DirectoryAssumptions

LEMMA IntervalCount ==
  ASSUME NEW n \in Nat
  PROVE  IsFiniteSet(1..n) /\ Cardinality(1..n) = n
  <1>1. /\ IsFiniteSet(1..n)
        /\ Cardinality(1..n) = IF 1 > n THEN 0 ELSE n - 1 + 1
    <2>1. 1 \in Int /\ n \in Int
      OBVIOUS
    <2>2. QED
      BY <2>1, FS_Interval
  <1>2. QED
    BY <1>1

\* A history that is one too long has an observation to spare.
LEMMA SomethingToSpare ==
  ASSUME NEW observations \in Seq(Observation), Len(observations) > HistoryLimit,
         NEW endpoints, IsFiniteSet(InUse(endpoints)),
         Cardinality(InUse(endpoints)) <= TransportLimit
  PROVE  DOMAIN observations \ RequiredObservations(observations, endpoints) # {}
  <1> DEFINE R == RequiredObservations(observations, endpoints)
             U == InUse(endpoints)
             n == Len(observations)
  <1>1. /\ n \in Nat /\ DOMAIN observations = 1..n
        /\ R \subseteq 1..n
    BY DEF RequiredObservations
  <1>2. SUFFICES ASSUME R = 1..n PROVE FALSE
    BY <1>1
  <1>3. IsFiniteSet(1..n) /\ Cardinality(1..n) = n
    BY <1>1, IntervalCount
  <1> DEFINE f == [i \in R |-> CHOOSE t \in Transport :
                     /\ endpoints[t] # None
                     /\ Observes(observations[i], endpoints[t])
                     /\ \A k \in DOMAIN observations :
                          k > i => ~Observes(observations[k], endpoints[t])]
  <1>4. ASSUME NEW i \in R
        PROVE  /\ f[i] \in U
               /\ Observes(observations[i], endpoints[f[i]])
               /\ \A k \in DOMAIN observations :
                    k > i => ~Observes(observations[k], endpoints[f[i]])
    BY DEF RequiredObservations, InUse
  <1> HIDE DEF f
  <1>5. \A i, k \in R : f[i] = f[k] => i = k
    BY <1>1, <1>4
  <1>6. f \in Injection(R, U)
    <2>1. f \in [R -> U]
      BY <1>4 DEF f
    <2>2. QED
      BY <2>1, <1>5 DEF Injection, IsInjective
  <1> HIDE DEF R, U
  <1>7. Cardinality(R) <= Cardinality(U)
    BY <1>6, FS_Injection DEF U
  <1>8. Cardinality(U) \in Nat
    BY FS_CardinalityType DEF U
  <1>9. QED
    BY <1>1, <1>2, <1>3, <1>7, <1>8, Limits DEF U

\* What RemoveAt leaves.
LEMMA Removal ==
  ASSUME NEW S, NEW s \in Seq(S), NEW o \in 1..Len(s)
  PROVE  /\ RemoveAt(s, o) \in Seq(S)
         /\ Len(RemoveAt(s, o)) = Len(s) - 1
         /\ \A i \in 1..Len(s) - 1 : RemoveAt(s, o)[i] = IF i < o THEN s[i] ELSE s[i+1]
  <1>1. Len(s) \in Nat /\ \A i \in 1..Len(s) : s[i] \in S
    OBVIOUS
  <1>2. PICK a \in Seq(S) : a = SubSeq(s, 1, o - 1)
    <2>1. \A i \in 1..o-1 : s[i] \in S
      BY <1>1
    <2>2. 1 \in Int /\ o - 1 \in Int
      BY <1>1
    <2>3. SubSeq(s, 1, o - 1) \in Seq(S)
      BY <2>1, <2>2, SubSeqProperties
    <2>4. QED
      BY <2>3
  <1>3. Len(a) = o - 1 /\ \A i \in 1..o-1 : a[i] = s[i]
    BY <1>1, <1>2
  <1>4. PICK b \in Seq(S) : b = SubSeq(s, o + 1, Len(s))
    <2>1. \A i \in o+1..Len(s) : s[i] \in S
      BY <1>1
    <2>2. o + 1 \in Int /\ Len(s) \in Int
      BY <1>1
    <2>3. SubSeq(s, o + 1, Len(s)) \in Seq(S)
      BY <2>1, <2>2, SubSeqProperties
    <2>4. QED
      BY <2>3
  <1>5. Len(b) = Len(s) - o /\ \A i \in 1..Len(s)-o : b[i] = s[o+i]
    BY <1>1, <1>4
  <1>6. RemoveAt(s, o) = a \o b
    BY <1>2, <1>4 DEF RemoveAt
  <1>7. /\ a \o b \in Seq(S) /\ Len(a \o b) = Len(s) - 1
        /\ \A i \in 1..Len(s)-1 : (a \o b)[i] = IF i <= o - 1 THEN a[i] ELSE b[i - (o-1)]
    BY <1>1, <1>3, <1>5, ConcatProperties
  <1>8. ASSUME NEW i \in 1..Len(s)-1
        PROVE  (a \o b)[i] = IF i < o THEN s[i] ELSE s[i+1]
    <2>1. CASE i < o
      BY <1>1, <1>3, <1>7, <2>1
    <2>2. CASE ~(i < o)
      <3>1. i - (o-1) \in 1..Len(s)-o /\ o + (i - (o-1)) = i + 1
        BY <1>1, <2>2
      <3>2. QED
        BY <1>1, <1>5, <1>7, <2>2, <3>1
    <2>3. QED
      BY <2>1, <2>2
  <1>9. QED
    BY <1>6, <1>7, <1>8

\* Taking out an observation that is not required loses no evidence.
LEMMA SpareKeepsAttested ==
  ASSUME NEW observations \in Seq(Observation), NEW endpoints, Attested(observations, endpoints),
         NEW o \in DOMAIN observations \ RequiredObservations(observations, endpoints)
  PROVE  Attested(RemoveAt(observations, o), endpoints)
  <1>a. PICK n \in Nat : n = Len(observations)
    OBVIOUS
  <1>b. PICK s \in Seq(Observation) : /\ s = RemoveAt(observations, o) /\ Len(s) = n - 1
          /\ \A i \in 1..n-1 : s[i] = IF i < o THEN observations[i] ELSE observations[i+1]
    <2>1. o \in 1..Len(observations)
      OBVIOUS
    <2>2. /\ RemoveAt(observations, o) \in Seq(Observation)
          /\ Len(RemoveAt(observations, o)) = Len(observations) - 1
          /\ \A i \in 1..Len(observations)-1 :
               RemoveAt(observations, o)[i] = IF i < o THEN observations[i] ELSE observations[i+1]
      BY <2>1, Removal
    <2>3. QED
      BY <1>a, <2>2
  <1>c. DOMAIN s = 1..Len(s) /\ DOMAIN observations = 1..Len(observations)
    OBVIOUS
  <1>0. /\ DOMAIN observations = 1..n /\ o \in 1..n /\ DOMAIN s = 1..n-1
        /\ \A i \in 1..n-1 : s[i] = IF i < o THEN observations[i] ELSE observations[i+1]
    BY <1>a, <1>b, <1>c
  <1> SUFFICES ASSUME NEW t \in Transport
               PROVE  IF endpoints[t] = None
                        THEN Seen(s, t) = {}
                        ELSE \E i \in Seen(s, t) : /\ \A k \in Seen(s, t) : k <= i
                                                   /\ s[i].endpoint = endpoints[t]
    BY <1>b DEF Attested
  <1>1. ASSUME NEW k \in Seen(s, t)
        PROVE  \E m \in Seen(observations, t) : m = (IF k < o THEN k ELSE k + 1)
    <2>1. k \in 1..n-1 /\ s[k].endpoint.transport = t /\ s[k].decision \in Successful
      BY <1>0 DEF Seen
    <2>2. CASE k < o
      BY <1>0, <2>1, <2>2 DEF Seen
    <2>3. CASE ~(k < o)
      BY <1>0, <2>1, <2>3 DEF Seen
    <2>4. QED
      BY <2>2, <2>3
  <1>2. CASE endpoints[t] = None
    BY <1>1, <1>2 DEF Attested
  <1>3. CASE endpoints[t] # None
    <2>1. PICK i \in Seen(observations, t) :
            (\A k \in Seen(observations, t) : k <= i) /\ observations[i].endpoint = endpoints[t]
      BY <1>3 DEF Attested
    <2>2. i \in RequiredObservations(observations, endpoints)
      <3>1. Observes(observations[i], endpoints[t])
        BY <2>1 DEF Observes, Seen
      <3>2. ASSUME NEW k \in DOMAIN observations, k > i, Observes(observations[k], endpoints[t])
            PROVE  FALSE
        <4>1. k \in Seen(observations, t)
          BY <2>1, <3>2 DEF Observes, Seen
        <4>2. QED
          BY <1>0, <2>1, <3>2, <4>1 DEF Seen
      <3>3. QED
        BY <1>3, <3>1, <3>2 DEF RequiredObservations, Seen
    <2>3. /\ i \in 1..n /\ i # o
          /\ observations[i].endpoint.transport = t /\ observations[i].decision \in Successful
      BY <1>0, <2>2 DEF Seen
    <2>4. PICK j \in 1..n-1 : j = IF i < o THEN i ELSE i - 1
      BY <1>0, <2>3
    <2>5. s[j] = observations[i]
      BY <1>0, <2>3, <2>4
    <2>6. j \in Seen(s, t)
      BY <1>0, <2>3, <2>5 DEF Seen
    <2>7. ASSUME NEW k \in Seen(s, t) PROVE k <= j
      <3>1. k \in 1..n-1
        BY <1>0 DEF Seen
      <3>2. (IF k < o THEN k ELSE k + 1) <= i
        BY <1>1, <2>1
      <3>3. QED
        BY <1>0, <2>3, <2>4, <3>1, <3>2
    <2>8. QED
      BY <1>3, <2>1, <2>5, <2>6, <2>7
  <1>4. QED
    BY <1>2, <1>3

LEMMA CompactionKeepsEvidence ==
  ASSUME NEW observations \in Seq(Observation), Len(observations) <= HistoryLimit + 1,
         NEW endpoints \in [Transport -> Endpoint \cup {None}],
         IsFiniteSet(InUse(endpoints)), Cardinality(InUse(endpoints)) <= TransportLimit,
         Attested(observations, endpoints)
  PROVE  Evidence(CompactEndpointHistory(observations, endpoints), endpoints)
  <1>1. CASE Len(observations) <= HistoryLimit
    BY <1>1 DEF CompactEndpointHistory, Evidence
  <1>2. CASE ~(Len(observations) <= HistoryLimit)
    <2> DEFINE spare == DOMAIN observations \ RequiredObservations(observations, endpoints)
               oldest == CHOOSE i \in spare : \A k \in spare : i <= k
    <2>0. Len(observations) > HistoryLimit /\ Len(observations) = HistoryLimit + 1
      BY <1>2, Limits
    <2>1. spare # {}
      BY <2>0, SomethingToSpare
    <2>2. spare \subseteq 1..Len(observations) /\ spare \subseteq Nat
      OBVIOUS
    <2>3. oldest \in spare
      <3> HIDE DEF spare
      <3>1. \E i \in spare : \A k \in spare : i <= k
        BY <2>1, <2>2, LeastNat
      <3>2. QED
        BY <3>1
    <2>4. CompactEndpointHistory(observations, endpoints) = RemoveAt(observations, oldest)
      BY <1>2 DEF CompactEndpointHistory
    <2> HIDE DEF oldest
    <2>5. Attested(RemoveAt(observations, oldest), endpoints)
      BY <2>3, SpareKeepsAttested
    <2>6. /\ RemoveAt(observations, oldest) \in Seq(Observation)
          /\ Len(RemoveAt(observations, oldest)) = Len(observations) - 1
      BY <2>2, <2>3, Removal
    <2>7. QED
      BY <2>0, <2>4, <2>5, <2>6, Limits DEF Evidence
  <1>3. QED
    BY <1>1, <1>2

\* One more observation, and the selection it makes.
LEMMA ObservationAttested ==
  ASSUME NEW H \in Seq(Observation), NEW s \in [Transport -> Endpoint \cup {None}],
         Attested(H, s), NEW o \in Observation, NEW s1,
         s1 = Selecting(s, o)
  PROVE  Attested(Append(H, o), s1)
  <1> USE DEF Selecting
  <1> DEFINE n == Len(H)
             G == Append(H, o)
  <1>1. /\ n \in Nat /\ DOMAIN H = 1..n /\ G \in Seq(Observation) /\ Len(G) = n + 1
        /\ DOMAIN G = 1..n+1 /\ G[n+1] = o /\ \A i \in 1..n : G[i] = H[i]
    OBVIOUS
  <1> HIDE DEF G
  <1>2. o.endpoint.transport \in Transport /\ o.endpoint \in Endpoint /\ o.endpoint # None
    <2>1. None \notin Endpoint
      BY DirectoryAssumptions DEF Endpoint
    <2>2. QED
      BY <2>1 DEF Observation, Endpoint
  <1> SUFFICES ASSUME NEW t \in Transport
               PROVE  IF s1[t] = None
                        THEN Seen(G, t) = {}
                        ELSE \E i \in Seen(G, t) : /\ \A k \in Seen(G, t) : k <= i
                                                   /\ G[i].endpoint = s1[t]
    BY DEF Attested, G
  <1>3. CASE o.decision \in Successful /\ o.endpoint.transport = t
    <2>1. s1[t] = o.endpoint
      BY <1>2, <1>3
    <2>2. n + 1 \in Seen(G, t) /\ \A k \in Seen(G, t) : k <= n + 1
      BY <1>1, <1>3 DEF Seen
    <2>3. QED
      BY <1>1, <1>2, <2>1, <2>2
  <1>4. CASE ~(o.decision \in Successful /\ o.endpoint.transport = t)
    <2>1. s1[t] = s[t]
      BY <1>2, <1>4
    <2>2. Seen(G, t) = Seen(H, t)
      BY <1>1, <1>4 DEF Seen
    <2>3. \A i \in Seen(H, t) : G[i] = H[i]
      BY <1>1 DEF Seen
    <2>4. QED
      BY <2>1, <2>2, <2>3 DEF Attested
  <1>5. QED
    BY <1>3, <1>4

LEMMA SameObservationAttested ==
  ASSUME NEW H \in Seq(Observation), NEW s \in [Transport -> Endpoint \cup {None}],
         Attested(H, s), H # <<>>, NEW o \in Observation, Last(H) = o, NEW s1,
         s1 = Selecting(s, o)
  PROVE  Attested(H, s1)
  <1> USE DEF Selecting
  <1> DEFINE n == Len(H)
  <1>1. n \in Nat /\ n > 0 /\ DOMAIN H = 1..n /\ H[n] = o
    BY DEF Last
  <1>2. o.endpoint.transport \in Transport /\ o.endpoint \in Endpoint /\ o.endpoint # None
    <2>1. None \notin Endpoint
      BY DirectoryAssumptions DEF Endpoint
    <2>2. QED
      BY <2>1 DEF Observation, Endpoint
  <1> SUFFICES ASSUME NEW t \in Transport
               PROVE  IF s1[t] = None
                        THEN Seen(H, t) = {}
                        ELSE \E i \in Seen(H, t) : /\ \A k \in Seen(H, t) : k <= i
                                                   /\ H[i].endpoint = s1[t]
    BY DEF Attested
  <1>3. CASE o.decision \in Successful /\ o.endpoint.transport = t
    <2>1. s1[t] = o.endpoint
      BY <1>2, <1>3
    <2>2. n \in Seen(H, t) /\ \A k \in Seen(H, t) : k <= n
      BY <1>1, <1>3 DEF Seen
    <2>3. QED
      BY <1>1, <1>2, <2>1, <2>2
  <1>4. CASE ~(o.decision \in Successful /\ o.endpoint.transport = t)
    <2>1. s1[t] = s[t]
      BY <1>2, <1>4
    <2>2. QED
      BY <2>1 DEF Attested
  <1>5. QED
    BY <1>3, <1>4

LEMMA ObservationKeepsEvidence ==
  ASSUME NEW H, NEW s, Evidence(H, s), NEW o \in Observation, NEW s1,
         s1 = Selecting(s, o),
         s[o.endpoint.transport] # None \/ Cardinality(InUse(s)) < TransportLimit
  PROVE  Evidence(AppendEndpointObservation(H, o, s1), s1)
  <1> USE DEF Selecting
  <1>1. /\ H \in Seq(Observation) /\ Len(H) <= HistoryLimit
        /\ s \in [Transport -> Endpoint \cup {None}] /\ Attested(H, s)
    BY DEF Evidence
  <1>2. o.endpoint.transport \in Transport /\ o.endpoint \in Endpoint
    BY DEF Observation, Endpoint
  <1>3. s1 \in [Transport -> Endpoint \cup {None}]
    BY <1>1, <1>2
  <1>4. IsFiniteSet(InUse(s1)) /\ Cardinality(InUse(s1)) <= TransportLimit
    <2>0. /\ IsFiniteSet(InUse(s))
          /\ Cardinality(InUse(s)) \in Nat /\ Cardinality(InUse(s)) <= TransportLimit
      BY FS_CardinalityType DEF Evidence
    <2>1. CASE s1 = s
      BY <2>0, <2>1
    <2>2. CASE s1 # s
      <3>1. None # o.endpoint
        BY <1>2, DirectoryAssumptions DEF Endpoint
      <3>2. InUse(s1) = InUse(s) \cup {o.endpoint.transport}
        BY <1>1, <1>2, <2>2, <3>1 DEF InUse
      <3>3. /\ IsFiniteSet(InUse(s1))
            /\ Cardinality(InUse(s1)) = IF o.endpoint.transport \in InUse(s)
                                          THEN Cardinality(InUse(s)) ELSE Cardinality(InUse(s)) + 1
        <4>1. PICK U, t : U = InUse(s) /\ t = o.endpoint.transport
          OBVIOUS
        <4>2. /\ IsFiniteSet(U \cup {t})
              /\ Cardinality(U \cup {t}) = IF t \in U THEN Cardinality(U) ELSE Cardinality(U) + 1
          BY <2>0, <4>1, FS_AddElement
        <4>3. QED
          BY <3>2, <4>1, <4>2
      <3>4. o.endpoint.transport \in InUse(s) <=> s[o.endpoint.transport] # None
        BY <1>2 DEF InUse
      <3>5. QED
        BY <2>0, <3>3, <3>4, Limits
    <2>3. QED
      BY <2>1, <2>2
  <1>5. CASE H # <<>> /\ Last(H) = o
    <2>1. AppendEndpointObservation(H, o, s1) = H
      BY <1>5 DEF AppendEndpointObservation
    <2>2. Attested(H, s1)
      BY <1>1, <1>5, SameObservationAttested
    <2>3. QED
      BY <1>1, <1>3, <1>4, <2>1, <2>2 DEF Evidence
  <1>6. CASE ~(H # <<>> /\ Last(H) = o)
    <2>1. AppendEndpointObservation(H, o, s1) = CompactEndpointHistory(Append(H, o), s1)
      BY <1>6 DEF AppendEndpointObservation
    <2>2. /\ Append(H, o) \in Seq(Observation) /\ Len(Append(H, o)) <= HistoryLimit + 1
          /\ Attested(Append(H, o), s1)
      <3>1. Append(H, o) \in Seq(Observation) /\ Len(Append(H, o)) = Len(H) + 1
        BY <1>1
      <3>2. Attested(Append(H, o), s1)
        BY <1>1, ObservationAttested
      <3>3. QED
        BY <1>1, <3>1, <3>2, Limits
    <2>3. QED
      BY <1>3, <1>4, <2>1, <2>2, CompactionKeepsEvidence
  <1>7. QED
    BY <1>5, <1>6

Histories ==
  /\ history = [n \in Node |-> history[n]]
  /\ \A n \in Node : Evidence(history[n], selected[n])

LEMMA EmptyEvidence == Evidence(<<>>, NoEndpoints)
  <1>1. InUse(NoEndpoints) = {}
    BY DEF InUse, NoEndpoints
  <1>2. Attested(<<>>, NoEndpoints)
    BY DEF Attested, NoEndpoints, Seen
  <1>3. QED
    BY <1>1, <1>2, Limits, FS_EmptySet DEF Evidence, NoEndpoints

LEMMA HistoriesStep ==
  ASSUME IInv, Histories, [Next]_vars
  PROVE  Histories'
  <1>1. CASE UNCHANGED <<selected, history>>
    BY <1>1 DEF Histories
  <1>2. ASSUME NEW n \in Node, NEW j \in Project, NEW e \in Endpoint, ObserveEndpoint(n, j, e)
        PROVE  Histories'
    <2> DEFINE decision == EndpointSelection(n, e)
               endpoints == IF decision \in Successful
                              THEN [selected[n] EXCEPT ![e.transport] = e]
                              ELSE selected[n]
               o == [endpoint |-> e, decision |-> decision]
    <2>1. o \in Observation
      BY DEF EndpointSelection, Observation, Decisions, Successful
    <2>2. /\ selected' = [selected EXCEPT ![n] = endpoints]
          /\ history' = [history EXCEPT ![n] = AppendEndpointObservation(@, o, endpoints)]
          /\ selected[n][e.transport] # None \/ Cardinality(InUse(selected[n])) < TransportLimit
      BY <1>2 DEF ObserveEndpoint, TransportsInUse, InUse
    <2>3. Evidence(AppendEndpointObservation(history[n], o, endpoints), endpoints)
      BY <2>1, <2>2, ObservationKeepsEvidence DEF Histories, Selecting
    <2> HIDE DEF endpoints, o
    <2>4. history' = [m \in Node |-> IF m = n
                        THEN AppendEndpointObservation(history[n], o, endpoints) ELSE history[m]]
      BY <2>2 DEF Histories
    <2>5. selected' = [m \in Node |-> IF m = n THEN endpoints ELSE selected[m]]
      BY <2>2 DEF IInv, Typed
    <2>6. \A m \in Node : Evidence(history'[m], selected'[m])
      BY <2>3, <2>4, <2>5 DEF Histories
    <2>7. history' = [m \in Node |-> history'[m]]
      BY <2>4
    <2>8. QED
      BY <2>6, <2>7 DEF Histories, Evidence, Attested, Seen, InUse
  <1>3. ASSUME NEW p \in Process, UnlinkNode(p), op[p].node \in Node PROVE Histories'
    <2>1. PICK n \in Node : n = op[p].node
      BY <1>3
    <2>2. /\ selected' = [selected EXCEPT ![n] = NoEndpoints]
          /\ history' = [history EXCEPT ![n] = <<>>]
      BY <1>3, <2>1 DEF UnlinkNode
    <2>4. history' = [m \in Node |-> IF m = n THEN <<>> ELSE history[m]]
      BY <2>2 DEF Histories
    <2>5. selected' = [m \in Node |-> IF m = n THEN NoEndpoints ELSE selected[m]]
      BY <2>2 DEF IInv, Typed
    <2>6. \A m \in Node : Evidence(history'[m], selected'[m])
      BY <2>4, <2>5, EmptyEvidence DEF Histories
    <2>7. history' = [m \in Node |-> history'[m]]
      BY <2>4
    <2>8. QED
      BY <2>6, <2>7 DEF Histories, Evidence, Attested, Seen, InUse
  <1>4. QED
    BY <1>1, <1>2, <1>3, NodeChanges DEF nodeVars, RegisterNode, TombstoneNode

-----------------------------------------------------------------------------
(* Bounds                                                                  *)

\* What the types say beyond Typed and ClustersTyped.
Bounded ==
  /\ \A p \in Process : op[p] \in Work
  /\ crashes \in 0..MaxCrashes
  /\ PoliciesTypeOK
  /\ \A c \in Cluster : /\ Len(snapshots[c]) <= MaxVersion
                        /\ clusterTombstone[c] # None => clusterTombstone[c].version > 0

RecordInv == Linked /\ Histories /\ Bounded

LEMMA WorkStep ==
  ASSUME IInv, ClusterInv, Bounded, [Next]_vars, NEW q \in Process
  PROVE  op'[q] \in Work
  <1>1. ASSUME NEW p \in Process, NEW work, TurnsTo(p, work) PROVE op'[q] \in Work
    BY <1>1, OnlyOneTurns DEF TurnsTo, Bounded
  <1>2. QED
    BY <1>1, OneTurnsToWork DEF Bounded

LEMMA CrashesStep ==
  ASSUME Bounded, [Next]_vars
  PROVE  crashes' \in 0..MaxCrashes
  <1>1. ASSUME NEW p \in Process, Crash(p) PROVE crashes' \in 0..MaxCrashes
    BY <1>1, DirectoryAssumptions DEF Crash, Bounded
  <1>2. CASE DirectoryStep /\ ~ \E p \in Process : Crash(p)
    <2>1. crashes' = crashes
      BY <1>2, ZenonT(30) DEF DirectoryStep, EnsureProject, RegisterNode, ObserveEndpoint,
         MoveProject, MoveProjectHead, TombstoneNode, UnlinkNode, AddSuccessor, WriteSuccessor,
         ClassifyExecutionThread, WriteExecutionThread, AtOnce, Begin, End, Continue
    <2>2. QED
      BY <2>1 DEF Bounded
  <1>3. CASE ClusterStep
    <2>1. crashes' = crashes
      BY <1>3, ZenonT(30) DEF ClusterStep, EnsureExistingCluster, RecoverClusterMembership,
         EnsureCluster, WriteFirstHead, BeginChange, EndUnchanged, WriteSnapshot, WriteHead,
         BeginRemoval, TombstoneCluster, UnlinkCluster, AtOnce, Begin, End, Continue
    <2>2. QED
      BY <2>1 DEF Bounded
  <1>4. CASE PolicyStep
    BY <1>4 DEF Bounded, PolicyStep, UpsertInboundDenyRule, RemoveInboundDenyRule, AtOnce
  <1>5. CASE UNCHANGED vars
    BY <1>5 DEF Bounded, vars, directoryVars
  <1>6. QED
    BY <1>1, <1>2, <1>3, <1>4, <1>5 DEF Next

LEMMA PoliciesStep ==
  ASSUME IInv, Bounded, [Next]_vars
  PROVE  PoliciesTypeOK'
  <1>0. workload.nodes \subseteq Node
    BY DirectoryAssumptions DEF IInv, Typed
  <1>1. CASE PolicyStep
    <2>1. PICK n \in Node, rule \in Rule : UpsertInboundDenyRule(n, rule) \/ RemoveInboundDenyRule(n, rule)
      BY <1>0, <1>1 DEF PolicyStep
    <2>2. PICK s \in SUBSET Rule : rules' = [rules EXCEPT ![n] = s]
      BY <2>1 DEF UpsertInboundDenyRule, RemoveInboundDenyRule, Bounded, PoliciesTypeOK
    <2>3. QED
      BY <2>2 DEF Bounded, PoliciesTypeOK
  <1>2. CASE UNCHANGED rules
    BY <1>2 DEF Bounded, PoliciesTypeOK
  <1>3. QED
    BY <1>1, <1>2 DEF Next, vars

LEMMA VersionsStep ==
  ASSUME IInv, ClusterInv, Bounded, [Next]_vars, NEW c \in Cluster
  PROVE  /\ Len(snapshots'[c]) <= MaxVersion
         /\ clusterTombstone'[c] # None => clusterTombstone'[c].version > 0
  <1> DEFINE Goal == /\ Len(snapshots'[c]) <= MaxVersion
                     /\ clusterTombstone'[c] # None => clusterTombstone'[c].version > 0
  <1>0. /\ ClustersTyped
        /\ Len(snapshots[c]) <= MaxVersion
        /\ clusterTombstone[c] # None => clusterTombstone[c].version > 0
    BY DEF Bounded, ClusterInv, ClusterFacts
  <1>1. CASE UNCHANGED <<snapshots, clusterTombstone>>
    BY <1>0, <1>1
  <1>2. ASSUME NEW p \in Process, NEW d \in Cluster, NEW name \in Name, EnsureCluster(p, d, name)
        PROVE  Goal
    <2>1. /\ clusterTombstone' = clusterTombstone
          /\ snapshots' = [snapshots EXCEPT ![d] = Created]
      BY <1>2 DEF EnsureCluster, Created
    <2>2. snapshots'[c] = snapshots[c] \/ snapshots'[c] = Created
      BY <1>0, <2>1 DEF ClustersTyped
    <2>3. Len(Created) = 1 /\ 1 <= MaxVersion
      BY ClusterAssumptions DEF Created
    <2>4. QED
      BY <1>0, <2>1, <2>2, <2>3
  <1>3. ASSUME NEW p \in Process, WriteSnapshot(p) PROVE Goal
    <2> DEFINE d == op[p].cluster
    <2>1. d \in Cluster /\ head[d] # None
      BY <1>3 DEF WriteSnapshot, ClusterInv, Busy, AtWork, ClusterSteps
    <2>2. PICK shot : snapshots' = [snapshots EXCEPT ![d] = Append(@, shot)]
      BY <1>3 DEF WriteSnapshot
    <2>3. /\ clusterTombstone' = clusterTombstone /\ Len(snapshots[d]) = head[d].version
          /\ head[d].version < MaxVersion
      BY <1>3 DEF WriteSnapshot
    <2>4. CASE c = d
      <3>1. snapshots'[c] = Append(snapshots[c], shot) /\ snapshots[c] \in Seq(Snapshot)
        BY <1>0, <2>2, <2>4 DEF ClustersTyped
      <3>2. Len(snapshots'[c]) = Len(snapshots[c]) + 1 /\ Len(snapshots[c]) \in Nat
        BY <3>1
      <3>3. QED
        BY <1>0, <2>3, <2>4, <3>2, ClusterAssumptions
    <2>5. CASE c # d
      BY <1>0, <2>2, <2>3, <2>5
    <2>6. QED
      BY <2>4, <2>5
  <1>4. ASSUME NEW p \in Process, TombstoneCluster(p) PROVE Goal
    <2> DEFINE d == op[p].cluster
    <2>1. d \in Cluster /\ head[d] # None
      BY <1>4 DEF TombstoneCluster, ClusterInv, Busy, AtWork, ClusterSteps
    <2>2. head[d].version > 0
      BY <1>0, <2>1 DEF ClustersTyped, Membership
    <2>3. /\ snapshots' = snapshots
          /\ clusterTombstone' = [clusterTombstone EXCEPT ![d] =
                                    [name |-> head[d].name, version |-> head[d].version]]
      BY <1>4 DEF TombstoneCluster
    <2>4. QED
      BY <1>0, <2>2, <2>3 DEF ClustersTyped
  <1>5. \/ UNCHANGED <<snapshots, clusterTombstone>>
        \/ \E p \in Process, d \in Cluster, name \in Name : EnsureCluster(p, d, name)
        \/ \E p \in Process : WriteSnapshot(p) \/ TombstoneCluster(p)
    <2>1. CASE ClusterStep
      BY <2>1 DEF ClusterStep, EnsureExistingCluster, RecoverClusterMembership, RecoverFirst, WriteFirstHead,
         BeginChange, EndUnchanged, WriteHead, BeginRemoval, UnlinkCluster, clusterVars
    <2>2. CASE UNCHANGED clusterVars \/ UNCHANGED vars
      BY <2>2 DEF clusterVars, vars
    <2>3. QED
      BY <2>1, <2>2 DEF Next
  <1>6. QED
    BY <1>1, <1>2, <1>3, <1>4, <1>5

LEMMA InitRecordInv == Init => RecordInv
  <1> SUFFICES ASSUME Init PROVE RecordInv
    OBVIOUS
  <1> USE DEF Init, DirectoryInit, ClusterInit, PolicyInit
  <1>1. Linked
    <2>1. Ranks([n \in Node |-> 0])
      BY DEF Ranks
    <2>2. QED
      BY <2>1, IdleShape DEF Linked, LinkFree
  <1>2. Histories
    BY EmptyEvidence DEF Histories
  <1>3. Bounded
    BY IdleWork, DirectoryAssumptions, ClusterAssumptions DEF Bounded, PoliciesTypeOK
  <1>4. QED
    BY <1>1, <1>2, <1>3 DEF RecordInv

LEMMA NextRecordInv == IInv /\ ClusterInv /\ RecordInv /\ [Next]_vars => RecordInv'
  <1> SUFFICES ASSUME IInv, ClusterInv, RecordInv, [Next]_vars PROVE RecordInv'
    OBVIOUS
  <1>1. Linked' /\ Histories'
    BY LinkedStep, HistoriesStep DEF RecordInv
  <1>2. Bounded'
    BY WorkStep, CrashesStep, PoliciesStep, VersionsStep DEF RecordInv, Bounded
  <1>3. QED
    BY <1>1, <1>2 DEF RecordInv

LEMMA RecordInductive == Spec => []RecordInv
  BY InitRecordInv, NextRecordInv, Inductive, ClusterInductive, PTL DEF Spec

LEMMA DeniedAreDenied ==
  ASSUME Typed, Bounded
  PROVE  DeniedProjectsStayDenied
  <1> SUFFICES ASSUME NEW n \in Node, NEW sender \in Node, ProjectOf(sender) # None,
                      [kind |-> "sender-project", project |-> ProjectOf(sender)] \in rules[n]
               PROVE  ~Continues(n, sender)
    BY DEF DeniedProjectsStayDenied
  <1>1. sender # None
    BY DirectoryAssumptions
  <1>2. rules[n] # {} /\ \E r \in rules[n] : r.kind = "sender-project"
    OBVIOUS
  <1>3. CASE node[sender] = None \/ tombstone[sender] # None
    BY <1>1, <1>2, <1>3 DEF Continues, Evaluate, SenderIdentity
  <1>4. CASE ~(node[sender] = None \/ tombstone[sender] # None)
    BY <1>1, <1>2, <1>4 DEF Continues, Evaluate, SenderIdentity, ProjectOf
  <1>5. QED
    BY <1>3, <1>4

LEMMA TypesHold == IInv /\ ClusterInv /\ RecordInv => TypeOK
  <1> SUFFICES ASSUME IInv, ClusterInv, RecordInv PROVE TypeOK
    OBVIOUS
  <1>1. RecordsTypeOK
    BY DEF RecordsTypeOK, IInv, Typed, Provenance, RecordInv, Histories, Evidence, Bounded
  <1>2. op \in [Process -> NodeWork \cup ClusterWork]
    BY DEF IInv, Exclusive, RecordInv, Bounded, Work
  <1>3. ASSUME NEW c \in Cluster
        PROVE  /\ head[c] \in HeadRecord \cup {None}
               /\ snapshots[c] \in Seq(Snapshot) /\ Len(snapshots[c]) <= MaxVersion
               /\ clusterTombstone[c] \in [name : Name, version : 1..MaxVersion] \cup {None}
    <2>1. /\ head[c] \in Membership \cup {None} /\ snapshots[c] \in Seq(Snapshot)
          /\ clusterTombstone[c] \in [name : Name, version : Nat] \cup {None}
      BY DEF ClusterInv, ClusterFacts, ClustersTyped
    <2>2. /\ head[c] # None => head[c].version \in {Len(snapshots[c]), Len(snapshots[c]) - 1}
          /\ clusterTombstone[c] # None => clusterTombstone[c].version = Len(snapshots[c])
      BY DEF ClusterInv, ClusterFacts, ClustersAreConsistent, HeadsFollowSnapshots,
             RemovedClustersAreComplete
    <2>3. /\ Len(snapshots[c]) <= MaxVersion /\ Len(snapshots[c]) \in Nat
          /\ clusterTombstone[c] # None => clusterTombstone[c].version > 0
      BY <2>1 DEF RecordInv, Bounded
    <2>4. head[c] # None => head[c].version \in 1..MaxVersion
      BY <2>1, <2>2, <2>3, ClusterAssumptions DEF Membership
    <2>5. clusterTombstone[c] # None => clusterTombstone[c].version \in 1..MaxVersion
      BY <2>1, <2>2, <2>3, ClusterAssumptions
    <2>6. QED
      BY <2>1, <2>3, <2>4, <2>5 DEF Membership, HeadRecord
  <1>4. ClustersTypeOK
    BY <1>3 DEF ClustersTypeOK, ClusterInv, ClusterFacts, ClustersTyped
  <1>5. QED
    BY <1>1, <1>2, <1>4 DEF TypeOK, RecordInv, Bounded, IInv, Typed

\* Whatever interleaves or dies, every record has its shape, a chain of
\* successors ends, the endpoint in use is the last one observed, however far
\* the history was compacted, and a denied Project is never heard.
THEOREM Records == Spec => []RecordsAreSound
  <1>1. IInv /\ ClusterInv /\ RecordInv => RecordsAreSound
    <2> SUFFICES ASSUME IInv, ClusterInv, RecordInv PROVE RecordsAreSound
      OBVIOUS
    <2>1. SuccessorsAreAcyclic
      BY RanksMeanAcyclic DEF IInv, RecordInv, Linked
    <2>2. SelectionsHaveEvidence
      BY DEF SelectionsHaveEvidence, RecordInv, Histories, Evidence, Attested, Seen
    <2>3. DeniedProjectsStayDenied
      BY DeniedAreDenied DEF IInv, RecordInv
    <2>4. QED
      BY <2>1, <2>2, <2>3, TypesHold DEF RecordsAreSound
  <1>2. QED
    BY <1>1, Inductive, ClusterInductive, RecordInductive, PTL
=============================================================================
