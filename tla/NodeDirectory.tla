----------------------------- MODULE NodeDirectory -----------------------------
(***************************************************************************)
(* The Node Directory: Projects and their moves, Nodes with the endpoints  *)
(* they are reached by, their Tombstones and successors, and the Execution *)
(* Threads of isolated Delegations.              src/node-directory.js     *)
(*                                                                         *)
(* Every record is a file of its own, replaced whole.  An operation runs   *)
(* under the lock of what it changes, reads other records without their    *)
(* locks, and may write two files, one after the other; a process can die  *)
(* in between, and its lock is reaped.  Operations with one write that     *)
(* read nothing but what their lock guards are one step here, the others   *)
(* hold their locks from their first step to their last.                   *)
(*                                                                         *)
(* A discovery key and the root it was found from are one Place.  Aliases, *)
(* statuses, addresses, times and counts of a record are left out, and so  *)
(* are records that fail their schema: no operation writes one.            *)
(***************************************************************************)
EXTENDS Naturals, FiniteSets, Sequences, SequencesExt

CONSTANTS
  Process,         \* processes that run Directory commands
  Project, Place,  \* Projects by routing id, discovery identities
  Node,            \* runtime kind and native id of a session or thread
  Codex,           \* those of them that are Codex threads
  Transport, EndpointId, MaxGeneration,
  Job, SourceOf,   \* Delegations, and the thread each was asked of
  TransportLimit,  \* ENDPOINT_TRANSPORT_LIMIT
  HistoryLimit,    \* ENDPOINT_HISTORY_LIMIT
  Workloads,       \* bound: commands that run together, on which Nodes
  InitialHome,     \* where the Projects are at the start
  MaxCrashes,      \* bound: deaths of processes
  None             \* no record

ASSUME DirectoryAssumptions ==
  /\ IsFiniteSet(Node) /\ Codex \subseteq Node
  /\ SourceOf \in [Job -> Codex]
  /\ InitialHome \in [Project -> Place \cup {None}]
  /\ \A i, j \in Project :
       InitialHome[i] = InitialHome[j] /\ InitialHome[i] # None => i = j
  /\ None \notin Project \cup Place \cup Node \cup Job
  /\ None \notin [transport : Transport, id : EndpointId, generation : 0..MaxGeneration]
  /\ TransportLimit \in Nat \ {0} /\ HistoryLimit \in Nat
  /\ TransportLimit <= HistoryLimit
  /\ \A w \in Workloads : w.nodes \subseteq Node
  /\ MaxCrashes \in Nat

VARIABLES
  home,         \* discovery identity at the head of each Project
  transitions,  \* moves on record for each Project
  node,         \* Project of each live Node
  selected,     \* endpoint selected for each transport of a live Node
  history,      \* endpoint observations of a live Node
  tombstone,    \* Project of each tombstoned Node
  predecessor,  \* Node that a Node succeeds
  thread,       \* provenance of each Execution Thread
  op,           \* what each process is in the middle of, with its locks
  workload,     \* commands and Nodes of this behaviour
  crashes       \* deaths so far

projectVars == <<home, transitions>>
nodeVars    == <<node, selected, history, tombstone>>
recordVars  == <<projectVars, nodeVars, predecessor, thread>>
directoryVars == <<recordVars, op, workload, crashes>>

Endpoint == [transport : Transport, id : EndpointId, generation : 0..MaxGeneration]
Successful == {"selected", "replaced", "refreshed"}
Decisions == Successful \cup {"conflict-rejected", "older-rejected"}
Observation == [endpoint : Endpoint, decision : Decisions]

Idle == [step |-> "idle", locks |-> {}]

NoEndpoints == [t \in Transport |-> None]

DirectoryInit ==
  /\ home = InitialHome
  /\ transitions = [j \in Project |-> {}]
  /\ node = [n \in Node |-> None]
  /\ selected = [n \in Node |-> NoEndpoints]
  /\ history = [n \in Node |-> <<>>]
  /\ tombstone = [n \in Node |-> None]
  /\ predecessor = [n \in Node |-> None]
  /\ thread = [n \in Codex |-> None]
  /\ op = [p \in Process |-> Idle]
  /\ workload \in Workloads
  /\ crashes = 0

-----------------------------------------------------------------------------
(* Processes and locks                                                     *)

Free(lock) == \A p \in Process : lock \notin op[p].locks

\* p takes the locks of work, and is in the middle of it.
Begin(p, command, work) ==
  /\ command \in workload.commands
  /\ op[p] = Idle
  /\ \A lock \in work.locks : Free(lock)
  /\ op' = [op EXCEPT ![p] = work]
  /\ UNCHANGED <<workload, crashes>>

Continue(p, work) ==
  /\ op' = [op EXCEPT ![p] = work]
  /\ UNCHANGED <<workload, crashes>>

\* p returns, or throws, and releases its locks.
End(p) == Continue(p, Idle)

\* An operation of one step.
AtOnce(command, locks) ==
  /\ command \in workload.commands
  /\ \A lock \in locks : Free(lock)
  /\ UNCHANGED <<op, workload, crashes>>

-----------------------------------------------------------------------------
(* Projects                                                                *)

\* A Project that is on record here is only refreshed, and every other clash
\* of names and places is refused.
EnsureProject(j, a) ==
  /\ AtOnce("ensure", {"projects"})
  /\ home[j] = None
  /\ \A i \in Project : home[i] # a
  /\ home' = [home EXCEPT ![j] = a]
  /\ UNCHANGED <<transitions, nodeVars, predecessor, thread>>

\* The transition is on record before the head changes.  One from the same
\* place to another is in the way, one to the same place is used again.
MoveProject(p, j, a) ==
  /\ home[j] \notin {None, a}
  /\ \A i \in Project : home[i] # a
  /\ \A t \in transitions[j] : t.from = home[j] => t.to = a
  /\ Begin(p, "move",
       [step |-> "move", locks |-> {"projects"}, project |-> j, to |-> a])
  /\ transitions' = [transitions EXCEPT ![j] = @ \cup {[from |-> home[j], to |-> a]}]
  /\ UNCHANGED <<home, nodeVars, predecessor, thread>>

MoveProjectHead(p) ==
  /\ op[p].step = "move"
  /\ home' = [home EXCEPT ![op[p].project] = op[p].to]
  /\ End(p)
  /\ UNCHANGED <<transitions, nodeVars, predecessor, thread>>

-----------------------------------------------------------------------------
(* Nodes and their endpoints                                               *)

\* What becomes of the observation of endpoint e of Node n.
EndpointSelection(n, e) ==
  LET current == selected[n][e.transport] IN
  CASE current = None                        -> "selected"
    [] e.generation > current.generation     -> "replaced"
    [] e = current                           -> "refreshed"
    [] e.generation = current.generation     -> "conflict-rejected"
    [] OTHER                                 -> "older-rejected"

Observes(observation, e) ==
  observation.decision \in Successful /\ observation.endpoint = e

\* Places of the last observation of each selected endpoint.
RequiredObservations(observations, endpoints) ==
  {i \in DOMAIN observations : \E t \in Transport :
     /\ endpoints[t] # None
     /\ Observes(observations[i], endpoints[t])
     /\ \A k \in DOMAIN observations : k > i => ~Observes(observations[k], endpoints[t])}

\* One observation too many: the oldest that is not required goes.
CompactEndpointHistory(observations, endpoints) ==
  IF Len(observations) <= HistoryLimit
    THEN observations
    ELSE LET spare == DOMAIN observations \ RequiredObservations(observations, endpoints)
             oldest == CHOOSE i \in spare : \A k \in spare : i <= k
         IN  RemoveAt(observations, oldest)

\* The observation that was the last one already is counted, not added.
AppendEndpointObservation(observations, observation, endpoints) ==
  IF observations # <<>> /\ Last(observations) = observation
    THEN observations
    ELSE CompactEndpointHistory(Append(observations, observation), endpoints)

TransportsInUse(n) == {t \in Transport : selected[n][t] # None}

MayBeNode(n, j) ==
  /\ home[j] # None
  /\ n \in Codex => thread[n] = None
  /\ tombstone[n] = None
  /\ node[n] \in {None, j}

\* upsertNode without an endpoint, and with one.  A conflict is recorded too,
\* before it is thrown.
RegisterNode(n, j) ==
  /\ AtOnce("register", {n})
  /\ MayBeNode(n, j)
  /\ node' = [node EXCEPT ![n] = j]
  /\ UNCHANGED <<projectVars, selected, history, tombstone, predecessor, thread>>

ObserveEndpoint(n, j, e) ==
  LET decision == EndpointSelection(n, e)
      endpoints == IF decision \in Successful
                     THEN [selected[n] EXCEPT ![e.transport] = e]
                     ELSE selected[n]
  IN
  /\ AtOnce("observe", {n})
  /\ MayBeNode(n, j)
  /\ \/ selected[n][e.transport] # None
     \/ Cardinality(TransportsInUse(n)) < TransportLimit
  /\ node' = [node EXCEPT ![n] = j]
  /\ selected' = [selected EXCEPT ![n] = endpoints]
  /\ history' = [history EXCEPT ![n] =
       AppendEndpointObservation(@, [endpoint |-> e, decision |-> decision], endpoints)]
  /\ UNCHANGED <<projectVars, tombstone, predecessor, thread>>

\* tombstoneNode writes the Tombstone, then unlinks the record.  It refuses a
\* Node that has both, and returns the Tombstone of one that has no more.
TombstoneNode(p, n) ==
  /\ node[n] # None /\ tombstone[n] = None
  /\ Begin(p, "retire", [step |-> "retire", locks |-> {n}, node |-> n])
  /\ tombstone' = [tombstone EXCEPT ![n] = node[n]]
  /\ UNCHANGED <<projectVars, node, selected, history, predecessor, thread>>

UnlinkNode(p) ==
  LET n == op[p].node IN
  /\ op[p].step = "retire"
  /\ node' = [node EXCEPT ![n] = None]
  /\ selected' = [selected EXCEPT ![n] = NoEndpoints]
  /\ history' = [history EXCEPT ![n] = <<>>]
  /\ End(p)
  /\ UNCHANGED <<projectVars, tombstone, predecessor, thread>>

-----------------------------------------------------------------------------
(* Successors                                                              *)

\* nodeOrTombstone: a Node that is both throws, one that is neither is null.
Resolves(n) == (node[n] = None) # (tombstone[n] = None)

ProjectOf(n) == IF node[n] # None THEN node[n] ELSE tombstone[n]

\* The Nodes that the walk from n along the predecessors meets, and None when
\* it ends.
Walk(n) ==
  LET at[i \in 0..Cardinality(Node)] ==
        IF i = 0 THEN n
        ELSE IF at[i-1] = None THEN None ELSE predecessor[at[i-1]]
  IN  {at[i] : i \in 0..Cardinality(Node)}

\* The records are read, and no Node's lock is held.
AddSuccessor(p, from, to) ==
  /\ from # to
  /\ Resolves(from)
  /\ node[to] # None /\ tombstone[to] = None
  /\ ProjectOf(from) = node[to]
  /\ predecessor[to] = None
  /\ to \notin Walk(from) /\ None \in Walk(from)
  /\ Begin(p, "link", [step |-> "link", locks |-> {"successors"}, from |-> from, to |-> to])
  /\ UNCHANGED recordVars

WriteSuccessor(p) ==
  /\ op[p].step = "link"
  /\ predecessor' = [predecessor EXCEPT ![op[p].to] = op[p].from]
  /\ End(p)
  /\ UNCHANGED <<projectVars, nodeVars, thread>>

-----------------------------------------------------------------------------
(* Execution Threads                                                       *)

\* A bug the checks must catch: the thread's own lock is not taken either.
ClassifyUnlocked(p, n, k) ==
  LET source == SourceOf[k] IN
  /\ n # source
  /\ node[n] = None /\ tombstone[n] = None
  /\ thread[n] = None
  /\ \A m \in Codex : thread[m] # None => thread[m].job # k
  /\ tombstone[source] = None
  /\ Begin(p, "classify",
       [step |-> "classify", locks |-> {"execution-threads"}, thread |-> n,
        record |-> [job |-> k, project |-> node[source]]])
  /\ UNCHANGED recordVars

\* The thread's own lock is held, that of the source Node is not.
ClassifyExecutionThread(p, n, k) ==
  LET source == SourceOf[k] IN
  /\ n # source
  /\ node[n] = None /\ tombstone[n] = None
  /\ thread[n] = None
  /\ \A m \in Codex : thread[m] # None => thread[m].job # k
  /\ tombstone[source] = None
  /\ Begin(p, "classify",
       [step |-> "classify", locks |-> {n, "execution-threads"}, thread |-> n,
        record |-> [job |-> k, project |-> node[source]]])
  /\ UNCHANGED recordVars

WriteExecutionThread(p) ==
  /\ op[p].step = "classify"
  /\ thread' = [thread EXCEPT ![op[p].thread] = op[p].record]
  /\ End(p)
  /\ UNCHANGED <<projectVars, nodeVars, predecessor>>

-----------------------------------------------------------------------------

\* A process dies in the middle of an operation.
Crash(p) ==
  /\ op[p] # Idle
  /\ crashes < MaxCrashes
  /\ crashes' = crashes + 1
  /\ op' = [op EXCEPT ![p] = Idle]
  /\ UNCHANGED <<recordVars, workload>>

DirectoryStep ==
  \/ \E j \in Project, a \in Place : EnsureProject(j, a)
  \/ \E n \in workload.nodes, j \in Project : RegisterNode(n, j)
  \/ \E n \in workload.nodes, j \in Project, e \in Endpoint : ObserveEndpoint(n, j, e)
  \/ \E p \in Process :
       \/ \E j \in Project, a \in Place : MoveProject(p, j, a)
       \/ MoveProjectHead(p)
       \/ \E n \in Node : TombstoneNode(p, n)
       \/ UnlinkNode(p)
       \/ \E from, to \in Node : AddSuccessor(p, from, to)
       \/ WriteSuccessor(p)
       \/ \E n \in workload.nodes \cap Codex, k \in Job : ClassifyExecutionThread(p, n, k)
       \/ WriteExecutionThread(p)
       \/ Crash(p)

-----------------------------------------------------------------------------
(* What the Directory promises                                             *)

Lock == Node \cup {"projects", "successors", "execution-threads"}

MoveWork == [step : {"move"}, locks : {{"projects"}}, project : Project, to : Place]

RetireWork == UNION {[step : {"retire"}, locks : {{n}}, node : {n}] : n \in Node}

LinkWork == [step : {"link"}, locks : {{"successors"}}, from : Node, to : Node]

ClassifyWork ==
  UNION {[step : {"classify"}, locks : {{n, "execution-threads"}}, thread : {n},
          record : [job : Job, project : Project \cup {None}]] : n \in Codex}

NodeWork == {Idle} \cup MoveWork \cup RetireWork \cup LinkWork \cup ClassifyWork

\* The records of the Directory have the shape their schemas give them.
RecordsTypeOK ==
  /\ home \in [Project -> Place \cup {None}]
  /\ transitions \in [Project -> SUBSET [from : Place, to : Place]]
  /\ node \in [Node -> Project \cup {None}]
  /\ tombstone \in [Node -> Project \cup {None}]
  /\ selected \in [Node -> [Transport -> Endpoint \cup {None}]]
  /\ \A n \in Node : history[n] \in Seq(Observation) /\ Len(history[n]) <= HistoryLimit
  /\ predecessor \in [Node -> Node \cup {None}]
  /\ thread \in [Codex -> [job : Job, project : Project \cup {None}] \cup {None}]
  /\ crashes \in 0..MaxCrashes

\* No two Projects claim one discovery identity, whatever was interrupted:
\* a Node could be registered with either of them.
UniqueHomes ==
  \A i, j \in Project : home[i] = home[j] /\ home[i] # None => i = j

\* The moves of a Project never branch: an interrupted move can only be
\* repeated, not diverted.
MovesNeverBranch ==
  \A j \in Project : \A s, t \in transitions[j] : s.from = t.from => s = t

\* The head of a Project follows a transition that is durable already.
HeadsFollowTransitions ==
  [][\A j \in Project :
       home'[j] = home[j] \/ home[j] = None
       \/ [from |-> home[j], to |-> home'[j]] \in transitions[j]]_directoryVars

\* A tombstoned Node is never registered again, and keeps its Project.
TombstonesAreFinal ==
  [][\A n \in Node : tombstone[n] # None =>
       /\ tombstone'[n] = tombstone[n]
       /\ node'[n] \in {node[n], None}]_directoryVars

\* An identity is a Node, live or tombstoned, or an Execution Thread, though
\* the two are decided by commands that write different files.
NodesAreNoThreads ==
  \A n \in Codex : thread[n] # None => node[n] = None /\ tombstone[n] = None

\* A Job has one Execution Thread.
OneThreadPerJob ==
  \A n, m \in Codex :
    thread[n] # None /\ thread[m] # None /\ thread[n].job = thread[m].job => n = m

\* An Execution Thread that names a Project names that of its source Node,
\* retired since or not.
ThreadsKnowTheirProject ==
  \A n \in Codex : thread[n] # None /\ thread[n].project # None =>
    ProjectOf(SourceOf[thread[n].job]) = thread[n].project

\* Following the predecessors of a Node ends.
SuccessorsAreAcyclic ==
  \A n \in Node : predecessor[n] # None => n \notin Walk(predecessor[n])

\* Both ends of a successor relation stay known, and stay in one Project,
\* though neither Node's lock is held when it is written.
SuccessorsShareAProject ==
  \A n \in Node : predecessor[n] # None =>
    ProjectOf(n) # None /\ ProjectOf(predecessor[n]) = ProjectOf(n)

\* An endpoint is replaced by a later generation only, so that an old bridge
\* cannot take a Node back.
GenerationsNeverGoBack ==
  [][\A n \in Node, t \in Transport :
       selected[n][t] # None /\ node'[n] # None =>
         \/ selected'[n][t] = selected[n][t]
         \/ selected'[n][t].generation > selected[n][t].generation]_directoryVars

\* The last successful observation of a transport is of the endpoint selected
\* for it: compaction of the history never drops the evidence in use.
SelectionsHaveEvidence ==
  \A n \in Node, t \in Transport :
    LET seen == {i \in DOMAIN history[n] :
                   /\ history[n][i].endpoint.transport = t
                   /\ history[n][i].decision \in Successful}
    IN  IF selected[n][t] = None
          THEN seen = {}
          ELSE \E i \in seen : /\ \A k \in seen : k <= i
                               /\ history[n][i].endpoint = selected[n][t]
=============================================================================
