----------------------------- MODULE FileProofs -----------------------------
(***************************************************************************)
(* What holds of files that processes share, for any number of processes,  *)
(* files and records.                                                      *)
(*                                                                         *)
(* The first half is about Repair and its lock.  RepairsAreAccountable     *)
(* needs nothing of the lock: what a repair records is right even if two   *)
(* commands are inside at once, because the mutation compares the evidence *)
(* once more under the lock of what it changes, and no call writes the     *)
(* record of another one.  The other theorems are about the lock and what  *)
(* needs it, the archives.  They assume that no two reapers race           *)
(* (ReapersApart), without which four calls refute them.                   *)
(*                                                                         *)
(* The second half is about LedgerStore: a writer that may die between any *)
(* two writes, and readers without a lock.  The two share no state.        *)
(***************************************************************************)
EXTENDS Repair, LedgerStore, FiniteSetTheorems, NaturalsInduction,
        WellFoundedInduction, TLAPS

-----------------------------------------------------------------------------
(* The inductive invariant                                                 *)

Phase == {"none", "bare", "initializing", "prepared", "mutation-started", "mutated",
          "completed", "failed"}
Status == {"none", "bare", "archiving", "committed", "restoring", "restored"}

\* Steps of a call that has not begun a repair, because it archives or is about to.
Archiving == {"recover", "plan", "list", "archiving", "restoring", "commit"}
Outside   == {"none", "make"} \cup Archiving
Opening   == {"initialize", "check", "copy", "prepare", "start", "execute"}
Mutated   == {"note", "verify", "receive", "complete"}
Failing   == {"fail", "giveUp"}

StepName == Outside \cup Opening \cup Mutated \cup Failing \cup {"over"}

JobType == [kind : {"none", "apply", "archive", "restore", "recover"},
            step : StepName,
            version : Nat, backed : BOOLEAN, items : SUBSET Old,
            wanted : File, on : File, own : BOOLEAN]

Types ==
  /\ job \in [Call -> JobType]
  /\ subject \in [version : Nat \ {0}, broken : BOOLEAN]
  /\ manifest \in [Id -> [phase : Phase, copied : BOOLEAN, listed : BOOLEAN, copy : Nat]]
  /\ receipt \in [Id -> {"none", "completed", "failed"}]
  /\ replaced \in [Id -> Nat]
  /\ home \in [Id -> {"none", "active"} \cup Call]
  /\ slip \in [Id -> {"none", "active"} \cup Call]
  /\ album \in [Call -> [status : Status, items : SUBSET Old]]
  /\ sealed \subseteq Call /\ litter \subseteq Call \cup {"receipts"}

\* A command that archives or restores knows which archive it means.
Directed(c) ==
  /\ job[c].step \in Archiving => job[c].kind \in {"archive", "restore", "recover"}
  /\ job[c].kind \in {"archive", "restore"} => job[c].wanted \in Call
  /\ job[c].step \in Archiving \ {"recover"} => job[c].on \in Call

\* The phase in the manifest is the one the command wrote last.
PhaseFits(c) ==
  /\ job[c].step \in Outside => manifest[c].phase = "none"
  /\ job[c].step = "initialize" => manifest[c].phase = "bare"
  /\ job[c].step \in {"check", "copy", "prepare"} => manifest[c].phase = "initializing"
  /\ job[c].step = "start" => manifest[c].phase = "prepared"
  /\ job[c].step \in {"execute", "note"} => manifest[c].phase = "mutation-started"
  /\ job[c].step \in {"verify", "receive", "complete"} => manifest[c].phase = "mutated"

\* Before the mutation nothing is replaced.  From the plan on, the version only
\* grows; so the backup is of the planned version, unless that is not the current
\* one any more.
BeforeMutation(c) ==
  /\ job[c].step \in Outside \cup Opening => replaced[c] = 0 /\ receipt[c] = "none"
  /\ job[c].step \in {"make"} \cup Opening => job[c].version <= subject.version
  /\ job[c].step \in {"prepare", "start", "execute"} =>
       /\ manifest[c].copied
       /\ job[c].version = subject.version => manifest[c].copy = job[c].version
  /\ job[c].step \in {"start", "execute"} => manifest[c].listed /\ job[c].backed

\* After it, the manifest and the one in the memory of the call list the backup.
AfterMutation(c) ==
  /\ job[c].step \in Mutated => replaced[c] # 0
  /\ job[c].step \in Mutated \cup Failing /\ replaced[c] # 0 => job[c].backed
  /\ job[c].step = "complete" => receipt[c] = "completed"

BackedUp(c) == replaced[c] # 0 =>
  manifest[c].copied /\ manifest[c].listed /\ manifest[c].copy = replaced[c]

True(c) ==
  /\ receipt[c] = "completed" \/ manifest[c].phase \in {"mutated", "completed"} =>
       replaced[c] # 0
  /\ manifest[c].phase \in {"none", "bare", "initializing", "prepared"} => replaced[c] = 0

Progress(c) ==
  Directed(c) /\ PhaseFits(c) /\ BeforeMutation(c) /\ AfterMutation(c) /\ BackedUp(c) /\ True(c)

IInv == Types /\ \A c \in Call : Progress(c)

-----------------------------------------------------------------------------
(* Frames                                                                  *)

\* What Progress speaks of is unchanged for d, except that versions may have grown.
Same(d) ==
  /\ job'[d] = job[d] /\ manifest'[d] = manifest[d]
  /\ receipt'[d] = receipt[d] /\ replaced'[d] = replaced[d]

\* A call of which nothing changes keeps its progress while versions grow.
LEMMA Frame ==
  ASSUME NEW d \in Call, Types, Types', Progress(d), Same(d),
         subject'.version >= subject.version
  PROVE  Progress(d)'
<1>1. /\ job[d].version \in Nat /\ subject.version \in Nat /\ subject'.version \in Nat
      /\ job[d].step = job'[d].step
  BY DEF Types, JobType, Same
<1>2. Directed(d)' /\ PhaseFits(d)' /\ AfterMutation(d)' /\ BackedUp(d)' /\ True(d)'
  BY DEF Progress, Directed, PhaseFits, AfterMutation, BackedUp, True, Same
<1>3. BeforeMutation(d)'
  BY <1>1 DEF Progress, BeforeMutation, Same, Opening
<1> QED
  BY <1>2, <1>3 DEF Progress

\* A step of c keeps the invariant if it keeps the types and the progress of c.
LEMMA OneStep ==
  ASSUME NEW c \in Call, IInv, Types', Progress(c)',
         \A d \in Call \ {c} : Same(d), subject'.version >= subject.version
  PROVE  IInv'
BY Frame DEF IInv

-----------------------------------------------------------------------------
(* The job of a call *)

\* The two jobs of a call that is not at anything are jobs.
LEMMA OverType ==
  /\ Unasked \in JobType /\ Unasked.step = "none"
  /\ Over \in JobType /\ Over.step = "over" /\ Over.kind = "none"
BY DEF Over, Unasked, JobType, StepName, Outside, File

\* What a command still knows at its next step.
LEMMA KnowsType ==
  ASSUME Types, NEW c \in Call, NEW step \in StepName, NEW backed \in BOOLEAN
  PROVE  /\ Knows(c, step, backed) \in JobType
         /\ Knows(c, step, backed).step = step
         /\ step = "over" => Knows(c, step, backed) = Over
         /\ step # "over" =>
              /\ Knows(c, step, backed).backed = backed
              /\ Knows(c, step, backed).kind = job[c].kind
              /\ Knows(c, step, backed).version = job[c].version
              /\ Knows(c, step, backed).items = job[c].items
              /\ Knows(c, step, backed).wanted = job[c].wanted
              /\ Knows(c, step, backed).on = job[c].on
BY OverType DEF Knows, Types, JobType

\* The command comes to step, and remembers whether it has listed a backup.
GoesTo(c, step) ==
  IF step = "over" THEN job'[c] = Over
  ELSE /\ job'[c].step = step
       /\ job'[c].kind = job[c].kind /\ job'[c].version = job[c].version
       /\ job'[c].wanted = job[c].wanted /\ job'[c].on = job[c].on
       /\ job'[c].items = job[c].items
       /\ job[c].backed \/ step = "start" => job'[c].backed

\* That is what Knows says of it.
LEMMA KnowsGoesTo ==
  ASSUME Types, NEW c \in Call, NEW step \in StepName, NEW backed \in BOOLEAN,
         job[c].backed \/ step = "start" => backed,
         job'[c] = Knows(c, step, backed)
  PROVE  GoesTo(c, step)
BY KnowsType DEF GoesTo

\* Over is where a command remembers nothing.
LEMMA OverIsOver ==
  ASSUME NEW c \in Call, GoesTo(c, "over")
  PROVE  job'[c] = Over
BY DEF GoesTo

\* How a write leaves the job of c and the litter.
LEMMA AfterDone ==
  ASSUME Types, NEW c \in Call, NEW o \in Outcome, NEW directory,
         NEW ok \in StepName, NEW bad \in StepName \ {"start"},
         Done(c, o, directory, ok, bad)
  PROVE  /\ job' \in [Call -> JobType]
         /\ \A d \in Call \ {c} : job'[d] = job[d]
         /\ \/ o.fate = "goesOn" /\ GoesTo(c, ok)
            \/ o.fate = "throws" /\ GoesTo(c, bad)
            \/ o.fate = "dies" /\ job'[c] = Over
         /\ litter' \subseteq litter \cup {directory}
<1>1. job \in [Call -> JobType] /\ job[c].backed \in BOOLEAN /\ o.fate \in {"goesOn", "throws", "dies"}
  BY DEF Types, JobType, Outcome
<1>2. /\ Knows(c, ok, job[c].backed \/ ok = "start") \in JobType
      /\ Knows(c, bad, job[c].backed) \in JobType /\ Over \in JobType
  BY <1>1, KnowsType, OverType
<1>3. litter' \subseteq litter \cup {directory}
  BY DEF Done
<1>4. CASE o.fate = "goesOn"
  <2>1. job' = [job EXCEPT ![c] = Knows(c, ok, job[c].backed \/ ok = "start")]
    BY <1>4 DEF Done
  <2>2. job'[c] = Knows(c, ok, job[c].backed \/ ok = "start")
    BY <1>1, <2>1
  <2>3. GoesTo(c, ok)
    BY <1>1, <2>2, KnowsGoesTo
  <2> QED
    BY <1>1, <1>2, <1>3, <1>4, <2>1, <2>3
<1>5. CASE o.fate = "throws"
  <2>1. job' = [job EXCEPT ![c] = Knows(c, bad, job[c].backed)]
    BY <1>5 DEF Done
  <2>2. job'[c] = Knows(c, bad, job[c].backed)
    BY <1>1, <2>1
  <2>3. GoesTo(c, bad)
    BY <1>1, <2>2, KnowsGoesTo
  <2> QED
    BY <1>1, <1>2, <1>3, <1>5, <2>1, <2>3
<1>6. CASE o.fate = "dies"
  <2>1. job' = [job EXCEPT ![c] = Over]
    BY <1>6 DEF Done
  <2> QED
    BY <1>1, <1>2, <1>3, <1>6, <2>1
<1> QED
  BY <1>1, <1>4, <1>5, <1>6

\* The same for a step that writes nothing.
LEMMA AfterGoOn ==
  ASSUME Types, NEW c \in Call, NEW step \in StepName \ {"start"}, GoOn(c, step)
  PROVE  /\ job' \in [Call -> JobType]
         /\ \A d \in Call \ {c} : job'[d] = job[d]
         /\ GoesTo(c, step)
         /\ Types' /\ UNCHANGED <<repairs, archives, places, litter>>
<1>1. job \in [Call -> JobType] /\ job[c].backed \in BOOLEAN
  BY DEF Types, JobType
<1>2. /\ job' = [job EXCEPT ![c] = Knows(c, step, job[c].backed)]
      /\ UNCHANGED <<repairs, archives, places, litter>>
  BY DEF GoOn
<1>3. /\ job' \in [Call -> JobType] /\ \A d \in Call \ {c} : job'[d] = job[d]
      /\ job'[c] = Knows(c, step, job[c].backed)
  BY <1>1, <1>2, KnowsType
<1>4. Types'
  BY <1>2, <1>3 DEF Types, repairs, archives, places
<1> QED
  BY <1>1, <1>2, <1>3, <1>4, KnowsGoesTo

-----------------------------------------------------------------------------
(* Initial states and commands                                             *)

\* Nothing has happened yet.
LEMMA Starts == RepairInit => IInv
<1> SUFFICES ASSUME RepairInit PROVE IInv
  OBVIOUS
<1>1. Types
  BY OverType, RepairAssumptions
     DEF RepairInit, Types, NoRepair, Completed, NoAlbum, Id, Phase, Status
<1>2. ASSUME NEW c \in Call PROVE Progress(c)
  <2>1. /\ job[c] = Unasked /\ manifest[c] = NoRepair /\ receipt[c] = "none" /\ replaced[c] = 0
    BY RepairAssumptions DEF RepairInit, Id
  <2> QED
    BY <2>1 DEF Progress, Directed, PhaseFits, BeforeMutation, AfterMutation, BackedUp, True,
                Unasked, NoRepair, Outside, Archiving, Opening, Mutated, Failing
<1> QED
  BY <1>1, <1>2 DEF IInv
\* A command that begins or goes on without a repair of its own.
LEMMA Elsewhere ==
  ASSUME NEW c \in Call, IInv, Types', UNCHANGED repairs,
         \A d \in Call \ {c} : job'[d] = job[d],
         job[c].step \in Outside, job'[c].step \in (Outside \ {"make"}) \cup {"over"},
         Directed(c)'
  PROVE  IInv'
<1>1. /\ Progress(c) /\ subject'.version >= subject.version
      /\ \A d \in Call \ {c} : Same(d)
      /\ manifest'[c] = manifest[c] /\ receipt'[c] = receipt[c] /\ replaced'[c] = replaced[c]
  BY DEF IInv, Types, repairs, Same
<1>2. manifest[c].phase = "none" /\ receipt[c] = "none" /\ replaced[c] = 0
  BY <1>1 DEF Progress, PhaseFits, BeforeMutation
<1>3. Progress(c)'
  BY <1>1, <1>2 DEF Progress, PhaseFits, BeforeMutation, AfterMutation, BackedUp, True,
                    Outside, Archiving, Opening, Mutated, Failing
<1> QED
  BY <1>1, <1>3, OneStep

\* A command that is over, or whose process has died.
LEMMA Ends ==
  ASSUME NEW c \in Call, IInv, Types', UNCHANGED repairs,
         \A d \in Call \ {c} : job'[d] = job[d], job'[c] = Over
  PROVE  IInv'
<1>1. /\ Progress(c) /\ subject'.version >= subject.version
      /\ \A d \in Call \ {c} : Same(d)
      /\ manifest'[c] = manifest[c] /\ receipt'[c] = receipt[c] /\ replaced'[c] = replaced[c]
  BY DEF IInv, Types, repairs, Same
<1>2. Progress(c)'
  BY <1>1, OverType
     DEF Progress, Directed, PhaseFits, BeforeMutation, AfterMutation, BackedUp, True,
         Outside, Archiving, Opening, Mutated, Failing
<1> QED
  BY <1>1, <1>2, OneStep

\* A command is asked for before anything of its own exists.
LEMMA AskingKeeps ==
  ASSUME NEW c \in Call, IInv, Command(c)
  PROVE  IInv'
<1>1. Types /\ job[c] \in JobType /\ subject.version \in Nat /\ Eligible \in SUBSET Old
  BY DEF IInv, Types, Eligible
<1>2. ASSUME NEW command \in JobType, Ask(c, command)
      PROVE  /\ Types' /\ job[c] = Unasked /\ job'[c] = command /\ UNCHANGED repairs
             /\ \A d \in Call \ {c} : job'[d] = job[d]
  BY <1>1, <1>2 DEF Ask, Types, repairs, archives, places
<1>3. CASE AskRepair(c)
  <2> DEFINE command == [Unasked EXCEPT !.kind = "apply", !.step = "make",
                                        !.version = subject.version]
  <2>1. /\ command \in JobType /\ command.step = "make" /\ command.kind = "apply"
        /\ command.version = subject.version
    BY <1>1 DEF Unasked, JobType, StepName, Outside, File
  <2>2. Ask(c, command)
    BY <1>3 DEF AskRepair
  <2> HIDE DEF command
  <2>3. /\ Types' /\ job[c] = Unasked /\ job'[c] = command /\ UNCHANGED repairs
        /\ \A d \in Call \ {c} : job'[d] = job[d]
    BY <1>2, <2>1, <2>2
  <2>4. /\ Progress(c) /\ subject' = subject /\ \A d \in Call \ {c} : Same(d)
        /\ manifest'[c] = manifest[c] /\ receipt'[c] = receipt[c] /\ replaced'[c] = replaced[c]
    BY <2>3 DEF IInv, repairs, Same
  <2>5. manifest[c].phase = "none" /\ receipt[c] = "none" /\ replaced[c] = 0
    BY <2>3, <2>4, OverType DEF Progress, PhaseFits, BeforeMutation, Outside
  <2>6. Progress(c)'
    BY <1>1, <2>1, <2>3, <2>4, <2>5
       DEF Progress, Directed, PhaseFits, BeforeMutation, AfterMutation, BackedUp, True,
           Outside, Archiving, Opening, Mutated, Failing
  <2> QED
    BY <1>1, <2>3, <2>4, <2>6, OneStep
<1>4. ASSUME NEW command \in JobType, Ask(c, command), command.step = "recover",
             command.kind \in {"archive", "restore", "recover"},
             command.kind \in {"archive", "restore"} => command.wanted \in Call
      PROVE  IInv'
  <2>1. /\ Types' /\ job[c] = Unasked /\ job'[c] = command /\ UNCHANGED repairs
        /\ \A d \in Call \ {c} : job'[d] = job[d]
    BY <1>2, <1>4
  <2>2. Directed(c)'
    BY <1>4, <2>1 DEF Directed
  <2>3. job[c].step \in Outside /\ job'[c].step \in Outside \ {"make"}
    BY <1>4, <2>1, OverType DEF Outside, Archiving
  <2> QED
    BY <2>1, <2>2, <2>3, Elsewhere
<1>5. CASE AskArchive(c)
  <2> DEFINE command == [Unasked EXCEPT !.kind = "archive", !.step = "recover",
                                        !.items = Eligible, !.wanted = c]
  <2>1. /\ command \in JobType /\ command.step = "recover" /\ command.kind = "archive"
        /\ command.wanted \in Call
    BY <1>1 DEF Unasked, JobType, StepName, Outside, Archiving, File
  <2>2. Ask(c, command)
    BY <1>5 DEF AskArchive
  <2> QED
    BY <1>4, <2>1, <2>2
<1>6. CASE AskRestore(c)
  <2>1. PICK a \in Call : Ask(c, [Unasked EXCEPT !.kind = "restore", !.step = "recover",
                                                 !.wanted = a])
    BY <1>6 DEF AskRestore
  <2> DEFINE command == [Unasked EXCEPT !.kind = "restore", !.step = "recover", !.wanted = a]
  <2>2. /\ command \in JobType /\ command.step = "recover" /\ command.kind = "restore"
        /\ command.wanted \in Call
    BY DEF Unasked, JobType, StepName, Outside, Archiving, File
  <2> QED
    BY <1>4, <2>1, <2>2
<1>7. CASE AskRecover(c)
  <2> DEFINE command == [Unasked EXCEPT !.kind = "recover", !.step = "recover"]
  <2>1. command \in JobType /\ command.step = "recover" /\ command.kind = "recover"
    BY DEF Unasked, JobType, StepName, Outside, Archiving, File
  <2>2. Ask(c, command)
    BY <1>7 DEF AskRecover
  <2> QED
    BY <1>4, <2>1, <2>2
<1> QED
  BY <1>3, <1>5, <1>6, <1>7 DEF Command

-----------------------------------------------------------------------------
(* Steps that write nothing, and the lock                                  *)

\* The lock's own steps change nothing here, and a death ends the command.
LEMMA LockKeeps ==
  ASSUME NEW c \in Call, IInv, LockStep(c) \/ Die(c)
  PROVE  IInv'
<1>1. CASE LockStep(c)
  <2>1. Types' /\ Progress(c)' /\ subject'.version >= subject.version
        /\ \A d \in Call \ {c} : Same(d)
    BY <1>1 DEF LockStep, IInv, Types, repairs, archives, places, Same, Progress, Directed,
                PhaseFits, BeforeMutation, AfterMutation, BackedUp, True
  <2> QED
    BY <2>1, OneStep
<1>2. CASE Die(c)
  <2>1. /\ job' = [job EXCEPT ![c] = Over] /\ UNCHANGED <<repairs, archives, places, litter>>
    BY <1>2 DEF Die
  <2>2. /\ Types' /\ job'[c] = Over /\ UNCHANGED repairs
        /\ \A d \in Call \ {c} : job'[d] = job[d]
    BY <2>1, OverType DEF IInv, Types, repairs, archives, places
  <2> QED
    BY <2>2, Ends
<1> QED
  BY <1>1, <1>2

\* Others make new versions, and no old one comes back.
LEMMA ChangeKeeps ==
  ASSUME IInv, ChangeSubject
  PROVE  IInv'
<1>1. Types' /\ subject'.version >= subject.version /\ \A d \in Call : Same(d)
  BY DEF ChangeSubject, IInv, Types, archives, places, Same
<1> QED
  BY <1>1, Frame DEF IInv

-----------------------------------------------------------------------------
(* applyRepair                                                             *)

\* A write that goes on has taken effect.
LEMMA WritingOutcomes ==
  /\ Writing \subseteq Outcome /\ Moving \subseteq Outcome
  /\ \A o \in Writing : o.fate = "goesOn" => o.took
BY DEF Writing, Moving, Outcome

\* What a write of the manifest does, whatever its outcome.
LEMMA ManifestWritten ==
  ASSUME Types, NEW c \in Call, NEW step, NEW phase \in Phase,
         NEW next \in StepName, NEW bad \in StepName \ {"start"},
         WriteManifest(c, step, phase, next, bad)
  PROVE  /\ Types' /\ job[c].step = step /\ UNCHANGED <<subject, receipt, replaced>>
         /\ \A d \in Call \ {c} : Same(d)
         /\ manifest'[c].copied = manifest[c].copied /\ manifest'[c].copy = manifest[c].copy
         /\ \/ manifest'[c] = manifest[c]
            \/ /\ manifest'[c].phase = phase
               /\ job[c].backed \/ phase = "prepared" => manifest'[c].listed
         /\ \/ /\ GoesTo(c, next)
               /\ manifest'[c].phase = phase
               /\ job[c].backed \/ phase = "prepared" => manifest'[c].listed
            \/ GoesTo(c, bad) \/ job'[c] = Over
<1>1. PICK o \in Writing :
        /\ manifest' = IF ~o.took THEN manifest
                       ELSE [manifest EXCEPT ![c].phase = phase,
                                             ![c].listed = job[c].backed \/ phase = "prepared"]
        /\ Done(c, o, c, next, bad)
  BY DEF WriteManifest
<1>2. /\ job[c].step = step
      /\ subject' = subject /\ receipt' = receipt /\ replaced' = replaced
      /\ album' = album /\ sealed' = sealed /\ home' = home /\ slip' = slip
  BY DEF WriteManifest, At, archives, places
<1>3. /\ job' \in [Call -> JobType]
      /\ \A d \in Call \ {c} : job'[d] = job[d]
      /\ \/ o.fate = "goesOn" /\ GoesTo(c, next)
         \/ GoesTo(c, bad) \/ job'[c] = Over
      /\ litter' \subseteq litter \cup {c}
      /\ o.fate = "goesOn" => o.took
  <2>1. o \in Outcome /\ (o.fate = "goesOn" => o.took)
    BY WritingOutcomes
  <2> QED
    BY <1>1, <2>1, AfterDone
<1>4. c \in Id /\ job[c].backed \in BOOLEAN
      /\ manifest \in [Id -> [phase : Phase, copied : BOOLEAN, listed : BOOLEAN, copy : Nat]]
  BY DEF Id, Types, JobType
<1>5. /\ manifest' \in [Id -> [phase : Phase, copied : BOOLEAN, listed : BOOLEAN, copy : Nat]]
      /\ \A d \in Call \ {c} : manifest'[d] = manifest[d]
      /\ manifest'[c].copied = manifest[c].copied /\ manifest'[c].copy = manifest[c].copy
      /\ \/ ~o.took /\ manifest'[c] = manifest[c]
         \/ /\ manifest'[c].phase = phase
            /\ job[c].backed \/ phase = "prepared" => manifest'[c].listed
  <2>1. CASE ~o.took
    BY <1>1, <1>4, <2>1
  <2>2. CASE o.took
    <3> DEFINE lists == job[c].backed \/ phase = "prepared"
    <3>1. manifest' = [manifest EXCEPT ![c].phase = phase, ![c].listed = lists]
      BY <1>1, <2>2
    <3>2. lists \in BOOLEAN
      OBVIOUS
    <3> HIDE DEF lists
    <3>3. /\ manifest' \in [Id -> [phase : Phase, copied : BOOLEAN, listed : BOOLEAN, copy : Nat]]
          /\ \A d \in Call \ {c} : manifest'[d] = manifest[d]
          /\ manifest'[c].phase = phase /\ manifest'[c].listed = lists
          /\ manifest'[c].copied = manifest[c].copied /\ manifest'[c].copy = manifest[c].copy
      BY <1>4, <3>1, <3>2 DEF Id
    <3>4. lists => manifest'[c].listed
      BY <3>3
    <3> QED
      BY <3>3, <3>4 DEF lists
  <2> QED
    BY <2>1, <2>2
<1>6. Types'
  BY <1>2, <1>3, <1>5 DEF Types
<1>7. \A d \in Call \ {c} : Same(d)
  BY <1>2, <1>3, <1>5 DEF Same
<1> QED
  BY <1>2, <1>3, <1>5, <1>6, <1>7

\* The parts of Progress, for a proof about one command.
LEMMA Parts ==
  ASSUME NEW c \in Call, IInv
  PROVE  /\ Types /\ job[c] \in JobType /\ job[c].backed \in BOOLEAN
         /\ job[c].version \in Nat /\ subject.version \in Nat \ {0}
         /\ manifest[c].copied \in BOOLEAN /\ manifest[c].listed \in BOOLEAN
         /\ manifest[c].copy \in Nat /\ replaced[c] \in Nat
         /\ subject.version >= subject.version
         /\ Directed(c) /\ PhaseFits(c) /\ BeforeMutation(c) /\ AfterMutation(c)
         /\ BackedUp(c) /\ True(c)
BY DEF IInv, Types, JobType, Progress, Id

\* A step of c in its own repair keeps the invariant if it keeps the five parts of
\* its progress; and a step that ends it does so if the last two hold.
LEMMA Applied ==
  ASSUME NEW c \in Call, IInv, Types', \A d \in Call \ {c} : Same(d),
         subject'.version >= subject.version,
         \/ job'[c] = Over
         \/ /\ job'[c].step \notin Archiving
            /\ job'[c].kind = job[c].kind /\ job'[c].wanted = job[c].wanted
            /\ PhaseFits(c)' /\ BeforeMutation(c)' /\ AfterMutation(c)',
         BackedUp(c)', True(c)'
  PROVE  IInv'
<1>1. CASE job'[c] = Over
  <2>1. Progress(c)'
    BY <1>1, OverType
       DEF Progress, Directed, PhaseFits, BeforeMutation, AfterMutation,
           Outside, Archiving, Opening, Mutated, Failing
  <2> QED
    BY <2>1, OneStep
<1>2. CASE job'[c] # Over
  <2>1. Directed(c)'
    BY <1>2, Parts DEF Directed
  <2> QED
    BY <1>2, <2>1, OneStep DEF Progress
<1> QED
  BY <1>1, <1>2

\* The six writes of the manifest.
LEMMA ManifestKeeps ==
  ASSUME NEW c \in Call, IInv,
         Initialize(c) \/ Prepare(c) \/ Start(c) \/ NoteMutated(c) \/ Complete(c) \/ FailManifest(c)
  PROVE  IInv'
<1> USE DEF Outside, Archiving, Opening, Mutated, Failing
<1>0. /\ {"check", "over", "start", "fail", "execute", "verify"} \subseteq StepName
      /\ {"initializing", "prepared", "mutation-started", "mutated", "completed", "failed"} \subseteq Phase
      /\ {"over", "fail"} \subseteq StepName \ {"start"} /\ Types
  BY Parts DEF StepName, Phase
<1>1. CASE Initialize(c)
  <2>1. WriteManifest(c, "initialize", "initializing", "check", "over")
    BY <1>1 DEF Initialize
  <2>2. /\ Types' /\ job[c].step = "initialize" /\ UNCHANGED <<subject, receipt, replaced>>
        /\ \A d \in Call \ {c} : Same(d)
        /\ manifest'[c].copied = manifest[c].copied /\ manifest'[c].copy = manifest[c].copy
        /\ \/ manifest'[c] = manifest[c]
           \/ manifest'[c].phase = "initializing" /\ (job[c].backed => manifest'[c].listed)
        /\ \/ GoesTo(c, "check") /\ manifest'[c].phase = "initializing" /\ (job[c].backed => manifest'[c].listed)
           \/ job'[c] = Over
    BY <1>0, <2>1, ManifestWritten, OverIsOver
  <2>3. BackedUp(c)' /\ True(c)'
    BY <2>2, Parts DEF BeforeMutation, AfterMutation, BackedUp, True
  <2>4. CASE job'[c] # Over
    <3>1. /\ job'[c].step \in {"check", "over"}
          /\ job'[c].kind = job[c].kind /\ job'[c].wanted = job[c].wanted
      BY <2>2, <2>4 DEF GoesTo
    <3>2. PhaseFits(c)' /\ BeforeMutation(c)' /\ AfterMutation(c)'
      BY <2>2, <2>4, Parts DEF GoesTo, PhaseFits, BeforeMutation, AfterMutation
    <3> QED
      BY <2>2, <2>3, <3>1, <3>2, Applied, Parts
  <2> QED
    BY <2>2, <2>3, <2>4, Applied, Parts
<1>2. CASE Prepare(c)
  <2>1. WriteManifest(c, "prepare", "prepared", "start", "fail")
    BY <1>2 DEF Prepare
  <2>2. /\ Types' /\ job[c].step = "prepare" /\ UNCHANGED <<subject, receipt, replaced>>
        /\ \A d \in Call \ {c} : Same(d)
        /\ manifest'[c].copied = manifest[c].copied /\ manifest'[c].copy = manifest[c].copy
        /\ \/ manifest'[c] = manifest[c]
           \/ manifest'[c].phase = "prepared" /\ manifest'[c].listed
        /\ \/ GoesTo(c, "start") /\ manifest'[c].phase = "prepared" /\ manifest'[c].listed
           \/ GoesTo(c, "fail")
           \/ job'[c] = Over
    BY <1>0, <2>1, ManifestWritten, OverIsOver
  <2>3. BackedUp(c)' /\ True(c)'
    BY <2>2, Parts DEF BeforeMutation, AfterMutation, BackedUp, True
  <2>4. CASE job'[c] # Over
    <3>1. /\ job'[c].step \in {"start", "fail"}
          /\ job'[c].kind = job[c].kind /\ job'[c].wanted = job[c].wanted
      BY <2>2, <2>4 DEF GoesTo
    <3>2. PhaseFits(c)' /\ BeforeMutation(c)' /\ AfterMutation(c)'
      BY <2>2, <2>4, Parts DEF GoesTo, PhaseFits, BeforeMutation, AfterMutation
    <3> QED
      BY <2>2, <2>3, <3>1, <3>2, Applied, Parts
  <2> QED
    BY <2>2, <2>3, <2>4, Applied, Parts
<1>3. CASE Start(c)
  <2>1. WriteManifest(c, "start", "mutation-started", "execute", "fail")
    BY <1>3 DEF Start
  <2>2. /\ Types' /\ job[c].step = "start" /\ UNCHANGED <<subject, receipt, replaced>>
        /\ \A d \in Call \ {c} : Same(d)
        /\ manifest'[c].copied = manifest[c].copied /\ manifest'[c].copy = manifest[c].copy
        /\ \/ manifest'[c] = manifest[c]
           \/ manifest'[c].phase = "mutation-started" /\ (job[c].backed => manifest'[c].listed)
        /\ \/ GoesTo(c, "execute") /\ manifest'[c].phase = "mutation-started" /\ (job[c].backed => manifest'[c].listed)
           \/ GoesTo(c, "fail")
           \/ job'[c] = Over
    BY <1>0, <2>1, ManifestWritten, OverIsOver
  <2>3. BackedUp(c)' /\ True(c)'
    BY <2>2, Parts DEF BeforeMutation, AfterMutation, BackedUp, True
  <2>4. CASE job'[c] # Over
    <3>1. /\ job'[c].step \in {"execute", "fail"}
          /\ job'[c].kind = job[c].kind /\ job'[c].wanted = job[c].wanted
      BY <2>2, <2>4 DEF GoesTo
    <3>2. PhaseFits(c)' /\ BeforeMutation(c)' /\ AfterMutation(c)'
      BY <2>2, <2>4, Parts DEF GoesTo, PhaseFits, BeforeMutation, AfterMutation
    <3> QED
      BY <2>2, <2>3, <3>1, <3>2, Applied, Parts
  <2> QED
    BY <2>2, <2>3, <2>4, Applied, Parts
<1>4. CASE NoteMutated(c)
  <2>1. WriteManifest(c, "note", "mutated", "verify", "fail")
    BY <1>4 DEF NoteMutated
  <2>2. /\ Types' /\ job[c].step = "note" /\ UNCHANGED <<subject, receipt, replaced>>
        /\ \A d \in Call \ {c} : Same(d)
        /\ manifest'[c].copied = manifest[c].copied /\ manifest'[c].copy = manifest[c].copy
        /\ \/ manifest'[c] = manifest[c]
           \/ manifest'[c].phase = "mutated" /\ (job[c].backed => manifest'[c].listed)
        /\ \/ GoesTo(c, "verify") /\ manifest'[c].phase = "mutated" /\ (job[c].backed => manifest'[c].listed)
           \/ GoesTo(c, "fail")
           \/ job'[c] = Over
    BY <1>0, <2>1, ManifestWritten, OverIsOver
  <2>3. BackedUp(c)' /\ True(c)'
    BY <2>2, Parts DEF BeforeMutation, AfterMutation, BackedUp, True
  <2>4. CASE job'[c] # Over
    <3>1. /\ job'[c].step \in {"verify", "fail"}
          /\ job'[c].kind = job[c].kind /\ job'[c].wanted = job[c].wanted
      BY <2>2, <2>4 DEF GoesTo
    <3>2. PhaseFits(c)' /\ BeforeMutation(c)' /\ AfterMutation(c)'
      BY <2>2, <2>4, Parts DEF GoesTo, PhaseFits, BeforeMutation, AfterMutation
    <3> QED
      BY <2>2, <2>3, <3>1, <3>2, Applied, Parts
  <2> QED
    BY <2>2, <2>3, <2>4, Applied, Parts
<1>5. CASE Complete(c)
  <2>1. WriteManifest(c, "complete", "completed", "over", "fail")
    BY <1>5 DEF Complete
  <2>2. /\ Types' /\ job[c].step = "complete" /\ UNCHANGED <<subject, receipt, replaced>>
        /\ \A d \in Call \ {c} : Same(d)
        /\ manifest'[c].copied = manifest[c].copied /\ manifest'[c].copy = manifest[c].copy
        /\ \/ manifest'[c] = manifest[c]
           \/ manifest'[c].phase = "completed" /\ (job[c].backed => manifest'[c].listed)
        /\ \/ GoesTo(c, "over") /\ manifest'[c].phase = "completed" /\ (job[c].backed => manifest'[c].listed)
           \/ GoesTo(c, "fail")
           \/ job'[c] = Over
    BY <1>0, <2>1, ManifestWritten, OverIsOver
  <2>3. BackedUp(c)' /\ True(c)'
    BY <2>2, Parts DEF BeforeMutation, AfterMutation, BackedUp, True
  <2>4. CASE job'[c] # Over
    <3>1. /\ job'[c].step \in {"over", "fail"}
          /\ job'[c].kind = job[c].kind /\ job'[c].wanted = job[c].wanted
      BY <2>2, <2>4 DEF GoesTo
    <3>2. PhaseFits(c)' /\ BeforeMutation(c)' /\ AfterMutation(c)'
      BY <2>2, <2>4, Parts DEF GoesTo, PhaseFits, BeforeMutation, AfterMutation
    <3> QED
      BY <2>2, <2>3, <3>1, <3>2, Applied, Parts
  <2> QED
    BY <2>2, <2>3, <2>4, Applied, Parts
<1>6. CASE FailManifest(c)
  <2>1. WriteManifest(c, "giveUp", "failed", "over", "over")
    BY <1>6 DEF FailManifest
  <2>2. /\ Types' /\ job[c].step = "giveUp" /\ UNCHANGED <<subject, receipt, replaced>>
        /\ \A d \in Call \ {c} : Same(d)
        /\ manifest'[c].copied = manifest[c].copied /\ manifest'[c].copy = manifest[c].copy
        /\ \/ manifest'[c] = manifest[c]
           \/ manifest'[c].phase = "failed" /\ (job[c].backed => manifest'[c].listed)
        /\ \/ GoesTo(c, "over") /\ manifest'[c].phase = "failed" /\ (job[c].backed => manifest'[c].listed)
           \/ job'[c] = Over
    BY <1>0, <2>1, ManifestWritten, OverIsOver
  <2>3. BackedUp(c)' /\ True(c)'
    BY <2>2, Parts DEF BeforeMutation, AfterMutation, BackedUp, True
  <2>4. CASE job'[c] # Over
    <3>1. /\ job'[c].step \in {"over", "over"}
          /\ job'[c].kind = job[c].kind /\ job'[c].wanted = job[c].wanted
      BY <2>2, <2>4 DEF GoesTo
    <3>2. PhaseFits(c)' /\ BeforeMutation(c)' /\ AfterMutation(c)'
      BY <2>2, <2>4, Parts DEF GoesTo, PhaseFits, BeforeMutation, AfterMutation
    <3> QED
      BY <2>2, <2>3, <3>1, <3>2, Applied, Parts
  <2> QED
    BY <2>2, <2>3, <2>4, Applied, Parts
<1> QED
  BY <1>1, <1>2, <1>3, <1>4, <1>5, <1>6

\* The steps that only look: at the plan, at the evidence, at the finding.
LEMMA LooksKeep ==
  ASSUME NEW c \in Call, IInv, Refuse(c) \/ CheckEvidence(c) \/ Verify(c)
  PROVE  IInv'
<1> USE DEF Outside, Archiving, Opening, Mutated, Failing
<1>0. {"over", "copy", "fail", "receive"} \subseteq StepName \ {"start"} /\ Types
  BY Parts DEF StepName
<1>1. ASSUME NEW step \in {"over", "copy", "fail", "receive"}, GoOn(c, step)
      PROVE  /\ GoesTo(c, step) /\ Types' /\ UNCHANGED repairs
             /\ \A d \in Call \ {c} : Same(d) /\ job'[d] = job[d]
             /\ subject' = subject /\ manifest' = manifest
             /\ receipt' = receipt /\ replaced' = replaced
  <2>1. /\ GoesTo(c, step) /\ Types' /\ UNCHANGED repairs
        /\ \A d \in Call \ {c} : job'[d] = job[d]
    BY <1>0, <1>1, AfterGoOn
  <2> QED
    BY <2>1 DEF repairs, Same
<1>2. CASE Refuse(c)
  <2>1. GoOn(c, "over")
    BY <1>2 DEF Refuse
  <2> QED
    BY <1>1, <2>1, Ends DEF GoesTo
<1>3. ASSUME NEW step \in {"copy", "fail", "receive"}, GoOn(c, step),
             PhaseFits(c)', BeforeMutation(c)', AfterMutation(c)'
      PROVE  IInv'
  <2>1. /\ GoesTo(c, step) /\ Types' /\ \A d \in Call \ {c} : Same(d)
        /\ subject' = subject /\ manifest' = manifest
        /\ receipt' = receipt /\ replaced' = replaced
    BY <1>1, <1>3
  <2>2. BackedUp(c)' /\ True(c)'
    BY <2>1, Parts DEF BackedUp, True
  <2> QED
    BY <1>3, <2>1, <2>2, Parts, Applied DEF GoesTo
<1>4. CASE CheckEvidence(c)
  <2>1. PICK step \in {"copy", "fail"} : GoOn(c, step)
    BY <1>4 DEF CheckEvidence
  <2>2. job[c].step = "check"
    BY <1>4 DEF CheckEvidence, At
  <2>3. PhaseFits(c)' /\ BeforeMutation(c)' /\ AfterMutation(c)'
    BY <1>1, <2>1, <2>2, Parts DEF GoesTo, PhaseFits, BeforeMutation, AfterMutation
  <2> QED
    BY <1>3, <2>1, <2>3
<1>5. CASE Verify(c)
  <2>1. PICK step \in {"receive", "fail"} : GoOn(c, step)
    BY <1>5 DEF Verify
  <2>2. job[c].step = "verify"
    BY <1>5 DEF Verify, At
  <2>3. PhaseFits(c)' /\ BeforeMutation(c)' /\ AfterMutation(c)'
    BY <1>1, <2>1, <2>2, Parts DEF GoesTo, PhaseFits, BeforeMutation, AfterMutation
  <2> QED
    BY <1>3, <2>1, <2>3
<1> QED
  BY <1>2, <1>4, <1>5

\* The directory of the transaction.
LEMMA MakeRepairKeeps ==
  ASSUME NEW c \in Call, IInv, MakeRepair(c)
  PROVE  IInv'
<1> USE DEF Outside, Archiving, Opening, Mutated, Failing
<1>1. /\ job[c].step = "make" /\ job[c].version = subject.version
      /\ subject' = subject /\ receipt' = receipt /\ replaced' = replaced
      /\ album' = album /\ sealed' = sealed /\ slip' = slip
      /\ manifest' = [manifest EXCEPT ![c].phase = "bare"]
      /\ home' = [home EXCEPT ![c] = "active"]
  BY DEF MakeRepair, At, archives
<1>2. PICK o \in Writing : Done(c, o, c, "initialize", "over")
  BY DEF MakeRepair
<1>3. /\ job' \in [Call -> JobType] /\ \A d \in Call \ {c} : job'[d] = job[d]
      /\ GoesTo(c, "initialize") \/ job'[c] = Over
      /\ litter' \subseteq litter \cup {c}
  <2>1. Types /\ o \in Outcome /\ "initialize" \in StepName /\ "over" \in StepName \ {"start"}
    BY Parts, WritingOutcomes DEF StepName
  <2> QED
    BY <1>2, <2>1, AfterDone, OverIsOver
<1>4. /\ manifest' \in [Id -> [phase : Phase, copied : BOOLEAN, listed : BOOLEAN, copy : Nat]]
      /\ home' \in [Id -> {"none", "active"} \cup Call]
      /\ manifest'[c].phase = "bare"
      /\ \A d \in Call \ {c} : manifest'[d] = manifest[d]
  <2>1. c \in Id /\ "bare" \in Phase
    BY DEF Id, Phase
  <2>2. /\ manifest \in [Id -> [phase : Phase, copied : BOOLEAN, listed : BOOLEAN, copy : Nat]]
        /\ home \in [Id -> {"none", "active"} \cup Call]
    BY Parts DEF Types
  <2> QED
    BY <1>1, <2>1, <2>2 DEF Id
<1>5. Types' /\ \A d \in Call \ {c} : Same(d)
  BY <1>1, <1>3, <1>4, Parts DEF Types, Same
<1>6. BackedUp(c)' /\ True(c)'
  BY <1>1, <1>4, Parts DEF BeforeMutation, BackedUp, True
<1>7. CASE job'[c] # Over
  <2>1. PhaseFits(c)' /\ BeforeMutation(c)' /\ AfterMutation(c)'
    BY <1>1, <1>3, <1>4, <1>7, Parts DEF GoesTo, PhaseFits, BeforeMutation, AfterMutation
  <2> QED
    BY <1>1, <1>3, <1>5, <1>6, <1>7, <2>1, Parts, Applied DEF GoesTo
<1> QED
  BY <1>1, <1>5, <1>6, <1>7, Parts, Applied

\* The copies beside the manifest.
LEMMA CopyKeeps ==
  ASSUME NEW c \in Call, IInv, Copy(c)
  PROVE  IInv'
<1> USE DEF Outside, Archiving, Opening, Mutated, Failing
<1>1. /\ job[c].step = "copy"
      /\ subject' = subject /\ receipt' = receipt /\ replaced' = replaced
      /\ album' = album /\ sealed' = sealed /\ home' = home /\ slip' = slip
  BY DEF Copy, At, archives, places
<1>2. PICK o \in Writing, version \in {job[c].version, subject.version} :
        /\ manifest' = IF ~o.took THEN manifest
                       ELSE [manifest EXCEPT ![c].copied = TRUE, ![c].copy = version]
        /\ Done(c, o, c, "prepare", "fail")
  BY DEF Copy
<1>3. /\ job' \in [Call -> JobType] /\ \A d \in Call \ {c} : job'[d] = job[d]
      /\ \/ GoesTo(c, "prepare") /\ o.took
         \/ GoesTo(c, "fail") \/ job'[c] = Over
      /\ litter' \subseteq litter \cup {c}
  <2>1. Types /\ o \in Outcome /\ "prepare" \in StepName /\ "fail" \in StepName \ {"start"}
    BY Parts, WritingOutcomes DEF StepName
  <2>2. o.fate = "goesOn" => o.took
    BY WritingOutcomes
  <2> QED
    BY <1>2, <2>1, <2>2, AfterDone
<1>4. /\ manifest' \in [Id -> [phase : Phase, copied : BOOLEAN, listed : BOOLEAN, copy : Nat]]
      /\ \A d \in Call \ {c} : manifest'[d] = manifest[d]
      /\ manifest'[c].phase = manifest[c].phase /\ manifest'[c].listed = manifest[c].listed
      /\ o.took => manifest'[c].copied /\ manifest'[c].copy = version
  <2>1. c \in Id /\ version \in Nat
    BY Parts DEF Id
  <2>2. manifest \in [Id -> [phase : Phase, copied : BOOLEAN, listed : BOOLEAN, copy : Nat]]
    BY Parts DEF Types
  <2>3. CASE o.took
    <3>1. manifest' = [manifest EXCEPT ![c].copied = TRUE, ![c].copy = version]
      BY <1>2, <2>3
    <3> QED
      BY <2>1, <2>2, <3>1 DEF Id
  <2>4. CASE ~o.took
    BY <1>2, <2>2, <2>4
  <2> QED
    BY <2>3, <2>4
<1>5. Types' /\ \A d \in Call \ {c} : Same(d)
  BY <1>1, <1>3, <1>4, Parts DEF Types, Same
<1>6. BackedUp(c)' /\ True(c)'
  BY <1>1, <1>4, Parts DEF BeforeMutation, BackedUp, True
<1>7. CASE job'[c] # Over
  <2>1. PhaseFits(c)' /\ AfterMutation(c)'
    BY <1>1, <1>3, <1>4, <1>7, Parts DEF GoesTo, PhaseFits, BeforeMutation, AfterMutation
  <2>2. BeforeMutation(c)'
    BY <1>1, <1>2, <1>3, <1>4, <1>7, Parts DEF GoesTo, BeforeMutation
  <2> QED
    BY <1>1, <1>3, <1>5, <1>6, <1>7, <2>1, <2>2, Parts, Applied DEF GoesTo
<1> QED
  BY <1>1, <1>5, <1>6, <1>7, Parts, Applied

\* The mutation: the version it replaces is the planned one, which was backed up.
LEMMA ExecuteKeeps ==
  ASSUME NEW c \in Call, IInv, Execute(c)
  PROVE  IInv'
<1> USE DEF Outside, Archiving, Opening, Mutated, Failing
<1>1. job[c].step = "execute" /\ {"note", "fail"} \subseteq StepName \ {"start"}
  BY DEF Execute, At, StepName
<1>2. CASE subject.version # job[c].version
  <2>1. GoOn(c, "fail")
    BY <1>2 DEF Execute
  <2>2. /\ GoesTo(c, "fail") /\ Types' /\ UNCHANGED repairs
        /\ \A d \in Call \ {c} : job'[d] = job[d]
    BY <1>1, <2>1, Parts, AfterGoOn
  <2>3. /\ subject' = subject /\ manifest' = manifest
        /\ receipt' = receipt /\ replaced' = replaced
        /\ \A d \in Call \ {c} : Same(d)
    BY <2>2 DEF repairs, Same
  <2>4. PhaseFits(c)' /\ BeforeMutation(c)' /\ AfterMutation(c)' /\ BackedUp(c)' /\ True(c)'
    BY <1>1, <2>2, <2>3, Parts
       DEF GoesTo, PhaseFits, BeforeMutation, AfterMutation, BackedUp, True
  <2> QED
    BY <2>2, <2>3, <2>4, Parts, Applied DEF GoesTo
<1>3. CASE subject.version = job[c].version
  <2>1. Mutate(c)
    BY <1>3 DEF Execute
  <2>2. PICK o \in Writing, broken \in BOOLEAN :
          /\ IF o.took
               THEN /\ subject' = [version |-> subject.version + 1, broken |-> broken]
                    /\ replaced' = [replaced EXCEPT ![c] = subject.version]
               ELSE UNCHANGED <<subject, replaced>>
          /\ Done(c, o, c, "note", "fail")
          /\ UNCHANGED <<manifest, receipt, archives, places>>
    BY <2>1 DEF Mutate
  <2>3. /\ job' \in [Call -> JobType] /\ \A d \in Call \ {c} : job'[d] = job[d]
        /\ \/ GoesTo(c, "note") /\ o.took
           \/ GoesTo(c, "fail") \/ job'[c] = Over
        /\ litter' \subseteq litter \cup {c}
    <3>1. Types /\ o \in Outcome /\ (o.fate = "goesOn" => o.took)
      BY Parts, WritingOutcomes
    <3> QED
      BY <1>1, <2>2, <3>1, AfterDone
  <2>4. /\ manifest' = manifest /\ receipt' = receipt
        /\ album' = album /\ sealed' = sealed /\ home' = home /\ slip' = slip
    BY <2>2 DEF archives, places
  <2>5. /\ subject' \in [version : Nat \ {0}, broken : BOOLEAN]
        /\ subject'.version >= subject.version
        /\ replaced' \in [Id -> Nat]
        /\ \A d \in Call \ {c} : replaced'[d] = replaced[d]
        /\ \/ o.took /\ replaced'[c] = subject.version
           \/ ~o.took /\ replaced'[c] = replaced[c] /\ subject' = subject
    <3>1. subject \in [version : Nat \ {0}, broken : BOOLEAN] /\ replaced \in [Id -> Nat] /\ c \in Id
      BY Parts DEF Types, Id
    <3>2. CASE o.took
      BY <2>2, <3>1, <3>2 DEF Id
    <3>3. CASE ~o.took
      BY <2>2, <3>1, <3>3
    <3> QED
      BY <3>2, <3>3
  <2>6. Types' /\ \A d \in Call \ {c} : Same(d)
    BY <2>3, <2>4, <2>5, Parts DEF Types, Same
  <2>7. BackedUp(c)' /\ True(c)'
    BY <1>1, <1>3, <2>4, <2>5, Parts DEF PhaseFits, BeforeMutation, BackedUp, True
  <2>8. CASE job'[c] # Over
    <3>1. PhaseFits(c)' /\ BeforeMutation(c)' /\ AfterMutation(c)'
      BY <1>1, <2>3, <2>4, <2>5, <2>8, Parts DEF GoesTo, PhaseFits, BeforeMutation, AfterMutation
    <3> QED
      BY <2>3, <2>5, <2>6, <2>7, <2>8, <3>1, Parts, Applied DEF GoesTo
  <2> QED
    BY <2>5, <2>6, <2>7, <2>8, Applied
<1> QED
  BY <1>2, <1>3

\* The receipt of a repair, or of its failure.
LEMMA ReceiptKeeps ==
  ASSUME NEW c \in Call, IInv, Receive(c) \/ Fail(c)
  PROVE  IInv'
<1> USE DEF Outside, Archiving, Opening, Mutated, Failing
<1>1. ASSUME NEW status \in {"completed", "failed"}, NEW next \in StepName \ {"start"},
             NEW bad \in StepName \ {"start"}, WriteReceipt(c, status, next, bad)
      PROVE  /\ Types' /\ \A d \in Call \ {c} : Same(d)
             /\ subject' = subject /\ manifest' = manifest /\ replaced' = replaced
             /\ receipt'[c] \in {receipt[c], status}
             /\ \/ GoesTo(c, next) /\ receipt'[c] = status
                \/ GoesTo(c, bad) \/ job'[c] = Over
  <2>1. PICK o \in Writing :
          /\ IF o.took THEN /\ receipt' = [receipt EXCEPT ![c] = status]
                            /\ slip' = [slip EXCEPT ![c] = "active"]
                       ELSE UNCHANGED <<receipt, slip>>
          /\ Done(c, o, "receipts", next, bad)
    BY <1>1 DEF WriteReceipt
  <2>2. /\ subject' = subject /\ manifest' = manifest /\ replaced' = replaced
        /\ album' = album /\ sealed' = sealed /\ home' = home
    BY <1>1 DEF WriteReceipt, archives
  <2>3. /\ job' \in [Call -> JobType] /\ \A d \in Call \ {c} : job'[d] = job[d]
        /\ \/ GoesTo(c, next) /\ o.took
           \/ GoesTo(c, bad) \/ job'[c] = Over
        /\ litter' \subseteq litter \cup {"receipts"}
    <3>1. Types /\ o \in Outcome /\ (o.fate = "goesOn" => o.took)
      BY Parts, WritingOutcomes
    <3> QED
      BY <1>1, <2>1, <3>1, AfterDone
  <2>4. /\ receipt' \in [Id -> {"none", "completed", "failed"}]
        /\ slip' \in [Id -> {"none", "active"} \cup Call]
        /\ \A d \in Call \ {c} : receipt'[d] = receipt[d]
        /\ receipt'[c] \in {receipt[c], status}
        /\ o.took => receipt'[c] = status
    <3>1. /\ receipt \in [Id -> {"none", "completed", "failed"}]
          /\ slip \in [Id -> {"none", "active"} \cup Call] /\ c \in Id
      BY Parts DEF Types, Id
    <3>2. CASE o.took
      BY <2>1, <3>1, <3>2 DEF Id
    <3>3. CASE ~o.took
      BY <2>1, <3>1, <3>3
    <3> QED
      BY <3>2, <3>3
  <2>5. Types' /\ \A d \in Call \ {c} : Same(d)
    BY <2>2, <2>3, <2>4, Parts DEF Types, Same
  <2> QED
    BY <2>2, <2>3, <2>4, <2>5
<1>2. {"complete", "fail", "giveUp"} \subseteq StepName \ {"start"}
  BY DEF StepName
<1>3. CASE Receive(c)
  <2>1. job[c].step = "receive" /\ WriteReceipt(c, "completed", "complete", "fail")
    BY <1>3 DEF Receive, At
  <2>2. /\ Types' /\ \A d \in Call \ {c} : Same(d)
        /\ subject' = subject /\ manifest' = manifest /\ replaced' = replaced
        /\ receipt'[c] \in {receipt[c], "completed"}
        /\ \/ GoesTo(c, "complete") /\ receipt'[c] = "completed"
           \/ GoesTo(c, "fail") \/ job'[c] = Over
    BY <1>1, <1>2, <2>1
  <2>3. BackedUp(c)' /\ True(c)'
    BY <2>1, <2>2, Parts DEF PhaseFits, AfterMutation, BackedUp, True
  <2>4. CASE job'[c] # Over
    <3>1. PhaseFits(c)' /\ BeforeMutation(c)' /\ AfterMutation(c)'
      BY <2>1, <2>2, <2>4, Parts DEF GoesTo, PhaseFits, BeforeMutation, AfterMutation
    <3> QED
      BY <2>2, <2>3, <2>4, <3>1, Parts, Applied DEF GoesTo
  <2> QED
    BY <2>2, <2>3, <2>4, Parts, Applied
<1>4. CASE Fail(c)
  <2>1. job[c].step = "fail" /\ WriteReceipt(c, "failed", "giveUp", "giveUp")
    BY <1>4 DEF Fail, At
  <2>2. /\ Types' /\ \A d \in Call \ {c} : Same(d)
        /\ subject' = subject /\ manifest' = manifest /\ replaced' = replaced
        /\ receipt'[c] \in {receipt[c], "failed"}
        /\ GoesTo(c, "giveUp") \/ job'[c] = Over
    BY <1>1, <1>2, <2>1
  <2>3. BackedUp(c)' /\ True(c)'
    BY <2>1, <2>2, Parts DEF BackedUp, True
  <2>4. CASE job'[c] # Over
    <3>1. PhaseFits(c)' /\ BeforeMutation(c)' /\ AfterMutation(c)'
      BY <2>1, <2>2, <2>4, Parts DEF GoesTo, PhaseFits, BeforeMutation, AfterMutation
    <3> QED
      BY <2>2, <2>3, <2>4, <3>1, Parts, Applied DEF GoesTo
  <2> QED
    BY <2>2, <2>3, <2>4, Parts, Applied
<1> QED
  BY <1>3, <1>4

-----------------------------------------------------------------------------
(* Archives *)

\* A step of a command that is busy with an archive keeps the invariant if it
\* leaves the records of the repairs alone, and the places have their types.
LEMMA ArchiveGoes ==
  ASSUME NEW c \in Call, IInv, Types', UNCHANGED repairs,
         \A d \in Call \ {c} : job'[d] = job[d],
         job[c].step \in Archiving \ {"recover"},
         NEW step \in Archiving \cup {"over"}, GoesTo(c, step) \/ job'[c] = Over
  PROVE  IInv'
<1>1. CASE job'[c] = Over
  BY <1>1, Ends
<1>2. CASE job'[c] # Over
  <2>1. GoesTo(c, step) /\ step \in Archiving
    BY <1>2, OverIsOver
  <2>2. /\ job'[c].step = step /\ job'[c].kind = job[c].kind
        /\ job'[c].wanted = job[c].wanted /\ job'[c].on = job[c].on
    BY <2>1 DEF GoesTo, Archiving
  <2>3. Directed(c)'
    BY <2>1, <2>2, Parts DEF Directed
  <2>4. job[c].step \in Outside /\ job'[c].step \in (Outside \ {"make"}) \cup {"over"}
    BY <2>1, <2>2 DEF Outside, Archiving
  <2> QED
    BY <2>3, <2>4, Elsewhere
<1> QED
  BY <1>1, <1>2

\* How a write ends for such a command.
LEMMA ArchiveDone ==
  ASSUME NEW c \in Call, IInv, NEW o \in Outcome, NEW directory \in Call,
         NEW step \in Archiving \cup {"over"}, Done(c, o, directory, step, "over")
  PROVE  /\ job' \in [Call -> JobType] /\ \A d \in Call \ {c} : job'[d] = job[d]
         /\ GoesTo(c, step) \/ job'[c] = Over
         /\ litter' \subseteq Call \cup {"receipts"}
<1>1. Types /\ step \in StepName /\ "over" \in StepName \ {"start"} /\ litter \subseteq Call \cup {"receipts"}
  BY Parts DEF StepName, Outside, Types
<1>2. /\ job' \in [Call -> JobType] /\ \A d \in Call \ {c} : job'[d] = job[d]
      /\ GoesTo(c, step) \/ GoesTo(c, "over") \/ job'[c] = Over
      /\ litter' \subseteq litter \cup {directory}
  BY <1>1, AfterDone, Zenon
<1>3. litter' \subseteq Call \cup {"receipts"}
  BY <1>1, <1>2
<1> QED
  BY <1>2, <1>3, OverIsOver, Zenon

\* A write of the manifest of an archive.
LEMMA AlbumKeeps ==
  ASSUME NEW c \in Call, IInv, job[c].step \in Archiving \ {"recover"},
         NEW status \in Status, NEW items \in SUBSET Old,
         NEW next \in Archiving \cup {"over"}, WriteAlbum(c, status, items, next)
  PROVE  IInv'
<1>1. PICK o \in Writing :
        /\ album' = IF o.took THEN [album EXCEPT ![job[c].on] = [status |-> status, items |-> items]]
                              ELSE album
        /\ Done(c, o, job[c].on, next, "over")
        /\ UNCHANGED <<repairs, places, sealed>>
  BY DEF WriteAlbum
<1>2. job[c].on \in Call
  BY Parts DEF Directed
<1>3. /\ job' \in [Call -> JobType] /\ \A d \in Call \ {c} : job'[d] = job[d]
      /\ GoesTo(c, next) \/ job'[c] = Over
      /\ litter' \subseteq Call \cup {"receipts"}
  BY <1>1, <1>2, WritingOutcomes, ArchiveDone
<1>4. album' \in [Call -> [status : Status, items : SUBSET Old]]
  <2>1. album \in [Call -> [status : Status, items : SUBSET Old]]
    BY Parts DEF Types
  <2> QED
    BY <1>1, <2>1
<1>5. Types'
  BY <1>1, <1>3, <1>4, Parts DEF Types, repairs, places
<1> QED
  BY <1>1, <1>3, <1>5, ArchiveGoes

\* The steps on the way to an archive, and through those that are not finished.
LEMMA RecoverKeeps ==
  ASSUME NEW c \in Call, IInv, RecoverThrows(c) \/ RecoverNext(c) \/ Recovered(c) \/ RefusePlan(c)
  PROVE  IInv'
<1>1. CASE RecoverThrows(c) \/ RefusePlan(c)
  <2>1. GoOn(c, "over") /\ "over" \in StepName \ {"start"}
    BY <1>1 DEF RecoverThrows, RefusePlan, StepName
  <2>2. /\ Types' /\ UNCHANGED repairs /\ job'[c] = Over
        /\ \A d \in Call \ {c} : job'[d] = job[d]
    BY <2>1, Parts, AfterGoOn, OverIsOver
  <2> QED
    BY <2>2, Ends
<1>2. ASSUME NEW new \in JobType, job' = [job EXCEPT ![c] = new],
             UNCHANGED <<repairs, archives, places, litter>>
      PROVE  /\ Types' /\ UNCHANGED repairs /\ job'[c] = new
             /\ \A d \in Call \ {c} : job'[d] = job[d]
  <2>1. job \in [Call -> JobType]
    BY Parts DEF Types
  <2>2. job' \in [Call -> JobType] /\ job'[c] = new /\ \A d \in Call \ {c} : job'[d] = job[d]
    BY <1>2, <2>1
  <2> QED
    BY <1>2, <2>2, Parts DEF Types, repairs, archives, places
<1>3. job[c].step \in Archiving => job[c].kind \in {"archive", "restore", "recover"}
  BY Parts DEF Directed
<1>4. CASE RecoverNext(c)
  <2>1. PICK a \in Unfinished : job' = [job EXCEPT ![c].step = album[a].status, ![c].on = a]
    BY <1>4 DEF RecoverNext
  <2>2. a \in Call /\ album[a].status \in {"archiving", "restoring"} /\ job[c].step = "recover"
    BY <1>4, <2>1 DEF Unfinished, RecoverNext, At
  <2> DEFINE new == [job[c] EXCEPT !.step = album[a].status, !.on = a]
  <2>3. /\ new \in JobType /\ new.step \in {"archiving", "restoring"} /\ new.on = a
        /\ new.kind = job[c].kind /\ new.wanted = job[c].wanted
    BY <2>2, Parts DEF JobType, StepName, Outside, Archiving, File
  <2>4. job' = [job EXCEPT ![c] = new]
    BY <2>1, Parts DEF Types, JobType
  <2> HIDE DEF new
  <2>5. /\ Types' /\ UNCHANGED repairs /\ job'[c] = new
        /\ \A d \in Call \ {c} : job'[d] = job[d]
    BY <1>2, <1>4, <2>3, <2>4 DEF RecoverNext
  <2>6. Directed(c)'
    BY <1>3, <2>2, <2>3, <2>5, Parts DEF Directed, Archiving
  <2>7. job[c].step \in Outside /\ job'[c].step \in (Outside \ {"make"}) \cup {"over"}
    BY <2>2, <2>3, <2>5 DEF Outside, Archiving
  <2> QED
    BY <2>5, <2>6, <2>7, Elsewhere
<1>5. CASE Recovered(c)
  <2>1. job[c].step = "recover"
    BY <1>5 DEF Recovered, At
  <2>2. CASE job[c].kind = "recover"
    <3>1. job' = [job EXCEPT ![c] = Over]
      BY <1>5, <2>2 DEF Recovered
    <3>2. /\ Types' /\ UNCHANGED repairs /\ job'[c] = Over
          /\ \A d \in Call \ {c} : job'[d] = job[d]
      BY <1>2, <1>5, <3>1, OverType DEF Recovered
    <3> QED
      BY <3>2, Ends
  <2>3. CASE job[c].kind # "recover"
    <3> DEFINE new == [job[c] EXCEPT !.step = "plan", !.on = job[c].wanted, !.own = TRUE]
    <3>1. job[c].kind \in {"archive", "restore"} /\ job[c].wanted \in Call
      BY <1>3, <2>1, <2>3, Parts DEF Directed, Archiving
    <3>2. /\ new \in JobType /\ new.step = "plan" /\ new.on \in Call
          /\ new.kind = job[c].kind /\ new.wanted = job[c].wanted
      BY <3>1, Parts DEF JobType, StepName, Outside, Archiving, File
    <3>3. job' = [job EXCEPT ![c] = new]
      BY <1>5, <2>3 DEF Recovered
    <3> HIDE DEF new
    <3>4. /\ Types' /\ UNCHANGED repairs /\ job'[c] = new
          /\ \A d \in Call \ {c} : job'[d] = job[d]
      BY <1>2, <1>5, <3>2, <3>3 DEF Recovered
    <3>5. Directed(c)'
      BY <3>1, <3>2, <3>4 DEF Directed
    <3>6. job[c].step \in Outside /\ job'[c].step \in (Outside \ {"make"}) \cup {"over"}
      BY <2>1, <3>2, <3>4 DEF Outside, Archiving
    <3> QED
      BY <3>4, <3>5, <3>6, Elsewhere
  <2> QED
    BY <2>2, <2>3
<1> QED
  BY <1>1, <1>4, <1>5

\* A part of an item is moved into an archive or back.
LEMMA MovesKeep ==
  ASSUME NEW c \in Call, IInv, NEW step \in {"archiving", "restoring"},
         NEW from, NEW between, NEW to \in {"active"} \cup Call,
         \/ MoveTransaction(c, step, from, between, to)
         \/ MoveReceipt(c, step, between, to)
  PROVE  IInv'
<1>1. job[c].step = step /\ step \in Archiving \ {"recover"}
  BY DEF MoveTransaction, MoveReceipt, At, Archiving
<1>2. job[c].on \in Call
  BY <1>1, Parts DEF Directed
<1>3. ASSUME NEW class PROVE InClass(job[c].on, class) \subseteq Id
  <2>1. album[job[c].on].items \subseteq Old
    BY <1>2, Parts DEF Types
  <2> QED
    BY <2>1 DEF InClass, Id
<1>4. ASSUME NEW o \in Moving, Done(c, o, job[c].on, step, "over")
      PROVE  /\ job' \in [Call -> JobType] /\ \A d \in Call \ {c} : job'[d] = job[d]
             /\ GoesTo(c, step) \/ job'[c] = Over
             /\ litter' \subseteq Call \cup {"receipts"}
  BY <1>1, <1>2, <1>4, WritingOutcomes, ArchiveDone
<1>5. /\ home \in [Id -> {"none", "active"} \cup Call]
      /\ slip \in [Id -> {"none", "active"} \cup Call]
  BY Parts DEF Types
<1>6. CASE MoveTransaction(c, step, from, between, to)
  <2>1. PICK r \in InClass(job[c].on, from), o \in Moving :
          /\ home' = IF o.took THEN [home EXCEPT ![r] = to] ELSE home
          /\ Done(c, o, job[c].on, step, "over")
    BY <1>6 DEF MoveTransaction
  <2>2. home' \in [Id -> {"none", "active"} \cup Call]
    BY <1>3, <1>5, <2>1
  <2>3. UNCHANGED <<repairs, archives, slip>>
    BY <1>6 DEF MoveTransaction
  <2>4. Types'
    BY <1>4, <2>1, <2>2, <2>3, Parts DEF Types, repairs, archives
  <2> QED
    BY <1>1, <1>4, <2>1, <2>3, <2>4, ArchiveGoes
<1>7. CASE MoveReceipt(c, step, between, to)
  <2>1. PICK r \in InClass(job[c].on, between), o \in Moving :
          /\ slip' = IF o.took THEN [slip EXCEPT ![r] = to] ELSE slip
          /\ Done(c, o, job[c].on, step, "over")
    BY <1>7 DEF MoveReceipt
  <2>2. slip' \in [Id -> {"none", "active"} \cup Call]
    BY <1>3, <1>5, <2>1
  <2>3. UNCHANGED <<repairs, archives, home>>
    BY <1>7 DEF MoveReceipt
  <2>4. Types'
    BY <1>4, <2>1, <2>2, <2>3, Parts DEF Types, repairs, archives
  <2> QED
    BY <1>1, <1>4, <2>1, <2>3, <2>4, ArchiveGoes
<1> QED
  BY <1>6, <1>7

\* The other steps of an archive or a restore.
LEMMA ArchiveKeeps ==
  ASSUME NEW c \in Call, IInv,
         MakeAlbum(c) \/ BeginArchive(c) \/ BeginRestore(c) \/ FinishArchive(c) \/ RestoreItems(c)
  PROVE  IInv'
<1>1. /\ {"archiving", "restoring", "committed", "restored", "bare"} \subseteq Status
      /\ {"list", "archiving", "restoring", "commit", "recover", "over"} \subseteq Archiving \cup {"over"}
      /\ {"plan", "list", "archiving", "restoring", "commit"} \subseteq Archiving \ {"recover"}
  BY DEF Status, Archiving
<1>2. /\ job[c].items \in SUBSET Old
      /\ job[c].step \in Archiving \ {"recover"} =>
           job[c].on \in Call /\ album[job[c].on].items \in SUBSET Old
  BY Parts DEF Directed, Types, JobType
<1>3. CASE MakeAlbum(c)
  <2>1. PICK o \in Writing : Done(c, o, c, "list", "over")
    BY <1>3 DEF MakeAlbum
  <2>2. /\ job[c].step = "plan" /\ album' = [album EXCEPT ![c].status = "bare"]
        /\ UNCHANGED <<repairs, places, sealed>>
    BY <1>3 DEF MakeAlbum, At
  <2>3. /\ job' \in [Call -> JobType] /\ \A d \in Call \ {c} : job'[d] = job[d]
        /\ GoesTo(c, "list") \/ job'[c] = Over
        /\ litter' \subseteq Call \cup {"receipts"}
    BY <1>1, <2>1, WritingOutcomes, ArchiveDone
  <2>4. album' \in [Call -> [status : Status, items : SUBSET Old]]
    BY <1>1, <2>2, Parts DEF Types
  <2>5. Types'
    BY <2>2, <2>3, <2>4, Parts DEF Types, repairs, places
  <2> QED
    BY <1>1, <2>2, <2>3, <2>5, ArchiveGoes
<1>4. CASE BeginArchive(c)
  <2>1. job[c].step = "list" /\ WriteAlbum(c, "archiving", job[c].items, "archiving")
    BY <1>4 DEF BeginArchive, At
  <2> QED
    BY <1>1, <1>2, <2>1, AlbumKeeps
<1>5. CASE BeginRestore(c)
  <2>1. job[c].step = "plan" /\ WriteAlbum(c, "restoring", album[job[c].on].items, "restoring")
    BY <1>5 DEF BeginRestore, At
  <2> QED
    BY <1>1, <1>2, <2>1, AlbumKeeps
<1>6. Afterwards(c) \in {"over", "recover"}
  BY DEF Afterwards
<1>7. CASE FinishArchive(c)
  <2>1. CASE \/ MoveTransaction(c, "archiving", "active", "transaction-moved", job[c].on)
             \/ MoveReceipt(c, "archiving", "transaction-moved", job[c].on)
    <3>1. job[c].step = "archiving"
      BY <2>1 DEF MoveTransaction, MoveReceipt, At
    <3>2. job[c].on \in {"active"} \cup Call
      BY <1>1, <1>2, <3>1
    <3> QED
      BY <2>1, <3>2, MovesKeep
  <2>2. CASE Seal(c)
    <3>1. job[c].step = "archiving"
      BY <2>2 DEF Seal, At
    <3>2. CASE job[c].on \in sealed
      <4>1. GoOn(c, "commit") /\ "commit" \in StepName \ {"start"}
        BY <2>2, <3>2 DEF Seal, StepName, Outside, Archiving
      <4>2. /\ GoesTo(c, "commit") /\ Types' /\ UNCHANGED repairs
            /\ \A d \in Call \ {c} : job'[d] = job[d]
        BY <4>1, Parts, AfterGoOn
      <4> QED
        BY <1>1, <3>1, <4>2, ArchiveGoes
    <3>3. CASE job[c].on \notin sealed
      <4>1. PICK o \in Writing : /\ sealed' = IF o.took THEN sealed \cup {job[c].on} ELSE sealed
                                 /\ Done(c, o, job[c].on, "commit", "over")
        BY <2>2, <3>3 DEF Seal
      <4>2. UNCHANGED <<repairs, places, album>>
        BY <2>2, <3>3 DEF Seal
      <4>3. /\ job' \in [Call -> JobType] /\ \A d \in Call \ {c} : job'[d] = job[d]
            /\ GoesTo(c, "commit") \/ job'[c] = Over
            /\ litter' \subseteq Call \cup {"receipts"}
        BY <1>1, <1>2, <3>1, <4>1, WritingOutcomes, ArchiveDone
      <4>4. sealed' \subseteq Call
        BY <1>1, <1>2, <3>1, <4>1, Parts DEF Types
      <4>5. Types'
        BY <4>2, <4>3, <4>4, Parts DEF Types, repairs, places
      <4> QED
        BY <1>1, <3>1, <4>2, <4>3, <4>5, ArchiveGoes
    <3> QED
      BY <3>2, <3>3
  <2>3. CASE Commit(c)
    <3>1. job[c].step = "commit" /\ WriteAlbum(c, "committed", album[job[c].on].items, Afterwards(c))
      BY <2>3 DEF Commit, At
    <3> QED
      BY <1>1, <1>2, <1>6, <3>1, AlbumKeeps
  <2> QED
    BY <1>7, <2>1, <2>2, <2>3 DEF FinishArchive
<1>8. CASE RestoreItems(c)
  <2>1. CASE \/ MoveTransaction(c, "restoring", "archived", "transaction-restored", "active")
             \/ MoveReceipt(c, "restoring", "transaction-restored", "active")
    BY <2>1, MovesKeep
  <2>2. CASE FinishRestore(c)
    <3>1. /\ job[c].step = "restoring"
          /\ WriteAlbum(c, "restored", album[job[c].on].items, Afterwards(c))
      BY <2>2 DEF FinishRestore, At
    <3> QED
      BY <1>1, <1>2, <1>6, <3>1, AlbumKeeps
  <2> QED
    BY <1>8, <2>1, <2>2 DEF RestoreItems
<1> QED
  BY <1>3, <1>4, <1>5, <1>7, <1>8

-----------------------------------------------------------------------------
(* The theorem *)

\* No step of any call breaks the inductive invariant.
LEMMA StepKeeps == IInv /\ [RepairNext]_allVars => IInv'
<1> SUFFICES ASSUME IInv, [RepairNext]_allVars PROVE IInv'
  OBVIOUS
<1>1. CASE UNCHANGED allVars
  BY <1>1 DEF allVars, repairs, archives, places, IInv, Types, Progress, Directed, PhaseFits,
              BeforeMutation, AfterMutation, BackedUp, True
<1>2. ASSUME NEW c \in Call, Command(c) PROVE IInv'
  BY <1>2, AskingKeeps
<1>3. ASSUME NEW c \in Call, LockStep(c) \/ Die(c) PROVE IInv'
  BY <1>3, LockKeeps
<1>4. ASSUME NEW c \in Call, ApplyStep(c) PROVE IInv'
  BY <1>4, LooksKeep, MakeRepairKeeps, ManifestKeeps, CopyKeeps, ExecuteKeeps, ReceiptKeeps
     DEF ApplyStep
<1>5. ASSUME NEW c \in Call, ArchiveStep(c) PROVE IInv'
  BY <1>5, RecoverKeeps, ArchiveKeeps DEF ArchiveStep
<1>6. CASE ChangeSubject
  BY <1>6, ChangeKeeps
<1> QED
  BY <1>1, <1>2, <1>3, <1>4, <1>5, <1>6 DEF RepairNext

\* What a repair replaced can be put back from a copy of just that version, and its
\* manifest and its receipt say truly whether it was made: wherever applyRepair
\* throws or its process dies, and whatever others change, archive and restore.
THEOREM RepairsAccountable == RepairSpec => []RepairsAreAccountable
<1>1. IInv => RepairsAreAccountable
  <2> SUFFICES ASSUME IInv PROVE RepairsAreAccountable
    OBVIOUS
  <2>1. RepairTypeOK
    BY DEF IInv, Types, RepairTypeOK, Phase, Status
  <2>2. ReplacedIsBackedUp
    BY DEF IInv, Progress, BackedUp, ReplacedIsBackedUp
  <2>3. RecordsAreTrue
    BY DEF IInv, Progress, True, RecordsAreTrue
  <2> QED
    BY <2>1, <2>2, <2>3 DEF RepairsAreAccountable
<1> QED
  BY <1>1, Starts, StepKeeps, PTL DEF RepairSpec

-----------------------------------------------------------------------------
(* The lock                                                                *)

\* What the lock rests on: no two reapers are between the second look at the lock
\* file and its rename at the same time.  reapExpiredOwner makes that unlikely, with a
\* random delay before the second look, but does not exclude it; and with four calls
\* or more, Exclusion is false without it.  Nothing else that a process does or
\* suffers needs to be assumed.
ReapersApart ==
  \A c, d \in Call : pc[c] = "moving" /\ pc[d] = "moving" => c = d

\* A reaper that was shown the lock file of a dead process.
Watches(c) == observed[c] \in Call /\ ~alive[observed[c]]

\* From the creation of its file to the rename of it, a call that lives has it at the
\* lock path.  A reaper knows a dead owner; from the second look on, what is at the
\* lock path, and then in its hands, is the file of that owner.
LockFits(c) ==
  /\ pc[c] # "done" => alive[c]
  /\ pc[c] \in {"filling", "running", "moveOut"} => target = c
  /\ pc[c] \in {"reread", "moving", "judging", "discarding"} => Watches(c)
  /\ pc[c] = "moving" => target = observed[c]
  /\ pc[c] \in {"judging", "discarding"} => stale[c] = observed[c]
  /\ pc[c] # "restoring"

LockInv == TypeOK /\ \A c \in Call : LockFits(c)

\* All calls are about to begin.
LEMMA LockStarts == Init => LockInv
BY DEF Init, LockInv, TypeOK, LockFits, Watches, File, Steps

\* A step of a call that leaves the lock path and the other calls alone.
LEMMA LockFrame ==
  ASSUME LockInv, NEW c \in Call, TypeOK', LockFits(c)', UNCHANGED <<target, alive>>,
         \A d \in Call \ {c} : /\ pc'[d] = pc[d] /\ observed'[d] = observed[d]
                               /\ stale'[d] = stale[d]
  PROVE  LockInv'
BY DEF LockInv, LockFits, Watches

\* A call that is looked at by its pc and its observation only.
LEMMA LooksKeepLock ==
  ASSUME LockInv, NEW c \in Call,
         \/ Fill(c) \/ ObserveDead(c) \/ ObserveHeld(c) \/ TryAgain(c) \/ GiveUp(c)
         \/ Reread(c) \/ Judge(c) \/ Discard(c) \/ Release(c) \/ CheckOut(c) \/ UnlinkOut(c)
  PROVE  LockInv'
<1>1. TypeOK /\ LockFits(c)
  BY DEF LockInv
<1>2. TypeOK' /\ LockFits(c)'
  <2> USE <1>1, NoFileAssumption DEF TypeOK, LockFits, Watches, Goto, File, Steps, Return
  <2>1. CASE Fill(c)
    BY <2>1 DEF Fill
  <2>2. CASE ObserveDead(c)
    BY <2>2 DEF ObserveDead
  <2>3. CASE ObserveHeld(c) \/ TryAgain(c) \/ GiveUp(c)
    BY <2>3 DEF ObserveHeld, TryAgain, GiveUp
  <2>4. CASE Reread(c)
    BY <2>4 DEF Reread
  <2>5. CASE Judge(c)
    BY <2>5 DEF Judge
  <2>6. CASE Discard(c)
    BY <2>6 DEF Discard
  <2>7. CASE Release(c)
    BY <2>7 DEF Release
  <2>8. CASE CheckOut(c)
    BY <2>8 DEF CheckOut
  <2>9. CASE UnlinkOut(c)
    BY <2>9 DEF UnlinkOut
  <2> QED
    BY <2>1, <2>2, <2>3, <2>4, <2>5, <2>6, <2>7, <2>8, <2>9
<1>3. /\ UNCHANGED <<target, alive>>
      /\ \A d \in Call \ {c} : /\ pc'[d] = pc[d] /\ observed'[d] = observed[d]
                               /\ stale'[d] = stale[d]
  BY <1>1 DEF TypeOK, Fill, ObserveDead, ObserveHeld, TryAgain, GiveUp, Reread, Judge, Discard,
              Release, CheckOut, UnlinkOut, Goto, Return
<1> QED
  BY <1>2, <1>3, LockFrame

\* The steps that change what is at the lock path, and a death.
LEMMA MovesKeepLock ==
  ASSUME LockInv, ReapersApart, NEW c \in Call,
         Create(c) \/ Move(c) \/ MoveOut(c) \/ Crash(c)
  PROVE  LockInv'
<1>1. TypeOK /\ \A d \in Call : LockFits(d)
  BY DEF LockInv
<1>2. TypeOK'
  BY <1>1 DEF TypeOK, Create, Move, MoveOut, Crash, Goto, Return, File, Steps
<1>3. ASSUME NEW d \in Call PROVE LockFits(d)'
  <2>1. LockFits(d) /\ LockFits(c)
    BY <1>1
  <2> USE <1>1, <2>1, NoFileAssumption DEF TypeOK, LockFits, Watches, Goto, File, Return
  <2>2. CASE Create(c)
    BY <2>2 DEF Create
  <2>3. CASE Move(c)
    BY <2>3 DEF Move, ReapersApart
  <2>4. CASE MoveOut(c)
    BY <2>4 DEF MoveOut
  <2>5. CASE Crash(c)
    BY <2>5 DEF Crash
  <2> QED
    BY <2>2, <2>3, <2>4, <2>5
<1> QED
  BY <1>2, <1>3 DEF LockInv

\* Restore never happens: what a reaper took away is what it had seen.
LEMMA LockKept == LockInv /\ ReapersApart /\ [Next]_vars => LockInv'
<1> SUFFICES ASSUME LockInv, ReapersApart, [Next]_vars PROVE LockInv'
  OBVIOUS
<1>1. CASE UNCHANGED vars
  BY <1>1 DEF vars, LockInv, TypeOK, LockFits, Watches
<1>2. ASSUME NEW c \in Call, CallStep(c) PROVE LockInv'
  <2>1. ~Restore(c)
    BY DEF Restore, LockInv, LockFits
  <2> QED
    BY <1>2, <2>1, LooksKeepLock, MovesKeepLock DEF CallStep
<1> QED
  BY <1>1, <1>2, MovesKeepLock DEF Next

\* A live call inside its callback has its file at the lock path, which is one place.
LEMMA LockInvHolds == LockInv => LockHolds
<1> SUFFICES ASSUME LockInv PROVE LockHolds
  OBVIOUS
<1>1. Exclusion
  BY DEF LockInv, LockFits, Exclusion, Inside
<1>2. ReapsOnlyDead
  BY NoFileAssumption DEF LockInv, LockFits, Watches, ReapsOnlyDead
<1>3. InsideKeepsFile
  BY DEF LockInv, LockFits, InsideKeepsFile, Inside
<1> QED
  BY <1>1, <1>2, <1>3 DEF LockInv, LockHolds

\* withFileLock excludes, and no lock file of a live owner is destroyed, for any number
\* of calls and deaths, as long as no two reapers are both about to rename.
THEOREM LockHoldsApart == Spec /\ []ReapersApart => []LockHolds
BY LockStarts, LockKept, LockInvHolds, PTL DEF Spec

-----------------------------------------------------------------------------
(* Repairs and archives inside the lock                                    *)

\* A step of a repair is a step of its lock or leaves the lock alone.
LEMMA RepairUsesLock == [RepairNext]_allVars => [Next]_vars
<1> SUFFICES ASSUME [RepairNext]_allVars PROVE [Next]_vars
  OBVIOUS
<1>1. ASSUME NEW c \in Call, NEW o, NEW directory, NEW ok, NEW bad, Done(c, o, directory, ok, bad)
      PROVE  [Next]_vars
  BY <1>1 DEF Done, Next
<1>2. ASSUME NEW c \in Call, NEW step, GoOn(c, step) PROVE [Next]_vars
  BY <1>2 DEF GoOn
<1>3. ASSUME NEW c \in Call, Command(c) \/ LockStep(c) \/ Die(c) PROVE [Next]_vars
  BY <1>3 DEF Command, AskRepair, AskArchive, AskRestore, AskRecover, Ask, LockStep, Die, Next
<1>4. ASSUME NEW c \in Call, ApplyStep(c) PROVE [Next]_vars
  BY <1>1, <1>2, <1>4
     DEF ApplyStep, Refuse, MakeRepair, Initialize, CheckEvidence, Copy, Prepare, Start, Execute,
         Mutate, NoteMutated, Verify, Receive, Complete, Fail, FailManifest, WriteManifest,
         WriteReceipt
<1>5. ASSUME NEW c \in Call, ArchiveStep(c) PROVE [Next]_vars
  BY <1>1, <1>2, <1>5
     DEF ArchiveStep, RecoverThrows, RecoverNext, Recovered, RefusePlan, MakeAlbum, BeginArchive,
         BeginRestore, FinishArchive, RestoreItems, MoveTransaction, MoveReceipt, Seal, Commit,
         FinishRestore, WriteAlbum
<1> QED
  BY <1>3, <1>4, <1>5 DEF RepairNext, ChangeSubject, allVars

\* The lock of the repairs holds as long as no two reapers are both about to rename.
THEOREM RepairsAreLocked == RepairSpec /\ []ReapersApart => []LockHolds
<1>1. RepairInit => LockInv
  BY LockStarts DEF RepairInit
<1> QED
  BY <1>1, RepairUsesLock, LockKept, LockInvHolds, PTL DEF RepairSpec

\* No two archives are unfinished: whoever begins one has finished the others.
OneUnfinished == \A a, b \in Unfinished : a = b

Whole == OneUnfinished /\ EvidenceStaysWhole

\* A command that has done something is inside the lock.
InLock(c) == job[c].step \notin {"none", "make", "recover", "over"} => pc[c] = "running"

\* What a command that archives or restores has found, and relies on at its step.
Stage(c) ==
  /\ job[c].kind = "archive" => job[c].wanted = c
  /\ job[c].step \in {"plan", "list"} => Unfinished = {} /\ job[c].on = job[c].wanted
  /\ job[c].step = "list" =>
       job[c].kind = "archive" /\ \A r \in job[c].items : home[r] = "active" /\ slip[r] = "active"
  /\ job[c].step \in {"archiving", "commit"} => album[job[c].on].status = "archiving"
  /\ job[c].step = "restoring" => album[job[c].on].status = "restoring"
  /\ job[c].step = "commit" =>
       job[c].on \in sealed /\ InClass(job[c].on, "archived") = album[job[c].on].items

EInv == IInv /\ LockInv /\ Whole /\ \A c \in Call : InLock(c) /\ Stage(c)

\* What EvidenceStaysWhole and the stages speak of is unchanged.
SamePlaces ==
  /\ album' = album /\ sealed' = sealed
  /\ \A r \in Old : home'[r] = home[r] /\ slip'[r] = slip[r]

\* A step that is none of another call.
OthersRest(c) == \A d \in Call \ {c} : job'[d] = job[d] /\ pc'[d] = pc[d]

\* The classes, in words of the two places.
LEMMA ClassMeans ==
  ASSUME NEW a \in Call, NEW r
  PROVE  /\ Class(a, r) = "active" <=> home[r] = "active" /\ slip[r] = "active"
         /\ Class(a, r) = "transaction-moved" <=> home[r] = a /\ slip[r] = "active"
         /\ Class(a, r) = "archived" <=> home[r] = a /\ slip[r] = a
         /\ Class(a, r) = "transaction-restored" <=> home[r] = "active" /\ slip[r] = a
BY RepairAssumptions DEF Class

\* Everything is at its place where no archive was ever begun.
LEMMA EvidenceStarts == RepairInit => EInv
<1> SUFFICES ASSUME RepairInit PROVE EInv
  OBVIOUS
<1>1. IInv /\ LockInv
  BY Starts, LockStarts DEF RepairInit
<1>2. /\ \A a \in Call : album[a].status = "none" /\ album[a].items = {}
      /\ \A c \in Call : job[c] = Unasked
      /\ \A r \in Old : home[r] = slip[r]
  BY DEF RepairInit, NoAlbum, Id
<1>3. Whole
  BY <1>2 DEF Whole, OneUnfinished, EvidenceStaysWhole, PartsStayTogether, ArchivesAreTrue,
              Unfinished, InClass
<1>4. \A c \in Call : InLock(c) /\ Stage(c)
  BY <1>2 DEF InLock, Stage, Unasked
<1> QED
  BY <1>1, <1>3, <1>4 DEF EInv

\* The items of an archive are old repairs.
LEMMA Items ==
  ASSUME IInv, NEW a \in Call
  PROVE  album[a].items \subseteq Old /\ \A class : InClass(a, class) \subseteq Old
BY DEF IInv, Types, InClass

\* Where everything stays at its place, the evidence is as whole as it was.
LEMMA SameWhole ==
  ASSUME IInv, SamePlaces
  PROVE  /\ Whole => Whole'
         /\ Unfinished' = Unfinished
         /\ \A a \in Call : \A class : InClass(a, class)' = InClass(a, class)
<1>1. /\ album' = album /\ sealed' = sealed /\ Unfinished' = Unfinished
      /\ \A r \in Old : home'[r] = home[r] /\ slip'[r] = slip[r]
  BY DEF SamePlaces, Unfinished
<1>2. \A a \in Call : \A r \in album[a].items : Class(a, r)' = Class(a, r)
  BY <1>1, Items DEF Class
<1>3. \A a \in Call : \A class : InClass(a, class)' = InClass(a, class)
  BY <1>1, <1>2 DEF InClass
<1>4. ASSUME Whole PROVE OneUnfinished' /\ PartsStayTogether'
  BY <1>1, <1>4 DEF Whole, OneUnfinished, EvidenceStaysWhole, PartsStayTogether
<1>5. ASSUME Whole PROVE ArchivesAreTrue'
  BY <1>1, <1>2, <1>3, <1>5, Items DEF Whole, EvidenceStaysWhole, ArchivesAreTrue
<1> QED
  BY <1>1, <1>3, <1>4, <1>5 DEF Whole, EvidenceStaysWhole

\* What a command has found stays true while everything stays at its place.
LEMMA SameStage ==
  ASSUME IInv, SamePlaces, NEW d \in Call, job'[d] = job[d], Stage(d)
  PROVE  Stage(d)'
<1>1. /\ Unfinished' = Unfinished
      /\ \A a \in Call : \A class : InClass(a, class)' = InClass(a, class)
  BY SameWhole
<1>2. /\ job[d].items \subseteq Old
      /\ job[d].step \in Archiving \ {"recover"} => job[d].on \in Call
  BY Parts DEF JobType, Directed
<1> QED
  BY <1>1, <1>2 DEF Stage, SamePlaces, Archiving

\* A step that leaves everything at its place keeps the invariant if it leaves its own
\* command where it may be.
LEMMA QuietStep ==
  ASSUME EInv, IInv', LockInv', NEW c \in Call, SamePlaces, OthersRest(c),
         InLock(c)' /\ Stage(c)'
  PROVE  EInv'
<1>1. Whole'
  BY SameWhole DEF EInv
<1>2. ASSUME NEW d \in Call \ {c} PROVE InLock(d)' /\ Stage(d)'
  BY SameStage DEF EInv, OthersRest, InLock
<1> QED
  BY <1>1, <1>2 DEF EInv

\* A step inside the lock keeps the invariant if the evidence stays whole and its own
\* command is where it may be: no other command has begun.
LEMMA LoneStep ==
  ASSUME EInv, IInv', LockInv', NEW c \in Call, pc[c] = "running", OthersRest(c),
         Whole', InLock(c)' /\ Stage(c)'
  PROVE  EInv'
<1>1. ASSUME NEW d \in Call \ {c} PROVE InLock(d)' /\ Stage(d)'
  <2>1. pc[d] # "running"
    BY DEF EInv, LockInv, LockFits
  <2>2. job[d].step \in {"none", "make", "recover", "over"} /\ Stage(d)
    BY <2>1 DEF EInv, InLock
  <2> QED
    BY <2>2 DEF OthersRest, InLock, Stage
<1> QED
  BY <1>1 DEF EInv

\* A command that is over, or that repairs, stands where it may be.
LEMMA Rests ==
  ASSUME NEW c \in Call,
         \/ job'[c] = Over
         \/ /\ pc'[c] = "running" /\ job'[c].step \notin Archiving
            /\ job'[c].kind = job[c].kind /\ job'[c].wanted = job[c].wanted /\ Stage(c)
  PROVE  InLock(c)' /\ Stage(c)'
BY OverType DEF InLock, Stage, Archiving

\* How a write leaves its call and the others: the call is over, or goes on inside.
LEMMA DoneGoes ==
  ASSUME EInv, NEW c \in Call, NEW o \in Outcome, NEW directory,
         NEW ok \in StepName, NEW bad \in StepName \ {"start"},
         Done(c, o, directory, ok, bad)
  PROVE  /\ OthersRest(c)
         /\ \/ job'[c] = Over
            \/ /\ pc' = pc
               /\ (o.fate = "goesOn" /\ GoesTo(c, ok)) \/ GoesTo(c, bad)
<1>1. Types /\ pc \in [Call -> Steps]
  BY DEF EInv, IInv, LockInv, TypeOK
<1>2. /\ \A d \in Call \ {c} : job'[d] = job[d]
      /\ \/ o.fate = "goesOn" /\ GoesTo(c, ok)
         \/ o.fate = "throws" /\ GoesTo(c, bad)
         \/ o.fate = "dies" /\ job'[c] = Over
  BY <1>1, AfterDone
<1>3. \A d \in Call \ {c} : pc'[d] = pc[d]
  BY <1>1 DEF Done, Crash, Goto, vars
<1>4. o.fate # "dies" => pc' = pc
  BY DEF Done, vars
<1> QED
  BY <1>2, <1>3, <1>4 DEF OthersRest

\* The same for a step that writes nothing.
LEMMA GoOnGoes ==
  ASSUME EInv, NEW c \in Call, NEW step \in StepName \ {"start"}, GoOn(c, step)
  PROVE  OthersRest(c) /\ pc' = pc /\ GoesTo(c, step) /\ SamePlaces
<1>1. Types
  BY DEF EInv, IInv
<1> QED
  BY <1>1, AfterGoOn DEF GoOn, vars, OthersRest, SamePlaces, archives, places

\* A step of a repair that goes on leaves the command where it may be.
LEMMA RepairGoesOn ==
  ASSUME EInv, NEW c \in Call, pc[c] = "running",
         \/ job'[c] = Over
         \/ pc' = pc /\ \E step \in StepName \ Archiving : GoesTo(c, step)
  PROVE  InLock(c)' /\ Stage(c)'
<1>1. Stage(c) /\ Over.step = "over"
  BY OverType DEF EInv
<1>2. CASE job'[c] = Over
  BY <1>2, Rests
<1>3. CASE pc' = pc /\ \E step \in StepName \ Archiving : GoesTo(c, step)
  BY <1>1, <1>3, Rests DEF GoesTo
<1> QED
  BY <1>2, <1>3

\* A repair touches no archive and no old repair.
LEMMA RepairsKeepEvidence ==
  ASSUME EInv, IInv', LockInv', NEW c \in Call, ApplyStep(c)
  PROVE  EInv'
<1> DEFINE Plain == StepName \ Archiving
<1>0. /\ c \notin Old
      /\ {"over", "check", "copy", "fail", "start", "execute", "note", "verify", "receive",
          "initialize", "prepare", "complete", "giveUp"} \subseteq Plain
      /\ {"over", "fail", "giveUp", "copy", "receive"} \subseteq Plain \ {"start"}
      /\ Plain \subseteq StepName
  BY RepairAssumptions DEF StepName, Outside, Archiving, Opening, Mutated, Failing
<1> HIDE DEF Plain
<1>1. ASSUME pc[c] = "running", SamePlaces, OthersRest(c),
             \/ job'[c] = Over
             \/ pc' = pc /\ \E step \in Plain : GoesTo(c, step)
      PROVE  EInv'
  BY <1>1, RepairGoesOn, QuietStep DEF Plain
<1>2. ASSUME pc[c] = "running", NEW step \in Plain \ {"start"}, GoOn(c, step) PROVE EInv'
  BY <1>0, <1>1, <1>2, GoOnGoes
<1>3. ASSUME pc[c] = "running", SamePlaces, NEW o \in Outcome, NEW directory,
             NEW ok \in Plain, NEW bad \in Plain \ {"start"}, Done(c, o, directory, ok, bad)
      PROVE  EInv'
  BY <1>0, <1>1, <1>3, DoneGoes
<1>4. Writing \subseteq Outcome
  BY WritingOutcomes
<1>5. CASE Refuse(c) \/ CheckEvidence(c) \/ Verify(c)
  BY <1>0, <1>2, <1>5 DEF Refuse, CheckEvidence, Verify, At
<1>6. CASE MakeRepair(c)
  <2>1. PICK o \in Writing : Done(c, o, c, "initialize", "over")
    BY <1>6 DEF MakeRepair
  <2>2. pc[c] = "running" /\ SamePlaces
    BY <1>0, <1>6 DEF MakeRepair, At, SamePlaces, archives, EInv, IInv, Types, Id
  <2> QED
    BY <1>0, <1>3, <1>4, <2>1, <2>2
<1>7. ASSUME NEW step, NEW phase, NEW next \in Plain, NEW bad \in Plain \ {"start"},
             WriteManifest(c, step, phase, next, bad)
      PROVE  EInv'
  <2>1. PICK o \in Writing : Done(c, o, c, next, bad)
    BY <1>7 DEF WriteManifest
  <2>2. pc[c] = "running" /\ SamePlaces
    BY <1>7 DEF WriteManifest, At, SamePlaces, archives, places
  <2> QED
    BY <1>3, <1>4, <2>1, <2>2
<1>8. CASE \/ Initialize(c) \/ Prepare(c) \/ Start(c) \/ NoteMutated(c) \/ Complete(c)
           \/ FailManifest(c)
  BY <1>0, <1>7, <1>8 DEF Initialize, Prepare, Start, NoteMutated, Complete, FailManifest
<1>9. CASE Copy(c)
  <2>1. PICK o \in Writing : Done(c, o, c, "prepare", "fail")
    BY <1>9 DEF Copy
  <2>2. pc[c] = "running" /\ SamePlaces
    BY <1>9 DEF Copy, At, SamePlaces, archives, places
  <2> QED
    BY <1>0, <1>3, <1>4, <2>1, <2>2
<1>10. CASE Execute(c)
  <2>1. CASE Mutate(c)
    <3>1. PICK o \in Writing : Done(c, o, c, "note", "fail") /\ UNCHANGED <<archives, places>>
      BY <2>1 DEF Mutate
    <3>2. pc[c] = "running" /\ SamePlaces
      BY <1>10, <3>1 DEF Execute, At, SamePlaces, archives, places
    <3> QED
      BY <1>0, <1>3, <1>4, <3>1, <3>2
  <2>2. CASE GoOn(c, "fail")
    BY <1>0, <1>2, <1>10, <2>2 DEF Execute, At
  <2> QED
    BY <1>10, <2>1, <2>2 DEF Execute
<1>11. ASSUME NEW status, NEW next \in Plain, NEW bad \in Plain \ {"start"}, pc[c] = "running",
              WriteReceipt(c, status, next, bad)
       PROVE  EInv'
  <2>1. PICK o \in Writing :
          /\ slip' = IF o.took THEN [slip EXCEPT ![c] = "active"] ELSE slip
          /\ Done(c, o, "receipts", next, bad)
    BY <1>11 DEF WriteReceipt
  <2>2. SamePlaces
    BY <1>0, <1>11, <2>1 DEF WriteReceipt, SamePlaces, archives, EInv, IInv, Types, Id
  <2> QED
    BY <1>3, <1>4, <1>11, <2>1, <2>2
<1>12. CASE Receive(c) \/ Fail(c)
  BY <1>0, <1>11, <1>12 DEF Receive, Fail, At
<1> QED
  BY <1>5, <1>6, <1>8, <1>9, <1>10, <1>12 DEF ApplyStep

\* Neither does the lock, a death, a command that is asked for, or a new version.
LEMMA OutsideKeepsEvidence ==
  ASSUME EInv, IInv', LockInv', NEW c \in Call, Command(c) \/ LockStep(c) \/ Die(c)
  PROVE  EInv'
<1>1. /\ Types /\ InLock(c) /\ Stage(c) /\ job \in [Call -> JobType]
      /\ pc \in [Call -> Steps]
  BY DEF EInv, IInv, Types, LockInv, TypeOK
<1>2. ASSUME NEW command, Ask(c, command), command.step \in {"make", "recover"},
             command.kind = "archive" => command.wanted = c
      PROVE  EInv'
  <2>1. SamePlaces /\ OthersRest(c) /\ job'[c] = command
    BY <1>1, <1>2 DEF Ask, SamePlaces, OthersRest, vars, archives, places
  <2>2. InLock(c)' /\ Stage(c)'
    BY <1>2, <2>1 DEF InLock, Stage
  <2> QED
    BY <2>1, <2>2, QuietStep
<1>3. CASE Command(c)
  <2>1. CASE AskRepair(c)
    BY <1>2, <2>1 DEF AskRepair, Unasked
  <2>2. CASE AskArchive(c)
    BY <1>2, <2>2 DEF AskArchive, Unasked
  <2>3. CASE AskRestore(c)
    BY <1>2, <2>3 DEF AskRestore, Unasked
  <2>4. CASE AskRecover(c)
    BY <1>2, <2>4 DEF AskRecover, Unasked
  <2> QED
    BY <1>3, <2>1, <2>2, <2>3, <2>4 DEF Command
<1>4. CASE LockStep(c)
  <2>1. SamePlaces /\ job' = job /\ job[c] # Unasked
    BY <1>4 DEF LockStep, SamePlaces, archives, places
  <2>2. OthersRest(c)
    BY <1>1, <1>4, <2>1
       DEF LockStep, OthersRest, CallStep, Create, Fill, ObserveDead, ObserveHeld, TryAgain,
           GiveUp, Reread, Move, Judge, Discard, Restore, Release, MoveOut, CheckOut, UnlinkOut,
           Goto, Return
  <2>3. pc[c] = "running" => job[c].step = "over"
    BY <1>4 DEF LockStep
  <2>4. InLock(c)' /\ Stage(c)'
    BY <1>1, <2>1, <2>3, SameStage DEF InLock, EInv
  <2> QED
    BY <2>1, <2>2, <2>4, QuietStep
<1>5. CASE Die(c)
  <2>1. SamePlaces /\ OthersRest(c) /\ job'[c] = Over
    BY <1>1, <1>5 DEF Die, Crash, Goto, SamePlaces, OthersRest, archives, places
  <2> QED
    BY <2>1, Rests, QuietStep
<1> QED
  BY <1>3, <1>4, <1>5

\* Recovery finds an archive that has to be finished, or that there is none.
LEMMA RecoveryKeepsEvidence ==
  ASSUME EInv, IInv', LockInv', NEW c \in Call,
         RecoverThrows(c) \/ RecoverNext(c) \/ Recovered(c) \/ RefusePlan(c)
  PROVE  EInv'
<1>1. /\ Types /\ Stage(c) /\ job \in [Call -> JobType] /\ job[c] \in JobType
      /\ pc[c] = "running"
  BY DEF EInv, IInv, Types, RecoverThrows, RecoverNext, Recovered, RefusePlan, At
<1>2. CASE RecoverThrows(c) \/ RefusePlan(c)
  <2>1. GoOn(c, "over") /\ "over" \in StepName \ {"start"}
    BY <1>2 DEF RecoverThrows, RefusePlan, StepName
  <2>2. OthersRest(c) /\ SamePlaces /\ job'[c] = Over
    BY <2>1, GoOnGoes, OverIsOver
  <2> QED
    BY <2>2, Rests, QuietStep
<1>3. ASSUME RecoverNext(c) \/ Recovered(c) PROVE SamePlaces /\ OthersRest(c) /\ pc' = pc
  BY <1>1, <1>3 DEF RecoverNext, Recovered, SamePlaces, OthersRest, vars, archives, places
<1>4. CASE RecoverNext(c)
  <2>1. PICK a \in Unfinished : job' = [job EXCEPT ![c].step = album[a].status, ![c].on = a]
    BY <1>4 DEF RecoverNext
  <2>2. /\ album[a].status \in {"archiving", "restoring"}
        /\ job'[c].step = album[a].status /\ job'[c].on = a
        /\ job'[c].kind = job[c].kind /\ job'[c].wanted = job[c].wanted
    BY <1>1, <2>1 DEF Unfinished, JobType
  <2>3. InLock(c)' /\ Stage(c)'
    BY <1>1, <1>3, <1>4, <2>2 DEF InLock, Stage, SamePlaces
  <2> QED
    BY <1>3, <1>4, <2>3, QuietStep
<1>5. CASE Recovered(c)
  <2>1. Unfinished' = {}
    BY <1>3, <1>5, SameWhole DEF Recovered, EInv
  <2>2. CASE job[c].kind = "recover"
    <3>1. job'[c] = Over
      BY <1>1, <1>5, <2>2 DEF Recovered
    <3> QED
      BY <1>3, <1>5, <3>1, Rests, QuietStep
  <2>3. CASE job[c].kind # "recover"
    <3>1. /\ job'[c].step = "plan" /\ job'[c].on = job[c].wanted
          /\ job'[c].kind = job[c].kind /\ job'[c].wanted = job[c].wanted
      BY <1>1, <1>5, <2>3 DEF Recovered, JobType
    <3>2. InLock(c)' /\ Stage(c)'
      BY <1>1, <1>3, <1>5, <2>1, <3>1 DEF InLock, Stage
    <3> QED
      BY <1>3, <1>5, <3>2, QuietStep
  <2> QED
    BY <2>2, <2>3
<1> QED
  BY <1>2, <1>4, <1>5

\* What a write of the manifest of an archive does, whatever its outcome.
LEMMA AlbumWritten ==
  ASSUME EInv, NEW c \in Call, NEW status, NEW items, NEW next \in Archiving \cup {"over"},
         WriteAlbum(c, status, items, next)
  PROVE  /\ UNCHANGED <<home, slip, sealed>> /\ OthersRest(c)
         /\ \/ album' = album /\ job'[c] = Over
            \/ /\ album' = [album EXCEPT ![job[c].on] = [status |-> status, items |-> items]]
               /\ job'[c] = Over \/ (pc' = pc /\ GoesTo(c, next))
<1>1. PICK o \in Writing :
        /\ album' = IF o.took THEN [album EXCEPT ![job[c].on] = [status |-> status, items |-> items]]
                              ELSE album
        /\ Done(c, o, job[c].on, next, "over")
        /\ UNCHANGED <<places, sealed>>
  BY DEF WriteAlbum
<1>2. o \in Outcome /\ (o.fate = "goesOn" => o.took)
      /\ next \in StepName /\ "over" \in StepName \ {"start"}
  BY WritingOutcomes DEF StepName, Outside
<1>3. /\ OthersRest(c)
      /\ job'[c] = Over \/ (pc' = pc /\ o.fate = "goesOn" /\ GoesTo(c, next))
  BY <1>1, <1>2, DoneGoes, OverIsOver
<1> QED
  BY <1>1, <1>2, <1>3 DEF places

\* An archive gets a new status, which is true of its items; no other archive is
\* unfinished, before or after it.
LEMMA AlbumStep ==
  ASSUME EInv, IInv', LockInv', NEW c \in Call, pc[c] = "running",
         job[c].on \in Call, NEW status \in Status, NEW items \in SUBSET Old,
         NEW next \in Archiving \cup {"over"}, WriteAlbum(c, status, items, next),
         Unfinished \subseteq {job[c].on},
         \A r \in Old : home[r] = slip[r],
         status \in {"committed", "restoring", "restored"} => job[c].on \in sealed,
         status = "committed" => \A r \in items : home[r] = job[c].on,
         status \in {"archiving", "restored"} => \A r \in items : home[r] = "active",
         status = "restoring" => \A r \in items : home[r] = job[c].on,
         next \in {"archiving", "restoring"} => status = next,
         next \notin {"plan", "list", "commit"}
  PROVE  EInv'
<1>a. PICK a \in Call : a = job[c].on
  OBVIOUS
<1>0. Types /\ album \in [Call -> [status : Status, items : SUBSET Old]] /\ "active" \notin Call
      /\ Stage(c)
  BY RepairAssumptions DEF EInv, IInv, Types
<1>1. UNCHANGED <<home, slip, sealed>> /\ OthersRest(c)
  BY AlbumWritten
<1>2. CASE album' = album /\ job'[c] = Over
  BY <1>1, <1>2, Rests, QuietStep DEF SamePlaces
<1>3. CASE /\ album' = [album EXCEPT ![job[c].on] = [status |-> status, items |-> items]]
           /\ job'[c] = Over \/ (pc' = pc /\ GoesTo(c, next))
  <2>1. /\ a \in Call /\ album'[a].status = status /\ album'[a].items = items
        /\ \A b \in Call \ {a} : album'[b] = album[b]
    BY <1>0, <1>3, <1>a
  <2>2. Unfinished' \subseteq {a}
    BY <1>a, <2>1 DEF Unfinished
  <2>3. \A b \in Call : \A r :
          /\ Class(b, r)' = "active" <=> home[r] = "active" /\ slip[r] = "active"
          /\ Class(b, r)' = "archived" <=> home[r] = b /\ slip[r] = b
    BY <1>0, <1>1 DEF Class
  <2>4. OneUnfinished' /\ PartsStayTogether'
    BY <1>1, <2>2 DEF OneUnfinished, PartsStayTogether
  <2>5. ASSUME NEW b \in Call \ {a}
        PROVE  /\ album[b].status = "committed" => InClass(b, "archived")' = album'[b].items
               /\ album[b].status = "restored" => \A r \in album[b].items : b \notin {home[r], slip[r]}
               /\ album[b].status \in {"committed", "restoring", "restored"} => b \in sealed
               /\ album[b].status \notin {"archiving", "restoring"}
    <3>1. /\ album[b].status = "committed" => InClass(b, "archived") = album[b].items
          /\ album[b].status = "restored" => \A r \in album[b].items : b \notin {home[r], slip[r]}
          /\ album[b].status \in {"committed", "restoring", "restored"} => b \in sealed
      BY DEF EInv, Whole, EvidenceStaysWhole, ArchivesAreTrue
    <3>2. album[b].status \notin {"archiving", "restoring"}
      BY <1>a DEF Unfinished
    <3>3. InClass(b, "archived")' = InClass(b, "archived")
      BY <1>1, <2>1 DEF InClass, Class
    <3> QED
      BY <2>1, <3>1, <3>2, <3>3
  <2>6. \A r \in items : slip[r] = home[r]
    OBVIOUS
  <2>7. /\ status = "committed" => InClass(a, "archived")' = album'[a].items
        /\ status = "restored" => \A r \in items : a \notin {home[r], slip[r]}
        /\ status \in {"committed", "restoring", "restored"} => a \in sealed
        /\ status = "archiving" => \A r \in items : Class(a, r)' = "active"
        /\ status = "restoring" => \A r \in items : Class(a, r)' = "archived"
    <3>1. status = "committed" => InClass(a, "archived")' = album'[a].items
      BY <1>a, <2>1, <2>3, <2>6 DEF InClass
    <3>2. /\ status = "restored" => \A r \in items : a \notin {home[r], slip[r]}
          /\ status \in {"committed", "restoring", "restored"} => a \in sealed
      BY <1>0, <1>a, <2>6
    <3>3. /\ status = "archiving" => \A r \in items : Class(a, r)' = "active"
          /\ status = "restoring" => \A r \in items : Class(a, r)' = "archived"
      BY <1>a, <2>3, <2>6
    <3> QED
      BY <3>1, <3>2, <3>3
  <2>8. ArchivesAreTrue'
    <3> SUFFICES ASSUME NEW b \in Call
                 PROVE  /\ album'[b].status = "committed" => InClass(b, "archived")' = album'[b].items
                        /\ album'[b].status = "restored" =>
                             \A r \in album'[b].items : b \notin {home'[r], slip'[r]}
                        /\ album'[b].status \in {"committed", "restoring", "restored"} => b \in sealed'
                        /\ \A r \in album'[b].items : CASE
                             album'[b].status = "archiving" ->
                               Class(b, r)' \in {"active", "transaction-moved", "archived"}
                          [] album'[b].status = "restoring" ->
                               Class(b, r)' \in {"active", "transaction-restored", "archived"}
                          [] OTHER -> TRUE
      BY DEF ArchivesAreTrue
    <3>1. CASE b = a
      BY <1>1, <2>1, <2>7, <3>1
    <3>2. CASE b # a
      BY <1>1, <2>1, <2>5, <3>2
    <3> QED
      BY <3>1, <3>2
  <2>9. Whole'
    BY <2>4, <2>8 DEF Whole, EvidenceStaysWhole
  <2>10. CASE job'[c] = Over
    BY <1>1, <2>9, <2>10, Rests, LoneStep
  <2>11. CASE pc' = pc /\ GoesTo(c, next) /\ job'[c] # Over
    <3>1. /\ job'[c].step = next /\ job'[c].on = a
          /\ job'[c].kind = job[c].kind /\ job'[c].wanted = job[c].wanted
      BY <1>a, <2>11, OverIsOver DEF GoesTo
    <3>2. InLock(c)' /\ Stage(c)'
      BY <1>0, <1>a, <2>1, <2>11, <3>1 DEF InLock, Stage
    <3> QED
      BY <1>1, <2>9, <3>2, LoneStep
  <2> QED
    BY <1>3, <2>10, <2>11
<1> QED
  BY <1>2, <1>3, AlbumWritten

\* Where the archive at hand has all its items in it, or none, and is the only one
\* that may be unfinished, the two parts of every repair are at one place.
LEMMA Together ==
  ASSUME EInv, NEW a \in Call, Unfinished \subseteq {a},
         \/ Unfinished = {}
         \/ InClass(a, "archived") = album[a].items
         \/ InClass(a, "active") = album[a].items
  PROVE  \A r \in Old : home[r] = slip[r]
<1> SUFFICES ASSUME NEW r \in Old, home[r] # slip[r] PROVE FALSE
  OBVIOUS
<1>1. PICK b \in Unfinished : r \in album[b].items
  BY DEF EInv, Whole, EvidenceStaysWhole, PartsStayTogether
<1>2. b = a /\ (Class(a, r) = "archived" \/ Class(a, r) = "active")
  BY <1>1 DEF InClass
<1> QED
  BY <1>2, ClassMeans

\* The steps that write the manifest of an archive.
LEMMA AlbumsKeepEvidence ==
  ASSUME EInv, IInv', LockInv', NEW c \in Call,
         BeginArchive(c) \/ BeginRestore(c) \/ Commit(c) \/ FinishRestore(c)
  PROVE  EInv'
<1>1. /\ Stage(c) /\ pc[c] = "running" /\ OneUnfinished /\ job[c].items \in SUBSET Old
      /\ job[c].step \in Archiving \ {"recover"}
  BY DEF EInv, Whole, IInv, Types, JobType, BeginArchive, BeginRestore, Commit, FinishRestore, At,
         Archiving
<1>2. PICK a \in Call : a = job[c].on
  BY <1>1, Parts DEF EInv, Directed
<1>3. album[a].items \in SUBSET Old
  BY Items DEF EInv
<1>4. {"archiving", "restoring", "committed", "restored"} \subseteq Status
  BY DEF Status
<1>5. {"archiving", "restoring", "over", "recover", Afterwards(c)} \subseteq Archiving \cup {"over"}
  BY DEF Archiving, Afterwards
<1>6. CASE BeginArchive(c)
  <2>1. /\ WriteAlbum(c, "archiving", job[c].items, "archiving") /\ Unfinished = {}
        /\ \A r \in job[c].items : home[r] = "active"
    BY <1>1, <1>6 DEF BeginArchive, At, Stage
  <2> QED
    BY <1>1, <1>2, <1>4, <1>5, <2>1, Together, AlbumStep
<1>7. CASE BeginRestore(c)
  <2>1. /\ WriteAlbum(c, "restoring", album[a].items, "restoring") /\ Unfinished = {}
        /\ a \in sealed /\ InClass(a, "archived") = album[a].items
    BY <1>1, <1>2, <1>7 DEF BeginRestore, At, Stage, CanRestore
  <2>2. \A r \in album[a].items : home[r] = a
    BY <2>1, ClassMeans DEF InClass
  <2> QED
    BY <1>1, <1>2, <1>3, <1>4, <1>5, <2>1, <2>2, Together, AlbumStep
<1>8. CASE Commit(c)
  <2>1. /\ WriteAlbum(c, "committed", album[a].items, Afterwards(c)) /\ a \in Unfinished
        /\ a \in sealed /\ InClass(a, "archived") = album[a].items
    BY <1>1, <1>2, <1>8 DEF Commit, At, Stage, Unfinished
  <2>2. \A r \in album[a].items : home[r] = a
    BY <2>1, ClassMeans DEF InClass
  <2>3. Unfinished \subseteq {a}
    BY <1>1, <2>1 DEF OneUnfinished
  <2>4. Afterwards(c) \notin {"plan", "list", "commit", "archiving", "restoring"}
    BY DEF Afterwards
  <2> QED
    BY <1>1, <1>2, <1>3, <1>4, <1>5, <2>1, <2>2, <2>3, <2>4, Together, AlbumStep
<1>9. CASE FinishRestore(c)
  <2>1. /\ WriteAlbum(c, "restored", album[a].items, Afterwards(c)) /\ a \in Unfinished
        /\ album[a].status = "restoring" /\ InClass(a, "active") = album[a].items
    BY <1>1, <1>2, <1>9 DEF FinishRestore, At, Stage, Unfinished
  <2>2. \A r \in album[a].items : home[r] = "active"
    BY <2>1, ClassMeans DEF InClass
  <2>3. Unfinished \subseteq {a} /\ a \in sealed
    BY <1>1, <2>1 DEF OneUnfinished, EInv, Whole, EvidenceStaysWhole, ArchivesAreTrue
  <2>4. Afterwards(c) \notin {"plan", "list", "commit", "archiving", "restoring"}
    BY DEF Afterwards
  <2> QED
    BY <1>1, <1>2, <1>3, <1>4, <1>5, <2>1, <2>2, <2>3, <2>4, Together, AlbumStep
<1> QED
  BY <1>6, <1>7, <1>8, <1>9

\* A new archive is of active repairs, and of none until its manifest is written.
LEMMA MakeAlbumKeepsEvidence ==
  ASSUME EInv, IInv', LockInv', NEW c \in Call, MakeAlbum(c)
  PROVE  EInv'
<1>1. /\ Stage(c) /\ pc[c] = "running" /\ Types /\ job[c].step = "plan"
      /\ album \in [Call -> [status : Status, items : SUBSET Old]]
  BY DEF EInv, IInv, Types, MakeAlbum, At
<1>2. PICK o \in Writing : Done(c, o, c, "list", "over")
  BY DEF MakeAlbum
<1>3. /\ OthersRest(c) /\ (job'[c] = Over \/ (pc' = pc /\ GoesTo(c, "list")))
  BY <1>2, WritingOutcomes, DoneGoes, OverIsOver DEF StepName, Outside, Archiving
<1>4. /\ UNCHANGED <<home, slip, sealed>> /\ album'[c].status = "bare"
      /\ album'[c].items = album[c].items /\ \A b \in Call \ {c} : album'[b] = album[b]
  BY <1>1 DEF MakeAlbum, places
<1>5. Unfinished = {} /\ Unfinished' = {}
  BY <1>1, <1>4 DEF Stage, Unfinished
<1>6. OneUnfinished' /\ PartsStayTogether'
  BY <1>4, <1>5 DEF OneUnfinished, EInv, Whole, EvidenceStaysWhole, PartsStayTogether
<1>7. ASSUME NEW b \in Call
      PROVE  /\ album'[b].status = "committed" => InClass(b, "archived")' = album'[b].items
             /\ album'[b].status = "restored" => \A r \in album'[b].items : b \notin {home'[r], slip'[r]}
             /\ album'[b].status \in {"committed", "restoring", "restored"} => b \in sealed'
             /\ album'[b].status \notin {"archiving", "restoring"}
  <2>1. album'[b].status \notin {"archiving", "restoring"}
    BY <1>5 DEF Unfinished
  <2>2. CASE b = c
    BY <1>4, <2>1, <2>2
  <2>3. CASE b # c
    <3>1. album'[b] = album[b] /\ InClass(b, "archived")' = InClass(b, "archived")
      BY <1>4, <2>3 DEF InClass, Class
    <3> QED
      BY <1>4, <2>1, <3>1 DEF EInv, Whole, EvidenceStaysWhole, ArchivesAreTrue
  <2> QED
    BY <2>2, <2>3
<1>8. ArchivesAreTrue'
  BY <1>7 DEF ArchivesAreTrue
<1>9. Whole'
  BY <1>6, <1>8 DEF Whole, EvidenceStaysWhole
<1>10. CASE job'[c] = Over
  BY <1>1, <1>3, <1>9, <1>10, Rests, LoneStep
<1>11. CASE pc' = pc /\ GoesTo(c, "list")
  <2>1. /\ job'[c].step = "list" /\ job'[c].on = job[c].on /\ job'[c].items = job[c].items
        /\ job'[c].kind = job[c].kind /\ job'[c].wanted = job[c].wanted
    BY <1>11 DEF GoesTo
  <2>2. /\ job[c].kind = "archive" /\ \A r \in job[c].items : home[r] = "active" /\ slip[r] = "active"
    BY DEF MakeAlbum, CanArchive, Consistent, Eligible, Sound, Id
  <2>3. InLock(c)' /\ Stage(c)'
    BY <1>1, <1>4, <1>5, <1>11, <2>1, <2>2 DEF InLock, Stage
  <2> QED
    BY <1>1, <1>3, <1>9, <2>3, LoneStep
<1> QED
  BY <1>3, <1>10, <1>11

\* The receipt of an archive is written when everything is in it.
LEMMA SealKeepsEvidence ==
  ASSUME EInv, IInv', LockInv', NEW c \in Call, Seal(c)
  PROVE  EInv'
<1>1. /\ Stage(c) /\ pc[c] = "running" /\ job[c].step = "archiving"
      /\ InClass(job[c].on, "archived") = album[job[c].on].items
  BY DEF EInv, Seal, At
<1>2. job[c].on \in Call
  BY <1>1, Parts DEF EInv, Directed, Archiving
<1>3. "commit" \in StepName \ {"start"} /\ "over" \in StepName \ {"start"}
  BY DEF StepName, Outside, Archiving
<1>4. /\ UNCHANGED <<home, slip, album>> /\ sealed \subseteq sealed' /\ OthersRest(c)
      /\ job'[c] = Over \/ (pc' = pc /\ GoesTo(c, "commit") /\ job[c].on \in sealed')
  <2>1. CASE job[c].on \in sealed
    <3>1. GoOn(c, "commit")
      BY <2>1 DEF Seal
    <3> QED
      BY <1>3, <2>1, <3>1, GoOnGoes DEF GoOn, places, archives
  <2>2. CASE job[c].on \notin sealed
    <3>1. PICK o \in Writing : /\ sealed' = IF o.took THEN sealed \cup {job[c].on} ELSE sealed
                               /\ Done(c, o, job[c].on, "commit", "over")
      BY <2>2 DEF Seal
    <3>2. UNCHANGED <<home, slip, album>>
      BY <2>2 DEF Seal, places
    <3>3. o \in Outcome /\ (o.fate = "goesOn" => o.took)
      BY WritingOutcomes
    <3>4. OthersRest(c) /\ (job'[c] = Over \/ (pc' = pc /\ o.fate = "goesOn" /\ GoesTo(c, "commit")))
      BY <1>3, <3>1, <3>3, DoneGoes, OverIsOver
    <3> QED
      BY <3>1, <3>2, <3>3, <3>4
  <2> QED
    BY <2>1, <2>2
<1>5. \A b \in Call : \A class : InClass(b, class)' = InClass(b, class)
  BY <1>4 DEF InClass, Class
<1>6. Whole'
  <2>1. OneUnfinished' /\ PartsStayTogether'
    BY <1>4 DEF OneUnfinished, EInv, Whole, EvidenceStaysWhole, PartsStayTogether, Unfinished
  <2>2. \A b \in Call : \A r : Class(b, r)' = Class(b, r)
    BY <1>4 DEF Class
  <2>3. ArchivesAreTrue'
    BY <1>4, <1>5, <2>2 DEF ArchivesAreTrue, EInv, Whole, EvidenceStaysWhole
  <2> QED
    BY <2>1, <2>3 DEF Whole, EvidenceStaysWhole
<1>7. CASE job'[c] = Over
  BY <1>1, <1>4, <1>6, <1>7, Rests, LoneStep
<1>8. CASE pc' = pc /\ GoesTo(c, "commit") /\ job[c].on \in sealed'
  <2>1. /\ job'[c].step = "commit" /\ job'[c].on = job[c].on
        /\ job'[c].kind = job[c].kind /\ job'[c].wanted = job[c].wanted
    BY <1>8 DEF GoesTo
  <2>2. PICK a \in Call : a = job[c].on
    BY <1>2
  <2>3. InClass(a, "archived")' = album'[a].items
    BY <1>1, <1>4, <1>5, <2>2
  <2>4. InLock(c)' /\ Stage(c)'
    BY <1>1, <1>4, <1>8, <2>1, <2>2, <2>3 DEF InLock, Stage, InClass
  <2> QED
    BY <1>1, <1>4, <1>6, <2>4, LoneStep
<1> QED
  BY <1>4, <1>7, <1>8

\* Moving one part of an item of the unfinished archive keeps the evidence whole, if the
\* item comes to a class from which recovery can go on: a finished archive that has it
\* is not concerned, because it was restored.
LEMMA PartMoved ==
  ASSUME EInv, NEW a \in Unfinished, NEW r \in album[a].items,
         {home[r], slip[r]} \subseteq {a, "active"}, {home'[r], slip'[r]} \subseteq {a, "active"},
         \A s \in Old \ {r} : home'[s] = home[s] /\ slip'[s] = slip[s],
         UNCHANGED <<album, sealed>>,
         album[a].status = "archiving" =>
           Class(a, r)' \in {"active", "transaction-moved", "archived"},
         album[a].status = "restoring" =>
           Class(a, r)' \in {"active", "transaction-restored", "archived"}
  PROVE  Whole'
<1>1. /\ a \in Call /\ album[a].status \in {"archiving", "restoring"} /\ "active" \notin Call
      /\ \A b \in Call : album[b].items \subseteq Old
  BY RepairAssumptions, Items DEF Unfinished, EInv
<1>2. Unfinished' = Unfinished /\ Unfinished = {a}
  BY DEF Unfinished, EInv, Whole, OneUnfinished
<1>3. OneUnfinished'
  BY <1>2 DEF OneUnfinished
<1>4. PartsStayTogether'
  <2> SUFFICES ASSUME NEW s \in Old
               PROVE  \/ home'[s] = slip'[s]
                      \/ s \in album[a].items /\ {home'[s], slip'[s]} = {a, "active"}
    BY <1>2 DEF PartsStayTogether
  <2>1. CASE s = r
    BY <2>1
  <2>2. CASE s # r
    BY <1>2, <2>2 DEF EInv, Whole, EvidenceStaysWhole, PartsStayTogether
  <2> QED
    BY <2>1, <2>2
<1>5. ASSUME NEW b \in Call, NEW s \in Old \ {r} PROVE Class(b, s)' = Class(b, s)
  BY DEF Class
<1>6. ASSUME NEW b \in Call \ {a}
      PROVE  /\ album[b].status \notin {"archiving", "restoring"}
             /\ album[b].status = "committed" =>
                  r \notin album[b].items /\ InClass(b, "archived")' = album[b].items
             /\ album[b].status = "restored" => \A s \in album[b].items : b \notin {home'[s], slip'[s]}
             /\ album[b].status \in {"committed", "restoring", "restored"} => b \in sealed
  <2>1. album[b].status \notin {"archiving", "restoring"}
    BY <1>2 DEF Unfinished
  <2>2. /\ album[b].status = "committed" => InClass(b, "archived") = album[b].items
        /\ album[b].status = "restored" => \A s \in album[b].items : b \notin {home[s], slip[s]}
        /\ album[b].status \in {"committed", "restoring", "restored"} => b \in sealed
    BY DEF EInv, Whole, EvidenceStaysWhole, ArchivesAreTrue
  <2>3. ASSUME album[b].status = "committed"
        PROVE  r \notin album[b].items /\ InClass(b, "archived")' = album[b].items
    <3>1. r \notin album[b].items
      BY <1>1, <2>2, <2>3, ClassMeans DEF InClass
    <3>2. \A s \in album[b].items : Class(b, s)' = "archived"
      BY <1>1, <1>5, <2>2, <2>3, <3>1 DEF InClass
    <3> QED
      BY <3>1, <3>2 DEF InClass
  <2>4. ASSUME album[b].status = "restored", NEW s \in album[b].items
        PROVE  b \notin {home'[s], slip'[s]}
    BY <1>1, <2>2, <2>4
  <2> QED
    BY <2>1, <2>2, <2>3, <2>4
<1>7. \A s \in album[a].items :
        /\ album[a].status = "archiving" =>
             Class(a, s)' \in {"active", "transaction-moved", "archived"}
        /\ album[a].status = "restoring" =>
             Class(a, s)' \in {"active", "transaction-restored", "archived"}
        /\ a \in sealed \/ album[a].status = "archiving"
  <2> TAKE s \in album[a].items
  <2>1. CASE s = r
    BY <1>1, <2>1 DEF EInv, Whole, EvidenceStaysWhole, ArchivesAreTrue
  <2>2. CASE s # r
    BY <1>1, <1>5, <2>2 DEF EInv, Whole, EvidenceStaysWhole, ArchivesAreTrue
  <2> QED
    BY <2>1, <2>2
<1>8. ArchivesAreTrue'
  <2> SUFFICES ASSUME NEW b \in Call
               PROVE  /\ album[b].status = "committed" => InClass(b, "archived")' = album[b].items
                      /\ album[b].status = "restored" =>
                           \A s \in album[b].items : b \notin {home'[s], slip'[s]}
                      /\ album[b].status \in {"committed", "restoring", "restored"} => b \in sealed
                      /\ \A s \in album[b].items : CASE
                           album[b].status = "archiving" ->
                             Class(b, s)' \in {"active", "transaction-moved", "archived"}
                        [] album[b].status = "restoring" ->
                             Class(b, s)' \in {"active", "transaction-restored", "archived"}
                        [] OTHER -> TRUE
    BY DEF ArchivesAreTrue
  <2>1. CASE b = a
    BY <1>1, <1>7, <2>1
  <2>2. CASE b # a
    BY <1>6, <2>2
  <2> QED
    BY <2>1, <2>2
<1> QED
  BY <1>3, <1>4, <1>8 DEF Whole, EvidenceStaysWhole

\* Archiving and restoring move one part at a time.
LEMMA MovesKeepEvidence ==
  ASSUME EInv, IInv', LockInv', NEW c \in Call, NEW step \in {"archiving", "restoring"},
         job[c].step = step, pc[c] = "running",
         NEW r \in album[job[c].on].items, NEW o \in Moving,
         Done(c, o, job[c].on, step, "over"), UNCHANGED archives,
         {home[r], slip[r]} \subseteq {job[c].on, "active"},
         {home'[r], slip'[r]} \subseteq {job[c].on, "active"},
         \A s \in Old \ {r} : home'[s] = home[s] /\ slip'[s] = slip[s],
         <<home'[r], slip'[r]>> # IF step = "archiving" THEN <<"active", job[c].on>>
                                                        ELSE <<job[c].on, "active">>
  PROVE  EInv'
<1>1. job[c].on \in Call /\ Stage(c)
  BY Parts DEF EInv, Directed, Archiving
<1>2. PICK a \in Call : a = job[c].on
  BY <1>1
<1>3. /\ a \in Unfinished /\ album[a].status = step /\ album' = album /\ sealed' = sealed
  BY <1>1, <1>2 DEF Stage, Unfinished, archives
<1>4. /\ step = "archiving" => Class(a, r)' \in {"active", "transaction-moved", "archived"}
      /\ step = "restoring" => Class(a, r)' \in {"active", "transaction-restored", "archived"}
  <2>1. \/ home'[r] = "active" /\ slip'[r] = "active"
        \/ home'[r] = a /\ slip'[r] = a
        \/ step = "archiving" /\ home'[r] = a /\ slip'[r] = "active"
        \/ step = "restoring" /\ home'[r] = "active" /\ slip'[r] = a
    BY <1>2
  <2>2. /\ Class(a, r)' = "active" <=> home'[r] = "active" /\ slip'[r] = "active"
        /\ Class(a, r)' = "transaction-moved" <=> home'[r] = a /\ slip'[r] = "active"
        /\ Class(a, r)' = "archived" <=> home'[r] = a /\ slip'[r] = a
        /\ Class(a, r)' = "transaction-restored" <=> home'[r] = "active" /\ slip'[r] = a
    BY RepairAssumptions DEF Class
  <2> QED
    BY <2>1, <2>2
<1>5. Whole'
  BY <1>2, <1>3, <1>4, PartMoved
<1>6. /\ OthersRest(c) /\ (job'[c] = Over \/ (pc' = pc /\ GoesTo(c, step)))
  <2>1. o \in Outcome /\ step \in StepName /\ "over" \in StepName \ {"start"}
    BY WritingOutcomes DEF StepName, Outside, Archiving
  <2> QED
    BY <2>1, DoneGoes, OverIsOver
<1>7. CASE job'[c] = Over
  BY <1>5, <1>6, <1>7, Rests, LoneStep
<1>8. CASE pc' = pc /\ GoesTo(c, step)
  <2>1. /\ job'[c].step = step /\ job'[c].on = a
        /\ job'[c].kind = job[c].kind /\ job'[c].wanted = job[c].wanted
    BY <1>2, <1>8 DEF GoesTo
  <2>2. InLock(c)' /\ Stage(c)'
    BY <1>1, <1>3, <1>8, <2>1 DEF InLock, Stage
  <2> QED
    BY <1>5, <1>6, <2>2, LoneStep
<1> QED
  BY <1>6, <1>7, <1>8

\* The two loops of an archive and of a restore, with what ends them.
LEMMA LoopsKeepEvidence ==
  ASSUME EInv, IInv', LockInv', NEW c \in Call, FinishArchive(c) \/ RestoreItems(c)
  PROVE  EInv'
<1>1. CASE Seal(c) \/ Commit(c) \/ FinishRestore(c)
  BY <1>1, SealKeepsEvidence, AlbumsKeepEvidence
<1> DEFINE Origin(step) == IF step = "archiving" THEN "active" ELSE "archived"
           Halfway(step) == IF step = "archiving" THEN "transaction-moved" ELSE "transaction-restored"
           Goal(step) == IF step = "archiving" THEN job[c].on ELSE "active"
<1>2. home \in [Id -> {"none", "active"} \cup Call] /\ slip \in [Id -> {"none", "active"} \cup Call]
  BY DEF EInv, IInv, Types
<1>3. ASSUME NEW step \in {"archiving", "restoring"},
             MoveTransaction(c, step, Origin(step), Halfway(step), Goal(step))
      PROVE  EInv'
  <2>1. job[c].step = step /\ pc[c] = "running" /\ UNCHANGED <<archives, slip>>
    BY <1>3 DEF MoveTransaction, At
  <2>2. job[c].on \in Call
    BY <2>1, Parts DEF EInv, Directed, Archiving
  <2>3. PICK r \in InClass(job[c].on, Origin(step)), o \in Moving :
          /\ home' = IF o.took THEN [home EXCEPT ![r] = Goal(step)] ELSE home
          /\ Done(c, o, job[c].on, step, "over")
    BY <1>3 DEF MoveTransaction
  <2>4. /\ r \in album[job[c].on].items /\ r \in Old /\ r \in Id
        /\ IF step = "archiving" THEN home[r] = "active" /\ slip[r] = "active"
                                 ELSE home[r] = job[c].on /\ slip[r] = job[c].on
    BY <2>2, <2>3, ClassMeans, Items DEF InClass, EInv, Id
  <2>5. /\ home'[r] \in {home[r], Goal(step)} /\ slip' = slip
        /\ \A s \in Old \ {r} : home'[s] = home[s]
    BY <1>2, <2>1, <2>3, <2>4 DEF Id
  <2>6. "active" # job[c].on
    BY <2>2, RepairAssumptions
  <2> QED
    BY <2>1, <2>3, <2>4, <2>5, <2>6, MovesKeepEvidence
<1>4. ASSUME NEW step \in {"archiving", "restoring"},
             MoveReceipt(c, step, Halfway(step), Goal(step))
      PROVE  EInv'
  <2>1. job[c].step = step /\ pc[c] = "running" /\ UNCHANGED <<archives, home>>
    BY <1>4 DEF MoveReceipt, At
  <2>2. job[c].on \in Call
    BY <2>1, Parts DEF EInv, Directed, Archiving
  <2>3. PICK r \in InClass(job[c].on, Halfway(step)), o \in Moving :
          /\ slip' = IF o.took THEN [slip EXCEPT ![r] = Goal(step)] ELSE slip
          /\ Done(c, o, job[c].on, step, "over")
    BY <1>4 DEF MoveReceipt
  <2>4. /\ r \in album[job[c].on].items /\ r \in Old /\ r \in Id
        /\ IF step = "archiving" THEN home[r] = job[c].on /\ slip[r] = "active"
                                 ELSE home[r] = "active" /\ slip[r] = job[c].on
    BY <2>2, <2>3, ClassMeans, Items DEF InClass, EInv, Id
  <2>5. /\ slip'[r] \in {slip[r], Goal(step)} /\ home' = home
        /\ \A s \in Old \ {r} : slip'[s] = slip[s]
    BY <1>2, <2>1, <2>3, <2>4 DEF Id
  <2>6. "active" # job[c].on
    BY <2>2, RepairAssumptions
  <2> QED
    BY <2>1, <2>3, <2>4, <2>5, <2>6, MovesKeepEvidence
<1>5. CASE \/ MoveTransaction(c, "archiving", "active", "transaction-moved", job[c].on)
           \/ MoveReceipt(c, "archiving", "transaction-moved", job[c].on)
  BY <1>3, <1>4, <1>5
<1>6. CASE \/ MoveTransaction(c, "restoring", "archived", "transaction-restored", "active")
           \/ MoveReceipt(c, "restoring", "transaction-restored", "active")
  BY <1>3, <1>4, <1>6
<1> QED
  BY <1>1, <1>5, <1>6 DEF FinishArchive, RestoreItems

\* No step breaks it while the lock holds.
LEMMA EvidenceKept == EInv /\ ReapersApart /\ [RepairNext]_allVars => EInv'
<1> SUFFICES ASSUME EInv, ReapersApart, [RepairNext]_allVars PROVE EInv'
  OBVIOUS
<1>1. IInv' /\ LockInv'
  BY StepKeeps, RepairUsesLock, LockKept DEF EInv
<1>2. CASE UNCHANGED <<job, archives, places, pc>>
  <2>1. SamePlaces
    BY <1>2 DEF SamePlaces, archives, places
  <2>2. ASSUME NEW d \in Call PROVE InLock(d)' /\ Stage(d)'
    BY <1>2, <2>1, SameStage DEF EInv, InLock
  <2> QED
    BY <1>1, <2>1, <2>2, SameWhole DEF EInv
<1>3. ASSUME NEW c \in Call, Command(c) \/ LockStep(c) \/ Die(c) PROVE EInv'
  BY <1>1, <1>3, OutsideKeepsEvidence
<1>4. ASSUME NEW c \in Call, ApplyStep(c) PROVE EInv'
  BY <1>1, <1>4, RepairsKeepEvidence
<1>5. ASSUME NEW c \in Call, ArchiveStep(c) PROVE EInv'
  BY <1>1, <1>5, RecoveryKeepsEvidence, MakeAlbumKeepsEvidence, AlbumsKeepEvidence,
     LoopsKeepEvidence DEF ArchiveStep
<1>6. ChangeSubject \/ UNCHANGED allVars => UNCHANGED <<job, archives, places, pc>>
  BY DEF ChangeSubject, allVars, vars, archives, places
<1> QED
  BY <1>2, <1>3, <1>4, <1>5, <1>6 DEF RepairNext

\* The evidence of a completed repair is neither lost nor torn, for any number of
\* repairs, archives, restores, deaths and failing writes, as long as no two reapers are
\* both about to rename.
THEOREM EvidenceKeptApart == RepairSpec /\ []ReapersApart => []EvidenceStaysWhole
<1>1. EInv => EvidenceStaysWhole
  BY DEF EInv, Whole
<1> QED
  BY <1>1, EvidenceStarts, EvidenceKept, PTL DEF RepairSpec

-----------------------------------------------------------------------------
(* The files under the Delivery Ledger: the inductive invariant            *)

Record == [message : Message, kind : Kinds, number : Nat, claim : Nat]
Projections == [state : States, claim : Nat] \cup {None}
FileType == [dir : {"segments", "quarantine"}, records : Seq(Record), torn : BOOLEAN]
Entry == [dir : {"segments", "quarantine"}, number : Nat]

WriterType ==
  [step : {"idle", "loading", "rebuilding", "deciding", "appending", "sharding"},
   messages : [Message -> Projections], todo : SUBSET Message,
   record : Record \cup {None}, rotate : BOOLEAN]

ReaderType ==
  [step : {"idle", "listing", "reading", "failed"}, left : SUBSET Entry,
   missing : SUBSET Record, again : BOOLEAN]

StoreTypes ==
  /\ file \in Seq(FileType)
  /\ shard \in [Message -> Projections] /\ truth \in [Message -> Projections]
  /\ writer \in WriterType
  /\ reader \in [Reader -> ReaderType]
  /\ returned \subseteq Record
  /\ faults \in Nat

\* A position is before another one in the order of the files;
Above(p, q) == p[1] < q[1] \/ (p[1] = q[1] /\ p[2] < q[2])

\* in the order of the appends.
Sooner(p, q) == RecordAt(p).number < RecordAt(q).number

\* Records are numbered as they are appended.  A claim is named by its number, and
\* the records that name it come later.  Within a file, and as long as files stay among
\* the segments, the two orders are one.
Numbered ==
  /\ IsFiniteSet(Position)
  /\ \A p \in Position :
       LET r == RecordAt(p) IN
       /\ r.number \in 1..Cardinality(Position) /\ r.claim <= r.number
       /\ r.kind = "claim" => r.claim = r.number
  /\ \A p, q \in Position : RecordAt(p).number = RecordAt(q).number => p = q
  /\ \A p, q \in Position :
       /\ Above(p, q)
       /\ \/ p[1] = q[1]
          \/ file[p[1]].dir = "segments" /\ file[q[1]].dir = "segments"
       => Sooner(p, q)

Beginning == {"batch", "claim", "release"}
Closing == {"denial", "outcome", "ended"}

KindsAre(m, kinds) == \A p \in PositionsOf(m) : RecordAt(p).kind \in kinds
Released(m, claim) ==
  \E p \in PositionsOf(m) : RecordAt(p).kind = "release" /\ RecordAt(p).claim = claim

\* What the records of a message are, in whatever order they are read, by its state.
Evident(m) ==
  LET t == truth[m] IN
  /\ t = None <=> PositionsOf(m) = {}
  /\ t # None =>
     /\ t.state = "scheduled" =>
          /\ KindsAre(m, Beginning) /\ t.claim = 0
          /\ \A p \in PositionsOf(m) : RecordAt(p).kind = "claim" =>
               Released(m, RecordAt(p).claim) \/ Superseded(m, RecordAt(p).claim)
     /\ t.state = "claimed" =>
          /\ KindsAre(m, Beginning)
          /\ ~Superseded(m, t.claim) /\ ~Released(m, t.claim)
          /\ \E p \in PositionsOf(m) : Told(RecordAt(p)) = t
     /\ t.state = "attempted" =>
          /\ KindsAre(m, Beginning \cup {"attempt"})
          /\ \E p \in PositionsOf(m) : Told(RecordAt(p)) = t
     /\ t.state = "unknown" =>
          /\ KindsAre(m, Beginning \cup {"attempt", "unknown"})
          /\ \E p \in PositionsOf(m) : Told(RecordAt(p)) = t
     /\ t.state = "done" =>
          /\ t.claim = 0
          /\ \E p \in PositionsOf(m) : RecordAt(p).kind \in Closing

\* The record of a message that was appended before this one; the last one.
Previous(m, k, p) ==
  /\ k \in PositionsOf(m) /\ Sooner(k, p)
  /\ \A q \in PositionsOf(m) : Sooner(q, p) => q = k \/ Sooner(q, k)
Latest(m, k) ==
  /\ k \in PositionsOf(m)
  /\ \A q \in PositionsOf(m) : q = k \/ Sooner(q, k)

\* The records of a message that is not divided fit in the order of their appends,
\* and the last one tells its state.
InOrder(m) ==
  \/ Divided(m)
  \/ /\ \A p \in PositionsOf(m) :
         \/ Valid(None, RecordAt(p)) /\ \A q \in PositionsOf(m) : ~Sooner(q, p)
         \/ \E k \in PositionsOf(m) :
              Previous(m, k, p) /\ Valid(Told(RecordAt(k)), RecordAt(p))
     /\ \/ PositionsOf(m) = {} /\ truth[m] = None
        \/ \E k \in PositionsOf(m) : Latest(m, k) /\ truth[m] = Told(RecordAt(k))

\* The files have only grown since the checkpoint.
CheckpointFits ==
  checkpoint # None =>
    /\ \E k \in 0..Len(file) : DOMAIN checkpoint.manifest = 1..k
    /\ \A f \in DOMAIN checkpoint.manifest :
         checkpoint.manifest[f][2] \in 0..Length(f)
    /\ checkpoint.manifest = Manifest => \A m \in Message : IsTold(m, shard[m])

\* The record that a writer is about to append fits.
RecordFits ==
  LET r == writer.record
      p == writer.messages[r.message] IN
  /\ r # None
  /\ r.number = Cardinality(Position) + 1 /\ r.claim <= r.number
  /\ r.kind = "claim" => r.claim = r.number
  /\ Valid(p, r)
  /\ r.kind = "attempt" => ~Superseded(r.message, p.claim)

\* What the holder of the lock relies on: it has read, or is writing, what was appended;
\* a record that it reports is in a file.
WriterFits ==
  /\ writer.step \in {"deciding", "appending"} =>
       /\ \A m \in Message : IsTold(m, writer.messages[m])
       /\ shard = writer.messages
  /\ writer.step = "sharding" =>
       /\ \A m \in Message : IsTold(m, writer.messages[m])
       /\ \A m \in Message \ writer.todo : shard[m] = writer.messages[m]
       /\ writer.record # None => \E p \in Position : RecordAt(p) = writer.record
  /\ writer.step = "appending" => RecordFits
  /\ writer.step \in {"idle", "loading", "rebuilding", "deciding"} => writer.record = None
  /\ writer.rotate => writer.step \in {"appending", "sharding"} /\ writer.record # None

\* What a reader has still to find is in a file that it will read, or, until it has
\* listed both directories, in one that is in quarantine and stays there.
ReadsAll(s) ==
  LET d == reader[s] IN
  /\ \A e \in d.left : e.number \in DOMAIN file
  /\ d.step = "listing" =>
       \A r \in d.missing : \E f \in DOMAIN file :
         /\ r \in RecordsIn(f)
         /\ file[f].dir = "quarantine" \/ \E e \in d.left : e.number = f
  /\ d.step = "reading" =>
       \A r \in d.missing : \E e \in d.left : r \in RecordsIn(e.number)

\* InOrder is what makes a scan sound, and Evident what is left of it when a message is
\* divided: a scan that does not throw never takes a message for free that is not.
StoreInv ==
  /\ StoreTypes /\ StoreTypeOK /\ Numbered
  /\ \A m \in Message : Evident(m) /\ InOrder(m)
  /\ CheckpointFits /\ WriterFits
  /\ returned \subseteq {RecordAt(p) : p \in Position}
  /\ \A s \in Reader : ReadsAll(s)

-----------------------------------------------------------------------------
(* Numbers, kinds and positions                                            *)

\* A set of numbers has a least one.
LEMMA LeastNat ==
  ASSUME NEW T, T \subseteq Nat, T # {}
  PROVE  \E x \in T : \A y \in T : x <= y
  <1> DEFINE R == {ss \in Nat \X Nat : ss[1] < ss[2]}
  <1>1. IsWellFoundedOn(R, Nat)
    BY NatLessThanWellFounded DEF OpToRel
  <1> HIDE DEF R
  <1>2. PICK x \in T : \A y \in T : ~(<<y, x>> \in R)
    BY <1>1, WFMin
  <1>3. \A y \in T : ~(y < x)
    BY <1>2 DEF R
  <1>4. QED
    BY <1>2, <1>3

\* A non-empty set of numbers up to a bound has a greatest one.
LEMMA GreatestNat ==
  ASSUME NEW b \in Nat, NEW T, T \subseteq 0..b, T # {}
  PROVE  \E x \in T : \A y \in T : y <= x
  <1> DEFINE U == {k \in 0..b : b - k \in T}
  <1>1. U \subseteq Nat
    OBVIOUS
  <1>2. U # {}
    <2>1. PICK x \in T : TRUE
      OBVIOUS
    <2>2. b - x \in 0..b /\ b - (b - x) = x
      BY <2>1
    <2>3. QED
      BY <2>1, <2>2
  <1> HIDE DEF U
  <1>3. PICK u \in U : \A v \in U : u <= v
    BY <1>1, <1>2, LeastNat
  <1>4. b - u \in T /\ u \in 0..b
    BY <1>3 DEF U
  <1>5. ASSUME NEW y \in T PROVE y <= b - u
    <2>1. y \in 0..b /\ b - y \in 0..b /\ b - (b - y) = y
      OBVIOUS
    <2>2. b - y \in U
      BY <2>1, <1>5 DEF U
    <2>3. QED
      BY <1>3, <1>4, <2>1, <2>2
  <1>6. QED
    BY <1>4, <1>5

\* What follows on what.
LEMMA After_ ==
  /\ After("batch") = "scheduled" /\ After("release") = "scheduled"
  /\ After("claim") = "claimed" /\ After("attempt") = "attempted"
  /\ After("unknown") = "unknown" /\ After("outcome") = "done"
  /\ After("ended") = "done" /\ After("denial") = "done"
  BY DEF After

\* What a record tells is a projection, and not the one of no records.
LEMMA ToldType ==
  ASSUME NEW r \in Record
  PROVE  Told(r) \in [state : States, claim : Nat] /\ Told(r) # None
  BY After_, StoreAssumptions DEF Told, Record, Kinds, States

\* The kinds of record that fit a projection, one state after the other.
LEMMA ValidIs ==
  ASSUME NEW p \in Projections, NEW r \in Record, Valid(p, r)
  PROVE  /\ p = None => r.kind \in {"batch", "denial"}
         /\ p # None =>
              /\ r.kind \notin {"batch", "denial"}
              /\ p.state # "done"
              /\ p.state = "scheduled" => r.kind \in {"claim", "ended"}
              /\ p.state = "claimed" =>
                   \/ r.kind = "claim" /\ p.claim < r.claim
                   \/ r.kind \in {"release", "attempt"} /\ p.claim = r.claim
                   \/ r.kind = "ended"
              /\ p.state \in {"attempted", "unknown"} =>
                   r.kind \in {"unknown", "outcome"} /\ p.claim = r.claim
  BY DEF Valid, Before, Batches, Record, Kinds, Projections, States

\* A position is a pair of a file and a place in it.
LEMMA PositionIs ==
  file \in Seq(FileType) =>
    \A p : p \in Position <=>
      /\ p = <<p[1], p[2]>> /\ p[1] \in 1..Len(file)
      /\ p[2] \in 1..Len(file[p[1]].records)
  BY DEF Position, FileType

\* The types of a position and of what is there.
LEMMA PositionFacts ==
  ASSUME file \in Seq(FileType), NEW p \in Position
  PROVE  /\ p[1] \in Nat /\ p[2] \in Nat /\ p[1] \in DOMAIN file
         /\ p = <<p[1], p[2]>> /\ RecordAt(p) \in Record
         /\ file[p[1]].dir \in {"segments", "quarantine"}
  <1>1. p = <<p[1], p[2]>> /\ p[1] \in 1..Len(file) /\ p[2] \in 1..Len(file[p[1]].records)
    BY PositionIs
  <1>2. file[p[1]] \in FileType
    BY <1>1
  <1>3. file[p[1]].records \in Seq(Record) /\ file[p[1]].dir \in {"segments", "quarantine"}
    BY <1>2 DEF FileType
  <1>4. RecordAt(p) \in Record
    BY <1>1, <1>3 DEF RecordAt
  <1>5. QED
    BY <1>1, <1>3, <1>4

-----------------------------------------------------------------------------
(* The order of a scan                                                     *)

\* The number of files is a number.
LEMMA LenType == file \in Seq(FileType) => Len(file) \in Nat
  OBVIOUS

\* The type of one of the files.
LEMMA FileIs ==
  ASSUME file \in Seq(FileType), NEW f \in 1..Len(file)
  PROVE  /\ file[f] \in FileType /\ file[f].records \in Seq(Record)
         /\ Len(file[f].records) \in Nat
  <1>1. file[f] \in FileType
    OBVIOUS
  <1>2. QED
    BY <1>1 DEF FileType

\* The order of a scan, by the directories of two files and by their appends.
LEMMA AheadIs ==
  ASSUME file \in Seq(FileType), NEW p \in Position, NEW q \in Position
  PROVE  Ahead(p, q) <=>
           \/ file[p[1]].dir = "segments" /\ file[q[1]].dir = "quarantine"
           \/ file[p[1]].dir = file[q[1]].dir /\ Above(p, q)
  BY DEF Ahead, Precedes, Path, Above

\* The order of a scan is total and strict.
LEMMA AheadOrders ==
  ASSUME file \in Seq(FileType)
  PROVE  /\ \A p \in Position : ~Ahead(p, p)
         /\ \A p, q \in Position : p # q => Ahead(p, q) \/ Ahead(q, p)
         /\ \A p, q, r \in Position : Ahead(p, q) /\ Ahead(q, r) => Ahead(p, r)
  BY PositionFacts, AheadIs DEF Above

\* A set of positions of which the greatest file and place are wanted, or the least.
LEMMA FirstAndLast ==
  ASSUME file \in Seq(FileType), NEW T, T \subseteq Position, T # {}
  PROVE  /\ \E p \in T : \A q \in T \ {p} : Ahead(p, q)
         /\ \E p \in T : \A q \in T \ {p} : Ahead(q, p)
  <1>1. PICK d \in {"segments", "quarantine"} :
          /\ \E p \in T : file[p[1]].dir = d
          /\ \A p \in T : d = "quarantine" => file[p[1]].dir = d
    BY PositionFacts
  <1>2. PICK e \in {"segments", "quarantine"} :
          /\ \E p \in T : file[p[1]].dir = e
          /\ \A p \in T : e = "segments" => file[p[1]].dir = e
    BY PositionFacts
  <1> DEFINE In(x) == {p \in T : file[p[1]].dir = x}
             Files(x) == {p[1] : p \in In(x)}
             Places(x, f) == {p[2] : p \in {q \in In(x) : q[1] = f}}
  <1>3. \A x : Files(x) \subseteq 1..Len(file)
    BY PositionFacts, PositionIs
  <1>4. \A x, f : Places(x, f) \subseteq Nat
    BY PositionFacts
  <1>5. \E p \in T : \A q \in T \ {p} : Ahead(p, q)
    <2>1. Files(d) \subseteq Nat /\ Files(d) # {}
      <3>1. PICK p \in T : file[p[1]].dir = d
        BY <1>1
      <3>2. p[1] \in Files(d)
        BY <3>1
      <3>3. Files(d) \subseteq Nat
        <4> HIDE DEF Files
        <4> QED
          BY <1>3, LenType
      <3>4. QED
        BY <3>2, <3>3
    <2>2. PICK f \in Files(d) : \A g \in Files(d) : f <= g
      <3> HIDE DEF Files
      <3> QED
        BY <2>1, LeastNat
    <2>3. Places(d, f) \subseteq Nat /\ Places(d, f) # {}
      <3>1. PICK p \in T : file[p[1]].dir = d /\ p[1] = f
        BY <2>2
      <3>2. p[2] \in Places(d, f)
        BY <3>1
      <3> HIDE DEF Places
      <3>3. QED
        BY <1>4, <3>2
    <2>4. PICK i \in Places(d, f) : \A j \in Places(d, f) : i <= j
      <3> HIDE DEF Places
      <3> QED
        BY <2>3, LeastNat
    <2>5. PICK p \in T : file[p[1]].dir = d /\ p[1] = f /\ p[2] = i
      BY <2>4
    <2>6. ASSUME NEW q \in T \ {p} PROVE Ahead(p, q)
      <3>1. p \in Position /\ q \in Position
        OBVIOUS
      <3>2. CASE file[q[1]].dir # d
        BY <1>1, <2>5, <3>1, <3>2, PositionFacts, AheadIs
      <3>3. CASE file[q[1]].dir = d
        <4>1. f <= q[1] /\ (q[1] = f => i <= q[2])
          BY <2>2, <2>4, <3>3
        <4>2. Above(p, q)
          BY <2>5, <2>6, <4>1, <3>1, PositionFacts DEF Above
        <4>3. QED
          BY <2>5, <3>1, <3>3, <4>2, AheadIs
      <3>4. QED
        BY <3>2, <3>3
    <2>7. QED
      BY <2>5, <2>6
  <1>6. \E p \in T : \A q \in T \ {p} : Ahead(q, p)
    <2>1. Files(e) \subseteq 0..Len(file) /\ Files(e) # {} /\ Len(file) \in Nat
      BY <1>2, <1>3
    <2>2. PICK f \in Files(e) : \A g \in Files(e) : g <= f
      <3> HIDE DEF Files
      <3> QED
        BY <2>1, GreatestNat
    <2>3. Places(e, f) \subseteq 0..Len(file[f].records) /\ Places(e, f) # {}
          /\ Len(file[f].records) \in Nat
      <3>1. f \in 1..Len(file)
        BY <2>2, <1>3
      <3>2. file[f].records \in Seq(Record)
        BY <3>1, FileIs
      <3>a. \A q \in In(e) : q[1] = f => q[2] \in 1..Len(file[f].records)
        BY PositionIs, Zenon
      <3>b. Len(file[f].records) \in Nat
        BY <3>2
      <3>c. Places(e, f) \subseteq 1..Len(file[f].records)
        BY <3>a, Zenon
      <3> HIDE DEF Places
      <3>3. Places(e, f) \subseteq 0..Len(file[f].records) /\ Len(file[f].records) \in Nat
        BY <3>b, <3>c
      <3> USE DEF Places
      <3>4. PICK p \in T : file[p[1]].dir = e /\ p[1] = f
        BY <2>2
      <3>5. p[2] \in Places(e, f)
        BY <3>4
      <3>6. QED
        BY <3>3, <3>5
    <2>4. PICK i \in Places(e, f) : \A j \in Places(e, f) : j <= i
      <3> HIDE DEF Places
      <3> QED
        BY <2>3, GreatestNat
    <2>5. PICK p \in T : file[p[1]].dir = e /\ p[1] = f /\ p[2] = i
      BY <2>4
    <2>6. ASSUME NEW q \in T \ {p} PROVE Ahead(q, p)
      <3>1. p \in Position /\ q \in Position
        OBVIOUS
      <3>2. CASE file[q[1]].dir # e
        BY <1>2, <2>5, <3>1, <3>2, PositionFacts, AheadIs
      <3>3. CASE file[q[1]].dir = e
        <4>1. q[1] <= f /\ (q[1] = f => q[2] <= i)
          BY <2>2, <2>4, <3>3
        <4>2. Above(q, p)
          BY <2>5, <2>6, <4>1, <3>1, PositionFacts DEF Above
        <4>3. QED
          BY <2>5, <3>1, <3>3, <4>2, AheadIs
      <3>4. QED
        BY <3>2, <3>3
    <2>7. QED
      BY <2>5, <2>6
  <1>7. QED
    BY <1>5, <1>6

\* The last of some records tells their projection.
LEMMA LastIs ==
  ASSUME file \in Seq(FileType), NEW T, T \subseteq Position, NEW p \in T,
         \A q \in T \ {p} : Ahead(q, p)
  PROVE  Projection(T) = Told(RecordAt(p))
  <1> DEFINE Is(x) == \A q \in T \ {x} : Ahead(q, x)
  <1>1. \A x \in T : Is(x) => x = p
    BY AheadOrders
  <1>2. (CHOOSE x \in T : Is(x)) = p
    BY <1>1
  <1>3. QED
    BY <1>2 DEF Projection

\* The projection of some records is told by the last one, if there is one.
LEMMA ProjectionIs ==
  ASSUME file \in Seq(FileType), NEW T, T \subseteq Position
  PROVE  /\ T = {} => Projection(T) = None
         /\ T # {} => \E p \in T : /\ Projection(T) = Told(RecordAt(p))
                                   /\ \A q \in T \ {p} : Ahead(q, p)
         /\ Projection(T) \in Projections
  <1>1. T = {} => Projection(T) = None
    BY DEF Projection
  <1>2. ASSUME T # {}
        PROVE  \E p \in T : /\ Projection(T) = Told(RecordAt(p))
                            /\ \A q \in T \ {p} : Ahead(q, p)
    <2>1. PICK p \in T : \A q \in T \ {p} : Ahead(q, p)
      BY <1>2, FirstAndLast
    <2>2. QED
      BY <2>1, LastIs
  <1>3. QED
    BY <1>1, <1>2, PositionFacts, ToldType DEF Projections

\* Once the projection of an orderly message is X, and no record that fits X changes
\* it, it is X in the end.
LEMMA StaysTold ==
  ASSUME file \in Seq(FileType), NEW m, Orderly(m), NEW p \in PositionsOf(m), NEW X,
         Told(RecordAt(p)) = X,
         \A q \in PositionsOf(m) : Valid(X, RecordAt(q)) => Told(RecordAt(q)) = X
  PROVE  Projection(PositionsOf(m)) = X
  <1> DEFINE S == PositionsOf(m)
             B == {q \in S : Ahead(p, q) /\ Told(RecordAt(q)) # X}
  <1>1. S \subseteq Position
    BY DEF PositionsOf
  <1>2. B = {}
    <2>1. SUFFICES ASSUME B # {} PROVE FALSE
      OBVIOUS
    <2>2. PICK b \in B : \A q \in B \ {b} : Ahead(b, q)
      <3> B \subseteq Position
        BY <1>1
      <3> HIDE DEF B
      <3> QED
        BY <2>1, FirstAndLast
    <2> DEFINE A == {q \in S : Ahead(q, b)}
    <2>3. p \in A /\ A \subseteq Position
      BY <1>1, <2>2
    <2>4. PICK k \in A : Projection(A) = Told(RecordAt(k)) /\ \A q \in A \ {k} : Ahead(q, k)
      <3> HIDE DEF A
      <3> QED
        BY <2>3, ProjectionIs
    <2>5. k = p \/ Ahead(p, k)
      BY <2>3, <2>4
    <2>6. k \notin B
      BY <2>2, <2>4, <1>1, AheadOrders
    <2>7. Told(RecordAt(k)) = X
      BY <2>4, <2>5, <2>6
    <2>8. Valid(X, RecordAt(b))
      BY <2>2, <2>4, <2>7 DEF Orderly
    <2>9. QED
      BY <2>2, <2>8
  <1>3. PICK k \in S : Projection(S) = Told(RecordAt(k)) /\ \A q \in S \ {k} : Ahead(q, k)
    BY <1>1, ProjectionIs
  <1>4. k = p \/ Ahead(p, k)
    BY <1>3
  <1>5. QED
    BY <1>2, <1>3, <1>4


\* The records of a message are records, and of this message.
LEMMA PositionsOfIs ==
  ASSUME file \in Seq(FileType), NEW m, NEW p \in PositionsOf(m)
  PROVE  p \in Position /\ RecordAt(p) \in Record /\ RecordAt(p).message = m
  BY PositionFacts DEF PositionsOf

\* No two records have the same number.
LEMMA OneOfANumber ==
  ASSUME file \in Seq(FileType), Numbered, NEW p \in Position, NEW q \in Position,
         RecordAt(p).number = RecordAt(q).number
  PROVE  p = q
  BY DEF Numbered

\* The type of what was appended to a message.
LEMMA TruthIs ==
  ASSUME StoreTypes, NEW m \in Message
  PROVE  /\ truth[m] \in Projections
         /\ truth[m] # None => truth[m].state \in States /\ truth[m].claim \in Nat
                               /\ truth[m] = [state |-> truth[m].state, claim |-> truth[m].claim]
  BY DEF StoreTypes, Projections

\* A scan that finds the records of a message in an order in which each fits finds
\* its state, or a claim that is superseded.
LEMMA ScanTells ==
  ASSUME StoreTypes, Numbered, NEW m \in Message, Evident(m), Orderly(m)
  PROVE  Scan[m] = truth[m] \/ Outdated(m, Scan[m])
  <1> DEFINE S == PositionsOf(m)
             t == truth[m]
  <1>0. file \in Seq(FileType) /\ Scan[m] = Projection(S) /\ S \subseteq Position
    BY DEF StoreTypes, Scan, PositionsOf
  <1>1. CASE t = None
    BY <1>0, <1>1, ProjectionIs DEF Evident
  <1>2. ASSUME t # None,
               \E p \in S : Told(RecordAt(p)) = t,
               \A q \in S : Valid(t, RecordAt(q)) => Told(RecordAt(q)) = t
        PROVE  Scan[m] = t
    BY <1>0, <1>2, StaysTold
  <1>3. t # None => t \in Projections /\ t.state \in States /\ t.claim \in Nat
    BY TruthIs
  <1>4. \A q \in S : RecordAt(q) \in Record /\ RecordAt(q).message = m
    BY <1>0, PositionsOfIs
  <1>5. CASE t # None /\ t.state = "claimed"
    <2>1. KindsAre(m, Beginning) /\ ~Superseded(m, t.claim) /\ ~Released(m, t.claim)
          /\ \E p \in S : Told(RecordAt(p)) = t
      BY <1>5 DEF Evident
    <2>2. ASSUME NEW q \in S PROVE ~Valid(t, RecordAt(q))
      <3>1. RecordAt(q).kind \in Beginning
        BY <2>1 DEF KindsAre
      <3>2. ~(RecordAt(q).kind = "claim" /\ t.claim < RecordAt(q).claim)
        BY <2>1, <1>3, <1>4, <1>5 DEF Superseded, Record
      <3>3. ~(RecordAt(q).kind = "release" /\ RecordAt(q).claim = t.claim)
        BY <2>1 DEF Released
      <3>4. QED
        BY <3>1, <3>2, <3>3, <1>3, <1>4, <1>5, ValidIs DEF Beginning
    <2>3. QED
      BY <1>2, <1>5, <2>1, <2>2
  <1>6. CASE t # None /\ t.state = "attempted"
    <2>1. KindsAre(m, Beginning \cup {"attempt"}) /\ \E p \in S : Told(RecordAt(p)) = t
      BY <1>6 DEF Evident
    <2>2. ASSUME NEW q \in S PROVE ~Valid(t, RecordAt(q))
      BY <2>1, <1>3, <1>4, <1>6, ValidIs DEF KindsAre, Beginning
    <2>3. QED
      BY <1>2, <1>6, <2>1, <2>2
  <1>7. CASE t # None /\ t.state = "unknown"
    <2>1. KindsAre(m, Beginning \cup {"attempt", "unknown"})
          /\ \E p \in S : Told(RecordAt(p)) = t
      BY <1>7 DEF Evident
    <2>2. ASSUME NEW q \in S, Valid(t, RecordAt(q)) PROVE Told(RecordAt(q)) = t
      <3>1. RecordAt(q).kind = "unknown" /\ RecordAt(q).claim = t.claim
        BY <2>1, <2>2, <1>3, <1>4, <1>7, ValidIs DEF KindsAre, Beginning
      <3>2. Told(RecordAt(q)) = [state |-> "unknown", claim |-> t.claim]
        BY <3>1, After_ DEF Told
      <3>3. QED
        BY <3>2, <1>7, TruthIs
    <2>3. QED
      BY <1>2, <1>7, <2>1, <2>2
  <1>8. CASE t # None /\ t.state = "done"
    <2>1. PICK p \in S : RecordAt(p).kind \in Closing
      BY <1>8 DEF Evident
    <2>2. t.claim = 0
      BY <1>8 DEF Evident
    <2>3. Told(RecordAt(p)) = [state |-> "done", claim |-> 0]
      BY <2>1, After_ DEF Told, Closing
    <2>4. Told(RecordAt(p)) = t
      BY <2>2, <2>3, <1>8, TruthIs
    <2>5. \A q \in S : ~Valid(t, RecordAt(q))
      BY <1>3, <1>4, <1>8, ValidIs
    <2>6. QED
      BY <1>2, <1>8, <2>4, <2>5
  <1>9. CASE t # None /\ t.state = "scheduled"
    <2>1. KindsAre(m, Beginning) /\ t.claim = 0 /\ S # {}
      BY <1>9 DEF Evident
    <2>2. PICK l \in S : Projection(S) = Told(RecordAt(l)) /\ \A q \in S \ {l} : Ahead(q, l)
      BY <1>0, <2>1, ProjectionIs
    <2>3. CASE RecordAt(l).kind \in {"batch", "release"}
      <3>1. Told(RecordAt(l)) = [state |-> "scheduled", claim |-> 0]
        BY <2>3, After_ DEF Told
      <3>2. QED
        BY <3>1, <2>1, <2>2, <1>0, <1>9, TruthIs
    <2>4. CASE RecordAt(l).kind = "claim"
      <3> DEFINE c == RecordAt(l).claim
      <3>1. Told(RecordAt(l)) = [state |-> "claimed", claim |-> c]
        BY <2>4, After_ DEF Told
      <3>2. ~Released(m, c)
        <4>1. SUFFICES ASSUME NEW q \in S, RecordAt(q).kind = "release", RecordAt(q).claim = c
                       PROVE  FALSE
          BY DEF Released
        <4> DEFINE A == {k \in S : Ahead(k, q)}
        <4>2. Valid(Projection(A), RecordAt(q))
          BY DEF Orderly
        <4>3. Projection(A) \in Projections /\ A \subseteq Position
          BY <1>0, ProjectionIs
        <4>4. Projection(A) # None /\ Projection(A).state = "claimed" /\ Projection(A).claim = c
          BY <4>1, <4>2 DEF Valid, Before, Batches
        <4>5. PICK k \in A : Projection(A) = Told(RecordAt(k))
          BY <1>0, <4>3, <4>4, ProjectionIs
        <4>6. RecordAt(k).kind = "claim" /\ RecordAt(k).claim = c
          BY <4>4, <4>5, <2>1, After_ DEF Told, KindsAre, Beginning
        <4>7. RecordAt(k).number = RecordAt(l).number
          BY <4>5, <4>6, <2>4, <1>0 DEF Numbered
        <4>8. k = l
          BY <4>5, <4>7, <1>0, OneOfANumber
        <4>9. Ahead(l, q) /\ (q = l \/ Ahead(q, l))
          BY <4>5, <4>8, <2>2
        <4>10. QED
          BY <4>9, <1>0, AheadOrders
      <3>3. Superseded(m, c)
        BY <3>2, <2>4, <1>9 DEF Evident
      <3>4. Told(RecordAt(l)) # None
        BY <1>4, ToldType
      <3>5. QED
        BY <3>1, <3>3, <3>4, <1>0, <1>9, <2>2 DEF Outdated
    <2>5. QED
      BY <2>1, <2>3, <2>4 DEF KindsAre, Beginning
  <1>10. QED
    BY <1>1, <1>3, <1>5, <1>6, <1>7, <1>8, <1>9 DEF States


\* The records of a message that is not divided are read as they were appended.
LEMMA SoonerIsAhead ==
  ASSUME file \in Seq(FileType), Numbered, NEW m, ~Divided(m)
  PROVE  \A p, q \in PositionsOf(m) : Ahead(p, q) <=> Sooner(p, q)
  <1> SUFFICES ASSUME NEW p \in PositionsOf(m), NEW q \in PositionsOf(m)
               PROVE  Ahead(p, q) <=> Sooner(p, q)
    OBVIOUS
  <1>1. p \in Position /\ q \in Position
    BY DEF PositionsOf
  <1>2. /\ p[1] \in Nat /\ p[2] \in Nat /\ p = <<p[1], p[2]>>
        /\ q[1] \in Nat /\ q[2] \in Nat /\ q = <<q[1], q[2]>>
        /\ file[p[1]].dir \in {"segments", "quarantine"}
        /\ file[q[1]].dir \in {"segments", "quarantine"}
    BY <1>1, PositionFacts
  <1>3. RecordAt(p).number \in Nat /\ RecordAt(q).number \in Nat
    BY <1>1, PositionFacts DEF Record
  <1>4. /\ ~(Sooner(p, q) /\ Sooner(q, p)) /\ (p = q => ~Sooner(p, q))
        /\ p # q => Sooner(p, q) \/ Sooner(q, p)
    BY <1>1, <1>3, OneOfANumber DEF Sooner
  <1>5. Ahead(p, q) <=>
          \/ file[p[1]].dir = "segments" /\ file[q[1]].dir = "quarantine"
          \/ file[p[1]].dir = file[q[1]].dir /\ Above(p, q)
    BY <1>1, AheadIs
  <1>6. (p # q => Above(p, q) \/ Above(q, p)) /\ (p = q => ~Above(p, q))
        /\ ~(Above(p, q) /\ Above(q, p))
    BY <1>2 DEF Above
  <1>7. CASE \/ p[1] = q[1]
             \/ file[p[1]].dir = "segments" /\ file[q[1]].dir = "segments"
    <2>1. (Above(p, q) => Sooner(p, q)) /\ (Above(q, p) => Sooner(q, p))
      BY <1>1, <1>7 DEF Numbered
    <2>2. file[p[1]].dir = file[q[1]].dir
      BY <1>7
    <2>3. QED
      BY <1>2, <1>4, <1>5, <1>6, <2>1, <2>2
  <1>8. CASE p[1] # q[1]
    <2>1. /\ file[p[1]].dir = "quarantine" => ~Sooner(p, q)
          /\ file[q[1]].dir = "quarantine" => ~Sooner(q, p)
      BY <1>8 DEF Divided, Sooner
    <2>2. p # q
      BY <1>8
    <2>3. QED
      BY <1>2, <1>4, <1>5, <1>7, <2>1, <2>2
  <1>9. QED
    BY <1>7, <1>8

\* The records of a message that is not divided are read in the order of their
\* appends: a scan does not throw and finds what was appended.
LEMMA InOrderTells ==
  ASSUME StoreTypes, Numbered, NEW m \in Message, InOrder(m), ~Divided(m)
  PROVE  Orderly(m) /\ Scan[m] = truth[m]
  <1> DEFINE S == PositionsOf(m)
  <1>0. file \in Seq(FileType) /\ Scan[m] = Projection(S) /\ S \subseteq Position
    BY DEF StoreTypes, Scan, PositionsOf
  <1>1. \A p, q \in S : Ahead(p, q) <=> Sooner(p, q)
    BY <1>0, SoonerIsAhead
  <1>2. ASSUME NEW p \in S
        PROVE  Valid(Projection({q \in S : Ahead(q, p)}), RecordAt(p))
    <2> DEFINE A == {q \in S : Ahead(q, p)}
    <2>1. CASE Valid(None, RecordAt(p)) /\ \A q \in S : ~Sooner(q, p)
      <3>1. A = {}
        BY <2>1, <1>1
      <3>2. Projection(A) = None
        BY <3>1 DEF Projection
      <3>3. QED
        BY <2>1, <3>2
    <2>2. CASE \E k \in S : Previous(m, k, p) /\ Valid(Told(RecordAt(k)), RecordAt(p))
      <3>1. PICK k \in S : Previous(m, k, p) /\ Valid(Told(RecordAt(k)), RecordAt(p))
        BY <2>2
      <3>2. k \in A /\ \A q \in A \ {k} : Ahead(q, k)
        BY <3>1, <1>1 DEF Previous
      <3>3. A \subseteq Position
        BY <1>0
      <3>4. Projection(A) = Told(RecordAt(k))
        <4> HIDE DEF A
        <4> QED
          BY <3>2, <3>3, <1>0, LastIs
      <3>5. QED
        BY <3>1, <3>4
    <2>3. QED
      BY <2>1, <2>2 DEF InOrder
  <1>3. Projection(S) = truth[m]
    <2>1. CASE S = {} /\ truth[m] = None
      BY <2>1 DEF Projection
    <2>2. CASE \E k \in S : Latest(m, k) /\ truth[m] = Told(RecordAt(k))
      <3>1. PICK k \in S : Latest(m, k) /\ truth[m] = Told(RecordAt(k))
        BY <2>2
      <3>2. \A q \in S \ {k} : Ahead(q, k)
        BY <3>1, <1>1 DEF Latest
      <3>3. QED
        BY <3>1, <3>2, <1>0, LastIs
    <2>3. QED
      BY <2>1, <2>2 DEF InOrder
  <1>4. QED
    BY <1>0, <1>2, <1>3 DEF Orderly

\* What a scan tells, whether or not it throws.
LEMMA ScanIs ==
  ASSUME StoreTypes, Numbered, NEW m \in Message, Evident(m), InOrder(m)
  PROVE  IF Orderly(m) THEN IsTold(m, Scan[m]) ELSE Divided(m)
  <1>1. CASE ~Divided(m)
    BY <1>1, InOrderTells DEF IsTold
  <1>2. CASE Divided(m)
    BY <1>2, ScanTells DEF IsTold
  <1>3. QED
    BY <1>1, <1>2

-----------------------------------------------------------------------------
(* The files when a record is appended                                     *)

\* Two ranges of numbers.
LEMMA UpTo == \A n \in Nat : 1..n \subseteq 0..n /\ 0..n \subseteq Nat
  OBVIOUS

\* The active segment is the last one.
LEMMA ActiveIs ==
  ASSUME file \in Seq(FileType)
  PROVE  /\ Segments = {} => Active = None
         /\ Segments # {} => Active \in Segments /\ Active \in Nat /\ Active # None
                             /\ \A f \in Segments : f <= Active
  <1>0. Len(file) \in Nat /\ Segments \subseteq 1..Len(file)
    BY DEF Segments
  <1>1. Segments \subseteq 0..Len(file) /\ Len(file) \in Nat /\ Segments \subseteq Nat
    BY <1>0, UpTo, Zenon
  <1>2. ASSUME Segments # {}
        PROVE  Active \in Segments /\ \A f \in Segments : f <= Active
    <2>1. PICK x \in Segments : \A y \in Segments : y <= x
      BY <1>1, <1>2, GreatestNat
    <2>2. Active \in Segments /\ \A y \in Segments : Active >= y
      BY <1>2, <2>1, <1>1 DEF Active, Max
    <2>3. QED
      BY <2>2, <1>1
  <1>3. Segments # {} => Active \in Nat /\ Active # None
    BY <1>1, <1>2, StoreAssumptions, Zenon
  <1>4. Segments = {} => Active = None
    BY DEF Active
  <1>5. QED
    BY <1>2, <1>3, <1>4

\* Where a record goes: to the active segment, or to a new one behind all others.
Target(new) == IF new THEN Len(file) + 1 ELSE Active

\* Every segment is whole when a record is appended, and none comes after it.
LEMMA TargetIs ==
  ASSUME file \in Seq(FileType), StoreTypeOK, Ready, NEW new \in Rotations
  PROVE  /\ new \in BOOLEAN
         /\ \A f \in Segments : ~file[f].torn /\ f <= Target(new)
         /\ ~new => /\ Target(new) = Active /\ Active \in DOMAIN file
                    /\ file[Active].dir = "segments" /\ ~file[Active].torn
                    /\ Length(Active) < SegmentRecords
         /\ new => Target(new) = Len(file) + 1
  <1>1. Len(file) \in Nat /\ Segments \subseteq 1..Len(file) /\ Segments \subseteq DOMAIN file
    BY DEF Segments
  <1>2. /\ Segments = {} => Active = None
        /\ Segments # {} => Active \in Segments /\ Active \in Nat /\ Active # None
                            /\ \A f \in Segments : f <= Active
    BY ActiveIs
  <1>3. \A f \in Segments : ~file[f].torn
    BY <1>2 DEF StoreTypeOK, Segments, Ready
  <1>4. CASE new = TRUE
    <2>1. \A f \in Segments : f <= Len(file) + 1
      BY <1>1
    <2>2. QED
      BY <1>3, <1>4, <2>1 DEF Target
  <1>5. CASE new = FALSE
    <2>1. Active # None /\ Length(Active) < SegmentRecords
      BY <1>5 DEF Rotations
    <2>2. Active \in Segments /\ \A f \in Segments : f <= Active
      BY <1>2, <2>1
    <2>3. file[Active].dir = "segments" /\ Active \in DOMAIN file
      BY <2>2 DEF Segments
    <2>4. QED
      BY <1>3, <1>5, <2>1, <2>2, <2>3 DEF Target
  <1>6. new \in BOOLEAN
    BY DEF Rotations
  <1>7. QED
    BY <1>4, <1>5, <1>6

\* What an append does to the files: one of them is new, or grows.
Grown(n, old, what, after) ==
  /\ n \in Nat \ {0} /\ after \in Seq(FileType)
  /\ DOMAIN after = DOMAIN file \cup {n}
  /\ Len(after) = IF n \in DOMAIN file THEN Len(file) ELSE Len(file) + 1
  /\ \A f \in DOMAIN file : f # n => after[f] = file[f]
  /\ \A f \in Segments : ~file[f].torn /\ f <= n
  /\ n \in DOMAIN file => file[n].dir = "segments" /\ ~file[n].torn /\ old = file[n].records
  /\ n \notin DOMAIN file => old = <<>>
  /\ old \in Seq(Record) /\ Len(old) \in Nat /\ Len(old) < SegmentRecords
  /\ after[n].dir = "segments" /\ after[n].torn = (what = "part")
  /\ after[n].records = IF what = "record" THEN Append(old, writer.record) ELSE old

LEMMA AppendedIs ==
  ASSUME file \in Seq(FileType), StoreTypeOK, Ready, NEW new \in Rotations,
         writer.record \in Record, NEW what \in {"record", "part", "nothing"}
  PROVE  \E n, old : Grown(n, old, what, Appended(what, new))
  <1> DEFINE old == IF new THEN [dir |-> "segments", records |-> <<>>, torn |-> FALSE]
                    ELSE file[Active]
             grown == CASE what = "record" -> [old EXCEPT !.records = Append(@, writer.record)]
                        [] what = "part" -> [old EXCEPT !.torn = TRUE]
                        [] what = "nothing" -> old
  <1>0. Len(file) \in Nat /\ DOMAIN file = 1..Len(file) /\ SegmentRecords \in Nat \ {0}
    BY StoreAssumptions
  <1>1. Appended(what, new) = IF new THEN Append(file, grown) ELSE [file EXCEPT ![Active] = grown]
    BY DEF Appended
  <1>2. /\ new \in BOOLEAN
        /\ \A f \in Segments : ~file[f].torn /\ f <= Target(new)
        /\ ~new => /\ Target(new) = Active /\ Active \in DOMAIN file
                   /\ file[Active].dir = "segments" /\ ~file[Active].torn
                   /\ Length(Active) < SegmentRecords
        /\ new => Target(new) = Len(file) + 1
    BY TargetIs
  <1>4. old \in FileType /\ old.dir = "segments" /\ old.torn = FALSE
    <2>1. CASE new
      BY <2>1 DEF FileType
    <2>2. CASE ~new
      <3>1. file[Active] \in FileType
        BY <1>2, <2>2
      <3>2. QED
        BY <3>1, <1>2, <2>2 DEF FileType
    <2>3. QED
      BY <2>1, <2>2
  <1>5. /\ grown \in FileType /\ grown.dir = "segments" /\ grown.torn = (what = "part")
        /\ grown.records = IF what = "record" THEN Append(old.records, writer.record)
                           ELSE old.records
    <2> HIDE DEF old
    <2> DEFINE longer == Append(old.records, writer.record)
    <2>0. old = [dir |-> "segments", records |-> old.records, torn |-> FALSE]
          /\ old.records \in Seq(Record)
      BY <1>4 DEF FileType
    <2>1. Append(old.records, writer.record) \in Seq(Record)
      BY <2>0
    <2>2. CASE what = "record"
      <3>1. grown = [old EXCEPT !.records = longer]
        BY <2>2
      <3>2. grown = [dir |-> "segments", records |-> longer, torn |-> FALSE]
        <4> HIDE DEF grown, longer
        <4>1. PICK rs : old = [dir |-> "segments", records |-> rs, torn |-> FALSE]
          BY <2>0
        <4> QED
          BY <3>1, <4>1
      <3>3. QED
        BY <3>2, <2>1, <2>2 DEF FileType
    <2>3. CASE what = "part"
      <3>1. grown = [old EXCEPT !.torn = TRUE]
        BY <2>3
      <3>2. grown = [dir |-> "segments", records |-> old.records, torn |-> TRUE]
        <4> HIDE DEF grown
        <4>1. PICK rs : old = [dir |-> "segments", records |-> rs, torn |-> FALSE]
          BY <2>0
        <4>2. old.records = rs
          BY <4>1
        <4> QED
          BY <3>1, <4>1, <4>2
      <3>3. QED
        BY <3>2, <2>0, <2>3 DEF FileType
    <2>4. CASE what = "nothing"
      BY <2>4, <2>0, <1>4
    <2>5. QED
      BY <2>2, <2>3, <2>4
  <1>a. old.records \in Seq(Record) /\ Len(old.records) \in Nat
    BY <1>4 DEF FileType
  <1>6. CASE new
    <2> DEFINE n == Len(file) + 1
    <2>1. old.records = <<>> /\ Len(old.records) < SegmentRecords
      BY <1>0, <1>6
    <2> HIDE DEF old, grown
    <2>2. Appended(what, new) = Append(file, grown)
      BY <1>1, <1>6
    <2>3. /\ Appended(what, new) \in Seq(FileType) /\ Len(Appended(what, new)) = n
          /\ Appended(what, new)[n] = grown /\ n \in Nat \ {0}
          /\ DOMAIN Appended(what, new) = 1..n
          /\ \A f \in 1..Len(file) : Appended(what, new)[f] = file[f]
      BY <2>2, <1>5, <1>0
    <2>4. n \notin 1..Len(file) /\ 1..n = 1..Len(file) \cup {n}
      BY <1>0
    <2>5. \A f \in Segments : ~file[f].torn /\ f <= n
      BY <1>2, <1>6
    <2> HIDE DEF n
    <2>6. PICK rs, after : rs = old.records /\ after = Appended(what, new)
      OBVIOUS
    <2>7. n \notin DOMAIN file /\ DOMAIN after = DOMAIN file \cup {n} /\ Len(after) = Len(file) + 1
      <3>1. n = Len(file) + 1
        BY DEF n
      <3>2. QED
        BY <1>0, <2>3, <2>4, <2>6, <3>1
    <2>8. /\ rs = <<>> /\ rs \in Seq(Record) /\ Len(rs) \in Nat /\ Len(rs) < SegmentRecords
          /\ after[n].dir = "segments" /\ after[n].torn = (what = "part")
          /\ after[n].records = IF what = "record" THEN Append(rs, writer.record) ELSE rs
          /\ n \in Nat \ {0} /\ after \in Seq(FileType)
          /\ \A f \in DOMAIN file : f # n => after[f] = file[f]
      BY <1>0, <1>a, <1>5, <2>1, <2>3, <2>6
    <2>9. Grown(n, rs, what, after)
      BY <2>5, <2>7, <2>8 DEF Grown
    <2>10. QED
      BY <2>6, <2>9
  <1>7. CASE ~new
    <2> DEFINE n == Active
    <2>1. old = file[n] /\ n \in 1..Len(file) /\ n \in Nat \ {0}
      BY <1>0, <1>2, <1>7
    <2>2. Len(old.records) < SegmentRecords
      <3>1. Length(n) < SegmentRecords /\ ~file[n].torn
        BY <1>2, <1>7
      <3>2. Length(n) = Len(old.records) + 0
        BY <2>1, <3>1, Zenon DEF Length
      <3> HIDE DEF n, old
      <3>3. QED
        BY <1>a, <3>1, <3>2
    <2> HIDE DEF old, grown
    <2>3. Appended(what, new) = [file EXCEPT ![n] = grown]
      BY <1>1, <1>7
    <2>4. /\ Appended(what, new) \in Seq(FileType) /\ Len(Appended(what, new)) = Len(file)
          /\ Appended(what, new)[n] = grown /\ DOMAIN Appended(what, new) = DOMAIN file
          /\ \A f \in 1..Len(file) : f # n => Appended(what, new)[f] = file[f]
      BY <2>1, <2>3, <1>5, <1>0
    <2>5. /\ file[n].dir = "segments" /\ ~file[n].torn
          /\ \A f \in Segments : ~file[f].torn /\ f <= n
      BY <1>2, <1>7
    <2> HIDE DEF n
    <2>6. PICK rs, after : rs = old.records /\ after = Appended(what, new)
      OBVIOUS
    <2>7. n \in DOMAIN file /\ DOMAIN after = DOMAIN file \cup {n} /\ Len(after) = Len(file)
      BY <1>0, <2>1, <2>4, <2>6
    <2>8. /\ rs = file[n].records /\ rs \in Seq(Record) /\ Len(rs) \in Nat
          /\ Len(rs) < SegmentRecords
          /\ after[n].dir = "segments" /\ after[n].torn = (what = "part")
          /\ after[n].records = IF what = "record" THEN Append(rs, writer.record) ELSE rs
          /\ n \in Nat \ {0} /\ after \in Seq(FileType)
          /\ \A f \in DOMAIN file : f # n => after[f] = file[f]
      BY <1>0, <1>a, <1>5, <2>1, <2>2, <2>4, <2>6
    <2>9. Grown(n, rs, what, after)
      BY <2>5, <2>7, <2>8 DEF Grown
    <2>10. QED
      BY <2>6, <2>9
  <1>8. QED
    BY <1>2, <1>6, <1>7

\* What the append of a record does: there is one more position, behind all others in
\* its file, and among the segments.
LEMMA RecordIsAppended ==
  ASSUME file \in Seq(FileType), StoreTypeOK, Ready, NEW new \in Rotations,
         writer.record \in Record, file' = Appended("record", new)
  PROVE  \E pn :
           /\ Position' = Position \cup {pn} /\ pn \notin Position
           /\ RecordAt(pn)' = writer.record
           /\ pn = <<pn[1], pn[2]>> /\ pn[1] \in Nat /\ pn[2] \in Nat
           /\ \A p \in Position :
                /\ RecordAt(p)' = RecordAt(p) /\ file'[p[1]].dir = file[p[1]].dir
                /\ p[1] = pn[1] \/ file[p[1]].dir = "segments" => ~Above(pn, p)
  <1>1. PICK n, old : Grown(n, old, "record", file')
    BY AppendedIs
  <1> DEFINE k == Len(old) + 1
  <1> PICK pn : pn = <<n, k>>
    OBVIOUS
  <1>2. /\ n \in Nat \ {0} /\ file' \in Seq(FileType) /\ DOMAIN file' = DOMAIN file \cup {n}
        /\ \A f \in DOMAIN file : f # n => file'[f] = file[f]
        /\ \A f \in Segments : f <= n
        /\ n \in DOMAIN file => file[n].dir = "segments" /\ old = file[n].records
        /\ n \notin DOMAIN file => old = <<>>
        /\ old \in Seq(Record) /\ Len(old) \in Nat
        /\ file'[n].dir = "segments" /\ file'[n].records = Append(old, writer.record)
    BY <1>1 DEF Grown
  <1>3. DOMAIN file = 1..Len(file) /\ DOMAIN file' = 1..Len(file')
    BY <1>2
  <1>5. \A p : p \in Position <=>
           /\ p = <<p[1], p[2]>> /\ p[1] \in DOMAIN file
           /\ p[2] \in 1..Len(file[p[1]].records)
    BY <1>3, PositionIs
  <1>6. (file \in Seq(FileType) =>
          \A p : p \in Position <=>
            /\ p = <<p[1], p[2]>> /\ p[1] \in 1..Len(file)
            /\ p[2] \in 1..Len(file[p[1]].records))'
    BY PositionIs, PTL
  <1>7. \A p : p \in Position' <=>
           /\ p = <<p[1], p[2]>> /\ p[1] \in DOMAIN file \cup {n}
           /\ p[2] \in 1..Len(file'[p[1]].records)
    BY <1>2, <1>3, <1>6
  <1>8. /\ Len(Append(old, writer.record)) = k /\ k \in Nat
        /\ Append(old, writer.record)[k] = writer.record
        /\ \A i \in 1..Len(old) : Append(old, writer.record)[i] = old[i]
        /\ k \in 1..k /\ k \notin 1..Len(old) /\ 1..k = 1..Len(old) \cup {k}
        /\ \A i \in 1..Len(old) : ~(k < i) /\ i \in Nat
    BY <1>2
  <1> HIDE DEF k
  <1>a. pn[1] = n /\ pn[2] = k /\ pn = <<pn[1], pn[2]>>
    OBVIOUS
  <1>9. pn \in Position' /\ RecordAt(pn)' = writer.record
    <2>1. pn \in Position'
      BY <1>2, <1>7, <1>8, <1>a
    <2>2. QED
      BY <1>2, <1>8, <1>a, <2>1 DEF RecordAt
  <1>10. pn \notin Position
    BY <1>2, <1>5, <1>8, <1>a
  <1>11. ASSUME NEW p \in Position
         PROVE  /\ p \in Position' /\ RecordAt(p)' = RecordAt(p)
                /\ file'[p[1]].dir = file[p[1]].dir
                /\ p[1] = n \/ file[p[1]].dir = "segments" => ~Above(pn, p)
    <2>1. p = <<p[1], p[2]>> /\ p[1] \in DOMAIN file /\ p[2] \in 1..Len(file[p[1]].records)
      BY <1>5
    <2>2. p[1] \in Nat /\ p[2] \in Nat
      BY PositionFacts
    <2>3. CASE p[1] # n
      <3>1. file'[p[1]] = file[p[1]]
        BY <1>2, <2>1, <2>3
      <3>2. file[p[1]].dir = "segments" => ~(n < p[1])
        <4>1. file[p[1]].dir = "segments" => p[1] <= n
          BY <1>2, <2>1 DEF Segments
        <4>2. QED
          BY <4>1, <1>2, <2>2
      <3>3. QED
        BY <1>7, <1>a, <2>1, <2>2, <2>3, <3>1, <3>2 DEF Above, RecordAt
    <2>4. CASE p[1] = n
      <3>1. old = file[p[1]].records /\ file[n].dir = "segments"
        BY <1>2, <2>1, <2>4
      <3>2. p[2] \in 1..Len(old) /\ ~(k < p[2])
        BY <1>8, <2>1, <3>1
      <3>3. file'[p[1]].records[p[2]] = file[p[1]].records[p[2]]
        BY <1>2, <1>8, <2>4, <3>1, <3>2
      <3>4. p[2] \in 1..Len(file'[p[1]].records)
        BY <1>2, <1>8, <2>4, <3>2
      <3>5. p \in Position'
        BY <1>7, <2>1, <3>4
      <3>6. ~Above(pn, p)
        BY <1>2, <1>a, <2>2, <2>4, <3>2 DEF Above
      <3>7. QED
        BY <1>2, <2>4, <3>1, <3>3, <3>5, <3>6 DEF RecordAt
    <2>5. QED
      BY <2>3, <2>4
  <1>12. ASSUME NEW p \in Position', p # pn
         PROVE  p \in Position
    <2>1. p = <<p[1], p[2]>> /\ p[1] \in DOMAIN file \cup {n}
          /\ p[2] \in 1..Len(file'[p[1]].records)
      BY <1>7
    <2>2. CASE p[1] # n
      <3>1. p[1] \in DOMAIN file /\ file'[p[1]] = file[p[1]]
        BY <1>2, <2>1, <2>2
      <3>2. QED
        BY <1>5, <2>1, <3>1
    <2>3. CASE p[1] = n
      <3>1. p[2] \in 1..k /\ p[2] # k
        BY <1>2, <1>8, <1>12, <2>1, <2>3
      <3>2. p[2] \in 1..Len(old)
        BY <1>8, <3>1
      <3>3. n \in DOMAIN file
        BY <1>2, <3>2
      <3>4. QED
        BY <1>2, <1>5, <2>1, <2>3, <3>2, <3>3
    <2>4. QED
      BY <2>2, <2>3
  <1>13. Position' = Position \cup {pn}
    BY <1>9, <1>11, <1>12
  <1>14. pn[1] \in Nat /\ pn[2] \in Nat
    BY <1>2, <1>8, <1>a
  <1>15. QED
    BY <1>9, <1>10, <1>11, <1>13, <1>14, <1>a


\* The positions depend on nothing but how many records a file has.
LEMMA SamePositions ==
  ASSUME file \in Seq(FileType), file' \in Seq(FileType),
         \A f \in DOMAIN file : f \in DOMAIN file' /\ file'[f].records = file[f].records,
         \A f \in DOMAIN file' : f \notin DOMAIN file => file'[f].records = <<>>
  PROVE  Position' = Position /\ \A p \in Position : RecordAt(p)' = RecordAt(p)
  <1>1. \A p : p \in Position <=>
           /\ p = <<p[1], p[2]>> /\ p[1] \in 1..Len(file)
           /\ p[2] \in 1..Len(file[p[1]].records)
    BY PositionIs
  <1>2. (file \in Seq(FileType) =>
          \A p : p \in Position <=>
            /\ p = <<p[1], p[2]>> /\ p[1] \in 1..Len(file)
            /\ p[2] \in 1..Len(file[p[1]].records))'
    BY PositionIs, PTL
  <1>3. \A p : p \in Position' <=>
           /\ p = <<p[1], p[2]>> /\ p[1] \in 1..Len(file')
           /\ p[2] \in 1..Len(file'[p[1]].records)
    BY <1>2
  <1>4. DOMAIN file = 1..Len(file) /\ DOMAIN file' = 1..Len(file')
    OBVIOUS
  <1>5. ASSUME NEW p \in Position PROVE p \in Position' /\ RecordAt(p)' = RecordAt(p)
    BY <1>1, <1>3, <1>4 DEF RecordAt
  <1>6. ASSUME NEW p \in Position' PROVE p \in Position
    <2>1. p = <<p[1], p[2]>> /\ p[1] \in 1..Len(file') /\ p[2] \in 1..Len(file'[p[1]].records)
      BY <1>3
    <2>2. file'[p[1]].records # <<>>
      BY <2>1
    <2>3. p[1] \in DOMAIN file
      BY <1>4, <2>1, <2>2
    <2>4. QED
      BY <1>1, <1>4, <2>1, <2>3
  <1>7. QED
    BY <1>5, <1>6

\* An append that fails leaves the records and where they are.
LEMMA NothingIsAppended ==
  ASSUME file \in Seq(FileType), StoreTypeOK, Ready, NEW new \in Rotations,
         writer.record \in Record, NEW what \in {"part", "nothing"},
         file' = Appended(what, new)
  PROVE  /\ Position' = Position
         /\ \A p \in Position :
              RecordAt(p)' = RecordAt(p) /\ file'[p[1]].dir = file[p[1]].dir
  <1>1. PICK n, old : Grown(n, old, what, file')
    <2>1. what \in {"record", "part", "nothing"}
      OBVIOUS
    <2> QED
      BY <2>1, AppendedIs
  <1>2. /\ file' \in Seq(FileType) /\ DOMAIN file' = DOMAIN file \cup {n}
        /\ \A f \in DOMAIN file : f # n => file'[f] = file[f]
        /\ n \in DOMAIN file => file[n].dir = "segments" /\ old = file[n].records
        /\ n \notin DOMAIN file => old = <<>>
        /\ file'[n].dir = "segments" /\ file'[n].records = old
    BY <1>1 DEF Grown
  <1>4. ASSUME NEW f \in DOMAIN file
        PROVE  /\ f \in DOMAIN file' /\ file'[f].records = file[f].records
               /\ file'[f].dir = file[f].dir
    BY <1>2
  <1>5. \A f \in DOMAIN file' : f \notin DOMAIN file => file'[f].records = <<>>
    BY <1>2
  <1>6. Position' = Position /\ \A p \in Position : RecordAt(p)' = RecordAt(p)
    BY <1>2, <1>4, <1>5, SamePositions
  <1>7. QED
    BY <1>4, <1>6, PositionFacts

\* The shape of the files after an append, whole or not: they have grown.
LEMMA FilesGrow ==
  ASSUME file \in Seq(FileType), StoreTypeOK, Ready, NEW new \in Rotations,
         writer.record \in Record, NEW what \in {"record", "part", "nothing"},
         file' = Appended(what, new)
  PROVE  /\ file' \in Seq(FileType) /\ StoreTypeOK'
         /\ Len(file) <= Len(file') /\ DOMAIN file \subseteq DOMAIN file'
         /\ \A f \in DOMAIN file :
              /\ file'[f].dir = file[f].dir
              /\ Length(f) \in Nat /\ Length(f)' \in Nat /\ Length(f) <= Length(f)'
              /\ RecordsIn(f) \subseteq RecordsIn(f)'
         /\ what = "record" =>
              Len(file') > Len(file) \/ \E f \in DOMAIN file : Length(f)' > Length(f)
  <1>1. PICK n, old : Grown(n, old, what, file')
    BY AppendedIs
  <1>2. /\ n \in Nat \ {0} /\ file' \in Seq(FileType) /\ DOMAIN file' = DOMAIN file \cup {n}
        /\ Len(file') = IF n \in DOMAIN file THEN Len(file) ELSE Len(file) + 1
        /\ \A f \in DOMAIN file : f # n => file'[f] = file[f]
        /\ \A f \in Segments : ~file[f].torn /\ f <= n
        /\ n \in DOMAIN file => file[n].dir = "segments" /\ ~file[n].torn /\ old = file[n].records
        /\ n \notin DOMAIN file => old = <<>>
        /\ old \in Seq(Record) /\ Len(old) \in Nat /\ Len(old) < SegmentRecords
        /\ file'[n].dir = "segments" /\ file'[n].torn = (what = "part")
        /\ file'[n].records = IF what = "record" THEN Append(old, writer.record) ELSE old
    BY <1>1 DEF Grown
  <1>3. SegmentRecords \in Nat \ {0} /\ Len(file) \in Nat
    BY StoreAssumptions
  <1>6. /\ Len(file'[n].records) = IF what = "record" THEN Len(old) + 1 ELSE Len(old)
        /\ \A i \in 1..Len(old) : i \in DOMAIN file'[n].records /\ file'[n].records[i] = old[i]
    BY <1>2
  <1>7. /\ Length(n)' \in Nat /\ Length(n)' <= SegmentRecords /\ Len(old) <= Length(n)'
        /\ what = "record" => Length(n)' > Len(old)
    <2> PICK l : l = Length(n)'
      OBVIOUS
    <2>1. l = Len(file'[n].records) + (IF file'[n].torn THEN 1 ELSE 0)
      BY DEF Length
    <2>2. l = IF what = "nothing" THEN Len(old) ELSE Len(old) + 1
      <3>1. /\ what = "part" => file'[n].torn
            /\ what # "part" => ~file'[n].torn
            /\ Len(file'[n].records) = IF what = "record" THEN Len(old) + 1 ELSE Len(old)
        BY <1>2, <1>6, Zenon
      <3>2. Len(old) \in Nat
        BY <1>2
      <3>a. \A x \in Nat : (x + 1) + 0 = x + 1 /\ x + 0 = x
        OBVIOUS
      <3>3. CASE what = "record"
        <4>1. l = (Len(old) + 1) + 0
          BY <2>1, <3>1, <3>3, Zenon
        <4>2. QED
          BY <4>1, <3>a, <3>2, <3>3
      <3>4. CASE what = "part"
        <4>1. l = Len(old) + 1
          BY <2>1, <3>1, <3>4, Zenon
        <4>2. QED
          BY <4>1, <3>4
      <3>5. CASE what = "nothing"
        <4>1. l = Len(old) + 0
          BY <2>1, <3>1, <3>5, Zenon
        <4>2. QED
          BY <4>1, <3>a, <3>2, <3>5
      <3>6. QED
        BY <3>3, <3>4, <3>5
    <2>3. Len(old) \in Nat /\ SegmentRecords \in Nat /\ Len(old) < SegmentRecords
      BY <1>2, <1>3
    <2>4. QED
      BY <2>2, <2>3
  <1>8. \A f \in DOMAIN file : f # n => file'[f] = file[f] /\ Length(f)' = Length(f)
    BY <1>2 DEF Length
  <1>9. \A f \in DOMAIN file : Length(f) \in 0..SegmentRecords /\ Length(f) \in Nat
    BY <1>3, UpTo DEF StoreTypeOK
  <1>10. n \in DOMAIN file => Length(n) = Len(old) /\ file[n].dir = "segments"
    <2>1. SUFFICES ASSUME n \in DOMAIN file
                   PROVE  Length(n) = Len(old) /\ file[n].dir = "segments"
      OBVIOUS
    <2>2. ~file[n].torn /\ file[n].dir = "segments" /\ old = file[n].records
      BY <1>2, <2>1
    <2>3. Length(n) = Len(old) + 0
      BY <2>2, Zenon DEF Length
    <2>4. QED
      BY <1>2, <2>2, <2>3
  <1>11. DOMAIN file \subseteq DOMAIN file' /\ Len(file) <= Len(file')
    BY <1>2, <1>3
  <1>13. ASSUME NEW f \in DOMAIN file
         PROVE  /\ file'[f].dir = file[f].dir
                /\ Length(f) \in Nat /\ Length(f)' \in Nat /\ Length(f) <= Length(f)'
                /\ RecordsIn(f) \subseteq RecordsIn(f)'
    <2>1. CASE f # n
      <3>1. file'[f] = file[f] /\ Length(f)' = Length(f) /\ Length(f) \in Nat
        BY <2>1, <1>8, <1>9
      <3>2. QED
        BY <3>1 DEF RecordsIn
    <2>2. CASE f = n
      <3>2. RecordsIn(f) \subseteq RecordsIn(f)'
        <4>1. RecordsIn(f) = {old[i] : i \in DOMAIN old}
          BY <2>2, <1>2 DEF RecordsIn
        <4>2. RecordsIn(f)' = {file'[n].records[i] : i \in DOMAIN file'[n].records}
          BY <2>2 DEF RecordsIn
        <4>3. DOMAIN old = 1..Len(old)
          BY <1>2
        <4>4. QED
          BY <4>1, <4>2, <4>3, <1>6
      <3>3. QED
        BY <3>2, <2>2, <1>2, <1>7, <1>9, <1>10
    <2>3. QED
      BY <2>1, <2>2
  <1>14. StoreTypeOK'
    <2>0. Active' = n
      <3>1. n \in Segments' /\ Segments' \subseteq Segments \cup {n}
        BY <1>2 DEF Segments
      <3>2. (file \in Seq(FileType) =>
              /\ Segments = {} => Active = None
              /\ Segments # {} => Active \in Segments /\ Active \in Nat /\ Active # None
                                  /\ \A f \in Segments : f <= Active)'
        BY ActiveIs, PTL
      <3>3. Active' \in Segments' /\ Active' \in Nat /\ n <= Active'
        BY <1>2, <3>1, <3>2
      <3>4. Active' <= n
        BY <1>2, <3>1, <3>3
      <3>5. QED
        BY <1>2, <3>3, <3>4
    <2>1. SUFFICES ASSUME NEW f \in DOMAIN file'
                   PROVE  /\ file'[f].dir = "quarantine" => file'[f].torn
                          /\ file'[f].dir = "segments" /\ f # n => ~file'[f].torn
                          /\ Length(f)' \in 0..SegmentRecords
      BY <2>0 DEF StoreTypeOK
    <2>2. CASE f = n
      <3>1. Length(n)' \in 0..SegmentRecords
        BY <1>3, <1>7
      <3>2. QED
        BY <2>2, <3>1, <1>2
    <2>3. CASE f # n
      <3>1. f \in DOMAIN file
        BY <2>3, <1>2
      <3>2. file'[f] = file[f] /\ Length(f)' = Length(f) /\ Length(f) \in 0..SegmentRecords
        BY <3>1, <2>3, <1>8, <1>9
      <3>3. file[f].dir = "quarantine" => file[f].torn
        BY <3>1 DEF StoreTypeOK
      <3>4. file[f].dir = "segments" => ~file[f].torn
        BY <3>1, <1>2 DEF Segments
      <3>5. QED
        BY <3>2, <3>3, <3>4
    <2>4. QED
      BY <2>2, <2>3
  <1>17. what = "record" =>
           Len(file') > Len(file) \/ \E f \in DOMAIN file : Length(f)' > Length(f)
    <2>1. CASE n \in DOMAIN file
      BY <1>7, <1>10, <2>1
    <2>2. CASE n \notin DOMAIN file
      BY <1>2, <1>3, <2>2
    <2>3. QED
      BY <2>1, <2>2
  <1>18. QED
    BY <1>2, <1>11, <1>13, <1>14, <1>17


-----------------------------------------------------------------------------
(* What is known of a message, when the files change                       *)

\* A step that leaves the records of a message and its state alone.
LEMMA SameMessage ==
  ASSUME NEW m, NEW S, PositionsOf(m) = S, PositionsOf(m)' = S,
         \A p \in S : RecordAt(p)' = RecordAt(p), truth'[m] = truth[m],
         Divided(m) => Divided(m)'
  PROVE  /\ \A claim : Superseded(m, claim)' <=> Superseded(m, claim)
         /\ \A x : IsTold(m, x) => IsTold(m, x)'
         /\ Evident(m) => Evident(m)'
         /\ InOrder(m) => InOrder(m)'
  <1> PICK R : \A p \in S : RecordAt(p) = R[p] /\ RecordAt(p)' = R[p]
    <2> DEFINE F == [p \in S |-> RecordAt(p)]
    <2> \A p \in S : RecordAt(p) = F[p] /\ RecordAt(p)' = F[p]
      OBVIOUS
    <2> HIDE DEF F
    <2> QED
      OBVIOUS
  <1>1. \A claim : Superseded(m, claim)' <=> Superseded(m, claim)
    BY DEF Superseded
  <1>2. \A claim : Released(m, claim)' <=> Released(m, claim)
    BY DEF Released
  <1>3. \A x : Outdated(m, x)' <=> Outdated(m, x)
    BY <1>1 DEF Outdated
  <1>4. \A x : IsTold(m, x) => IsTold(m, x)'
    BY <1>3 DEF IsTold
  <1>5. \A kinds : KindsAre(m, kinds) <=> KindsAre(m, kinds)'
    BY DEF KindsAre
  <1>7. Evident(m) => Evident(m)'
    <2>1. SUFFICES ASSUME Evident(m) PROVE Evident(m)'
      OBVIOUS
    <2>2. PICK t : t = truth[m] /\ t = truth'[m]
      OBVIOUS
    <2>3. /\ t = None <=> S = {}
          /\ t # None =>
             /\ t.state = "scheduled" =>
                  /\ KindsAre(m, Beginning) /\ t.claim = 0
                  /\ \A p \in S : R[p].kind = "claim" =>
                       Released(m, R[p].claim) \/ Superseded(m, R[p].claim)
             /\ t.state = "claimed" =>
                  /\ KindsAre(m, Beginning)
                  /\ ~Superseded(m, t.claim) /\ ~Released(m, t.claim)
                  /\ \E p \in S : Told(R[p]) = t
             /\ t.state = "attempted" =>
                  /\ KindsAre(m, Beginning \cup {"attempt"})
                  /\ \E p \in S : Told(R[p]) = t
             /\ t.state = "unknown" =>
                  /\ KindsAre(m, Beginning \cup {"attempt", "unknown"})
                  /\ \E p \in S : Told(R[p]) = t
             /\ t.state = "done" =>
                  /\ t.claim = 0
                  /\ \E p \in S : R[p].kind \in Closing
      BY <2>1, <2>2 DEF Evident
    <2>4. /\ t = None <=> S = {}
          /\ t # None =>
             /\ t.state = "scheduled" =>
                  /\ KindsAre(m, Beginning)' /\ t.claim = 0
                  /\ \A p \in S : R[p].kind = "claim" =>
                       Released(m, R[p].claim)' \/ Superseded(m, R[p].claim)'
             /\ t.state = "claimed" =>
                  /\ KindsAre(m, Beginning)'
                  /\ ~Superseded(m, t.claim)' /\ ~Released(m, t.claim)'
                  /\ \E p \in S : Told(R[p]) = t
             /\ t.state = "attempted" =>
                  /\ KindsAre(m, Beginning \cup {"attempt"})'
                  /\ \E p \in S : Told(R[p]) = t
             /\ t.state = "unknown" =>
                  /\ KindsAre(m, Beginning \cup {"attempt", "unknown"})'
                  /\ \E p \in S : Told(R[p]) = t
             /\ t.state = "done" =>
                  /\ t.claim = 0
                  /\ \E p \in S : R[p].kind \in Closing
      BY <2>3, <1>1, <1>2, <1>5
    <2>5. QED
      BY <2>2, <2>4 DEF Evident
  <1>8. InOrder(m) => InOrder(m)'
    <2>1. \A p, q \in S : Sooner(p, q)' <=> Sooner(p, q)
      BY DEF Sooner
    <2>2. \A k, p \in S : Previous(m, k, p)' <=> Previous(m, k, p)
      BY <2>1 DEF Previous
    <2>3. \A k \in S : Latest(m, k)' <=> Latest(m, k)
      BY <2>1 DEF Latest
    <2>4. SUFFICES ASSUME InOrder(m), ~Divided(m)' PROVE InOrder(m)'
      BY DEF InOrder
    <2>5. /\ \A p \in S :
               \/ Valid(None, R[p]) /\ \A q \in S : ~Sooner(q, p)
               \/ \E k \in S : Previous(m, k, p) /\ Valid(Told(R[k]), R[p])
          /\ \/ S = {} /\ truth[m] = None
             \/ \E k \in S : Latest(m, k) /\ truth[m] = Told(R[k])
      BY <2>4 DEF InOrder
    <2>6. /\ \A p \in S :
               \/ Valid(None, R[p]) /\ \A q \in S : ~Sooner(q, p)'
               \/ \E k \in S : Previous(m, k, p)' /\ Valid(Told(R[k]), R[p])
          /\ \/ S = {} /\ truth'[m] = None
             \/ \E k \in S : Latest(m, k)' /\ truth'[m] = Told(R[k])
      BY <2>1, <2>2, <2>3, <2>5
    <2>7. QED
      BY <2>6 DEF InOrder
  <1>9. QED
    BY <1>1, <1>4, <1>7, <1>8


\* The message of the record that is appended.
LEMMA ItsMessage ==
  ASSUME StoreTypes, Numbered, NEW m \in Message, Evident(m), InOrder(m),
         NEW r \in Record, r.kind = "claim" => r.claim = r.number,
         r.number = Cardinality(Position) + 1,
         NEW x \in Projections, IsTold(m, x), Valid(x, r),
         r.kind = "attempt" => ~Superseded(m, x.claim),
         NEW S, PositionsOf(m) = S, NEW pn, pn \notin S, PositionsOf(m)' = S \cup {pn},
         \A p \in S : RecordAt(p)' = RecordAt(p) /\ Sooner(p, pn)' /\ ~Sooner(pn, p)',
         ~Sooner(pn, pn)', \A p, q \in S : Sooner(p, q)' <=> Sooner(p, q),
         RecordAt(pn)' = r, truth'[m] = Told(r), Divided(m) => Divided(m)'
  PROVE  Evident(m)' /\ InOrder(m)'
  <1> DEFINE T == S \cup {pn}
  <1> PICK R : /\ \A p \in S : RecordAt(p) = R[p] /\ RecordAt(p)' = R[p]
               /\ R[pn] = r /\ RecordAt(pn)' = R[pn]
    <2> DEFINE F == [p \in T |-> IF p = pn THEN r ELSE RecordAt(p)]
    <2> /\ \A p \in S : RecordAt(p) = F[p] /\ RecordAt(p)' = F[p]
        /\ F[pn] = r /\ RecordAt(pn)' = F[pn]
      OBVIOUS
    <2> HIDE DEF F
    <2> QED
      OBVIOUS
  <1> PICK t : t = truth[m]
    OBVIOUS
  <1> PICK u : u = Told(r)
    OBVIOUS
  <1>1. /\ t \in Projections
        /\ t # None => t.state \in States /\ t.claim \in Nat
                       /\ t = [state |-> t.state, claim |-> t.claim]
    BY TruthIs
  <1>2. /\ u = [state |-> After(r.kind),
                claim |-> IF After(r.kind) \in {"scheduled", "done"} THEN 0 ELSE r.claim]
        /\ u # None /\ u.state = After(r.kind)
        /\ u.claim = IF After(r.kind) \in {"scheduled", "done"} THEN 0 ELSE r.claim
    <2>1. u # None
      BY ToldType
    <2>2. QED
      BY <2>1 DEF Told
  <1>3. /\ r.kind \in Kinds /\ r.claim \in Nat /\ r.number \in Nat
    BY DEF Record
  <1>4. \A p \in S : R[p] \in Record /\ R[p].claim \in Nat /\ R[p].claim < r.number
    <2>1. SUFFICES ASSUME NEW p \in S
                   PROVE  R[p] \in Record /\ R[p].claim \in Nat /\ R[p].claim < r.number
      OBVIOUS
    <2>2. p \in Position /\ R[p] \in Record
      BY PositionFacts DEF PositionsOf, StoreTypes
    <2>3. R[p].number \in 1..Cardinality(Position) /\ R[p].claim <= R[p].number
      BY <2>2 DEF Numbered
    <2>4. Cardinality(Position) \in Nat
      BY FS_CardinalityType DEF Numbered
    <2>5. R[p].number \in Nat /\ R[p].claim \in Nat
      BY <2>2 DEF Record
    <2>6. QED
      BY <2>2, <2>3, <2>4, <2>5
  <1>5. \A claim : Superseded(m, claim) <=> \E p \in S : R[p].kind = "claim" /\ R[p].claim > claim
    BY DEF Superseded
  <1>6. \A claim : Superseded(m, claim)' <=> \E p \in T : R[p].kind = "claim" /\ R[p].claim > claim
    BY DEF Superseded
  <1>7. \A claim : Released(m, claim) <=> \E p \in S : R[p].kind = "release" /\ R[p].claim = claim
    BY DEF Released
  <1>8. \A claim : Released(m, claim)' <=> \E p \in T : R[p].kind = "release" /\ R[p].claim = claim
    BY DEF Released
  <1>9. \A kinds : KindsAre(m, kinds) <=> \A p \in S : R[p].kind \in kinds
    BY DEF KindsAre
  <1>10. \A kinds : KindsAre(m, kinds)' <=> \A p \in T : R[p].kind \in kinds
    BY DEF KindsAre
  <1>11. /\ t = None <=> S = {}
         /\ t # None =>
            /\ t.state = "scheduled" =>
                 /\ KindsAre(m, Beginning) /\ t.claim = 0
                 /\ \A p \in S : R[p].kind = "claim" =>
                      Released(m, R[p].claim) \/ Superseded(m, R[p].claim)
            /\ t.state = "claimed" =>
                 /\ KindsAre(m, Beginning)
                 /\ ~Superseded(m, t.claim) /\ ~Released(m, t.claim)
                 /\ \E p \in S : Told(R[p]) = t
            /\ t.state = "attempted" =>
                 /\ KindsAre(m, Beginning \cup {"attempt"})
                 /\ \E p \in S : Told(R[p]) = t
            /\ t.state = "unknown" =>
                 /\ KindsAre(m, Beginning \cup {"attempt", "unknown"})
                 /\ \E p \in S : Told(R[p]) = t
            /\ t.state = "done" =>
                 /\ t.claim = 0
                 /\ \E p \in S : R[p].kind \in Closing
    BY DEF Evident
  <1>12. x = t \/ (/\ Divided(m) /\ t # None /\ t.state = "scheduled"
                   /\ x # None /\ x.state = "claimed" /\ Superseded(m, x.claim))
    BY DEF IsTold, Outdated
  <1> DEFINE Fits_ ==
               /\ u.state = "scheduled" =>
                    /\ KindsAre(m, Beginning)' /\ u.claim = 0
                    /\ \A p \in T : R[p].kind = "claim" =>
                         Released(m, R[p].claim)' \/ Superseded(m, R[p].claim)'
               /\ u.state = "claimed" =>
                    /\ KindsAre(m, Beginning)'
                    /\ ~Superseded(m, u.claim)' /\ ~Released(m, u.claim)'
               /\ u.state = "attempted" => KindsAre(m, Beginning \cup {"attempt"})'
               /\ u.state = "unknown" => KindsAre(m, Beginning \cup {"attempt", "unknown"})'
               /\ u.state = "done" => u.claim = 0 /\ r.kind \in Closing
  <1>13. \A claim : /\ Released(m, claim) => Released(m, claim)'
                    /\ Superseded(m, claim) => Superseded(m, claim)'
    BY <1>5, <1>6, <1>7, <1>8
  <1>14. \A kinds : KindsAre(m, kinds) /\ r.kind \in kinds => KindsAre(m, kinds)'
    BY <1>9, <1>10
  <1>15. /\ x = None => r.kind \in {"batch", "denial"}
         /\ x # None =>
              /\ r.kind \notin {"batch", "denial"}
              /\ x.state # "done"
              /\ x.state = "scheduled" => r.kind \in {"claim", "ended"}
              /\ x.state = "claimed" =>
                   \/ r.kind = "claim" /\ x.claim < r.claim
                   \/ r.kind \in {"release", "attempt"} /\ x.claim = r.claim
                   \/ r.kind = "ended"
              /\ x.state \in {"attempted", "unknown"} =>
                   r.kind \in {"unknown", "outcome"} /\ x.claim = r.claim
    BY ValidIs
  <1>16. x # None => x.state \in States
    BY DEF Projections
  <1>17. ASSUME r.kind \in {"denial", "outcome", "ended"} PROVE Fits_
    BY <1>2, <1>17, After_ DEF Closing
  <1>18. ASSUME r.kind = "batch" PROVE Fits_
    <2>1. S = {}
      BY <1>11, <1>12, <1>15, <1>18
    <2>2. KindsAre(m, Beginning)'
      BY <1>10, <1>18, <2>1 DEF Beginning
    <2>3. \A p \in T : R[p].kind # "claim"
      BY <1>18, <2>1
    <2>4. u.state = "scheduled" /\ u.claim = 0
      BY <1>2, <1>18, After_
    <2>5. QED
      BY <2>2, <2>3, <2>4
  <1>19. ASSUME r.kind = "claim" PROVE Fits_
    <2>1. x # None /\ x.state \in {"scheduled", "claimed"}
      BY <1>15, <1>16, <1>19 DEF States
    <2>2. KindsAre(m, Beginning)
      BY <1>11, <1>12, <2>1
    <2>3. KindsAre(m, Beginning)'
      BY <1>14, <1>19, <2>2 DEF Beginning
    <2>4. u.state = "claimed" /\ u.claim = r.claim
      BY <1>2, <1>19, After_
    <2>5. ~Superseded(m, r.claim)' /\ ~Released(m, r.claim)'
      <3>1. r.claim = r.number
        BY <1>19
      <3>2. \A p \in S : ~(R[p].claim > r.claim) /\ R[p].claim # r.claim
        BY <1>3, <1>4, <3>1
      <3>3. ~(r.claim > r.claim)
        BY <1>3
      <3>4. QED
        BY <1>6, <1>8, <1>19, <3>2, <3>3
    <2>6. QED
      BY <2>3, <2>4, <2>5
  <1>20. ASSUME r.kind = "release" PROVE Fits_
    <2>1. x # None /\ x.state = "claimed" /\ x.claim = r.claim
      BY <1>15, <1>16, <1>20 DEF States
    <2>2. KindsAre(m, Beginning)
      BY <1>11, <1>12, <2>1
    <2>3. KindsAre(m, Beginning)'
      BY <1>14, <1>20, <2>2 DEF Beginning
    <2>4. u.state = "scheduled" /\ u.claim = 0
      BY <1>2, <1>20, After_
    <2>5. ASSUME NEW p \in S, R[p].kind = "claim"
          PROVE  Released(m, R[p].claim)' \/ Superseded(m, R[p].claim)'
      <3>1. CASE t # None /\ t.state = "scheduled"
        BY <1>11, <1>13, <2>5, <3>1
      <3>2. CASE x = t
        <4>1. ~Superseded(m, t.claim) /\ \E q \in S : Told(R[q]) = t
          BY <1>11, <2>1, <3>2
        <4>2. PICK q \in S : Told(R[q]) = t
          BY <4>1
        <4>3. R[q].kind = "claim" /\ R[q].claim = t.claim
          <5>1. R[q].kind \in Beginning
            BY <1>9, <2>2
          <5>2. After(R[q].kind) = "claimed"
            BY <4>2, <2>1, <3>2 DEF Told
          <5>3. R[q].kind = "claim"
            BY <5>1, <5>2, After_ DEF Beginning
          <5>4. QED
            BY <5>2, <5>3, <4>2 DEF Told
        <4>4. ~(R[p].claim > t.claim)
          BY <1>5, <2>5, <4>1
        <4>5. t.claim \in Nat /\ R[p].claim \in Nat
          BY <1>1, <1>4, <2>1, <3>2
        <4>6. CASE R[p].claim = t.claim
          BY <1>8, <1>20, <2>1, <3>2, <4>6
        <4>7. CASE t.claim > R[p].claim
          BY <1>6, <4>2, <4>3, <4>7
        <4>8. QED
          BY <4>4, <4>5, <4>6, <4>7
      <3>3. QED
        BY <1>12, <3>1, <3>2
    <2>6. QED
      BY <1>20, <2>3, <2>4, <2>5
  <1>21. ASSUME r.kind = "attempt" PROVE Fits_
    <2>1. x # None /\ x.state = "claimed" /\ x = t
      BY <1>12, <1>15, <1>16, <1>21 DEF States
    <2>2. KindsAre(m, Beginning)
      BY <1>11, <2>1
    <2>3. KindsAre(m, Beginning \cup {"attempt"})
      BY <1>9, <2>2
    <2>4. KindsAre(m, Beginning \cup {"attempt"})'
      BY <1>14, <1>21, <2>3
    <2>5. u.state = "attempted"
      BY <1>2, <1>21, After_
    <2>6. QED
      BY <2>4, <2>5
  <1>22. ASSUME r.kind = "unknown" PROVE Fits_
    <2>1. x # None /\ x.state \in {"attempted", "unknown"} /\ x = t
      BY <1>12, <1>15, <1>16, <1>22 DEF States
    <2>2. KindsAre(m, Beginning \cup {"attempt", "unknown"})
      BY <1>9, <1>11, <2>1
    <2>3. KindsAre(m, Beginning \cup {"attempt", "unknown"})'
      BY <1>14, <1>22, <2>2
    <2>4. u.state = "unknown"
      BY <1>2, <1>22, After_
    <2>5. QED
      BY <2>3, <2>4
  <1>23. Fits_
    BY <1>3, <1>17, <1>18, <1>19, <1>20, <1>21, <1>22 DEF Kinds
  <1>24. Evident(m)'
    <2>1. \E p \in T : Told(R[p]) = u
      OBVIOUS
    <2>2. u.state = "done" => \E p \in T : R[p].kind \in Closing
      BY <1>23
    <2>3. T # {}
      OBVIOUS
    <2>4. \A p \in T : RecordAt(p)' = R[p]
      OBVIOUS
    <2>5. truth'[m] = u /\ PositionsOf(m)' = T
      OBVIOUS
    <2> HIDE DEF T
    <2>6. QED
      BY <2>1, <2>2, <2>3, <2>4, <2>5, <1>2, <1>23 DEF Evident
  <1>25. InOrder(m)'
    <2>1. CASE Divided(m)
      BY <2>1 DEF InOrder
    <2>2. CASE ~Divided(m)
      <3>1. /\ \A p \in S :
                 \/ Valid(None, R[p]) /\ \A q \in S : ~Sooner(q, p)
                 \/ \E k \in S : Previous(m, k, p) /\ Valid(Told(R[k]), R[p])
            /\ \/ S = {} /\ t = None
               \/ \E k \in S : Latest(m, k) /\ t = Told(R[k])
        BY <2>2 DEF InOrder
      <3>2. x = t
        BY <1>12, <2>2
      <3>3. \A k, p \in S : Previous(m, k, p) => Previous(m, k, p)'
        BY DEF Previous
      <3>4. \A k \in S : Latest(m, k) => Previous(m, k, pn)'
        BY DEF Latest, Previous
      <3>5. Latest(m, pn)'
        BY DEF Latest
      <3>6. ASSUME NEW p \in S
            PROVE  \/ Valid(None, R[p]) /\ \A q \in T : ~Sooner(q, p)'
                   \/ \E k \in T : Previous(m, k, p)' /\ Valid(Told(R[k]), R[p])
        BY <3>1, <3>3
      <3>7. \/ Valid(None, R[pn]) /\ \A q \in T : ~Sooner(q, pn)'
            \/ \E k \in T : Previous(m, k, pn)' /\ Valid(Told(R[k]), R[pn])
        BY <3>1, <3>2, <3>4
      <3>8. \A p \in T : RecordAt(p)' = R[p]
        OBVIOUS
      <3>9. truth'[m] = Told(R[pn]) /\ PositionsOf(m)' = T /\ pn \in T
        OBVIOUS
      <3>10. \A p \in T : \/ Valid(None, R[p]) /\ \A q \in T : ~Sooner(q, p)'
                          \/ \E k \in T : Previous(m, k, p)' /\ Valid(Told(R[k]), R[p])
        BY <3>6, <3>7
      <3> HIDE DEF T
      <3>11. QED
        BY <3>5, <3>8, <3>9, <3>10 DEF InOrder
    <2>3. QED
      BY <2>1, <2>2
  <1>26. QED
    BY <1>24, <1>25


-----------------------------------------------------------------------------
(* The invariant                                                           *)

\* A step that leaves the files, and what was appended, alone.
LEMMA FilesAlone ==
  ASSUME StoreInv, file' = file, truth' = truth
  PROVE  /\ StoreTypeOK' /\ Numbered'
         /\ \A m \in Message : Evident(m)' /\ InOrder(m)'
         /\ Manifest' = Manifest
         /\ Position' = Position /\ \A p \in Position : RecordAt(p)' = RecordAt(p)
         /\ \A m, x : IsTold(m, x)' <=> IsTold(m, x)
         /\ \A m, claim : Superseded(m, claim)' <=> Superseded(m, claim)
         /\ \A f : RecordsIn(f)' = RecordsIn(f)
         /\ \A f \in DOMAIN file : Length(f)' = Length(f)
  <1>1. Position' = Position /\ \A p : RecordAt(p)' = RecordAt(p)
    BY DEF Position, RecordAt
  <1>2. \A m : PositionsOf(m)' = PositionsOf(m)
    BY <1>1 DEF PositionsOf
  <1>3. \A m : Divided(m)' <=> Divided(m)
    BY <1>1, <1>2 DEF Divided
  <1>4. \A m, claim : Superseded(m, claim)' <=> Superseded(m, claim)
    BY <1>1, <1>2 DEF Superseded
  <1>5. \A m, x : IsTold(m, x)' <=> IsTold(m, x)
    BY <1>3, <1>4 DEF IsTold, Outdated
  <1>6. \A m \in Message : Evident(m)' /\ InOrder(m)'
    <2>1. SUFFICES ASSUME NEW m \in Message PROVE Evident(m)' /\ InOrder(m)'
      OBVIOUS
    <2>2. PICK S : PositionsOf(m) = S
      OBVIOUS
    <2>3. PositionsOf(m)' = S
      BY <1>2, <2>2
    <2>4. Evident(m) /\ InOrder(m)
      BY DEF StoreInv
    <2>5. QED
      BY <1>1, <1>3, <2>2, <2>3, <2>4, SameMessage
  <1>7. /\ \A f : Length(f)' = Length(f) /\ Active' = Active
        /\ \A f : RecordsIn(f)' = RecordsIn(f)
    BY DEF Length, Active, Segments, RecordsIn
  <1>8. Manifest' = Manifest
    BY <1>7 DEF Manifest
  <1>10. StoreTypeOK'
    BY <1>7 DEF StoreTypeOK, StoreInv
  <1>11. Numbered'
    BY <1>1 DEF Numbered, Sooner, StoreInv
  <1>12. QED
    BY <1>1, <1>4, <1>5, <1>6, <1>7, <1>8, <1>10, <1>11

\* A step of the writer does not disturb a scan if the files only grow or move.
LEMMA ScanGoesOn ==
  ASSUME \A s \in Reader : ReadsAll(s), reader' = reader,
         DOMAIN file \subseteq DOMAIN file',
         \A f \in DOMAIN file :
           /\ file[f].dir = "quarantine" => file'[f].dir = "quarantine"
           /\ RecordsIn(f) \subseteq RecordsIn(f)'
  PROVE  \A s \in Reader : ReadsAll(s)'
  <1>1. SUFFICES ASSUME NEW s \in Reader PROVE ReadsAll(s)'
    OBVIOUS
  <1>2. PICK d : d = reader[s] /\ d = reader'[s]
    OBVIOUS
  <1>3. /\ \A e \in d.left : e.number \in DOMAIN file
        /\ d.step = "listing" =>
             \A r \in d.missing : \E f \in DOMAIN file :
               /\ r \in RecordsIn(f)
               /\ file[f].dir = "quarantine" \/ \E e \in d.left : e.number = f
        /\ d.step = "reading" =>
             \A r \in d.missing : \E e \in d.left : r \in RecordsIn(e.number)
    BY <1>2 DEF ReadsAll
  <1>4. /\ \A e \in d.left : e.number \in DOMAIN file'
        /\ d.step = "listing" =>
             \A r \in d.missing : \E f \in DOMAIN file' :
               /\ r \in RecordsIn(f)'
               /\ file'[f].dir = "quarantine" \/ \E e \in d.left : e.number = f
        /\ d.step = "reading" =>
             \A r \in d.missing : \E e \in d.left : r \in RecordsIn(e.number)'
    BY <1>3
  <1>5. QED
    BY <1>2, <1>4 DEF ReadsAll


\* StoreInv holds of an empty store.
LEMMA InitInv == StoreInit => StoreInv
  <1> SUFFICES ASSUME StoreInit PROVE StoreInv
    OBVIOUS
  <1>1. /\ file = <<>> /\ checkpoint = None /\ shard = Nothing /\ truth = Nothing
        /\ writer = Unlocked /\ reader = [s \in Reader |-> NotReading]
        /\ returned = {} /\ faults = 0
    BY DEF StoreInit
  <1>2. Nothing \in [Message -> Projections] /\ \A m \in Message : Nothing[m] = None
    BY DEF Nothing, Projections
  <1>3. DOMAIN file = {} /\ file \in Seq(FileType) /\ Len(file) = 0
    BY <1>1
  <1>4. StoreTypes
    <2>1. writer \in WriterType
      BY <1>1, <1>2 DEF WriterType, Unlocked
    <2>2. reader \in [Reader -> ReaderType]
      BY <1>1 DEF ReaderType, NotReading
    <2>3. QED
      BY <1>1, <1>2, <1>3, <2>1, <2>2 DEF StoreTypes
  <1>5. Position = {} /\ IsFiniteSet(Position) /\ Cardinality(Position) = 0
    <2>1. Position = {}
      BY <1>3, PositionIs
    <2>2. QED
      BY <2>1, FS_EmptySet
  <1>6. \A m : PositionsOf(m) = {}
    BY <1>5 DEF PositionsOf
  <1>9. StoreTypeOK /\ Numbered
    BY <1>3, <1>5 DEF StoreTypeOK, Numbered
  <1>10. \A m \in Message : Evident(m) /\ InOrder(m)
    BY <1>1, <1>2, <1>6 DEF Evident, InOrder
  <1>12. CheckpointFits
    BY <1>1 DEF CheckpointFits
  <1>13. WriterFits
    BY <1>1 DEF WriterFits, Unlocked
  <1>14. \A s \in Reader : ReadsAll(s)
    BY <1>1 DEF ReadsAll, NotReading
  <1>15. QED
    BY <1>1, <1>4, <1>9, <1>10, <1>12, <1>13, <1>14 DEF StoreInv

-----------------------------------------------------------------------------
(* The steps that leave the files alone                                    *)

\* What the invariant says of the checkpoint and the writer is kept by a step that
\* leaves the files and the shards alone and unlocks, or only begins.
LEMMA NothingIsWritten ==
  ASSUME StoreInv, UNCHANGED <<file, shard, checkpoint, truth, reader, returned>>,
         writer' \in WriterType, faults' \in Nat, WriterFits'
  PROVE  StoreInv'
  <1>1. StoreTypes'
    BY DEF StoreInv, StoreTypes
  <1>2. /\ StoreTypeOK' /\ Numbered' /\ \A m \in Message : Evident(m)' /\ InOrder(m)'
        /\ Manifest' = Manifest
        /\ Position' = Position /\ \A p \in Position : RecordAt(p)' = RecordAt(p)
        /\ \A m, x : IsTold(m, x)' <=> IsTold(m, x)
        /\ \A f : RecordsIn(f)' = RecordsIn(f)
        /\ \A f \in DOMAIN file : Length(f)' = Length(f)
    BY FilesAlone
  <1>3. CheckpointFits'
    <2>1. CheckpointFits
      BY DEF StoreInv
    <2>2. SUFFICES ASSUME checkpoint # None
                   PROVE  /\ \E k \in 0..Len(file) : DOMAIN checkpoint.manifest = 1..k
                          /\ \A f \in DOMAIN checkpoint.manifest :
                               checkpoint.manifest[f][2] \in 0..Length(f)'
                          /\ checkpoint.manifest = Manifest =>
                               \A m \in Message : IsTold(m, shard[m])
      BY <1>2 DEF CheckpointFits
    <2>3. PICK k \in 0..Len(file) : DOMAIN checkpoint.manifest = 1..k
      BY <2>1, <2>2 DEF CheckpointFits
    <2>4. Len(file) \in Nat /\ DOMAIN file = 1..Len(file)
      BY DEF StoreInv, StoreTypes
    <2>5. \A f \in DOMAIN checkpoint.manifest : f \in DOMAIN file
      BY <2>3, <2>4
    <2>6. QED
      BY <1>2, <2>1, <2>2, <2>5 DEF CheckpointFits
  <1>4. \A s \in Reader : ReadsAll(s)'
    BY <1>2, ScanGoesOn DEF StoreInv
  <1>5. returned' \subseteq {RecordAt(p)' : p \in Position'}
    BY <1>2 DEF StoreInv
  <1>6. QED
    BY <1>1, <1>2, <1>3, <1>4, <1>5 DEF StoreInv


\* What StoreInv says of the writer and of the index.
LEMMA WriterIs ==
  ASSUME StoreInv
  PROVE  /\ writer \in WriterType /\ faults \in Nat /\ shard \in [Message -> Projections]
         /\ writer.messages \in [Message -> Projections] /\ writer.todo \subseteq Message
         /\ writer.record \in Record \cup {None} /\ writer.rotate \in BOOLEAN
         /\ WriterFits /\ CheckpointFits
  BY DEF StoreInv, StoreTypes, WriterType

\* A process without the lock.
LEMMA UnlockedFits ==
  /\ Unlocked \in WriterType
  /\ Unlocked.step = "idle" /\ Unlocked.record = None /\ Unlocked.rotate = FALSE
  BY DEF Unlocked, WriterType, Nothing, Projections

\* A writer may leave, or die, between any two writes.
LEMMA LeaveInv ==
  ASSUME StoreInv, UNCHANGED <<file, shard, checkpoint, truth, reader, returned>>,
         writer' = Unlocked, faults' \in Nat
  PROVE  StoreInv'
  <1>1. WriterFits'
    BY UnlockedFits DEF WriterFits
  <1>2. QED
    BY <1>1, UnlockedFits, NothingIsWritten

\* StoreInv is kept when the lock is taken, for an operation or for a rebuild;
LEMMA StoreLockInv ==
  ASSUME StoreInv, Lock \/ LockToRebuild
  PROVE  StoreInv'
  <1>1. PICK to \in {"loading", "rebuilding"} :
          /\ writer.step = "idle" /\ writer' = [writer EXCEPT !.step = to]
          /\ UNCHANGED <<file, shard, checkpoint, truth, reader, returned, faults>>
    BY DEF Lock, LockToRebuild, WriterGoes
  <1>2. writer' \in WriterType /\ writer'.step = to
        /\ writer'.record = writer.record /\ writer'.rotate = writer.rotate
    BY <1>1, WriterIs DEF WriterType
  <1>3. WriterFits'
    BY <1>1, <1>2, WriterIs DEF WriterFits
  <1>4. QED
    BY <1>1, <1>2, <1>3, WriterIs, NothingIsWritten

\* when the index is read;
LEMMA LoadInv ==
  ASSUME StoreInv, Load
  PROVE  StoreInv'
  <1>1. /\ writer.step = "loading"
        /\ UNCHANGED <<file, shard, checkpoint, truth, reader, returned, faults>>
        /\ Current => writer' = [writer EXCEPT !.step = "deciding", !.messages = shard]
        /\ ~Current => writer' = [writer EXCEPT !.step = "rebuilding"]
    BY DEF Load, WriterGoes
  <1>2. writer.record = None /\ ~writer.rotate
    BY <1>1, WriterIs DEF WriterFits
  <1>3. CASE Current
    <2>1. /\ writer' \in WriterType /\ writer'.step = "deciding" /\ writer'.messages = shard
          /\ writer'.record = None /\ ~writer'.rotate
      BY <1>1, <1>2, <1>3, WriterIs DEF WriterType
    <2>2. \A m \in Message : IsTold(m, shard[m])
      BY <1>3, WriterIs DEF Current, CheckpointFits
    <2>3. \A m \in Message : IsTold(m, shard[m])'
      BY <1>1, <2>2, FilesAlone
    <2>4. WriterFits'
      BY <1>1, <2>1, <2>3 DEF WriterFits
    <2>5. QED
      BY <1>1, <2>1, <2>4, WriterIs, NothingIsWritten
  <1>4. CASE ~Current
    <2>1. /\ writer' \in WriterType /\ writer'.step = "rebuilding"
          /\ writer'.record = None /\ ~writer'.rotate
      BY <1>1, <1>2, <1>4, WriterIs DEF WriterType
    <2>2. WriterFits'
      BY <2>1 DEF WriterFits
    <2>3. QED
      BY <1>1, <2>1, <2>2, WriterIs, NothingIsWritten
  <1>5. QED
    BY <1>3, <1>4

\* The claim that a message is taken to be held by is one that was appended.
LEMMA ItsClaim ==
  ASSUME StoreInv, NEW m \in Message, NEW x \in Projections, x # None, IsTold(m, x)
  PROVE  x.claim <= Cardinality(Position)
  <1>1. StoreTypes /\ Numbered /\ Evident(m)
    BY DEF StoreInv
  <1>2. Cardinality(Position) \in Nat
    BY <1>1, FS_CardinalityType DEF Numbered
  <1>3. x.claim \in Nat
    BY DEF Projections
  <1>4. \A q \in PositionsOf(m) :
          /\ RecordAt(q) \in Record /\ RecordAt(q).claim \in Nat
          /\ RecordAt(q).claim <= Cardinality(Position)
    <2>1. SUFFICES ASSUME NEW q \in PositionsOf(m)
                   PROVE  /\ RecordAt(q) \in Record /\ RecordAt(q).claim \in Nat
                          /\ RecordAt(q).claim <= Cardinality(Position)
      OBVIOUS
    <2>2. q \in Position /\ RecordAt(q) \in Record
      BY <1>1, PositionsOfIs DEF StoreTypes
    <2>3. RecordAt(q).number \in 1..Cardinality(Position)
          /\ RecordAt(q).claim <= RecordAt(q).number
      BY <1>1, <2>2 DEF Numbered
    <2>4. RecordAt(q).claim \in Nat /\ RecordAt(q).number \in Nat
      BY <2>2 DEF Record
    <2>5. QED
      BY <1>2, <2>2, <2>3, <2>4
  <1>5. CASE x = truth[m]
    <2>1. CASE x.state \in {"scheduled", "done"}
      <3>1. x.claim = 0
        BY <1>1, <1>5, <2>1 DEF Evident
      <3>2. QED
        BY <1>2, <3>1
    <2>2. CASE x.state \in {"claimed", "attempted", "unknown"}
      <3>1. PICK q \in PositionsOf(m) : Told(RecordAt(q)) = x
        BY <1>1, <1>5, <2>2 DEF Evident
      <3>2. x.claim = 0 \/ x.claim = RecordAt(q).claim
        BY <3>1 DEF Told
      <3>3. QED
        BY <1>2, <1>4, <3>2
    <2>3. QED
      BY <2>1, <2>2 DEF Projections, States
  <1>6. CASE Superseded(m, x.claim)
    <2>1. PICK q \in PositionsOf(m) : RecordAt(q).claim > x.claim
      BY <1>6 DEF Superseded
    <2>2. QED
      BY <1>2, <1>3, <1>4, <2>1
  <1>7. QED
    BY <1>5, <1>6 DEF IsTold, Outdated

\* when an operation decides on its record;
LEMMA AcceptInv ==
  ASSUME StoreInv, NEW m \in Message, NEW kind \in Kinds, Accept(m, kind)
  PROVE  StoreInv'
  <1> PICK p : p = writer.messages[m]
    OBVIOUS
  <1> PICK r : r = NextRecord(m, kind, p)
    OBVIOUS
  <1>1. /\ writer.step = "deciding" /\ Valid(p, r)
        /\ kind = "attempt" => ~Superseded(m, p.claim)
        /\ writer' = [writer EXCEPT !.step = "appending", !.record = r]
        /\ UNCHANGED <<file, shard, checkpoint, truth, reader, returned, faults>>
    BY DEF Accept, WriterGoes
  <1>2. /\ \A n \in Message : IsTold(n, writer.messages[n])
        /\ shard = writer.messages /\ writer.record = None /\ ~writer.rotate
    BY <1>1, WriterIs DEF WriterFits
  <1>3. Cardinality(Position) \in Nat
    BY FS_CardinalityType DEF StoreInv, Numbered
  <1>4. p \in Projections
    BY WriterIs
  <1> PICK next : next = Cardinality(Position) + 1
    OBVIOUS
  <1>5. r = [message |-> m, kind |-> kind, number |-> next,
             claim |-> IF kind = "claim" THEN next ELSE IF p = None THEN 0 ELSE p.claim]
    BY DEF NextRecord
  <1>6. p # None => p.claim \in Nat
    BY <1>4 DEF Projections
  <1>7. next \in Nat
    BY <1>3
  <1>8. r \in Record /\ r.message = m /\ r.kind = kind /\ r.number = next
    BY <1>5, <1>6, <1>7 DEF Record
  <1>9. r.kind = "claim" => r.claim = r.number
    BY <1>5
  <1>10. r.claim <= r.number
    <2>1. CASE kind = "claim"
      BY <1>7, <1>8, <1>9, <2>1
    <2>2. CASE kind # "claim" /\ p = None
      BY <1>5, <1>7, <2>2
    <2>3. CASE kind # "claim" /\ p # None
      <3>1. p.claim <= Cardinality(Position) /\ p.claim \in Nat
        BY <1>2, <1>4, <1>6, <2>3, ItsClaim
      <3>2. r.claim = p.claim
        BY <1>5, <2>3
      <3>3. QED
        BY <1>3, <1>8, <3>1, <3>2
    <2>4. QED
      BY <2>1, <2>2, <2>3
  <1>11. /\ writer' \in WriterType /\ writer'.step = "appending" /\ writer'.record = r
         /\ writer'.messages = writer.messages /\ ~writer'.rotate
    BY <1>1, <1>2, <1>8, WriterIs DEF WriterType
  <1>12. r # None
    BY <1>8, StoreAssumptions DEF Record
  <1>13. RecordFits'
    <2>1. r.kind = "attempt" => ~Superseded(m, p.claim)'
      BY <1>1, <1>8, FilesAlone
    <2>2. Position' = Position
      BY <1>1, FilesAlone
    <2>3. QED
      BY <1>1, <1>8, <1>9, <1>10, <1>11, <1>12, <2>1, <2>2 DEF RecordFits
  <1>14. \A n \in Message : IsTold(n, writer.messages[n])'
    BY <1>1, <1>2, <1>11, FilesAlone
  <1>15. WriterFits'
    BY <1>1, <1>2, <1>11, <1>13, <1>14 DEF WriterFits
  <1>16. QED
    BY <1>1, <1>11, <1>15, WriterIs, NothingIsWritten


\* The same, of a step that writes the shards or the checkpoint.
LEMMA IndexIsWritten ==
  ASSUME StoreInv, UNCHANGED <<file, truth, reader, faults>>,
         writer' \in WriterType, shard' \in [Message -> Projections],
         returned' \subseteq Record, returned' \subseteq {RecordAt(p) : p \in Position},
         WriterFits', CheckpointFits'
  PROVE  StoreInv'
  <1>1. StoreTypes'
    BY DEF StoreInv, StoreTypes
  <1>2. /\ StoreTypeOK' /\ Numbered' /\ \A m \in Message : Evident(m)' /\ InOrder(m)'
        /\ Position' = Position /\ \A p \in Position : RecordAt(p)' = RecordAt(p)
        /\ \A f : RecordsIn(f)' = RecordsIn(f)
    BY FilesAlone
  <1>3. \A s \in Reader : ReadsAll(s)'
    BY <1>2, ScanGoesOn DEF StoreInv
  <1>4. returned' \subseteq {RecordAt(p)' : p \in Position'}
    BY <1>2
  <1>5. QED
    BY <1>1, <1>2, <1>3, <1>4 DEF StoreInv

\* What is left of the checkpoint's condition when the files are left alone.
LEMMA CheckpointStays ==
  ASSUME StoreInv, UNCHANGED <<file, truth, checkpoint>>,
         \A m \in Message :
           \/ shard'[m] = shard[m]
           \/ IsTold(m, shard'[m])
  PROVE  CheckpointFits'
  <1> PICK new : new = shard'
    OBVIOUS
  <1>1. /\ Manifest' = Manifest /\ \A m, x : IsTold(m, x)' <=> IsTold(m, x)
        /\ \A f \in DOMAIN file : Length(f)' = Length(f)
    BY FilesAlone
  <1>2. CheckpointFits
    BY DEF StoreInv
  <1>3. SUFFICES ASSUME checkpoint # None
                 PROVE  /\ \E k \in 0..Len(file) : DOMAIN checkpoint.manifest = 1..k
                        /\ \A f \in DOMAIN checkpoint.manifest :
                             checkpoint.manifest[f][2] \in 0..Length(f)'
                        /\ checkpoint.manifest = Manifest =>
                             \A m \in Message : IsTold(m, new[m])'
    BY <1>1 DEF CheckpointFits
  <1>4. PICK k \in 0..Len(file) : DOMAIN checkpoint.manifest = 1..k
    BY <1>2, <1>3 DEF CheckpointFits
  <1>5. Len(file) \in Nat /\ DOMAIN file = 1..Len(file)
    BY DEF StoreInv, StoreTypes
  <1>6. \A f \in DOMAIN checkpoint.manifest : f \in DOMAIN file
    BY <1>4, <1>5
  <1>7. ASSUME checkpoint.manifest = Manifest, NEW m \in Message
        PROVE  IsTold(m, new[m])
    BY <1>2, <1>3, <1>7 DEF CheckpointFits
  <1>8. QED
    BY <1>1, <1>2, <1>3, <1>4, <1>6, <1>7 DEF CheckpointFits


\* A scan finds a projection for every message.
LEMMA ScanType ==
  ASSUME file \in Seq(FileType)
  PROVE  Scan \in [Message -> Projections]
  <1>1. \A m \in Message : Projection(PositionsOf(m)) \in Projections
    <2>1. \A m : PositionsOf(m) \subseteq Position
      BY DEF PositionsOf
    <2>2. QED
      BY <2>1, ProjectionIs
  <1>2. QED
    BY <1>1 DEF Scan

\* StoreInv is kept by the scan of a rebuild, which may throw;
LEMMA RebuildInv ==
  ASSUME StoreInv, Rebuild
  PROVE  StoreInv'
  <1>1. CASE ~Legible
    <2>1. writer' = Unlocked
          /\ UNCHANGED <<file, shard, checkpoint, truth, reader, returned, faults>>
      BY <1>1 DEF Rebuild, WriterGoes
    <2>2. QED
      BY <2>1, WriterIs, LeaveInv
  <1>2. CASE Legible
    <2> PICK scan : scan = Scan
      OBVIOUS
    <2>1. /\ writer.step = "rebuilding"
          /\ writer' = [writer EXCEPT !.step = "sharding", !.messages = scan, !.todo = Known(scan)]
          /\ shard' = [m \in Message |-> IF scan[m] = None THEN None ELSE shard[m]]
          /\ UNCHANGED <<file, checkpoint, truth, reader, returned, faults>>
      BY <1>2 DEF Rebuild, WriterGoes
    <2>2. scan \in [Message -> Projections]
      BY ScanType DEF StoreInv, StoreTypes
    <2>3. \A m \in Message : IsTold(m, scan[m])
      BY <1>2, ScanIs DEF Legible, StoreInv
    <2>4. writer.record = None /\ ~writer.rotate
      BY <2>1, WriterIs DEF WriterFits
    <2>5. Known(scan) \subseteq Message /\ \A m \in Message \ Known(scan) : scan[m] = None
      BY DEF Known
    <2>6. /\ writer' \in WriterType /\ writer'.step = "sharding" /\ writer'.messages = scan
          /\ writer'.todo = Known(scan) /\ writer'.record = None /\ ~writer'.rotate
      BY <2>1, <2>2, <2>4, <2>5, WriterIs DEF WriterType
    <2>7. shard' \in [Message -> Projections]
      BY <2>1, WriterIs DEF Projections
    <2>8. \A m \in Message : IsTold(m, scan[m])'
      BY <2>1, <2>3, FilesAlone
    <2>9. \A m \in Message \ Known(scan) : shard'[m] = scan[m]
      BY <2>1, <2>5
    <2>10. WriterFits'
      BY <2>6, <2>8, <2>9 DEF WriterFits
    <2>11. CheckpointFits'
      <3>1. \A m \in Message : shard'[m] = shard[m] \/ IsTold(m, shard'[m])
        BY <2>1, <2>3
      <3>2. QED
        BY <3>1, <2>1, CheckpointStays
    <2>12. returned \subseteq Record /\ returned \subseteq {RecordAt(p) : p \in Position}
      BY DEF StoreInv, StoreTypes
    <2>13. QED
      BY <2>1, <2>6, <2>7, <2>10, <2>11, <2>12, IndexIsWritten
  <1>3. QED
    BY <1>1, <1>2

\* when a shard is written;
LEMMA WriteShardInv ==
  ASSUME StoreInv, WriteShard
  PROVE  StoreInv'
  <1>1. PICK m \in writer.todo :
          /\ writer.step = "sharding"
          /\ writer' = [writer EXCEPT !.todo = @ \ {m}]
          /\ shard' = [shard EXCEPT ![m] = writer.messages[m]]
          /\ UNCHANGED <<file, checkpoint, truth, reader, returned, faults>>
    BY DEF WriteShard, WriterGoes
  <1>2. m \in Message
    BY WriterIs
  <1>3. /\ writer' \in WriterType /\ writer'.step = "sharding"
        /\ writer'.messages = writer.messages /\ writer'.todo = writer.todo \ {m}
        /\ writer'.record = writer.record /\ writer'.rotate = writer.rotate
    BY <1>1, WriterIs DEF WriterType
  <1>4. /\ shard' \in [Message -> Projections] /\ shard'[m] = writer.messages[m]
        /\ \A n \in Message \ {m} : shard'[n] = shard[n]
    BY <1>1, <1>2, WriterIs
  <1>5. /\ \A n \in Message : IsTold(n, writer.messages[n])
        /\ \A n \in Message \ writer.todo : shard[n] = writer.messages[n]
        /\ writer.record # None => \E p \in Position : RecordAt(p) = writer.record
        /\ writer.rotate => writer.record # None
    BY <1>1, WriterIs DEF WriterFits
  <1>6. \A n \in Message : IsTold(n, writer.messages[n])'
    BY <1>1, <1>3, <1>5, FilesAlone
  <1>7. \A n \in Message \ writer'.todo : shard'[n] = writer'.messages[n]
    BY <1>3, <1>4, <1>5
  <1>8. writer'.record # None => \E p \in Position' : RecordAt(p)' = writer'.record
    BY <1>1, <1>3, <1>5, FilesAlone
  <1>9. WriterFits'
    BY <1>1, <1>3, <1>5, <1>6, <1>7, <1>8 DEF WriterFits
  <1>10. CheckpointFits'
    <2>1. \A n \in Message : shard'[n] = shard[n] \/ IsTold(n, shard'[n])
      BY <1>2, <1>4, <1>5
    <2>2. QED
      BY <2>1, <1>1, CheckpointStays
  <1>11. returned \subseteq Record /\ returned \subseteq {RecordAt(p) : p \in Position}
    BY DEF StoreInv, StoreTypes
  <1>12. QED
    BY <1>1, <1>3, <1>4, <1>9, <1>10, <1>11, IndexIsWritten

\* when the checkpoint is written, and a record reported.
LEMMA WriteCheckpointInv ==
  ASSUME StoreInv, WriteCheckpoint
  PROVE  StoreInv'
  <1>1. /\ writer.step = "sharding" /\ writer.todo = {}
        /\ checkpoint' = [manifest |-> Manifest, count |-> Cardinality(Known(writer.messages))]
        /\ writer.record # None =>
             writer' = Unlocked /\ returned' = returned \cup {writer.record}
        /\ writer.record = None =>
             writer' = [writer EXCEPT !.step = "deciding"] /\ returned' = returned
        /\ UNCHANGED <<file, shard, truth, reader, faults>>
    BY DEF WriteCheckpoint, WriterGoes
  <1>2. /\ \A n \in Message : IsTold(n, writer.messages[n])
        /\ \A n \in Message : shard[n] = writer.messages[n]
        /\ writer.record # None => \E p \in Position : RecordAt(p) = writer.record
        /\ writer.rotate => writer.record # None
    BY <1>1, WriterIs DEF WriterFits
  <1>3. shard = writer.messages
    BY <1>2, WriterIs
  <1>4. \A n \in Message : IsTold(n, shard[n])'
    BY <1>1, <1>2, <1>3, FilesAlone
  <1>5. CheckpointFits'
    <2>1. checkpoint'.manifest = Manifest /\ Manifest' = Manifest
      BY <1>1, FilesAlone
    <2>2. DOMAIN Manifest = 1..Len(file) /\ Len(file) \in 0..Len(file)
          /\ \A f \in DOMAIN Manifest : f \in DOMAIN file
      BY DEF Manifest, StoreInv, StoreTypes
    <2>3. \A f \in DOMAIN file : Manifest[f][2] = Length(f) /\ Length(f) \in 0..Length(f)
          /\ Length(f)' = Length(f)
      <3>1. \A f \in DOMAIN file : Manifest[f][2] = Length(f)
        BY DEF Manifest
      <3>2. \A f \in DOMAIN file : Length(f) \in 0..SegmentRecords
        BY DEF StoreInv, StoreTypeOK
      <3>3. \A x \in 0..SegmentRecords : x \in 0..x
        BY StoreAssumptions
      <3>4. QED
        BY <1>1, <3>1, <3>2, <3>3, FilesAlone, Zenon
    <2>4. QED
      BY <1>1, <1>4, <2>1, <2>2, <2>3 DEF CheckpointFits
  <1>6. /\ writer' \in WriterType /\ WriterFits'
        /\ returned' \subseteq Record /\ returned' \subseteq {RecordAt(p) : p \in Position}
    <2>1. returned \subseteq Record /\ returned \subseteq {RecordAt(p) : p \in Position}
      BY DEF StoreInv, StoreTypes
    <2>2. CASE writer.record # None
      <3>1. writer' = Unlocked /\ returned' = returned \cup {writer.record}
        BY <1>1, <2>2
      <3>2. WriterFits'
        BY <3>1, UnlockedFits DEF WriterFits
      <3>3. writer.record \in Record /\ writer.record \in {RecordAt(p) : p \in Position}
        BY <1>2, <2>2, WriterIs
      <3>4. QED
        BY <2>1, <3>1, <3>2, <3>3, UnlockedFits
    <2>3. CASE writer.record = None
      <3>1. writer' = [writer EXCEPT !.step = "deciding"] /\ returned' = returned
        BY <1>1, <2>3
      <3>2. /\ writer' \in WriterType /\ writer'.step = "deciding" /\ writer'.record = None
            /\ writer'.messages = writer.messages /\ ~writer'.rotate
        BY <1>2, <2>3, <3>1, WriterIs DEF WriterType
      <3>3. \A n \in Message : IsTold(n, writer.messages[n])'
        BY <1>1, <1>2, <3>2, FilesAlone
      <3>4. WriterFits'
        BY <1>1, <1>3, <3>2, <3>3 DEF WriterFits
      <3>5. QED
        BY <2>1, <3>1, <3>2, <3>4
    <2>4. QED
      BY <2>2, <2>3
  <1>7. shard' \in [Message -> Projections]
    BY <1>1, WriterIs
  <1>8. QED
    BY <1>1, <1>5, <1>6, <1>7, IndexIsWritten


-----------------------------------------------------------------------------
(* The steps of a scan                                                     *)

\* The writer goes on from where it was.
LEMMA WriterStays ==
  ASSUME StoreInv, UNCHANGED <<file, shard, writer, truth>>
  PROVE  WriterFits'
  <1>a. /\ Position' = Position /\ \A p \in Position : RecordAt(p)' = RecordAt(p)
        /\ \A m, x : IsTold(m, x)' <=> IsTold(m, x)
        /\ \A m, claim : Superseded(m, claim)' <=> Superseded(m, claim)
    BY FilesAlone
  <1> PICK w : w = writer /\ w = writer'
    OBVIOUS
  <1>1. WriterFits
    BY WriterIs
  <1>2. \A m \in Message : IsTold(m, w.messages[m])' <=> IsTold(m, w.messages[m])
    BY <1>a
  <1>3. RecordFits => RecordFits'
    <2>1. Superseded(w.record.message, w.messages[w.record.message].claim)' <=>
            Superseded(w.record.message, w.messages[w.record.message].claim)
      BY <1>a
    <2>2. QED
      BY <1>a, <2>1 DEF RecordFits
  <1>4. (\E p \in Position : RecordAt(p) = w.record)
          => (\E p \in Position' : RecordAt(p)' = w.record)
    BY <1>a
  <1>5. QED
    BY <1>1, <1>2, <1>3, <1>4 DEF WriterFits

\* A step of a reader keeps StoreInv if it still expects what it has to find.
LEMMA ReaderGoesInv ==
  ASSUME StoreInv, NEW s \in Reader, NEW d \in ReaderType,
         reader' = [reader EXCEPT ![s] = d],
         UNCHANGED <<file, shard, checkpoint, writer, truth, returned, faults>>,
         \A e \in d.left : e.number \in DOMAIN file,
         d.step = "listing" =>
           \A r \in d.missing : \E f \in DOMAIN file :
             /\ r \in RecordsIn(f)
             /\ file[f].dir = "quarantine" \/ \E e \in d.left : e.number = f,
         d.step = "reading" =>
           \A r \in d.missing : \E e \in d.left : r \in RecordsIn(e.number)
  PROVE  StoreInv'
  <1>1. StoreTypes'
    BY DEF StoreInv, StoreTypes
  <1>2. /\ StoreTypeOK' /\ Numbered' /\ \A m \in Message : Evident(m)' /\ InOrder(m)'
        /\ Position' = Position /\ \A p \in Position : RecordAt(p)' = RecordAt(p)
        /\ \A m, x : IsTold(m, x)' <=> IsTold(m, x)
        /\ \A m, claim : Superseded(m, claim)' <=> Superseded(m, claim)
        /\ \A f : RecordsIn(f)' = RecordsIn(f)
    BY FilesAlone
  <1>3. CheckpointFits'
    BY CheckpointStays
  <1>4. WriterFits'
    BY WriterStays
  <1>5. ASSUME NEW q \in Reader PROVE ReadsAll(q)'
    <2>1. CASE q = s
      <3>1. reader'[q] = d
        BY <2>1 DEF StoreInv, StoreTypes
      <3>2. QED
        BY <1>2, <3>1 DEF ReadsAll
    <2>2. CASE q # s
      <3>1. reader'[q] = reader[q]
        BY <2>2 DEF StoreInv, StoreTypes
      <3>2. ReadsAll(q)
        BY DEF StoreInv
      <3>3. QED
        BY <1>2, <3>1, <3>2 DEF ReadsAll
    <2>3. QED
      BY <2>1, <2>2
  <1>6. returned' \subseteq {RecordAt(p)' : p \in Position'}
    BY <1>2 DEF StoreInv
  <1>7. QED
    BY <1>1, <1>2, <1>3, <1>4, <1>5, <1>6 DEF StoreInv

\* A listing finds the file of each record that was reported.
LEMMA ListingFinds ==
  ASSUME StoreInv, NEW again \in BOOLEAN
  PROVE  /\ Listing(again) \in ReaderType /\ Listing(again).step = "listing"
         /\ \A e \in Listing(again).left : e.number \in DOMAIN file
         /\ \A r \in Listing(again).missing : \E f \in DOMAIN file :
              /\ r \in RecordsIn(f)
              /\ file[f].dir = "quarantine" \/ \E e \in Listing(again).left : e.number = f
  <1>1. file \in Seq(FileType) /\ returned \subseteq Record
        /\ returned \subseteq {RecordAt(p) : p \in Position}
    BY DEF StoreInv, StoreTypes
  <1>2. \A f \in DOMAIN file : f \in Nat /\ file[f].dir \in {"segments", "quarantine"}
    <2>1. \A f \in DOMAIN file : f \in 1..Len(file) /\ f \in Nat
      BY <1>1
    <2>2. \A f \in DOMAIN file : file[f] \in FileType
      BY <1>1
    <2>3. QED
      BY <2>1, <2>2 DEF FileType
  <1>3. /\ Listing(again).left = Listed("segments") /\ Listing(again).missing = returned
        /\ Listing(again).step = "listing"
    BY DEF Listing
  <1>4. Listed("segments") \subseteq Entry
    BY <1>2 DEF Listed, Path, Entry
  <1>5. \A e \in Listed("segments") : e.number \in DOMAIN file
    BY DEF Listed, Path
  <1>6. Listing(again) \in ReaderType
    BY <1>1, <1>4 DEF Listing, ReaderType
  <1>7. ASSUME NEW r \in returned
        PROVE  \E f \in DOMAIN file :
                 /\ r \in RecordsIn(f)
                 /\ file[f].dir = "quarantine" \/ \E e \in Listed("segments") : e.number = f
    <2>1. PICK p \in Position : r = RecordAt(p)
      BY <1>1
    <2>2. p[1] \in DOMAIN file /\ p[2] \in DOMAIN file[p[1]].records
      BY <1>1, PositionIs DEF Position
    <2>3. r \in RecordsIn(p[1])
      BY <2>1, <2>2 DEF RecordAt, RecordsIn
    <2>4. file[p[1]].dir = "segments" =>
            Path(p[1]) \in Listed("segments") /\ Path(p[1]).number = p[1]
      BY <2>2 DEF Listed, Path
    <2>5. QED
      BY <1>2, <2>2, <2>3, <2>4
  <1>8. QED
    BY <1>3, <1>5, <1>6, <1>7

\* StoreInv is kept by every step of a reader;
LEMMA ReaderStepInv ==
  ASSUME StoreInv, NEW s \in Reader, ReaderStep(s)
  PROVE  StoreInv'
  <1> PICK d : d = reader[s]
    OBVIOUS
  <1>1. /\ d \in ReaderType
        /\ \A e \in d.left : e.number \in DOMAIN file
        /\ d.step = "listing" =>
             \A r \in d.missing : \E f \in DOMAIN file :
               /\ r \in RecordsIn(f)
               /\ file[f].dir = "quarantine" \/ \E e \in d.left : e.number = f
        /\ d.step = "reading" =>
             \A r \in d.missing : \E e \in d.left : r \in RecordsIn(e.number)
    BY DEF StoreInv, StoreTypes, ReadsAll
  <1>2. NotReading \in ReaderType /\ NotReading.left = {} /\ NotReading.step = "idle"
    BY DEF NotReading, ReaderType
  <1>3. ASSUME ReaderGoes(s, d.step, NotReading) PROVE StoreInv'
    BY <1>2, <1>3, ReaderGoesInv DEF ReaderGoes
  <1>4. ASSUME NEW again \in BOOLEAN, ReaderGoes(s, d.step, Listing(again)) PROVE StoreInv'
    <2> PICK l : l = Listing(again)
      OBVIOUS
    <2>1. /\ l \in ReaderType /\ l.step = "listing"
          /\ \A e \in l.left : e.number \in DOMAIN file
          /\ \A r \in l.missing : \E f \in DOMAIN file :
               /\ r \in RecordsIn(f)
               /\ file[f].dir = "quarantine" \/ \E e \in l.left : e.number = f
      BY ListingFinds
    <2>2. QED
      BY <1>4, <2>1, ReaderGoesInv DEF ReaderGoes
  <1>5. CASE ListSegments(s)
    BY <1>4, <1>5 DEF ListSegments, ReaderGoes
  <1>6. CASE ListQuarantine(s)
    <2> PICK l : l = [d EXCEPT !.step = "reading", !.left = @ \cup Listed("quarantine")]
      OBVIOUS
    <2>1. ReaderGoes(s, "listing", l) /\ d.step = "listing"
      BY <1>6 DEF ListQuarantine, ReaderGoes
    <2>2. Listed("quarantine") \subseteq Entry
          /\ \A e \in Listed("quarantine") : e.number \in DOMAIN file
      <3>1. \A f \in DOMAIN file : f \in Nat
        BY DEF StoreInv, StoreTypes
      <3>2. QED
        BY <3>1 DEF Listed, Path, Entry
    <2>3. /\ l \in ReaderType /\ l.step = "reading" /\ l.missing = d.missing
          /\ l.left = d.left \cup Listed("quarantine")
      BY <1>1, <2>2 DEF ReaderType
    <2>4. ASSUME NEW r \in l.missing PROVE \E e \in l.left : r \in RecordsIn(e.number)
      <3>1. PICK f \in DOMAIN file :
              /\ r \in RecordsIn(f)
              /\ file[f].dir = "quarantine" \/ \E e \in d.left : e.number = f
        BY <1>1, <2>1, <2>3
      <3>2. file[f].dir = "quarantine" =>
              Path(f) \in Listed("quarantine") /\ Path(f).number = f
        BY DEF Listed, Path
      <3>3. QED
        BY <2>3, <3>1, <3>2
    <2>5. QED
      BY <1>1, <2>1, <2>2, <2>3, <2>4, ReaderGoesInv DEF ReaderGoes
  <1>7. CASE ReadFile(s)
    <2>1. PICK f \in d.left :
            ReaderGoes(s, "reading",
              IF file[f.number].dir = f.dir THEN Read(s, f)
              ELSE IF d.again THEN [d EXCEPT !.step = "failed"] ELSE Listing(TRUE))
      BY <1>7 DEF ReadFile
    <2>2. d.step = "reading"
      BY <2>1 DEF ReaderGoes
    <2>3. CASE file[f.number].dir = f.dir
      <3> PICK l : l = Read(s, f)
        OBVIOUS
      <3>1. ReaderGoes(s, "reading", l)
        BY <2>1, <2>3
      <3>2. l = [d EXCEPT !.left = @ \ {f}, !.missing = @ \ RecordsIn(f.number)]
        BY DEF Read
      <3>3. /\ l \in ReaderType /\ l.step = "reading" /\ l.left = d.left \ {f}
            /\ l.missing = d.missing \ RecordsIn(f.number)
        <4> PICK gone : gone = RecordsIn(f.number)
          OBVIOUS
        <4>1. d \in ReaderType
          BY <1>1
        <4>2. l = [step |-> "reading", left |-> d.left \ {f}, missing |-> d.missing \ gone,
                   again |-> d.again]
          BY <2>2, <3>2, <4>1 DEF ReaderType
        <4>3. QED
          BY <4>1, <4>2 DEF ReaderType
      <3>4. ASSUME NEW r \in l.missing PROVE \E e \in l.left : r \in RecordsIn(e.number)
        BY <1>1, <2>2, <3>3
      <3>5. QED
        BY <1>1, <3>1, <3>3, <3>4, ReaderGoesInv DEF ReaderGoes
    <2>4. CASE file[f.number].dir # f.dir /\ d.again
      <3> PICK l : l = [d EXCEPT !.step = "failed"]
        OBVIOUS
      <3>1. ReaderGoes(s, "reading", l)
        BY <2>1, <2>4
      <3>2. l \in ReaderType /\ l.step = "failed" /\ l.left = d.left
        BY <1>1 DEF ReaderType
      <3>3. QED
        BY <1>1, <3>1, <3>2, ReaderGoesInv DEF ReaderGoes
    <2>5. CASE file[f.number].dir # f.dir /\ ~d.again
      BY <1>4, <2>1, <2>2, <2>5
    <2>6. QED
      BY <2>3, <2>4, <2>5
  <1>8. CASE FinishScan(s)
    BY <1>3, <1>8 DEF FinishScan, ReaderGoes
  <1>9. QED
    BY <1>5, <1>6, <1>7, <1>8 DEF ReaderStep


-----------------------------------------------------------------------------
(* The steps that change the files                                         *)

\* A step that neither adds a record nor brings a file back from quarantine.
LEMMA SameRecords ==
  ASSUME StoreInv, Position' = Position, truth' = truth,
         \A p \in Position : RecordAt(p)' = RecordAt(p),
         \A p \in Position : file[p[1]].dir = "quarantine" => file'[p[1]].dir = "quarantine"
  PROVE  /\ Numbered' /\ \A m \in Message : Evident(m)' /\ InOrder(m)'
         /\ \A m, x : IsTold(m, x) => IsTold(m, x)'
         /\ \A m, claim : Superseded(m, claim)' <=> Superseded(m, claim)
         /\ returned \subseteq {RecordAt(p)' : p \in Position'}
  <1>1. \A m : PositionsOf(m)' = PositionsOf(m)
    BY DEF PositionsOf
  <1>2. \A m : PositionsOf(m) \subseteq Position
    BY DEF PositionsOf
  <1>3. \A m : Divided(m) => Divided(m)'
    BY <1>1, <1>2 DEF Divided
  <1>4. ASSUME NEW m
        PROVE  /\ \A claim : Superseded(m, claim)' <=> Superseded(m, claim)
               /\ \A x : IsTold(m, x) => IsTold(m, x)'
               /\ Evident(m) => Evident(m)'
               /\ InOrder(m) => InOrder(m)'
    <2> PICK S : PositionsOf(m) = S /\ PositionsOf(m)' = S
      BY <1>1
    <2>1. \A p \in S : RecordAt(p)' = RecordAt(p)
      BY <1>2
    <2>2. QED
      BY <1>3, <2>1, SameMessage
  <1>5. Numbered'
    <2>1. Numbered /\ file \in Seq(FileType)
      BY DEF StoreInv, StoreTypes
    <2>2. \A p, q \in Position : Sooner(p, q)' <=> Sooner(p, q)
      BY DEF Sooner
    <2>3. \A p \in Position : file'[p[1]].dir = "segments" => file[p[1]].dir = "segments"
      BY <2>1, PositionFacts
    <2>4. QED
      BY <2>1, <2>2, <2>3 DEF Numbered
  <1>6. returned \subseteq {RecordAt(p)' : p \in Position'}
    BY DEF StoreInv
  <1>7. QED
    BY <1>4, <1>5, <1>6 DEF StoreInv

\* What StoreInv says of a writer that is about to append.
LEMMA AppendingIs ==
  ASSUME StoreInv, writer.step = "appending"
  PROVE  /\ \A m \in Message : IsTold(m, writer.messages[m])
         /\ shard = writer.messages /\ RecordFits /\ writer.record \in Record
  BY WriterIs DEF WriterFits, RecordFits

\* StoreInv is kept when a segment goes to quarantine, which may divide messages;
LEMMA QuarantineInv ==
  ASSUME StoreInv, Quarantine
  PROVE  StoreInv'
  <1>1. /\ Active # None /\ file[Active].torn /\ writer.step = "appending"
        /\ writer' = [writer EXCEPT !.rotate = TRUE]
        /\ file' = [file EXCEPT ![Active].dir = "quarantine"]
        /\ UNCHANGED <<shard, checkpoint, truth, reader, returned, faults>>
    BY DEF Quarantine, WriterGoes
  <1>2. StoreTypes /\ StoreTypeOK /\ file \in Seq(FileType)
    BY DEF StoreInv, StoreTypes
  <1> PICK L : L = Active
    OBVIOUS
  <1>3. DOMAIN file = 1..Len(file)
    BY <1>2
  <1>4. L \in DOMAIN file /\ file[L].dir = "segments" /\ file[L].torn
    <2>1. Active \in Segments
      BY <1>1, <1>2, ActiveIs
    <2>2. QED
      BY <1>1, <2>1 DEF Segments
  <1>5. file[L] \in FileType /\ [file[L] EXCEPT !.dir = "quarantine"] \in FileType
    <2>1. file[L] \in FileType
      BY <1>2, <1>3, <1>4
    <2>2. QED
      BY <2>1 DEF FileType
  <1>6. /\ file' \in Seq(FileType) /\ DOMAIN file' = DOMAIN file /\ Len(file') = Len(file)
        /\ file'[L] = [file[L] EXCEPT !.dir = "quarantine"]
        /\ \A f \in DOMAIN file : f # L => file'[f] = file[f]
    BY <1>1, <1>2, <1>3, <1>4, <1>5
  <1>7. /\ file'[L].dir = "quarantine" /\ file'[L].torn = file[L].torn
        /\ file'[L].records = file[L].records
    BY <1>5, <1>6 DEF FileType
  <1>8. \A f \in DOMAIN file :
          /\ file'[f].records = file[f].records /\ file'[f].torn = file[f].torn
          /\ file[f].dir = "quarantine" => file'[f].dir = "quarantine"
    BY <1>6, <1>7
  <1>9. Position' = Position /\ \A p \in Position : RecordAt(p)' = RecordAt(p)
    BY <1>2, <1>6, <1>8, SamePositions
  <1>10. /\ \A f \in DOMAIN file : Length(f)' = Length(f) /\ RecordsIn(f)' = RecordsIn(f)
    <2>1. \A f \in DOMAIN file : Length(f)' = Length(f)
      BY <1>8, Zenon DEF Length
    <2>2. \A f \in DOMAIN file : RecordsIn(f)' = RecordsIn(f)
      BY <1>8, Zenon DEF RecordsIn
    <2>3. QED
      BY <2>1, <2>2
  <1>11. \A p \in Position : p[1] \in DOMAIN file
    BY <1>2, PositionFacts
  <1>12. /\ Numbered' /\ \A m \in Message : Evident(m)' /\ InOrder(m)'
         /\ \A m, x : IsTold(m, x) => IsTold(m, x)'
         /\ \A m, claim : Superseded(m, claim)' <=> Superseded(m, claim)
         /\ returned \subseteq {RecordAt(p)' : p \in Position'}
    BY <1>1, <1>8, <1>9, <1>11, SameRecords
  <1>15. StoreTypeOK'
    <2>1. SUFFICES ASSUME NEW f \in DOMAIN file
                   PROVE  /\ file'[f].dir = "quarantine" => file'[f].torn
                          /\ file'[f].dir = "segments" => ~file'[f].torn
                          /\ Length(f)' \in 0..SegmentRecords
      BY <1>6 DEF StoreTypeOK
    <2>2. /\ file[f].dir = "quarantine" => file[f].torn
          /\ file[f].dir = "segments" /\ f # L => ~file[f].torn
          /\ Length(f) \in 0..SegmentRecords
      BY <1>2 DEF StoreTypeOK
    <2>3. CASE f = L
      BY <1>4, <1>7, <1>10, <2>2, <2>3
    <2>4. CASE f # L
      BY <1>6, <1>10, <2>2, <2>4
    <2>5. QED
      BY <2>3, <2>4
  <1>16. /\ writer' \in WriterType /\ writer'.step = "appending" /\ writer'.rotate
         /\ writer'.messages = writer.messages /\ writer'.record = writer.record
    BY <1>1, WriterIs DEF WriterType
  <1>17. StoreTypes'
    BY <1>1, <1>6, <1>16 DEF StoreInv, StoreTypes
  <1>18. /\ \A m \in Message : IsTold(m, writer.messages[m])
         /\ shard = writer.messages /\ RecordFits /\ writer.record \in Record
    BY <1>1, AppendingIs
  <1>19. \A m \in Message : IsTold(m, writer.messages[m])' /\ IsTold(m, shard[m])'
    <2> PICK messages : messages = writer.messages /\ messages = writer'.messages
                        /\ messages = shard /\ messages = shard'
      BY <1>1, <1>16, <1>18
    <2>1. \A m \in Message : IsTold(m, messages[m])'
      BY <1>12, <1>18
    <2>2. QED
      BY <2>1
  <1>20. CheckpointFits'
    <2>1. CheckpointFits
      BY DEF StoreInv
    <2>2. SUFFICES ASSUME checkpoint # None
                   PROVE  /\ \E k \in 0..Len(file) : DOMAIN checkpoint.manifest = 1..k
                          /\ \A f \in DOMAIN checkpoint.manifest :
                               checkpoint.manifest[f][2] \in 0..Length(f)'
      BY <1>1, <1>6, <1>19 DEF CheckpointFits
    <2>3. PICK k \in 0..Len(file) : DOMAIN checkpoint.manifest = 1..k
      BY <2>1, <2>2 DEF CheckpointFits
    <2>4. \A f \in DOMAIN checkpoint.manifest : f \in DOMAIN file
      <3>1. Len(file) \in Nat
        BY <1>2
      <3>2. QED
        BY <1>3, <2>3, <3>1
    <2>5. QED
      BY <1>10, <2>1, <2>2, <2>3, <2>4 DEF CheckpointFits
  <1>21. RecordFits'
    <2> PICK messages : messages = writer.messages /\ messages = writer'.messages
      BY <1>16
    <2> PICK r : r = writer.record /\ r = writer'.record
      BY <1>16
    <2>1. Superseded(r.message, messages[r.message].claim)' <=>
            Superseded(r.message, messages[r.message].claim)
      BY <1>12
    <2>2. QED
      BY <1>9, <1>18, <2>1 DEF RecordFits
  <1>22. WriterFits'
    <2>2. writer'.record # None
      BY <1>16, <1>18 DEF RecordFits
    <2>3. shard' = writer'.messages
      BY <1>1, <1>16, <1>18
    <2>4. QED
      BY <1>16, <1>19, <1>21, <2>2, <2>3 DEF WriterFits
  <1>23. \A s \in Reader : ReadsAll(s)'
    BY <1>1, <1>6, <1>8, <1>10, ScanGoesOn DEF StoreInv
  <1>24. returned' \subseteq {RecordAt(p)' : p \in Position'}
    BY <1>1, <1>12
  <1>25. QED
    BY <1>12, <1>15, <1>17, <1>20, <1>22, <1>23, <1>24 DEF StoreInv


\* The checkpoint is of files that have grown since.
LEMMA CheckpointOutgrown ==
  ASSUME CheckpointFits, checkpoint' = checkpoint, file \in Seq(FileType),
         file' \in Seq(FileType), Len(file) <= Len(file'),
         \A f \in DOMAIN file :
           Length(f) \in Nat /\ Length(f)' \in Nat /\ Length(f) <= Length(f)',
         checkpoint # None /\ checkpoint.manifest = Manifest' =>
           \A m \in Message : IsTold(m, shard[m])'
  PROVE  CheckpointFits'
  <1>1. SUFFICES ASSUME checkpoint # None
                 PROVE  /\ \E k \in 0..Len(file') : DOMAIN checkpoint.manifest = 1..k
                        /\ \A f \in DOMAIN checkpoint.manifest :
                             checkpoint.manifest[f][2] \in 0..Length(f)'
    BY DEF CheckpointFits
  <1>2. PICK k \in 0..Len(file) : DOMAIN checkpoint.manifest = 1..k
    BY <1>1 DEF CheckpointFits
  <1>3. Len(file) \in Nat /\ Len(file') \in Nat /\ DOMAIN file = 1..Len(file)
    OBVIOUS
  <1>4. k \in 0..Len(file') /\ 1..k \subseteq DOMAIN file
    BY <1>2, <1>3
  <1>5. ASSUME NEW f \in DOMAIN checkpoint.manifest
        PROVE  checkpoint.manifest[f][2] \in 0..Length(f)'
    <2>1. f \in DOMAIN file
      BY <1>2, <1>4
    <2>2. checkpoint.manifest[f][2] \in 0..Length(f)
      BY <1>1 DEF CheckpointFits
    <2>3. \A a, b \in Nat : a <= b => 0..a \subseteq 0..b
      OBVIOUS
    <2>4. 0..Length(f) \subseteq 0..Length(f)'
      BY <2>1, <2>3, Zenon
    <2>5. QED
      BY <2>2, <2>4, Zenon
  <1>6. QED
    BY <1>2, <1>4, <1>5

\* by an append that fails or is interrupted;
LEMMA AppendFailsInv ==
  ASSUME StoreInv, AppendFails
  PROVE  StoreInv'
  <1>1. PICK what \in {"part", "nothing"}, new \in Rotations : file' = Appended(what, new)
    BY DEF AppendFails
  <1>2. /\ Ready /\ writer.step = "appending" /\ writer' = Unlocked /\ faults' = faults + 1
        /\ UNCHANGED <<shard, checkpoint, reader, truth, returned>>
    BY DEF AppendFails, Ready
  <1>3. StoreTypes /\ StoreTypeOK /\ file \in Seq(FileType)
    BY DEF StoreInv, StoreTypes
  <1>4. /\ \A m \in Message : IsTold(m, writer.messages[m])
        /\ shard = writer.messages /\ writer.record \in Record
    BY <1>2, AppendingIs
  <1>5. /\ file' \in Seq(FileType) /\ StoreTypeOK'
        /\ Len(file) <= Len(file') /\ DOMAIN file \subseteq DOMAIN file'
        /\ \A f \in DOMAIN file :
             /\ file'[f].dir = file[f].dir
             /\ Length(f) \in Nat /\ Length(f)' \in Nat /\ Length(f) <= Length(f)'
             /\ RecordsIn(f) \subseteq RecordsIn(f)'
    <2>1. what \in {"record", "part", "nothing"}
      OBVIOUS
    <2>2. QED
      BY <1>1, <1>2, <1>3, <1>4, <2>1, FilesGrow
  <1>6. /\ Position' = Position
        /\ \A p \in Position :
             RecordAt(p)' = RecordAt(p) /\ file'[p[1]].dir = file[p[1]].dir
    BY <1>1, <1>2, <1>3, <1>4, NothingIsAppended
  <1>7. /\ Numbered' /\ \A m \in Message : Evident(m)' /\ InOrder(m)'
        /\ \A m, x : IsTold(m, x) => IsTold(m, x)'
        /\ returned \subseteq {RecordAt(p)' : p \in Position'}
    BY <1>2, <1>6, SameRecords
  <1>8. StoreTypes'
    BY <1>2, <1>5, UnlockedFits DEF StoreInv, StoreTypes
  <1>10. CheckpointFits'
    <2> PICK messages : messages = shard /\ messages = shard'
      BY <1>2
    <2>1. \A m \in Message : IsTold(m, messages[m])'
      BY <1>4, <1>7
    <2>2. \A m \in Message : IsTold(m, shard[m])'
      BY <2>1
    <2>3. QED
      BY <1>2, <1>3, <1>5, <2>2, WriterIs, CheckpointOutgrown
  <1>11. WriterFits'
    BY <1>2, UnlockedFits DEF WriterFits
  <1>12. \A s \in Reader : ReadsAll(s)'
    BY <1>2, <1>5, ScanGoesOn DEF StoreInv
  <1>13. returned' \subseteq {RecordAt(p)' : p \in Position'}
    BY <1>2, <1>7
  <1>14. QED
    BY <1>5, <1>7, <1>8, <1>10, <1>11, <1>12, <1>13 DEF StoreInv

\* by an append that succeeds.
LEMMA AppendRecordInv ==
  ASSUME StoreInv, AppendRecord
  PROVE  StoreInv'
  <1> PICK r : r = writer.record
    OBVIOUS
  <1> PICK m : m = r.message
    OBVIOUS
  <1> PICK before : before = writer.messages
    OBVIOUS
  <1> PICK after : after = With(before, r)
    OBVIOUS
  <1>a. PICK new \in Rotations : file' = Appended("record", new)
    BY DEF AppendRecord
  <1>1. /\ Ready /\ writer.step = "appending"
        /\ truth' = [truth EXCEPT ![m] = Told(r)]
        /\ writer' = [writer EXCEPT !.step = "sharding", !.todo = {m}, !.messages = after]
        /\ UNCHANGED <<shard, checkpoint, reader, returned, faults>>
    BY DEF AppendRecord, Ready, WriterGoes
  <1>2. StoreTypes /\ StoreTypeOK /\ Numbered /\ file \in Seq(FileType)
    BY DEF StoreInv, StoreTypes
  <1>3. /\ \A n \in Message : IsTold(n, before[n])
        /\ shard = before /\ RecordFits /\ r \in Record /\ writer.record \in Record
    BY <1>1, AppendingIs
  <1>4. /\ r # None /\ r.number = Cardinality(Position) + 1 /\ r.claim <= r.number
        /\ r.kind = "claim" => r.claim = r.number
        /\ Valid(before[m], r)
        /\ r.kind = "attempt" => ~Superseded(m, before[m].claim)
    BY <1>3 DEF RecordFits
  <1>5. m \in Message /\ before \in [Message -> Projections] /\ truth \in [Message -> Projections]
        /\ Told(r) \in Projections
    BY <1>2, <1>3, WriterIs, ToldType DEF Record, StoreTypes, Projections
  <1>6. after \in [Message -> Projections] /\ after[m] = Told(r)
        /\ \A n \in Message : n # m => after[n] = before[n]
    BY <1>5 DEF With
  <1>7. truth' \in [Message -> Projections] /\ truth'[m] = Told(r)
        /\ \A n \in Message : n # m => truth'[n] = truth[n]
    BY <1>1, <1>5
  <1>8. /\ file' \in Seq(FileType) /\ StoreTypeOK'
        /\ Len(file) <= Len(file') /\ DOMAIN file \subseteq DOMAIN file'
        /\ \A f \in DOMAIN file :
             /\ file'[f].dir = file[f].dir
             /\ Length(f) \in Nat /\ Length(f)' \in Nat /\ Length(f) <= Length(f)'
             /\ RecordsIn(f) \subseteq RecordsIn(f)'
        /\ Len(file') > Len(file) \/ \E f \in DOMAIN file : Length(f)' > Length(f)
    <2>1. "record" \in {"record", "part", "nothing"}
      OBVIOUS
    <2>2. QED
      BY <1>a, <1>1, <1>2, <1>3, <2>1, FilesGrow
  <1>9. PICK pn :
           /\ Position' = Position \cup {pn} /\ pn \notin Position
           /\ RecordAt(pn)' = r
           /\ pn = <<pn[1], pn[2]>> /\ pn[1] \in Nat /\ pn[2] \in Nat
           /\ \A p \in Position :
                /\ RecordAt(p)' = RecordAt(p) /\ file'[p[1]].dir = file[p[1]].dir
                /\ p[1] = pn[1] \/ file[p[1]].dir = "segments" => ~Above(pn, p)
    BY <1>a, <1>1, <1>2, <1>3, RecordIsAppended
  <1>11. IsFiniteSet(Position) /\ Cardinality(Position) \in Nat
    BY <1>2, FS_CardinalityType DEF Numbered
  <1>12. IsFiniteSet(Position') /\ Cardinality(Position') = Cardinality(Position) + 1
    BY <1>9, <1>11, FS_AddElement
  <1>13. Numbered'
    <2> PICK c \in Nat : c = Cardinality(Position) /\ Cardinality(Position') = c + 1
      BY <1>11, <1>12
    <2>1. \A p \in Position :
            /\ RecordAt(p).number \in 1..c /\ RecordAt(p).claim <= RecordAt(p).number
            /\ RecordAt(p).kind = "claim" => RecordAt(p).claim = RecordAt(p).number
      BY <1>2 DEF Numbered
    <2>2. 1..c \subseteq 1..(c + 1) /\ c + 1 \in 1..(c + 1) /\ \A x \in 1..c : x < c + 1 /\ x # c + 1
      OBVIOUS
    <2>3. \A p, q \in Position :
            /\ RecordAt(p).number = RecordAt(q).number => p = q
            /\ /\ Above(p, q)
               /\ \/ p[1] = q[1]
                  \/ file[p[1]].dir = "segments" /\ file[q[1]].dir = "segments"
               => Sooner(p, q)
      BY <1>2 DEF Numbered
    <2>4. ASSUME NEW p \in Position'
          PROVE  /\ (RecordAt(p)').number \in 1..(c + 1)
                 /\ (RecordAt(p)').claim <= (RecordAt(p)').number
                 /\ (RecordAt(p)').kind = "claim" => (RecordAt(p)').claim = (RecordAt(p)').number
      <3>1. CASE p = pn
        BY <1>4, <1>9, <2>2, <3>1
      <3>2. CASE p # pn
        BY <1>9, <2>1, <2>2, <3>2
      <3>3. QED
        BY <3>1, <3>2
    <2>5. ASSUME NEW p \in Position', NEW q \in Position',
                 (RecordAt(p)').number = (RecordAt(q)').number
          PROVE  p = q
      BY <1>4, <1>9, <2>1, <2>2, <2>3, <2>5
    <2>6. ASSUME NEW p \in Position', NEW q \in Position', Above(p, q),
                 \/ p[1] = q[1]
                 \/ file'[p[1]].dir = "segments" /\ file'[q[1]].dir = "segments"
          PROVE  Sooner(p, q)'
      <3>1. p # pn
        <4>1. SUFFICES ASSUME p = pn PROVE FALSE
          OBVIOUS
        <4>2. q # pn
          BY <1>9, <2>6, <4>1 DEF Above
        <4>3. QED
          BY <1>9, <2>6, <4>1, <4>2
      <3>2. CASE q = pn
        <4>1. (RecordAt(q)').number = c + 1 /\ (RecordAt(p)').number \in 1..c
          BY <1>4, <1>9, <2>1, <3>1, <3>2
        <4>2. QED
          BY <2>2, <4>1 DEF Sooner
      <3>3. CASE q # pn
        <4>1. Sooner(p, q)
          BY <1>9, <2>3, <2>6, <3>1, <3>3
        <4>2. QED
          BY <1>9, <3>1, <3>3, <4>1 DEF Sooner
      <3>4. QED
        BY <3>2, <3>3
    <2>7. QED
      BY <1>12, <2>4, <2>5, <2>6 DEF Numbered
  <1>10. /\ \A p \in Position : Sooner(p, pn)' /\ ~Sooner(pn, p)'
         /\ ~Sooner(pn, pn)' /\ \A p, q \in Position : Sooner(p, q)' <=> Sooner(p, q)
    <2> PICK c \in Nat : c = Cardinality(Position)
      BY <1>11
    <2>1. \A p \in Position : RecordAt(p).number \in 1..c
      BY <1>2 DEF Numbered
    <2>2. (RecordAt(pn)').number = c + 1
      BY <1>4, <1>9
    <2>3. \A x \in 1..c : x < c + 1 /\ ~(c + 1 < x) /\ ~(c + 1 < c + 1)
      OBVIOUS
    <2>4. ~(c + 1 < c + 1)
      OBVIOUS
    <2>5. QED
      BY <1>9, <2>1, <2>2, <2>3, <2>4 DEF Sooner
  <1>14. \A n : PositionsOf(n)' = PositionsOf(n) \cup (IF n = m THEN {pn} ELSE {})
    BY <1>9 DEF PositionsOf
  <1>15. \A n : PositionsOf(n) \subseteq Position
    BY DEF PositionsOf
  <1>16. \A n : Divided(n) => Divided(n)'
    BY <1>9, <1>14, <1>15 DEF Divided
  <1>17. \A n \in Message : Evident(n) /\ InOrder(n)
    BY DEF StoreInv
  <1>18. ASSUME NEW n \in Message, n # m
         PROVE  /\ Evident(n)' /\ InOrder(n)'
                /\ \A x : IsTold(n, x) => IsTold(n, x)'
    <2> PICK S : PositionsOf(n) = S /\ PositionsOf(n)' = S
      BY <1>14, <1>18
    <2>1. \A p \in S : RecordAt(p)' = RecordAt(p)
      BY <1>9, <1>15
    <2>2. QED
      BY <1>7, <1>16, <1>17, <1>18, <2>1, SameMessage
  <1>19. Evident(m)' /\ InOrder(m)'
    <2> PICK S : PositionsOf(m) = S /\ PositionsOf(m)' = S \cup {pn}
      BY <1>14
    <2>1. S \subseteq Position /\ pn \notin S
      BY <1>9, <1>15
    <2>2. /\ \A p \in S : RecordAt(p)' = RecordAt(p) /\ Sooner(p, pn)' /\ ~Sooner(pn, p)'
          /\ \A p, q \in S : Sooner(p, q)' <=> Sooner(p, q)
      BY <1>9, <1>10, <2>1
    <2> PICK x \in Projections : x = before[m]
      BY <1>5
    <2>3. /\ IsTold(m, x) /\ Valid(x, r)
          /\ r.kind = "attempt" => ~Superseded(m, x.claim)
      BY <1>3, <1>4, <1>5
    <2>4. QED
      BY <1>2, <1>3, <1>4, <1>5, <1>7, <1>9, <1>10, <1>16, <1>17, <2>1, <2>2, <2>3, ItsMessage
  <1>20. \A n \in Message : IsTold(n, after[n])'
    <2>1. SUFFICES ASSUME NEW n \in Message PROVE IsTold(n, after[n])'
      OBVIOUS
    <2>2. CASE n = m
      BY <1>6, <1>7, <2>2 DEF IsTold
    <2>3. CASE n # m
      BY <1>3, <1>6, <1>18, <2>3
    <2>4. QED
      BY <2>2, <2>3
  <1>21. /\ writer' \in WriterType /\ writer'.step = "sharding" /\ writer'.todo = {m}
         /\ writer'.messages = after /\ writer'.record = r /\ writer'.rotate = writer.rotate
    BY <1>1, <1>5, <1>6, WriterIs DEF WriterType
  <1>22. StoreTypes'
    BY <1>1, <1>7, <1>8, <1>21 DEF StoreInv, StoreTypes
  <1>24. CheckpointFits'
    <2>1. ASSUME checkpoint # None, checkpoint.manifest = Manifest' PROVE FALSE
      <3>1. PICK k \in 0..Len(file) : DOMAIN checkpoint.manifest = 1..k
        BY <2>1, WriterIs DEF CheckpointFits
      <3>2. DOMAIN checkpoint.manifest = 1..Len(file') /\ Len(file') \in Nat /\ Len(file) \in Nat
        BY <1>2, <1>8, <2>1 DEF Manifest
      <3>3. k = Len(file')
        BY <3>1, <3>2
      <3>4. Len(file') = Len(file)
        BY <1>8, <3>1, <3>2, <3>3
      <3>5. PICK L \in DOMAIN file : Length(L)' > Length(L)
        BY <1>8, <3>2, <3>4
      <3>6. L \in DOMAIN checkpoint.manifest
        BY <1>2, <3>2, <3>4, <3>5
      <3>7. checkpoint.manifest[L][2] \in 0..Length(L)
        BY <2>1, <3>6, WriterIs DEF CheckpointFits
      <3>8. checkpoint.manifest[L][2] = Length(L)'
        BY <1>8, <2>1, <3>5 DEF Manifest
      <3>9. QED
        BY <1>8, <3>5, <3>7, <3>8
    <2>2. QED
      BY <1>1, <1>2, <1>8, <2>1, WriterIs, CheckpointOutgrown
  <1>25. WriterFits'
    <2>1. \A n \in Message \ {m} : shard'[n] = after[n]
      BY <1>1, <1>3, <1>6
    <2>2. \E p \in Position' : RecordAt(p)' = r
      BY <1>9
    <2>3. QED
      BY <1>4, <1>20, <1>21, <2>1, <2>2 DEF WriterFits
  <1>26. \A s \in Reader : ReadsAll(s)'
    BY <1>1, <1>8, ScanGoesOn DEF StoreInv
  <1>27. returned' \subseteq {RecordAt(p)' : p \in Position'}
    BY <1>1, <1>9 DEF StoreInv
  <1>28. QED
    BY <1>8, <1>13, <1>18, <1>19, <1>22, <1>24, <1>25, <1>26, <1>27 DEF StoreInv


-----------------------------------------------------------------------------
(* The theorems                                                            *)

\* StoreInv is kept by every step.
LEMMA StoreStep == StoreInv /\ [StoreNext]_storeVars => StoreInv'
  <1> SUFFICES ASSUME StoreInv, [StoreNext]_storeVars PROVE StoreInv'
    OBVIOUS
  <1>1. CASE Lock \/ LockToRebuild
    BY <1>1, StoreLockInv
  <1>2. CASE WriterStep
    <2>1. CASE Leave
      BY <2>1, WriterIs, LeaveInv DEF Leave, WriterGoes
    <2>2. QED
      BY <1>2, <2>1, LoadInv, RebuildInv, WriteShardInv, WriteCheckpointInv, QuarantineInv,
         AppendRecordInv DEF WriterStep
  <1>3. CASE AppendFails
    BY <1>3, AppendFailsInv
  <1>4. CASE WriterDies
    <2>1. faults' \in Nat
      BY <1>4, WriterIs DEF WriterDies
    <2>2. QED
      BY <1>4, <2>1, LeaveInv DEF WriterDies
  <1>5. CASE \E m \in Message, kind \in Kinds : Accept(m, kind)
    BY <1>5, AcceptInv
  <1>6. CASE \E s \in Reader : ReaderStep(s)
    BY <1>6, ReaderStepInv
  <1>7. CASE UNCHANGED storeVars
    <2>1. UNCHANGED <<file, shard, checkpoint, writer, reader, truth, returned, faults>>
      BY <1>7 DEF storeVars
    <2>2. WriterFits'
      BY <2>1, WriterStays
    <2>3. writer' \in WriterType /\ faults' \in Nat
      BY <2>1, WriterIs
    <2>4. QED
      BY <2>1, <2>2, <2>3, NothingIsWritten
  <1>8. QED
    BY <1>1, <1>2, <1>3, <1>4, <1>5, <1>6, <1>7 DEF StoreNext

\* StoreInv is an invariant.
LEMMA StoreInvariant == StoreSpec => []StoreInv
  BY InitInv, StoreStep, PTL DEF StoreSpec

\* What readers find follows from StoreInv;
LEMMA ScansTell == StoreInv => ScansAreTrue
  <1> SUFFICES ASSUME StoreInv PROVE ScansAreTrue
    OBVIOUS
  <1>1. StoreTypes /\ Numbered /\ StoreTypeOK
    BY DEF StoreInv
  <1>2. ScanIsTrue
    BY <1>1, ScanIs DEF StoreInv, ScanIsTrue
  <1>3. ASSUME NEW s \in Reader, reader[s].step = "reading", reader[s].left = {}
        PROVE  reader[s].missing = {}
    BY <1>3 DEF StoreInv, ReadsAll
  <1>4. ReportedIsKept
    BY <1>3 DEF StoreInv, ReportedIsKept
  <1>5. QED
    BY <1>1, <1>2, <1>4 DEF ScansAreTrue

\* so does what the index says.
LEMMA IndexTells == StoreInv => IndexIsTrue
  BY DEF StoreInv, CheckpointFits, IndexIsTrue, Current

\* An index whose checkpoint is current tells what was appended, whatever was
\* interrupted.
THEOREM IndexIsTold == StoreSpec => []IndexIsTrue
  BY StoreInvariant, IndexTells, PTL

\* Whoever reads the files finds what was appended, and every record that was
\* reported before.
THEOREM ScansAreTold == StoreSpec => []ScansAreTrue
  BY StoreInvariant, ScansTell, PTL

=============================================================================
