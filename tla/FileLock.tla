------------------------------- MODULE FileLock -------------------------------
(***************************************************************************)
(* The owner-checked lock files of src/file-lock.js (withFileLock), at the *)
(* granularity of the file operations: exclusive creation, the read of an  *)
(* owner record, rename and unlink are each one step, and every other      *)
(* process may act between two of them.                                    *)
(*                                                                         *)
(* A Call is one withFileLock call; its random token is the Call itself.   *)
(* A lock file is named by the Call that created it, wherever a rename     *)
(* takes it; it is empty until that Call has written its owner record      *)
(* (filled).  Each Call runs in a process of its own, which may die at any *)
(* time.                                                                   *)
(*                                                                         *)
(* The age of a lock file is abstracted: the heartbeat keeps the mtime of  *)
(* a live owner fresh, a dead owner's file is past its lease sooner or     *)
(* later, and the reaper also asks for processState(pid) = "missing".      *)
(***************************************************************************)
EXTENDS FiniteSets

CONSTANTS
  Call,    \* withFileLock calls on one target
  NoFile   \* a path at which there is no file

ASSUME NoFileAssumption == NoFile \notin Call

VARIABLES
  target,    \* the file at the lock path
  filled,    \* filled[c]: the file created by c has its owner record
  stale,     \* stale[c]: the file at <target>.stale.<token of c>
  released,  \* released[c]: the file at <target>.released.<token of c>
  pc,        \* where each call is
  observed,  \* the owner record a reaping call read first
  alive      \* whether the process of the call is alive

vars == <<target, filled, stale, released, pc, observed, alive>>

File == Call \cup {NoFile}

Steps ==
  {"acquire", "waiting", "filling", "running",
   "reread", "moving", "judging", "restoring", "discarding",  \* reaping
   "moveOut", "checkOut", "unlinkOut",    \* releasing
   "done"}

TypeOK ==
  /\ target   \in File
  /\ filled   \in [Call -> BOOLEAN]
  /\ stale    \in [Call -> File]
  /\ released \in [Call -> File]
  /\ pc       \in [Call -> Steps]
  /\ observed \in [Call -> File]
  /\ alive    \in [Call -> BOOLEAN]

Init ==
  /\ target   = NoFile
  /\ filled   = [c \in Call |-> FALSE]
  /\ stale    = [c \in Call |-> NoFile]
  /\ released = [c \in Call |-> NoFile]
  /\ pc       = [c \in Call |-> "acquire"]
  /\ observed = [c \in Call |-> NoFile]
  /\ alive    = [c \in Call |-> TRUE]

Goto(c, step) == pc' = [pc EXCEPT ![c] = step]

-----------------------------------------------------------------------------
(* Acquisition                                                             *)

\* writeFileSync(target, owner, {flag: "wx"}): the exclusive open ...
Create(c) ==
  /\ pc[c] = "acquire"
  /\ target = NoFile
  /\ target' = c
  /\ Goto(c, "filling")
  /\ UNCHANGED <<filled, stale, released, observed, alive>>

\* ... and the write of the owner record into the file that was opened.
Fill(c) ==
  /\ pc[c] = "filling"
  /\ filled' = [filled EXCEPT ![c] = TRUE]
  /\ Goto(c, "running")
  /\ UNCHANGED <<target, stale, released, observed, alive>>

\* A bug the checks must catch: the reaper does not ask whether the owner lives.
ObserveAny(c) ==
  /\ pc[c] = "acquire"
  /\ target # NoFile
  /\ filled[target]
  /\ observed' = [observed EXCEPT ![c] = target]
  /\ Goto(c, "reread")
  /\ UNCHANGED <<target, filled, stale, released, alive>>

\* EEXIST with an owner whose process is missing: a reap begins.  readOwner
\* is null for an empty file, which is therefore never reaped.
ObserveDead(c) ==
  /\ pc[c] = "acquire"
  /\ target # NoFile
  /\ filled[target]
  /\ ~alive[target]
  /\ observed' = [observed EXCEPT ![c] = target]
  /\ Goto(c, "reread")
  /\ UNCHANGED <<target, filled, stale, released, alive>>

\* EEXIST otherwise: the owner is alive, its lease is not over, or the file
\* has no owner record yet.
ObserveHeld(c) ==
  /\ pc[c] = "acquire"
  /\ target # NoFile
  /\ Goto(c, "waiting")
  /\ UNCHANGED <<target, filled, stale, released, observed, alive>>

\* Before the deadline (10 s) the call tries again after 50 ms.
TryAgain(c) ==
  /\ pc[c] = "waiting"
  /\ Goto(c, "acquire")
  /\ UNCHANGED <<target, filled, stale, released, observed, alive>>

\* "timed out acquiring lock".
GiveUp(c) ==
  /\ pc[c] = "waiting"
  /\ Goto(c, "done")
  /\ UNCHANGED <<target, filled, stale, released, observed, alive>>

-----------------------------------------------------------------------------
(* reapExpiredOwner                                                        *)

\* The reap ends, and what was observed is forgotten.
Return(c) ==
  /\ Goto(c, "waiting")
  /\ observed' = [observed EXCEPT ![c] = NoFile]

\* After a random delay the owner record must still be the observed one.
Reread(c) ==
  /\ pc[c] = "reread"
  /\ IF target = observed[c] THEN Goto(c, "moving") /\ UNCHANGED observed
                              ELSE Return(c)
  /\ UNCHANGED <<target, filled, stale, released, alive>>

\* renameSync(target, stale) takes whatever is at the lock path by now; with
\* nothing there it throws and the reap ends.
Move(c) ==
  /\ pc[c] = "moving"
  /\ IF target = NoFile
       THEN /\ Return(c)
            /\ UNCHANGED <<target, stale>>
       ELSE /\ stale' = [stale EXCEPT ![c] = target]
            /\ target' = NoFile
            /\ Goto(c, "judging")
            /\ UNCHANGED observed
  /\ UNCHANGED <<filled, released, alive>>

\* The moved record is read again and compared.
Judge(c) ==
  /\ pc[c] = "judging"
  /\ Goto(c, IF stale[c] = observed[c] THEN "discarding" ELSE "restoring")
  /\ UNCHANGED <<target, filled, stale, released, observed, alive>>

Discard(c) ==
  /\ pc[c] = "discarding"
  /\ stale' = [stale EXCEPT ![c] = NoFile]
  /\ Return(c)
  /\ UNCHANGED <<target, filled, released, alive>>

\* A bug the checks must catch: the file of somebody else is not put back.
KeepStale(c) ==
  /\ pc[c] = "restoring"
  /\ Return(c)
  /\ UNCHANGED <<target, filled, stale, released, alive>>

\* renameSync(stale, target) puts the file of somebody else back; a file
\* created at the lock path in the meantime is replaced.
Restore(c) ==
  /\ pc[c] = "restoring"
  /\ target' = stale[c]
  /\ stale' = [stale EXCEPT ![c] = NoFile]
  /\ Return(c)
  /\ UNCHANGED <<filled, released, alive>>

-----------------------------------------------------------------------------
(* removeIfOwned, after the callback                                       *)

\* The owner record must carry the own token.
Release(c) ==
  /\ pc[c] = "running"
  /\ Goto(c, IF target = c THEN "moveOut" ELSE "done")
  /\ UNCHANGED <<target, filled, stale, released, observed, alive>>

MoveOut(c) ==
  /\ pc[c] = "moveOut"
  /\ IF target = NoFile
       THEN /\ Goto(c, "done")
            /\ UNCHANGED <<target, released>>
       ELSE /\ released' = [released EXCEPT ![c] = target]
            /\ target' = NoFile
            /\ Goto(c, "checkOut")
  /\ UNCHANGED <<filled, stale, observed, alive>>

\* A record moved by mistake stays where the rename put it.
CheckOut(c) ==
  /\ pc[c] = "checkOut"
  /\ Goto(c, IF released[c] = c THEN "unlinkOut" ELSE "done")
  /\ UNCHANGED <<target, filled, stale, released, observed, alive>>

UnlinkOut(c) ==
  /\ pc[c] = "unlinkOut"
  /\ released' = [released EXCEPT ![c] = NoFile]
  /\ Goto(c, "done")
  /\ UNCHANGED <<target, filled, stale, observed, alive>>

-----------------------------------------------------------------------------

\* The process of c exits or is killed; every file stays as it is.
Crash(c) ==
  /\ alive[c]
  /\ alive' = [alive EXCEPT ![c] = FALSE]
  /\ Goto(c, "done")
  /\ observed' = [observed EXCEPT ![c] = NoFile]
  /\ UNCHANGED <<target, filled, stale, released>>

CallStep(c) ==
  /\ alive[c]
  /\ \/ Create(c)
     \/ Fill(c)
     \/ ObserveDead(c)
     \/ ObserveHeld(c)
     \/ TryAgain(c)
     \/ GiveUp(c)
     \/ Reread(c)
     \/ Move(c)
     \/ Judge(c)
     \/ Discard(c)
     \/ Restore(c)
     \/ Release(c)
     \/ MoveOut(c)
     \/ CheckOut(c)
     \/ UnlinkOut(c)

Next == \E c \in Call : CallStep(c) \/ Crash(c)

Spec == Init /\ [][Next]_vars

-----------------------------------------------------------------------------
(* Properties                                                              *)

Inside(c) == alive[c] /\ pc[c] = "running"

\* At most one live call is inside its callback: the owner-checked lock keeps
\* concurrent writers of one store apart (withFileLock).
Exclusion ==
  \A c, d \in Call : Inside(c) /\ Inside(d) => c = d

\* A reaper unlinks only the lock file of a dead process, although it renames
\* whatever it finds at the lock path: the record it moved is compared once
\* more after the rename (reapExpiredOwner).
ReapsOnlyDead ==
  \A c \in Call : pc[c] = "discarding" => stale[c] # NoFile /\ ~alive[stale[c]]

\* The lock file of a call that is inside its callback still exists, at the
\* lock path or in the hands of a reaper that has not judged it yet or is
\* about to put it back: no release and no reap destroys it.
InsideKeepsFile ==
  \A c \in Call :
    Inside(c) =>
      \/ target = c
      \/ \E r \in Call : stale[r] = c /\ (alive[r] => pc[r] \in {"judging", "restoring"})

\* The lock holds, and lock files change hands only as they should, from creation to
\* unlinking, although every rename takes what it finds and any process may die.
LockHolds == TypeOK /\ Exclusion /\ ReapsOnlyDead /\ InsideKeepsFile
=============================================================================
