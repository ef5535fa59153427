--------------------------- MODULE OperationLock ---------------------------
(***************************************************************************)
(* OperationLock of transaction/journal.py: the per-device lock file       *)
(* work/<udid>/operation.lock, system call by system call, for any set of  *)
(* processes that take it, release it and die at any point.                *)
(*                                                                         *)
(* acquire() tests the file, judges whether its owner is dead, unlinks it  *)
(* if so, creates the file with O_EXCL and only then writes its pid into   *)
(* it.  Each of these is an action, so other processes run between them.   *)
(*                                                                         *)
(* Not modelled: a pid the system gives to a new process (a dead process   *)
(* stays dead), and processes of different users, for which os.kill(pid,0) *)
(* raises PermissionError on a live owner.                                 *)
(***************************************************************************)
CONSTANTS Pid,     \* the processes that may take the lock
          NoPid    \* no process: the creator of a missing file, an unread pid

ASSUME NoPidAssumption == NoPid \notin Pid

VARIABLES
  file,      \* the lock file: its creator, and whether its pid is written yet
  pc,        \* the call each process is about to make
  seen,      \* the pid is_stale() has read; NoPid if the file was unreadable
  wrongful   \* history: a live process at "write" or "cs" has lost its file

vars == <<file, pc, seen, wrongful>>

Label == { "idle", "exists", "recheck", "read", "judge", "unlink", "open",
           "write", "cs", "dead" }

\* The lock file when it is not there.
NoFile == [by |-> NoPid, full |-> FALSE]

Creating(p) == [by |-> p, full |-> FALSE]

\* p has created the lock file and not released it.
Owner(p) == pc[p] \in {"write", "cs"}

Goto(p, label) == pc' = [pc EXCEPT ![p] = label]

Init ==
  /\ file = NoFile
  /\ pc = [p \in Pid |-> "idle"]
  /\ seen = [p \in Pid |-> NoPid]
  /\ wrongful = FALSE

(***************************************************************************)
(* acquire()                                                               *)
(***************************************************************************)
Begin(p) ==
  /\ pc[p] = "idle"
  /\ Goto(p, "exists")
  /\ UNCHANGED <<file, seen, wrongful>>

\* "self.path.exists() and self.is_stale()": the first operand.
Exists(p) ==
  /\ pc[p] = "exists"
  /\ Goto(p, IF file = NoFile THEN "open" ELSE "recheck")
  /\ UNCHANGED <<file, seen, wrongful>>

\* is_stale() tests the path once more: a file that has vanished is not stale.
Recheck(p) ==
  /\ pc[p] = "recheck"
  /\ Goto(p, IF file = NoFile THEN "open" ELSE "read")
  /\ UNCHANGED <<file, seen, wrongful>>

\* The pid is read and parsed.  A file that is empty, because its creator has
\* not written it yet, or that has vanished raises, and is_stale() answers True.
Read(p) ==
  /\ pc[p] = "read"
  /\ IF file.full
       THEN IF file.by = p
              THEN Goto(p, "open") /\ UNCHANGED seen
              ELSE Goto(p, "judge") /\ seen' = [seen EXCEPT ![p] = file.by]
       ELSE Goto(p, "unlink") /\ UNCHANGED seen
  /\ UNCHANGED <<file, wrongful>>

JudgeNeverStale(p) ==
  /\ pc[p] = "judge"
  /\ Goto(p, "open")
  /\ seen' = [seen EXCEPT ![p] = NoPid]
  /\ UNCHANGED <<file, wrongful>>

JudgeAlwaysStale(p) ==
  /\ pc[p] = "judge"
  /\ Goto(p, "unlink")
  /\ UNCHANGED <<file, seen, wrongful>>

\* os.kill(pid, 0): the owner is stale exactly when it no longer exists.
\* seen is a local variable of the call; it is forgotten when the call ends.
Judge(p) ==
  /\ pc[p] = "judge"
  /\ \/ /\ pc[seen[p]] = "dead"
        /\ Goto(p, "unlink")
        /\ UNCHANGED seen
     \/ /\ pc[seen[p]] # "dead"
        /\ Goto(p, "open")
        /\ seen' = [seen EXCEPT ![p] = NoPid]
  /\ UNCHANGED <<file, wrongful>>

\* release(), called by acquire() on a stale lock: the path is unlinked,
\* whatever file it names by now.
Unlink(p) ==
  /\ pc[p] = "unlink"
  /\ file' = NoFile
  /\ wrongful' = (wrongful \/ \E q \in Pid : file.by = q /\ Owner(q))
  /\ seen' = [seen EXCEPT ![p] = NoPid]
  /\ Goto(p, "open")

OpenWithoutExcl(p) ==
  /\ pc[p] = "open"
  /\ file' = Creating(p)
  /\ Goto(p, "write")
  /\ UNCHANGED <<seen, wrongful>>

\* os.open with O_CREAT | O_EXCL: TransactionLockedError if the file is there.
Open(p) ==
  /\ pc[p] = "open"
  /\ \/ /\ file # NoFile
        /\ Goto(p, "idle")
        /\ UNCHANGED file
     \/ /\ file = NoFile
        /\ file' = Creating(p)
        /\ Goto(p, "write")
  /\ UNCHANGED <<seen, wrongful>>

WritePayloadByPath(p) ==
  /\ pc[p] = "write"
  /\ file' = [file EXCEPT !.full = TRUE]
  /\ Goto(p, "cs")
  /\ UNCHANGED <<seen, wrongful>>

\* The payload goes through the open descriptor: into the lock file, or into
\* an unlinked one that no path names any more.
WritePayload(p) ==
  /\ pc[p] = "write"
  /\ file' = IF file.by = p THEN [file EXCEPT !.full = TRUE] ELSE file
  /\ Goto(p, "cs")
  /\ UNCHANGED <<seen, wrongful>>

(***************************************************************************)
(* The end of the locked region.                                           *)
(***************************************************************************)

\* release_lock(): the path is unlinked without a look at its content.
Release(p) ==
  /\ pc[p] = "cs"
  /\ file' = NoFile
  /\ Goto(p, "idle")
  /\ UNCHANGED <<seen, wrongful>>

\* start() raises after acquire(): nobody has the transaction object whose
\* release_lock() would run, and the process goes on without its lock.
Abandon(p) ==
  /\ pc[p] = "cs"
  /\ Goto(p, "idle")
  /\ UNCHANGED <<file, seen, wrongful>>

\* The process exits or is killed, and leaves the lock file as it is.
End(p) ==
  /\ pc[p] # "dead"
  /\ Goto(p, "dead")
  /\ seen' = [seen EXCEPT ![p] = NoPid]
  /\ UNCHANGED <<file, wrongful>>

\* What a process does of its own once it has called acquire().
Step(p) ==
  \/ Exists(p) \/ Recheck(p) \/ Read(p) \/ Judge(p) \/ Unlink(p)
  \/ Open(p) \/ WritePayload(p) \/ Release(p)

Next == \E p \in Pid : Begin(p) \/ Step(p) \/ Abandon(p) \/ End(p)

\* The operating system lets every live process run; nobody has to call
\* acquire(), to abandon a lock or to die.
Fairness == \A p \in Pid : WF_vars(Step(p))

Spec == Init /\ [][Next]_vars

FairSpec == Spec /\ Fairness

-----------------------------------------------------------------------------
(***************************************************************************)
(* Properties                                                              *)
(***************************************************************************)

\* The values the variables range over.
TypeOK ==
  /\ file \in [by : Pid \cup {NoPid}, full : BOOLEAN]
  /\ file.full => file.by # NoPid
  /\ pc \in [Pid -> Label]
  /\ seen \in [Pid -> Pid \cup {NoPid}]
  /\ wrongful \in BOOLEAN

\* At most one process is between acquire() and release(): what errors.py
\* tells a second caller ("Another carrier transaction is already active for
\* this device.").  The code does not ensure it; see ExclusiveUnlessWrongful.
MutualExclusion ==
  \A p, q \in Pid : pc[p] = "cs" /\ pc[q] = "cs" => p = q

\* The O_EXCL creation alone does exclude: two processes hold the lock only
\* after acquire()'s clean-up has unlinked the file of a live owner.
ExclusiveUnlessWrongful == wrongful \/ MutualExclusion

\* The clean-up takes a live owner's file only if it is not the file whose
\* owner was judged: it was unreadable when read, or has been replaced since.
\* A file that was read in full and is still there is unlinked rightly.
WrongfulNeedsReplacement ==
  [][\A p \in Pid :
       pc[p] = "unlink" /\ ~wrongful /\ wrongful' /\ pc'[p] = "open"
         => seen[p] # file.by]_vars

LeftByDead == file.by \in Pid /\ pc[file.by] = "dead"

\* A lock left by a dead process does not block the device: once a live
\* process calls acquire(), that file goes away unless the caller dies too.
DeadOwnerReclaimed ==
  \A p \in Pid : pc[p] = "exists" /\ LeftByDead ~> ~LeftByDead \/ pc[p] = "dead"

\* The lock file, seen as the lock it stands for, until a live owner's file has
\* been unlinked: who is between acquire() and release() or just past the
\* creation, and whether the file is one that no such process owns.
Inside  == {p \in Pid : ~wrongful /\ Owner(p)}
LeftFile == ~wrongful /\ file # NoFile /\ file.by \notin Inside

Lock == INSTANCE DeviceLock
          WITH Proc <- Pid, inside <- Inside, left <- LeftFile, broken <- wrongful

\* The system calls of acquire() and release(), however they interleave and
\* wherever processes die, implement the lock: a process enters only when no
\* other is inside, and nothing but the clean-up of a live owner's file breaks
\* the promise.
ImplementsDeviceLock == Lock!Spec
=============================================================================
