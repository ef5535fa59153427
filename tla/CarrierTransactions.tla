------------------------ MODULE CarrierTransactions ------------------------
(***************************************************************************)
(* The transactions on one device: the CarrierLab install workflow, its    *)
(* dry run, the backup, restore, recover and mark commands, run by any     *)
(* number of processes over the same work directory and the same device,   *)
(* each of which may be killed at any point.                               *)
(*                                                                         *)
(* Durable state is the journals, the exported original trees, the lock    *)
(* file and the device's carrier tree.  A command keeps in memory the      *)
(* journal it has created or opened, and rewrites the whole file from that *)
(* copy on every transition (write_journal).                               *)
(*                                                                         *)
(* Abstractions.  Carrier trees are values; Torn stands for every tree an  *)
(* interrupted or partial placement leaves.  Exporting, comparing and      *)
(* scanning journals are atomic reads.  The lock is taken atomically here; *)
(* OperationLock has the real protocol and where it fails.  The transport, *)
(* the resolver and the CommCenter log answer freely, refusing or raising  *)
(* where the code can.                                                     *)
(***************************************************************************)
EXTENDS TransactionStates, Integers

CONSTANTS
  Proc,            \* the processes that run commands
  Ops,             \* the commands they run
  MaxTx,           \* bound: transactions ever started
  Tree,            \* the carrier trees a device may hold
  Stock,           \* the tree the device has at first
  Torn,            \* an incomplete tree
  Desired(_),      \* build_desired_tree: the tree to install over a backup
  NoLock, Dead     \* no lock file; a lock file whose owner has died

Command == {"install", "plan", "backup", "restore", "recover", "mark"}

ASSUME ConstantAssumption ==
  /\ Ops \subseteq Command
  /\ MaxTx \in Nat
  /\ Stock \in Tree /\ Torn \in Tree
  /\ \A t \in Tree : Desired(t) \in Tree
  /\ NoLock # Dead /\ NoLock \notin Proc /\ Dead \notin Proc

Tx == 1 .. MaxTx

VARIABLES
  journal,    \* transactions/<id>/journal.json; NEW while there is none
  original,   \* transactions/<id>/original/carrier-tree
  device,     \* the carrier tree on the device
  lock,       \* operation.lock: its owner, Dead or NoLock
  nextTx,     \* the next transaction id
  pc, cmd,    \* the next step and the command of each process
  cur, mem    \* its transaction, and its copy of that transaction's journal

disk  == <<original, device>>
local == <<pc, cmd, cur, mem>>
vars  == <<journal, disk, lock, nextTx, local>>

Label ==
  { "idle", "reject", "acquire", "begin", "probe", "resolve", "bprobe",
    "read1", "read2", "backed", "plan", "place", "wipe", "copy", "placed",
    "readback", "matched", "rescan", "bind", "bverify", "commit", "latest",
    "select", "open", "rstart", "rolledback", "mark", "fail", "handler",
    "release" }

Goto(p, label) == pc' = [pc EXCEPT ![p] = label]

\* The commands that hold the lock: install_carrierlab takes it in start(),
\* the other two in restore_transaction.
TakesLock(c) == c \in {"install", "restore", "recover"}

Restoring(p) == cmd[p] \in {"restore", "recover"}

Incomplete == {i \in Tx : journal[i].state \in INCOMPLETE_STATES}

Init ==
  /\ journal = [i \in Tx |-> NewJournal]
  /\ original = [i \in Tx |-> Stock]
  /\ device = Stock
  /\ lock = NoLock
  /\ nextTx = 1
  /\ pc = [p \in Proc |-> "idle"]
  /\ cmd = [p \in Proc |-> "none"]
  /\ cur = [p \in Proc |-> 0]
  /\ mem = [p \in Proc |-> NewJournal]

\* The process has returned from its command, and forgets its memory.
Quit(p) ==
  /\ Goto(p, "idle")
  /\ cmd' = [cmd EXCEPT ![p] = "none"]
  /\ cur' = [cur EXCEPT ![p] = 0]
  /\ mem' = [mem EXCEPT ![p] = NewJournal]

\* Go on at a label without touching the transaction or its journal.
Continue(p, label) ==
  /\ Goto(p, label)
  /\ UNCHANGED <<journal, cmd, cur, mem>>

(***************************************************************************)
(* CarrierTransaction: transition(), fail()                                *)
(***************************************************************************)
transitionUnchecked(p, s) ==
  /\ mem' = [mem EXCEPT ![p] = Appended(mem[p], s)]
  /\ journal' = [journal EXCEPT ![cur[p]] = Appended(mem[p], s)]
  /\ UNCHANGED <<cmd, cur>>

transition(p, s) ==
  /\ s \in ALLOWED_TRANSITIONS(mem[p].state)
  /\ mem' = [mem EXCEPT ![p] = Appended(mem[p], s)]
  /\ journal' = [journal EXCEPT ![cur[p]] = Appended(mem[p], s)]
  /\ UNCHANGED <<cmd, cur>>

\* One step that is nothing but a transition.
Log(p, from, s, to) ==
  /\ pc[p] = from
  /\ transition(p, s)
  /\ Goto(p, to)
  /\ UNCHANGED <<disk, lock, nextTx>>

Fail(p) == Log(p, "fail", FailTarget(mem[p]), "release")

(***************************************************************************)
(* CarrierTransaction.start                                                *)
(***************************************************************************)
StartInstall(p) ==
  /\ pc[p] = "idle" /\ "install" \in Ops
  /\ cmd' = [cmd EXCEPT ![p] = "install"]
  /\ Goto(p, "reject")
  /\ UNCHANGED <<journal, disk, lock, nextTx, cur, mem>>

\* A new transaction directory.
Allocate(p) ==
  /\ nextTx \in Tx
  /\ cur' = [cur EXCEPT ![p] = nextTx]
  /\ nextTx' = nextTx + 1

\* The two operations that are not in LOCKED_OPERATIONS.
StartUnlocked(p) ==
  /\ pc[p] = "idle"
  /\ \E c \in {"plan", "backup"} \cap Ops : cmd' = [cmd EXCEPT ![p] = c]
  /\ Allocate(p)
  /\ Goto(p, "begin")
  /\ UNCHANGED <<journal, disk, lock, mem>>

RejectNothing(p) ==
  /\ pc[p] = "reject"
  /\ Allocate(p) /\ Goto(p, "acquire") /\ UNCHANGED <<cmd, mem>>
  /\ UNCHANGED <<journal, disk, lock>>

\* _reject_incomplete, before the lock is taken.
Reject(p) ==
  /\ pc[p] = "reject"
  /\ \/ /\ Incomplete # {}
        /\ Quit(p)
        /\ UNCHANGED nextTx
     \/ /\ Incomplete = {}
        /\ Allocate(p)
        /\ Goto(p, "acquire")
        /\ UNCHANGED <<cmd, mem>>
  /\ UNCHANGED <<journal, disk, lock>>

AcquireAlways(p) ==
  /\ pc[p] = "acquire"
  /\ lock' = p
  /\ Continue(p, IF Restoring(p) THEN "rstart" ELSE "begin")
  /\ UNCHANGED <<disk, nextTx>>

\* OperationLock.acquire: a dead owner's lock is replaced, a live one refused.
Acquire(p) ==
  /\ pc[p] = "acquire"
  /\ \/ /\ lock \in {NoLock, Dead}
        /\ lock' = p
        /\ Continue(p, IF Restoring(p) THEN "rstart" ELSE "begin")
     \/ /\ lock \notin {NoLock, Dead}
        /\ Quit(p)
        /\ UNCHANGED <<journal, lock>>
  /\ UNCHANGED <<disk, nextTx>>

Begin(p) == Log(p, "begin", "DEVICE_CONNECTED", "probe")

(***************************************************************************)
(* Probe, compatibility and backup                                         *)
(***************************************************************************)
Probe(p) == Log(p, "probe", "PROBED", "resolve")

\* The resolver refuses the device or the IPCC; or accepts it, and then the
\* install workflow looks at the probe: an unavailable transport ends it.
Resolve(p) ==
  \/ /\ pc[p] = "resolve"
     /\ Continue(p, "fail")
     /\ UNCHANGED <<disk, lock, nextTx>>
  \/ Log(p, "resolve", "COMPATIBILITY_VERIFIED", "bprobe")
  \/ cmd[p] = "plan" /\ Log(p, "resolve", "COMPATIBILITY_VERIFIED", "release")
  \/ cmd[p] = "install" /\ Log(p, "resolve", "COMPATIBILITY_VERIFIED", "fail")

\* create_verified_backup probes the transport again.
BackupProbe(p) ==
  \/ /\ pc[p] = "bprobe"
     /\ Continue(p, "fail")
     /\ UNCHANGED <<disk, lock, nextTx>>
  \/ Log(p, "bprobe", "BACKUP_STARTED", "read1")

\* The first export is the backup; an export that is not ok fails.
ExportTree(p) ==
  /\ pc[p] = "read1"
  /\ \/ /\ original' = [original EXCEPT ![cur[p]] = device]
        /\ Continue(p, "read2")
     \/ /\ Continue(p, "fail")
        /\ UNCHANGED original
  /\ UNCHANGED <<device, lock, nextTx>>

\* The second export must equal the first.
SecondRead(p) ==
  /\ pc[p] = "read2"
  /\ \/ /\ device = original[cur[p]]
        /\ Continue(p, "backed")
     \/ Continue(p, "fail")
  /\ UNCHANGED <<disk, lock, nextTx>>

BackupVerified(p) ==
  Log(p, "backed", "BACKUP_VERIFIED",
      IF cmd[p] = "backup" THEN "release" ELSE "plan")

(***************************************************************************)
(* Placement                                                               *)
(***************************************************************************)

\* A dry run stops at the desired tree.
PlanReady(p) ==
  Log(p, "plan", "DESIRED_TREE_READY",
      IF cmd[p] = "plan" THEN "release" ELSE "place")

PlaceUnlogged(p) ==
  /\ pc[p] = "place"
  /\ mem' = [mem EXCEPT ![p] = Appended(mem[p], "INSTALL_STARTED")]
  /\ Goto(p, "wipe")
  /\ UNCHANGED <<journal, disk, lock, nextTx, cmd, cur>>

Place(p) == Log(p, "place", "INSTALL_STARTED", "wipe")

\* install_tree refuses, or removes the tree on the device.
Wipe(p) ==
  /\ pc[p] = "wipe"
  /\ \/ /\ device' = Torn
        /\ Continue(p, "copy")
     \/ /\ Continue(p, "fail")
        /\ UNCHANGED device
  /\ UNCHANGED <<original, lock, nextTx>>

\* The tree the command puts on the device.
Target(p) ==
  IF Restoring(p) THEN original[cur[p]] ELSE Desired(original[cur[p]])

\* install_tree answers ok, having copied everything or only a part.
Copy(p) ==
  /\ pc[p] = "copy"
  /\ device' \in {Target(p), Torn}
  /\ Continue(p, IF Restoring(p) THEN "readback" ELSE "placed")
  /\ UNCHANGED <<original, lock, nextTx>>

Placed(p) == Log(p, "placed", "INSTALL_FINISHED", "readback")

ReadbackSkipped(p) ==
  /\ pc[p] = "readback"
  /\ \/ Continue(p, "matched")
     \/ Continue(p, "fail")
  /\ UNCHANGED <<disk, lock, nextTx>>

\* verify_tree compares the device with the manifest of the target.
Readback(p) ==
  /\ pc[p] = "readback"
  /\ \/ /\ device = Target(p)
        /\ Continue(p, "matched")
     \/ Continue(p, "fail")
  /\ UNCHANGED <<disk, lock, nextTx>>

Matched(p) ==
  IF Restoring(p) THEN Log(p, "matched", "RESTORE_VERIFIED", "rolledback")
                  ELSE Log(p, "matched", "READBACK_VERIFIED", "rescan")

(***************************************************************************)
(* Activation: rescan, binding, commit                                     *)
(***************************************************************************)
Rescan(p) ==
  \/ /\ pc[p] = "rescan"
     /\ Continue(p, "fail")
     /\ UNCHANGED <<disk, lock, nextTx>>
  \/ Log(p, "rescan", "RESCAN_REQUESTED", "bind")

\* BindingVerifier answers WAITING, VERIFIED, OBSERVED, FAILED or TIMEOUT.
Bind(p) ==
  \/ /\ pc[p] = "bind"
     /\ \E label \in {"release", "fail"} : Continue(p, label)
     /\ UNCHANGED <<disk, lock, nextTx>>
  \/ \E label \in {"bverify", "release"} :
       Log(p, "bind", "BINDING_OBSERVED", label)

BindingVerified(p) == Log(p, "bverify", "BINDING_VERIFIED", "commit")

Commit(p) == Log(p, "commit", "COMMITTED", "release")

(***************************************************************************)
(* restore, recover, mark-recovery                                         *)
(***************************************************************************)
StartRestore(p) ==
  /\ pc[p] = "idle" /\ "restore" \in Ops
  /\ cmd' = [cmd EXCEPT ![p] = "restore"]
  /\ Goto(p, "latest")
  /\ UNCHANGED <<journal, disk, lock, nextTx, cur, mem>>

\* restore_latest refuses while a transaction is incomplete.
Latest(p) ==
  /\ pc[p] = "latest"
  /\ IF Incomplete # {} THEN Quit(p) /\ UNCHANGED journal
                        ELSE Continue(p, "select")
  /\ UNCHANGED <<disk, lock, nextTx>>

\* The journals with a backup that are not rolled back, in whatever state.
Candidates ==
  {i \in Tx : journal[i].backup /\ journal[i].state # "ROLLED_BACK"}

SelectUnchecked(p) ==
  /\ pc[p] = "select"
  /\ cur' = [cur EXCEPT ![p] = CHOOSE i \in Candidates \cup {0} :
                                 \A j \in Candidates : j <= i]
  /\ Goto(p, "open")
  /\ UNCHANGED <<journal, disk, lock, nextTx, cmd, mem>>

\* _latest_verified_backup: the last candidate.
Select(p) ==
  /\ pc[p] = "select"
  /\ \/ Candidates = {} /\ Quit(p)
     \/ /\ \E i \in Candidates :
             /\ \A j \in Candidates : j <= i
             /\ cur' = [cur EXCEPT ![p] = i]
        /\ Goto(p, "open")
        /\ UNCHANGED <<cmd, mem>>
  /\ UNCHANGED <<journal, disk, lock, nextTx>>

\* recover and mark-recovery name the transaction.
StartNamed(p) ==
  /\ pc[p] = "idle"
  /\ \E c \in {"recover", "mark"} \cap Ops, i \in Tx :
       /\ journal[i].state # "NEW"
       /\ cmd' = [cmd EXCEPT ![p] = c]
       /\ cur' = [cur EXCEPT ![p] = i]
  /\ Goto(p, "open")
  /\ UNCHANGED <<journal, disk, lock, nextTx, mem>>

\* _check_identity: a device, or a build, other than that of the backup.
RefuseIdentity(p) == cmd[p] # "mark" /\ Quit(p)

\* CarrierTransaction.open reads the journal, without the lock.  For a restore
\* the identity of the device and the state are checked on what was read.
Open(p) ==
  /\ pc[p] = "open"
  /\ \/ RefuseIdentity(p)
     \/ /\ cmd[p] # "mark" => journal[cur[p]].state \in Restorable
        /\ mem' = [mem EXCEPT ![p] = journal[cur[p]]]
        /\ Goto(p, IF cmd[p] = "mark" THEN "mark" ELSE "acquire")
        /\ UNCHANGED <<cmd, cur>>
  /\ UNCHANGED <<journal, disk, lock, nextTx>>

RestoreStarted(p) == Log(p, "rstart", "RESTORE_STARTED", "wipe")

RolledBack(p) == Log(p, "rolledback", "ROLLED_BACK", "release")

\* mark_recovery_required; InvalidTransactionTransition from most states.
Mark(p) ==
  \/ Log(p, "mark", "RECOVERY_REQUIRED", "release")
  \/ /\ pc[p] = "mark"
     /\ "RECOVERY_REQUIRED" \notin ALLOWED_TRANSITIONS(mem[p].state)
     /\ Continue(p, "release")
     /\ UNCHANGED <<disk, lock, nextTx>>

(***************************************************************************)
(* Exceptions, the end of a command, and crashes                           *)
(***************************************************************************)

\* The steps in which a call to the transport, the migration service or the
\* CommCenter monitor may raise.
CallLabels ==
  { "read1", "read2", "plan", "wipe", "copy", "readback", "rescan", "bind" }

\* The steps that write the journal.  A write that raises in start() leaves
\* nobody to release the lock: for a command line process that is a Crash.
WriteLabels ==
  { "probe", "resolve", "bprobe", "backed", "plan", "place", "placed",
    "matched", "rescan", "bind", "bverify", "commit", "rstart", "rolledback",
    "mark", "fail", "handler" }

RaiseWithoutFinally(p) ==
  /\ pc[p] \in CallLabels \cup WriteLabels
  /\ Quit(p)
  /\ UNCHANGED <<journal, disk, lock, nextTx>>

\* A call raises, or a journal write raises and transition() takes its event
\* back: the memory is as before.  Install has an except clause, which
\* does nothing in the states before INSTALL_STARTED.
Raise(p) ==
  /\ pc[p] \in CallLabels \cup WriteLabels
  /\ Continue(p, IF cmd[p] = "install" /\ pc[p] # "handler"
                   THEN "handler" ELSE "release")
  /\ UNCHANGED <<disk, lock, nextTx>>

\* _mark_recovery
Handler(p) ==
  \/ /\ mem[p].backup /\ mem[p].state \in HandlerStates
     /\ Log(p, "handler", FailTarget(mem[p]), "release")
  \/ /\ pc[p] = "handler"
     /\ ~(mem[p].backup /\ mem[p].state \in HandlerStates)
     /\ Continue(p, "release")
     /\ UNCHANGED <<disk, lock, nextTx>>

ReleaseAnyLock(p) ==
  /\ pc[p] = "release"
  /\ lock' = NoLock
  /\ Quit(p)
  /\ UNCHANGED <<journal, disk, nextTx>>

\* "finally: tx.release_lock()"; the other commands just return.
Release(p) ==
  /\ pc[p] = "release"
  /\ lock' = IF TakesLock(cmd[p]) THEN NoLock ELSE lock
  /\ Quit(p)
  /\ UNCHANGED <<journal, disk, nextTx>>

\* The process is killed.
Crash(p) ==
  /\ pc[p] # "idle"
  /\ lock' = IF lock = p THEN Dead ELSE lock
  /\ Quit(p)
  /\ UNCHANGED <<journal, disk, nextTx>>

Start(p) ==
  StartInstall(p) \/ StartUnlocked(p) \/ StartRestore(p) \/ StartNamed(p)

Step(p) ==
  \/ Reject(p) \/ Acquire(p) \/ Begin(p) \/ Probe(p) \/ Resolve(p)
  \/ BackupProbe(p) \/ ExportTree(p) \/ SecondRead(p) \/ BackupVerified(p)
  \/ PlanReady(p) \/ Place(p) \/ Wipe(p) \/ Copy(p) \/ Placed(p)
  \/ Readback(p) \/ Matched(p) \/ Rescan(p) \/ Bind(p) \/ BindingVerified(p)
  \/ Commit(p) \/ Latest(p) \/ Select(p) \/ Open(p) \/ RestoreStarted(p)
  \/ RolledBack(p) \/ Mark(p) \/ Fail(p) \/ Raise(p) \/ Handler(p)
  \/ Release(p)

Next == \E p \in Proc : Start(p) \/ Step(p) \/ Crash(p)

Spec == Init /\ [][Next]_vars

\* A command that runs goes on running: every call it makes returns or
\* raises.  Nobody has to start a command, and nothing has to crash.
FairSpec == Spec /\ \A p \in Proc : WF_vars(Step(p))

-----------------------------------------------------------------------------
(***************************************************************************)
(* Properties                                                              *)
(***************************************************************************)

\* The values the variables range over.
TypeOK ==
  /\ journal \in [Tx -> Journal]
  /\ original \in [Tx -> Tree]
  /\ device \in Tree
  /\ lock \in Proc \cup {NoLock, Dead}
  /\ nextTx \in 1 .. MaxTx + 1
  /\ pc \in [Proc -> Label]
  /\ cmd \in [Proc -> Command \cup {"none"}]
  /\ cur \in [Proc -> 0 .. MaxTx]
  /\ mem \in [Proc -> Journal]
  /\ \A p \in Proc : cur[p] = 0 <=> pc[p] \in {"idle", "reject", "latest", "select"}

\* While a command is replacing the tree on the device, it holds the lock, and
\* the journal on disk already says so: a crash now is found by the next
\* command, which has a verified backup to recover from.
WriteAhead ==
  \A p \in Proc : pc[p] \in {"wipe", "copy"} =>
    /\ lock = p
    /\ cur[p] \in Incomplete
    /\ journal[cur[p]].backup

\* A journal becomes COMMITTED only while the device holds the desired tree
\* of that transaction's verified backup.  README: COMMITTED requires a
\* verified backup and a matching readback.
CommitMatches ==
  [][\A i \in Tx :
       journal[i].state # "COMMITTED" /\ journal'[i].state = "COMMITTED"
         => journal[i].backup /\ device = Desired(original[i])]_vars

\* A journal becomes ROLLED_BACK only while the device holds the tree the
\* transaction has backed up.
RollbackExact ==
  [][\A i \in Tx :
       journal[i].state # "ROLLED_BACK" /\ journal'[i].state = "ROLLED_BACK"
         => journal[i].backup /\ device = original[i]]_vars

\* Every change of a journal on disk is one ALLOWED_TRANSITIONS permits, by
\* whichever command it is made and in whichever order commands crash.
JournalFollowsTable ==
  [][\A i \in Tx :
       journal'[i].state # journal[i].state
         => journal'[i].state \in ALLOWED_TRANSITIONS(journal[i].state)]_vars

\* An installation starts to change the device only when no other transaction
\* is incomplete: what _reject_incomplete is there for.
NoInstallOverIncomplete ==
  [][\A p \in Proc :
       cmd[p] = "install" /\ pc[p] = "place" /\ pc'[p] = "wipe"
         => Incomplete \subseteq {cur[p]}]_vars

\* No command runs.
Quiet == \A p \in Proc : pc[p] = "idle"

\* When nothing runs, a torn device has a journal that tells of it: an
\* incomplete transaction, a restore that has failed, or (see RestoredIsWhole) a
\* torn tree that was itself taken for a backup.
TornIsAccountedFor ==
  Quiet /\ device = Torn =>
    \E i \in Tx : /\ journal[i].backup
                  /\ \/ i \in Incomplete
                     \/ journal[i].state = "FAILED"
                     \/ original[i] = Torn

\* A process that has the lock gives it up, whatever its calls raise.
LockNotLeaked == \A p \in Proc : lock = p ~> lock # p

\* An incomplete transaction can be left: recover accepts it, or mark-recovery
\* does and then recover.  The advice "transaction recover" of the command
\* line (_warn_incomplete) supposes so.
NoDeadEnd ==
  Quiet => \A i \in Incomplete :
             \/ journal[i].state \in Restorable
             \/ "RECOVERY_REQUIRED" \in ALLOWED_TRANSITIONS(journal[i].state)

\* "Original carrier tree restored", as the journal of a restore ends, is
\* said of a whole tree: what a rollback leaves is never a torn one.
RestoredIsWhole ==
  [][\A i \in Tx :
       journal[i].state # "ROLLED_BACK" /\ journal'[i].state = "ROLLED_BACK"
         => device # Torn]_vars

\* The labels before a command that takes the lock has it.
Outside == {"idle", "reject", "latest", "select", "open", "acquire"}

\* Between acquire() and release_lock().
InLockedRegion(p) == TakesLock(cmd[p]) /\ pc[p] \notin Outside

Lock == INSTANCE DeviceLock
          WITH inside <- {p \in Proc : InLockedRegion(p)},
               left   <- lock = Dead,
               broken <- FALSE

\* The commands use the lock as DeviceLock, which OperationLock implements,
\* allows: no command is in its locked region together with another, none
\* frees a lock it does not have, and a crash leaves one that is taken over.
ImplementsDeviceLock == Lock!Spec

\* How far a transaction is, by its journal on disk.
PhaseOf(rec) ==
  IF ~rec.backup THEN "none"
  ELSE CASE rec.state \in {"BACKUP_VERIFIED", "DESIRED_TREE_READY"} -> "saved"
         [] rec.state \in INCOMPLETE_STATES -> "open"
         [] rec.state = "COMMITTED"         -> "committed"
         [] rec.state = "ROLLED_BACK"       -> "rolledback"
         [] rec.state = "FAILED"            -> "failed"
         [] OTHER                           -> "settled"

Replacement ==
  INSTANCE TreeReplacement
    WITH phase <- [i \in Tx |-> PhaseOf(journal[i])], backup <- original

\* What the journals on disk say is what happens to the device: it changes only
\* under a transaction that is open and whose backup is fixed, and whoever
\* reads COMMITTED or ROLLED_BACK reads what the device held at that moment.
\* Holds without dry runs, which copy over the record of an operation.
ImplementsTreeReplacement == Replacement!Spec

\* A dry run, which reports "No changes were made.", does not touch the
\* record of an operation that is changing the device.
DryRunIsHarmless ==
  [][\A p \in Proc : cmd[p] = "plan" /\ pc'[p] # pc[p] =>
       \A i \in Incomplete : journal'[i] = journal[i]]_vars
=============================================================================
