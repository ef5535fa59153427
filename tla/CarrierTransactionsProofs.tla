--------------------- MODULE CarrierTransactionsProofs ---------------------
(***************************************************************************)
(* Proofs about CarrierTransactions, for any set of processes, any number  *)
(* of transactions, any trees and any set of commands.                     *)
(*                                                                         *)
(* What a journal on disk says of the device is true because of three      *)
(* things that hold together: only the holder of the lock changes the      *)
(* device; a transaction's original tree is exported before its backup is  *)
(* verified, by the one process that created it, and never again; and no   *)
(* command that can write a journal has an older view of whether its       *)
(* backup is verified than the disk has, although its view of the state    *)
(* may be stale (which is what JournalFollowsTable fails on).              *)
(***************************************************************************)
EXTENDS CarrierTransactions, TLAPS

\* The labels each command goes through.
Roles ==
  \A p \in Proc :
    /\ cmd[p] = "none"   => pc[p] = "idle"
    /\ cmd[p] = "mark"   => pc[p] \in {"open", "mark", "release"}
    /\ Restoring(p)      => pc[p] \in { "latest", "select", "open", "acquire",
                              "rstart", "wipe", "copy", "readback", "matched",
                              "rolledback", "fail", "release" }
    /\ cmd[p] = "backup" => pc[p] \in { "begin", "probe", "resolve", "bprobe",
                              "read1", "read2", "backed", "fail", "release" }
    /\ cmd[p] = "plan"   => pc[p] \in { "begin", "probe", "resolve", "bprobe",
                              "read1", "read2", "backed", "plan", "fail",
                              "release" }
    /\ cmd[p] = "install" => pc[p] \notin { "idle", "latest", "select", "open",
                               "rstart", "rolledback", "mark" }

\* A process in its locked region is the owner the lock file names.
HoldsLock ==
  \A p \in Proc : TakesLock(cmd[p]) /\ pc[p] \notin Outside => lock = p

\* The process has started the transaction it works on.
Creator(p) == cmd[p] \in {"install", "plan", "backup"} /\ cur[p] # 0

\* Ids are given out once.
FreshIds ==
  /\ \A i \in Tx : i >= nextTx => journal[i] = NewJournal
  /\ \A p \in Proc : cur[p] < nextTx
  /\ \A p, q \in Proc : Creator(p) /\ Creator(q) /\ cur[p] = cur[q] => p = q

PreBackup ==
  { "NEW", "DEVICE_CONNECTED", "PROBED", "COMPATIBILITY_VERIFIED",
    "BACKUP_STARTED" }

\* The state of a journal tells whether it has a verified backup, except FAILED.
RecordOK(rec) ==
  /\ rec.state \in PreBackup => ~rec.backup
  /\ rec.state \notin PreBackup \cup {"FAILED"} => rec.backup

Records ==
  /\ \A i \in Tx : RecordOK(journal[i])
  /\ \A p \in Proc : RecordOK(mem[p])

\* The labels with and without a verified backup in memory.
Unbacked == { "idle", "reject", "latest", "select", "open", "begin", "probe",
              "resolve", "bprobe", "read1", "read2", "backed" }
Backed   == { "plan", "place", "rstart", "wipe", "copy", "placed", "readback",
              "matched", "rescan", "bind", "bverify", "commit", "rolledback" }

\* What a process knows of its transaction's backup is what the disk says, as
\* far as it can still write the journal.
Backups ==
  \A p \in Proc :
    /\ pc[p] \in Unbacked => ~mem[p].backup
    /\ pc[p] = "acquire" => (mem[p].backup <=> Restoring(p))
    /\ pc[p] \in Backed => mem[p].backup
    /\ Restoring(p) /\ pc[p] = "fail" => mem[p].backup
    /\ mem[p].backup => cur[p] # 0 /\ journal[cur[p]].backup
    /\ Creator(p) /\ ~mem[p].backup => ~journal[cur[p]].backup

\* A verified readback stays true up to the end of the command.
DeviceMatches ==
  \A p \in Proc :
    /\ cmd[p] = "install" /\ pc[p] \in {"matched", "rescan", "bind", "bverify", "commit"}
         => device = Desired(original[cur[p]])
    /\ Restoring(p) /\ pc[p] \in {"matched", "rolledback"}
         => device = original[cur[p]]

IInv == TypeOK /\ Roles /\ HoldsLock /\ FreshIds /\ Records /\ Backups /\ DeviceMatches

-----------------------------------------------------------------------------
(***************************************************************************)
(* Facts about the transition table                                        *)
(***************************************************************************)

\* The table names only states.
LEMMA AllowedStates ==
  ASSUME NEW s, NEW t \in ALLOWED_TRANSITIONS(s)
  PROVE  t \in TransactionState
  BY DEF ALLOWED_TRANSITIONS, TransactionState

\* An event the table allows keeps a journal a journal.
LEMMA AppendedType ==
  ASSUME NEW rec \in Journal, NEW s \in ALLOWED_TRANSITIONS(rec.state)
  PROVE  /\ Appended(rec, s) \in Journal
         /\ Appended(rec, s).state = s
         /\ Appended(rec, s).backup = (rec.backup \/ s = "BACKUP_VERIFIED")
  <1>1. s \in TransactionState
    BY AllowedStates
  <1> QED
    BY <1>1 DEF Appended, Journal

\* ... and keeps its state telling whether it has a verified backup: along the
\* table no state past the backup is reached but through BACKUP_VERIFIED.
LEMMA AppendedRecordOK ==
  ASSUME NEW rec \in Journal, NEW s \in ALLOWED_TRANSITIONS(rec.state),
         RecordOK(rec)
  PROVE  RecordOK(Appended(rec, s))
  <1>1. /\ Appended(rec, s).state = s
        /\ Appended(rec, s).backup = (rec.backup \/ s = "BACKUP_VERIFIED")
    BY AppendedType
  <1>2. s \in PreBackup => rec.state \in PreBackup
    BY DEF ALLOWED_TRANSITIONS, PreBackup
  <1>3. s \notin PreBackup \cup {"FAILED", "BACKUP_VERIFIED"}
          => rec.state \notin PreBackup \cup {"FAILED"}
    BY DEF ALLOWED_TRANSITIONS, PreBackup
  <1>4. "BACKUP_VERIFIED" \notin PreBackup
    BY DEF PreBackup
  <1> QED
    BY <1>1, <1>2, <1>3, <1>4 DEF RecordOK, Journal

\* Only a journal past its backup can be marked for recovery or restored.
LEMMA RecoverableHasBackup ==
  ASSUME NEW rec \in Journal, RecordOK(rec),
         \/ "RECOVERY_REQUIRED" \in ALLOWED_TRANSITIONS(rec.state)
         \/ rec.state \in Restorable
  PROVE  rec.backup
  BY DEF ALLOWED_TRANSITIONS, Restorable, RecordOK, PreBackup, Journal

-----------------------------------------------------------------------------
(***************************************************************************)
(* Type correctness                                                        *)
(***************************************************************************)

\* The labels at which a process has no transaction.
NoTx == {"idle", "reject", "latest", "select"}

LEMMA HasTx ==
  ASSUME TypeOK, NEW p \in Proc, pc[p] \notin NoTx
  PROVE  cur[p] \in Tx
  BY DEF TypeOK, NoTx, Tx

LEMMA InitTypeOK == Init => TypeOK
  BY ConstantAssumption
     DEF Init, TypeOK, ConstantAssumption, NewJournal, Journal,
         TransactionState, Label, Tx

LEMMA LogTypeOK ==
  ASSUME TypeOK, NEW p \in Proc, NEW from, NEW s, NEW to \in Label,
         from \notin NoTx, to \notin NoTx, Log(p, from, s, to)
  PROVE  TypeOK'
  <1>1. cur[p] \in Tx
    BY HasTx DEF Log
  <1>2. Appended(mem[p], s) \in Journal
    BY AppendedType DEF Log, transition, TypeOK
  <1>3. \A q \in Proc : cur'[q] = 0 <=> pc'[q] \in NoTx
    BY DEF TypeOK, Log, transition, Goto, NoTx
  <1>4. /\ journal' \in [Tx -> Journal] /\ mem' \in [Proc -> Journal]
        /\ pc' \in [Proc -> Label] /\ cmd' = cmd /\ cur' = cur
    BY <1>1, <1>2 DEF TypeOK, Log, transition, Goto
  <1> QED
    BY <1>3, <1>4 DEF TypeOK, Log, NoTx, disk

\* A step that only goes to another label, and may change the device.
LEMMA ContinueTypeOK ==
  ASSUME TypeOK, NEW p \in Proc, NEW label \in Label, Continue(p, label),
         pc[p] \in NoTx <=> label \in NoTx,
         original' \in [Tx -> Tree], device' \in Tree,
         lock' \in Proc \cup {NoLock, Dead}, nextTx' = nextTx
  PROVE  TypeOK'
  BY DEF TypeOK, Continue, Goto, NoTx

LEMMA QuitTypeOK ==
  ASSUME TypeOK, NEW p \in Proc, Quit(p), journal' = journal,
         original' = original, device' = device, nextTx' = nextTx,
         lock' \in Proc \cup {NoLock, Dead}
  PROVE  TypeOK'
  <1>1. NewJournal \in Journal
    BY DEF NewJournal, Journal, TransactionState
  <1>2. "idle" \in Label /\ 0 \in 0 .. MaxTx
    BY ConstantAssumption DEF Label, ConstantAssumption
  <1> QED
    BY <1>1, <1>2 DEF TypeOK, Quit, Goto

\* The steps that are a transition and nothing else.
PureLog(p) ==
  \/ Begin(p) \/ Probe(p) \/ BackupVerified(p) \/ PlanReady(p) \/ Place(p)
  \/ Placed(p) \/ Matched(p) \/ BindingVerified(p) \/ Commit(p)
  \/ RestoreStarted(p) \/ RolledBack(p) \/ Fail(p)

\* The steps that write the journal or only go on.
MayLog(p) ==
  Resolve(p) \/ BackupProbe(p) \/ Rescan(p) \/ Bind(p) \/ Mark(p) \/ Handler(p)

\* The steps that leave the journal alone.
NoLog(p) ==
  \/ Reject(p) \/ Acquire(p) \/ ExportTree(p) \/ SecondRead(p) \/ Wipe(p)
  \/ Copy(p) \/ Readback(p) \/ Latest(p) \/ Select(p) \/ Open(p) \/ Raise(p)
  \/ Release(p)

LEMMA StepCases ==
  ASSUME NEW p \in Proc
  PROVE  Step(p) <=> PureLog(p) \/ MayLog(p) \/ NoLog(p)
  BY DEF Step, PureLog, MayLog, NoLog

LEMMA PureLogTypeOK ==
  ASSUME TypeOK, NEW p \in Proc, PureLog(p)
  PROVE  TypeOK'
  <1> USE LogTypeOK DEF Label, NoTx
  <1>1. CASE Begin(p) \/ Probe(p)
    BY <1>1 DEF Begin, Probe
  <1>2. CASE BackupVerified(p)
    BY <1>2 DEF BackupVerified
  <1>3. CASE PlanReady(p)
    BY <1>3 DEF PlanReady
  <1>4. CASE Place(p) \/ Placed(p)
    BY <1>4 DEF Place, Placed
  <1>5. CASE Matched(p)
    BY <1>5 DEF Matched
  <1>6. CASE BindingVerified(p) \/ Commit(p)
    BY <1>6 DEF BindingVerified, Commit
  <1>7. CASE RestoreStarted(p) \/ RolledBack(p)
    BY <1>7 DEF RestoreStarted, RolledBack
  <1>8. CASE Fail(p)
    BY <1>8 DEF Fail
  <1> QED
    BY <1>1, <1>2, <1>3, <1>4, <1>5, <1>6, <1>7, <1>8 DEF PureLog

\* A step that only goes on, with the rest of the state as it was.
LEMMA SkipTypeOK ==
  ASSUME TypeOK, NEW p \in Proc, NEW label \in Label, Continue(p, label),
         pc[p] \notin NoTx, label \notin NoTx, UNCHANGED <<disk, lock, nextTx>>
  PROVE  TypeOK'
  <1>1. original' \in [Tx -> Tree] /\ device' \in Tree /\ nextTx' = nextTx
        /\ lock' \in Proc \cup {NoLock, Dead}
    BY DEF TypeOK, disk
  <1> QED
    BY <1>1, ContinueTypeOK

LEMMA MayLogTypeOK ==
  ASSUME TypeOK, NEW p \in Proc, MayLog(p)
  PROVE  TypeOK'
  <1> USE LogTypeOK, SkipTypeOK DEF Label, NoTx
  <1>1. CASE Resolve(p)
    BY <1>1 DEF Resolve
  <1>2. CASE BackupProbe(p)
    BY <1>2 DEF BackupProbe
  <1>3. CASE Rescan(p)
    BY <1>3 DEF Rescan
  <1>4. CASE Bind(p)
    BY <1>4 DEF Bind
  <1>5. CASE Mark(p)
    BY <1>5 DEF Mark
  <1>6. CASE Handler(p)
    BY <1>6 DEF Handler
  <1> QED
    BY <1>1, <1>2, <1>3, <1>4, <1>5, <1>6 DEF MayLog

LEMMA TargetInTree ==
  ASSUME TypeOK, NEW p \in Proc, pc[p] \notin NoTx
  PROVE  Target(p) \in Tree
  BY ConstantAssumption DEF TypeOK, Target, ConstantAssumption, NoTx, Tx

LEMMA NoLogTypeOK ==
  ASSUME TypeOK, NEW p \in Proc, NoLog(p)
  PROVE  TypeOK'
  <1> USE DEF Label, NoTx
  <1>1. CASE Reject(p)
    <2>1. CASE Quit(p) /\ UNCHANGED nextTx
      BY <1>1, <2>1, QuitTypeOK DEF Reject, disk, TypeOK
    <2>2. CASE Allocate(p) /\ Goto(p, "acquire") /\ UNCHANGED <<cmd, mem>>
      BY <1>1, <2>2, ConstantAssumption
         DEF Reject, Allocate, Goto, disk, TypeOK, Tx, ConstantAssumption
    <2> QED
      BY <1>1, <2>1, <2>2 DEF Reject
  <1>2. CASE Acquire(p)
    <2>1. CASE Quit(p) /\ UNCHANGED <<journal, lock>>
      BY <1>2, <2>1, QuitTypeOK DEF Acquire, disk, TypeOK
    <2>2. CASE lock' = p /\ Continue(p, IF Restoring(p) THEN "rstart" ELSE "begin")
      BY <1>2, <2>2, ContinueTypeOK DEF Acquire, disk, TypeOK
    <2> QED
      BY <1>2, <2>1, <2>2 DEF Acquire
  <1>3. CASE ExportTree(p)
    <2>1. original' \in [Tx -> Tree] /\ device' \in Tree /\ nextTx' = nextTx
          /\ lock' \in Proc \cup {NoLock, Dead}
      BY <1>3 DEF ExportTree, TypeOK, Tx
    <2> QED
      BY <1>3, <2>1, ContinueTypeOK DEF ExportTree
  <1>4. CASE SecondRead(p) \/ Readback(p)
    BY <1>4, SkipTypeOK DEF SecondRead, Readback
  <1>5. CASE Wipe(p)
    <2>1. original' \in [Tx -> Tree] /\ device' \in Tree /\ nextTx' = nextTx
          /\ lock' \in Proc \cup {NoLock, Dead}
      BY <1>5, ConstantAssumption DEF Wipe, TypeOK, ConstantAssumption
    <2> QED
      BY <1>5, <2>1, ContinueTypeOK DEF Wipe
  <1>6. CASE Copy(p)
    <2>1. original' \in [Tx -> Tree] /\ device' \in Tree /\ nextTx' = nextTx
          /\ lock' \in Proc \cup {NoLock, Dead}
      BY <1>6, ConstantAssumption, TargetInTree
         DEF Copy, TypeOK, ConstantAssumption
    <2> QED
      BY <1>6, <2>1, ContinueTypeOK DEF Copy
  <1>7. CASE Latest(p)
    <2>1. CASE Quit(p) /\ UNCHANGED journal
      BY <1>7, <2>1, QuitTypeOK DEF Latest, disk, TypeOK
    <2>2. CASE Continue(p, "select")
      BY <1>7, <2>2, ContinueTypeOK DEF Latest, disk, TypeOK
    <2> QED
      BY <1>7, <2>1, <2>2 DEF Latest
  <1>8. CASE Select(p)
    <2>1. CASE Quit(p)
      BY <1>8, <2>1, QuitTypeOK DEF Select, disk, TypeOK
    <2>2. CASE /\ \E i \in Candidates : cur' = [cur EXCEPT ![p] = i]
               /\ Goto(p, "open")
               /\ UNCHANGED <<cmd, mem>>
      BY <1>8, <2>2, ConstantAssumption
         DEF Select, Candidates, Goto, disk, TypeOK, Tx, ConstantAssumption
    <2> QED
      BY <1>8, <2>1, <2>2 DEF Select
  <1>9. CASE Open(p)
    <2>1. CASE Quit(p)
      BY <1>9, <2>1, QuitTypeOK DEF Open, RefuseIdentity, disk, TypeOK
    <2>2. CASE /\ mem' = [mem EXCEPT ![p] = journal[cur[p]]]
               /\ Goto(p, IF cmd[p] = "mark" THEN "mark" ELSE "acquire")
               /\ UNCHANGED <<cmd, cur>>
      <3>1. journal[cur[p]] \in Journal
        BY <1>9 DEF Open, RefuseIdentity, TypeOK, Tx
      <3>2. pc' \in [Proc -> Label] /\ mem' \in [Proc -> Journal]
        BY <2>2, <3>1 DEF Goto, TypeOK
      <3>3. \A q \in Proc : cur'[q] = 0 <=> pc'[q] \in NoTx
        BY <1>9, <2>2 DEF Open, RefuseIdentity, TypeOK, Goto
      <3> QED
        BY <1>9, <2>2, <3>2, <3>3 DEF Open, RefuseIdentity, disk, TypeOK
    <2> QED
      BY <1>9, <2>1, <2>2 DEF Open, RefuseIdentity
  <1>10. CASE Raise(p)
    BY <1>10, SkipTypeOK DEF Raise, CallLabels, WriteLabels
  <1>11. CASE Release(p)
    BY <1>11, QuitTypeOK DEF Release, disk, TypeOK
  <1> QED
    BY <1>1, <1>2, <1>3, <1>4, <1>5, <1>6, <1>7, <1>8, <1>9, <1>10, <1>11
       DEF NoLog

LEMMA StartTypeOK ==
  ASSUME TypeOK, NEW p \in Proc, Start(p)
  PROVE  TypeOK'
  <1> USE DEF Label, TypeOK, Goto, disk, Command
  <1>1. CASE StartInstall(p)
    BY <1>1 DEF StartInstall
  <1>2. CASE StartUnlocked(p)
    BY <1>2, ConstantAssumption
       DEF StartUnlocked, Allocate, Tx, ConstantAssumption
  <1>3. CASE StartRestore(p)
    BY <1>3 DEF StartRestore
  <1>4. CASE StartNamed(p)
    BY <1>4, ConstantAssumption DEF StartNamed, Tx, ConstantAssumption
  <1> QED
    BY <1>1, <1>2, <1>3, <1>4 DEF Start

LEMMA NextTypeOK == TypeOK /\ [Next]_vars => TypeOK'
  <1> SUFFICES ASSUME TypeOK, [Next]_vars PROVE TypeOK'
    OBVIOUS
  <1>1. CASE UNCHANGED vars
    BY <1>1 DEF vars, disk, local, TypeOK
  <1>2. ASSUME NEW p \in Proc, Step(p) PROVE TypeOK'
    BY <1>2, StepCases, PureLogTypeOK, MayLogTypeOK, NoLogTypeOK
  <1>3. ASSUME NEW p \in Proc, Crash(p) PROVE TypeOK'
    BY <1>3, QuitTypeOK DEF Crash, disk, TypeOK
  <1> QED
    BY <1>1, <1>2, <1>3, StartTypeOK DEF Next

\* Type correctness.
THEOREM TypeCorrect == Spec => []TypeOK
  BY InitTypeOK, NextTypeOK, PTL DEF Spec

-----------------------------------------------------------------------------
(***************************************************************************)
(* Which labels a command reaches, and that it holds the lock there        *)
(***************************************************************************)

LEMMA InitRoles == Init => Roles /\ HoldsLock
  BY DEF Init, Roles, HoldsLock, Restoring, TakesLock

LEMMA NextRoles == TypeOK /\ Roles /\ [Next]_vars => Roles'
  <1> SUFFICES ASSUME TypeOK, Roles, [Next]_vars PROVE Roles'
    OBVIOUS
  <1> USE DEF TypeOK, Roles, Restoring, Goto, Continue, Quit
  <1>1. CASE UNCHANGED vars
    BY <1>1 DEF vars, local
  <1>2. ASSUME NEW p \in Proc, PureLog(p) PROVE Roles'
    BY <1>2 DEF PureLog, Log, transition, Begin, Probe, BackupVerified,
                PlanReady, Place, Placed, Matched, BindingVerified, Commit,
                RestoreStarted, RolledBack, Fail
  <1>3. ASSUME NEW p \in Proc, MayLog(p) PROVE Roles'
    BY <1>3 DEF MayLog, Log, transition, Resolve, BackupProbe, Rescan, Bind,
                Mark, Handler
  <1>4. ASSUME NEW p \in Proc, NoLog(p) PROVE Roles'
    <2>1. CASE Reject(p) \/ Acquire(p) \/ ExportTree(p) \/ SecondRead(p)
      BY <1>4, <2>1 DEF Reject, Acquire, ExportTree, SecondRead
    <2>2. CASE Wipe(p) \/ Copy(p) \/ Readback(p)
      BY <1>4, <2>2 DEF Wipe, Copy, Readback
    <2>3. CASE Latest(p) \/ Select(p) \/ Open(p)
      BY <1>4, <2>3 DEF Latest, Select, Open, RefuseIdentity
    <2>4. CASE Raise(p) \/ Release(p)
      BY <1>4, <2>4 DEF Raise, Release, CallLabels, WriteLabels
    <2> QED
      BY <1>4, <2>1, <2>2, <2>3, <2>4 DEF NoLog
  <1>5. ASSUME NEW p \in Proc, Start(p) PROVE Roles'
    BY <1>5 DEF Start, StartInstall, StartUnlocked, StartRestore, StartNamed
  <1>6. ASSUME NEW p \in Proc, Crash(p) PROVE Roles'
    BY <1>6 DEF Crash
  <1> QED
    BY <1>1, <1>2, <1>3, <1>4, <1>5, <1>6, StepCases DEF Next

\* The lock is taken only when no live process has it, and released only by
\* the command that took it.
LEMMA NextHoldsLock == TypeOK /\ Roles /\ HoldsLock /\ [Next]_vars => HoldsLock'
  <1> SUFFICES ASSUME TypeOK, Roles, HoldsLock, [Next]_vars PROVE HoldsLock'
    OBVIOUS
  <1> USE ConstantAssumption
      DEF TypeOK, HoldsLock, TakesLock, Outside, Goto, Continue, Quit
  <1>1. CASE UNCHANGED vars
    BY <1>1 DEF vars, local
  <1>2. ASSUME NEW p \in Proc, PureLog(p) PROVE HoldsLock'
    BY <1>2 DEF PureLog, Log, transition, Begin, Probe, BackupVerified,
                PlanReady, Place, Placed, Matched, BindingVerified, Commit,
                RestoreStarted, RolledBack, Fail
  <1>3. ASSUME NEW p \in Proc, MayLog(p) PROVE HoldsLock'
    BY <1>3 DEF MayLog, Log, transition, Resolve, BackupProbe, Rescan, Bind,
                Mark, Handler
  <1>4. ASSUME NEW p \in Proc, NoLog(p) PROVE HoldsLock'
    <2>1. CASE Reject(p) \/ ExportTree(p) \/ SecondRead(p)
      BY <1>4, <2>1 DEF Reject, ExportTree, SecondRead
    <2>2. CASE Acquire(p)
      BY <1>4, <2>2 DEF Acquire, ConstantAssumption
    <2>3. CASE Wipe(p) \/ Copy(p) \/ Readback(p)
      BY <1>4, <2>3 DEF Wipe, Copy, Readback
    <2>4. CASE Latest(p) \/ Select(p) \/ Open(p)
      BY <1>4, <2>4 DEF Latest, Select, Open, RefuseIdentity, Roles
    <2>5. CASE Raise(p)
      BY <1>4, <2>5 DEF Raise, CallLabels, WriteLabels
    <2>6. CASE Release(p)
      BY <1>4, <2>6 DEF Release
    <2> QED
      BY <1>4, <2>1, <2>2, <2>3, <2>4, <2>5, <2>6 DEF NoLog
  <1>5. ASSUME NEW p \in Proc, Start(p) PROVE HoldsLock'
    BY <1>5 DEF Start, StartInstall, StartUnlocked, StartRestore, StartNamed
  <1>6. ASSUME NEW p \in Proc, Crash(p) PROVE HoldsLock'
    BY <1>6 DEF Crash
  <1> QED
    BY <1>1, <1>2, <1>3, <1>4, <1>5, <1>6, StepCases DEF Next

-----------------------------------------------------------------------------
(***************************************************************************)
(* Transaction ids                                                         *)
(***************************************************************************)

LEMMA InitFreshIds == Init => FreshIds
  BY ConstantAssumption DEF Init, FreshIds, Creator, ConstantAssumption

LEMMA NextFreshIds == TypeOK /\ Roles /\ FreshIds /\ [Next]_vars => FreshIds'
  <1> SUFFICES ASSUME TypeOK, Roles, FreshIds, [Next]_vars PROVE FreshIds'
    OBVIOUS
  <1> USE ConstantAssumption
      DEF TypeOK, FreshIds, Creator, Goto, Continue, Quit, Tx, ConstantAssumption
  <1>1. CASE UNCHANGED vars
    BY <1>1 DEF vars, local
  <1>2. ASSUME NEW p \in Proc, NEW from, NEW s, NEW to, Log(p, from, s, to)
        PROVE  FreshIds'
    BY <1>2 DEF Log, transition
  <1>3. ASSUME NEW p \in Proc, NEW label, Continue(p, label), nextTx' = nextTx
        PROVE  FreshIds'
    BY <1>3
  <1>4. ASSUME NEW p \in Proc, Quit(p), UNCHANGED <<journal, nextTx>>
        PROVE  FreshIds'
    BY <1>4
  <1>5. ASSUME NEW p \in Proc, Allocate(p), journal' = journal,
               \/ cmd[p] = "install" /\ cmd' = cmd
               \/ \E c \in {"plan", "backup"} : cmd' = [cmd EXCEPT ![p] = c]
        PROVE  FreshIds'
    BY <1>5 DEF Allocate
  <1>6. ASSUME NEW p \in Proc, PureLog(p) PROVE FreshIds'
    BY <1>2, <1>6 DEF PureLog, Begin, Probe, BackupVerified,
                PlanReady, Place, Placed, Matched, BindingVerified, Commit,
                RestoreStarted, RolledBack, Fail
  <1>7. ASSUME NEW p \in Proc, MayLog(p) PROVE FreshIds'
    BY <1>2, <1>3, <1>7 DEF MayLog, Resolve, BackupProbe, Rescan, Bind, Mark,
                Handler
  <1>8. ASSUME NEW p \in Proc, NoLog(p) PROVE FreshIds'
    <2>1. CASE Reject(p)
      <3>1. cmd[p] = "install"
        BY <2>1 DEF Reject, Roles, Restoring, Command
      <3> QED
        BY <1>4, <1>5, <2>1, <3>1 DEF Reject
    <2>2. CASE Acquire(p) \/ ExportTree(p) \/ SecondRead(p)
      BY <1>3, <1>4, <2>2 DEF Acquire, ExportTree, SecondRead
    <2>3. CASE Wipe(p) \/ Copy(p) \/ Readback(p) \/ Raise(p)
      BY <1>3, <2>3 DEF Wipe, Copy, Readback, Raise
    <2>4. CASE Latest(p)
      BY <1>3, <1>4, <2>4 DEF Latest
    <2>5. CASE Select(p)
      <3>1. cmd[p] \notin {"install", "plan", "backup"}
        BY <2>5 DEF Select, Roles
      <3>2. \A i \in Candidates : i \in Tx /\ i < nextTx
        BY DEF Candidates, NewJournal
      <3>3. ASSUME NEW i \in Candidates, cur' = [cur EXCEPT ![p] = i],
                   UNCHANGED <<cmd, journal, nextTx>>
            PROVE  FreshIds'
        BY <3>1, <3>2, <3>3
      <3> QED
        BY <1>4, <2>5, <3>3 DEF Select
    <2>6. CASE Open(p)
      <3>1. UNCHANGED <<cmd, cur, journal, nextTx>> => FreshIds'
        OBVIOUS
      <3> QED
        BY <1>4, <2>6, <3>1 DEF Open, RefuseIdentity
    <2>7. CASE Release(p)
      BY <1>4, <2>7 DEF Release
    <2> QED
      BY <1>8, <2>1, <2>2, <2>3, <2>4, <2>5, <2>6, <2>7 DEF NoLog
  <1>9. ASSUME NEW p \in Proc, Start(p) PROVE FreshIds'
    <2>1. CASE StartInstall(p) \/ StartRestore(p)
      <3>1. cur[p] = 0 /\ UNCHANGED <<cur, journal, nextTx>>
        BY <2>1 DEF StartInstall, StartRestore
      <3>2. \A q \in Proc : q # p => cmd'[q] = cmd[q]
        BY <2>1 DEF StartInstall, StartRestore
      <3> QED
        BY <3>1, <3>2
    <2>2. CASE StartUnlocked(p)
      BY <1>5, <2>2 DEF StartUnlocked
    <2>3. CASE StartNamed(p)
      <3>1. PICK c \in {"recover", "mark"}, i \in Tx :
               /\ journal[i].state # "NEW"
               /\ cmd' = [cmd EXCEPT ![p] = c]
               /\ cur' = [cur EXCEPT ![p] = i]
        BY <2>3 DEF StartNamed
      <3>2. i < nextTx
        BY <3>1 DEF NewJournal
      <3> QED
        BY <2>3, <3>1, <3>2 DEF StartNamed
    <2> QED
      BY <1>9, <2>1, <2>2, <2>3 DEF Start
  <1>10. ASSUME NEW p \in Proc, Crash(p) PROVE FreshIds'
    BY <1>4, <1>10 DEF Crash
  <1> QED
    BY <1>1, <1>6, <1>7, <1>8, <1>9, <1>10, StepCases DEF Next

-----------------------------------------------------------------------------
(***************************************************************************)
(* Journals and what processes know of them                                *)
(***************************************************************************)

LEMMA InitRecords == Init => Records /\ Backups /\ DeviceMatches
  BY DEF Init, Records, RecordOK, NewJournal, PreBackup, Backups, Restoring,
         Creator, DeviceMatches, Unbacked, Backed

LEMMA NextRecords == TypeOK /\ Records /\ [Next]_vars => Records'
  <1> SUFFICES ASSUME TypeOK, Records, [Next]_vars PROVE Records'
    OBVIOUS
  <1> USE DEF TypeOK, Records, Goto, Continue, Quit
  <1>1. CASE UNCHANGED vars
    BY <1>1 DEF vars, local
  <1>2. ASSUME NEW p \in Proc, NEW from, NEW s, NEW to, Log(p, from, s, to)
        PROVE  Records'
    <2>1. RecordOK(Appended(mem[p], s))
      BY <1>2, AppendedRecordOK DEF Log, transition
    <2> QED
      BY <1>2, <2>1 DEF Log, transition
  <1>3. RecordOK(NewJournal)
    BY DEF RecordOK, NewJournal, PreBackup
  <1>4. ASSUME NEW p \in Proc, Quit(p), journal' = journal PROVE Records'
    BY <1>3, <1>4
  <1>5. ASSUME UNCHANGED <<journal, mem>> PROVE Records'
    BY <1>5
  <1>6. ASSUME NEW p \in Proc, PureLog(p) PROVE Records'
    BY <1>2, <1>6 DEF PureLog, Begin, Probe, BackupVerified, PlanReady, Place,
                Placed, Matched, BindingVerified, Commit, RestoreStarted,
                RolledBack, Fail
  <1>7. ASSUME NEW p \in Proc, MayLog(p) PROVE Records'
    BY <1>2, <1>5, <1>7 DEF MayLog, Resolve, BackupProbe, Rescan, Bind, Mark,
                Handler
  <1>8. ASSUME NEW p \in Proc, NoLog(p) PROVE Records'
    <2>1. CASE Reject(p) \/ Acquire(p) \/ ExportTree(p) \/ SecondRead(p)
      BY <1>4, <1>5, <2>1 DEF Reject, Acquire, ExportTree, SecondRead
    <2>2. CASE Wipe(p) \/ Copy(p) \/ Readback(p) \/ Raise(p)
      BY <1>5, <2>2 DEF Wipe, Copy, Readback, Raise
    <2>3. CASE Latest(p) \/ Select(p) \/ Release(p)
      BY <1>4, <1>5, <2>3 DEF Latest, Select, Release
    <2>4. CASE Open(p)
      <3>1. cur[p] \in Tx
        BY <2>4, HasTx DEF Open, RefuseIdentity, NoTx
      <3> QED
        BY <1>4, <2>4, <3>1 DEF Open, RefuseIdentity
    <2> QED
      BY <1>8, <2>1, <2>2, <2>3, <2>4 DEF NoLog
  <1>9. ASSUME NEW p \in Proc, Start(p) PROVE Records'
    BY <1>5, <1>9 DEF Start, StartInstall, StartUnlocked, StartRestore,
                StartNamed
  <1>10. ASSUME NEW p \in Proc, Crash(p) PROVE Records'
    BY <1>4, <1>10 DEF Crash
  <1> QED
    BY <1>1, <1>6, <1>7, <1>8, <1>9, <1>10, StepCases DEF Next

\* A process about to write a journal knows of its verified backup, if it has
\* one; unless it has started the transaction itself, it does have one.
WriterKnows(p) ==
  /\ journal[cur[p]].backup => mem[p].backup
  /\ Creator(p) \/ mem[p].backup

LEMMA CreatorKnows ==
  ASSUME TypeOK, Backups, NEW p \in Proc, pc[p] \notin NoTx,
         cmd[p] \in {"install", "plan", "backup"}
  PROVE  WriterKnows(p)
  BY DEF TypeOK, Backups, WriterKnows, Creator, NoTx

LEMMA BackedKnows ==
  ASSUME Backups, NEW p \in Proc, mem[p].backup
  PROVE  WriterKnows(p)
  BY DEF WriterKnows

\* A transition of p keeps Backups, provided p knows what it overwrites.
LEMMA LogBackups ==
  ASSUME TypeOK, FreshIds, Backups,
         NEW p \in Proc, NEW from, NEW s, NEW to, Log(p, from, s, to),
         WriterKnows(p), to # "acquire", from \notin NoTx,
         to \in Unbacked => from \in Unbacked /\ s # "BACKUP_VERIFIED",
         to \in Backed => from \in Backed \/ s = "BACKUP_VERIFIED",
         Restoring(p) /\ to = "fail" => mem[p].backup
  PROVE  Backups'
  <1> DEFINE b == mem[p].backup \/ s = "BACKUP_VERIFIED"
  <1>1. cur[p] \in Tx
    BY HasTx DEF Log
  <1>2. Appended(mem[p], s).backup = b /\ b \in BOOLEAN
    BY AppendedType DEF Log, transition, TypeOK
  <1>3. /\ journal'[cur[p]].backup = b /\ mem'[p].backup = b
        /\ \A i \in Tx : i # cur[p] => journal'[i] = journal[i]
        /\ \A q \in Proc : q # p => mem'[q] = mem[q] /\ pc'[q] = pc[q]
        /\ pc[p] = from /\ pc'[p] = to /\ cmd' = cmd /\ cur' = cur
    BY <1>1, <1>2 DEF Log, transition, Goto, TypeOK
  <1> HIDE DEF b
  <1>4. ASSUME NEW q \in Proc, q # p, mem[q].backup
        PROVE  cur[q] # 0 /\ journal'[cur[q]].backup
    <2>1. cur[q] \in Tx /\ journal[cur[q]].backup
      BY <1>4 DEF Backups, TypeOK, Tx
    <2>2. journal[cur[p]].backup => b
      BY DEF WriterKnows, b
    <2> QED
      BY <1>1, <1>3, <2>1, <2>2 DEF Tx
  <1>5. ASSUME NEW q \in Proc, q # p, Creator(q), ~mem[q].backup
        PROVE  ~journal'[cur[q]].backup
    <2>1. cur[q] \in Tx /\ ~journal[cur[q]].backup
      BY <1>5 DEF Backups, Creator, TypeOK, Tx
    <2>2. cur[q] # cur[p]
      <3>1. CASE Creator(p)
        BY <1>5, <3>1 DEF FreshIds
      <3>2. CASE mem[p].backup
        BY <2>1, <3>2 DEF Backups
      <3> QED
        BY <3>1, <3>2 DEF WriterKnows
    <2> QED
      BY <1>3, <2>1, <2>2
  <1>6. /\ to \in Unbacked => ~b
        /\ to \in Backed => b
        /\ Restoring(p) /\ to = "fail" => b
    BY <1>3 DEF Backups, b
  <1>7. cur[p] # 0
    BY <1>1 DEF Tx
  <1> QED
    BY <1>3, <1>4, <1>5, <1>6, <1>7 DEF Backups, Creator, Restoring

\* The steps that are a transition know what they overwrite.
LEMMA PureLogKnows ==
  ASSUME TypeOK, Roles, Backups, NEW p \in Proc, PureLog(p)
  PROVE  WriterKnows(p)
  <1>1. pc[p] \notin NoTx /\ pc[p] # "mark" /\ pc[p] # "idle"
    BY DEF PureLog, Log, Begin, Probe, BackupVerified, PlanReady, Place, Placed,
           Matched, BindingVerified, Commit, RestoreStarted, RolledBack, Fail,
           NoTx
  <1>2. CASE cmd[p] \in {"install", "plan", "backup"}
    BY <1>1, <1>2, CreatorKnows
  <1>3. CASE Restoring(p)
    <2>1. mem[p].backup
      BY <1>3 DEF PureLog, Log, Begin, Probe, BackupVerified, PlanReady, Place,
             Placed, Matched, BindingVerified, Commit, RestoreStarted,
             RolledBack, Fail, Roles, Backups, Backed
    <2> QED
      BY <2>1, BackedKnows
  <1>4. cmd[p] # "mark"
    BY <1>1 DEF Roles, PureLog, Log, Begin, Probe, BackupVerified, PlanReady,
           Place, Placed, Matched, BindingVerified, Commit, RestoreStarted,
           RolledBack, Fail
  <1>5. cmd[p] # "none"
    BY <1>1 DEF Roles
  <1> QED
    BY <1>2, <1>3, <1>4, <1>5 DEF TypeOK, Command, Restoring

LEMMA PureLogBackups ==
  ASSUME TypeOK, Roles, FreshIds, Backups, NEW p \in Proc, PureLog(p)
  PROVE  Backups'
  <1> USE PureLogKnows, LogBackups DEF NoTx, Unbacked, Backed
  <1>1. CASE Begin(p) \/ Probe(p)
    BY <1>1 DEF Begin, Probe
  <1>2. CASE BackupVerified(p)
    BY <1>2 DEF BackupVerified
  <1>3. CASE PlanReady(p)
    BY <1>3 DEF PlanReady
  <1>4. CASE Place(p) \/ Placed(p)
    BY <1>4 DEF Place, Placed
  <1>5. CASE Matched(p)
    BY <1>5 DEF Matched
  <1>6. CASE BindingVerified(p) \/ Commit(p)
    BY <1>6 DEF BindingVerified, Commit
  <1>7. CASE RestoreStarted(p) \/ RolledBack(p)
    BY <1>7 DEF RestoreStarted, RolledBack
  <1>8. CASE Fail(p)
    BY <1>8 DEF Fail
  <1> QED
    BY <1>1, <1>2, <1>3, <1>4, <1>5, <1>6, <1>7, <1>8 DEF PureLog

\* Going on within the labels that say the same of the backup keeps Backups.
LEMMA MoveBackups ==
  ASSUME TypeOK, Backups, NEW p \in Proc, NEW to,
         pc' = [pc EXCEPT ![p] = to], UNCHANGED <<journal, mem>>,
         \A q \in Proc : /\ mem[q].backup => cur'[q] = cur[q]
                         /\ Creator(q)' => Creator(q) /\ cur'[q] = cur[q]
                         /\ q # p => Restoring(q)' = Restoring(q),
         to \in Unbacked => ~mem[p].backup,
         to = "acquire" => (mem[p].backup <=> Restoring(p)'),
         to \in Backed => mem[p].backup,
         Restoring(p)' /\ to = "fail" => mem[p].backup
  PROVE  Backups'
  BY DEF Backups, TypeOK

LEMMA ContinueBackups ==
  ASSUME TypeOK, Backups, NEW p \in Proc, NEW to, Continue(p, to),
         to \in Unbacked => ~mem[p].backup,
         to = "acquire" => (mem[p].backup <=> Restoring(p)),
         to \in Backed => mem[p].backup,
         Restoring(p) /\ to = "fail" => mem[p].backup
  PROVE  Backups'
  BY MoveBackups DEF Continue, Goto, Creator, Restoring

LEMMA QuitBackups ==
  ASSUME TypeOK, Backups, NEW p \in Proc, Quit(p), journal' = journal
  PROVE  Backups'
  BY DEF TypeOK, Backups, Quit, Goto, NewJournal, Unbacked, Backed, Creator,
         Restoring

LEMMA MayLogBackups ==
  ASSUME TypeOK, Roles, FreshIds, Records, Backups, NEW p \in Proc, MayLog(p)
  PROVE  Backups'
  <1> USE DEF NoTx, Unbacked, Backed
  <1>1. CASE Resolve(p)
    <2>1. ~Restoring(p) /\ ~mem[p].backup
          /\ pc[p] = "resolve" /\ cmd[p] \in {"install", "plan", "backup"}
      BY <1>1 DEF Resolve, Log, Roles, Restoring, Backups, TypeOK, Command
    <2>2. WriterKnows(p)
      BY <2>1, CreatorKnows
    <2> QED
      BY <1>1, <2>1, <2>2, LogBackups, ContinueBackups DEF Resolve
  <1>2. CASE BackupProbe(p)
    <2>1. ~Restoring(p) /\ ~mem[p].backup
          /\ pc[p] = "bprobe" /\ cmd[p] \in {"install", "plan", "backup"}
      BY <1>2 DEF BackupProbe, Log, Roles, Restoring, Backups, TypeOK, Command
    <2>2. WriterKnows(p)
      BY <2>1, CreatorKnows
    <2> QED
      BY <1>2, <2>1, <2>2, LogBackups, ContinueBackups DEF BackupProbe
  <1>3. CASE Rescan(p) \/ Bind(p)
    <2>1. mem[p].backup
      BY <1>3 DEF Rescan, Bind, Log, Backups
    <2> QED
      BY <1>3, <2>1, BackedKnows, LogBackups, ContinueBackups DEF Rescan, Bind
  <1>4. CASE Mark(p)
    <2>1. CASE Log(p, "mark", "RECOVERY_REQUIRED", "release")
      <3>1. mem[p].backup
        BY <2>1, RecoverableHasBackup DEF Log, transition, Records, TypeOK
      <3> QED
        BY <2>1, <3>1, BackedKnows, LogBackups
    <2>2. CASE Continue(p, "release")
      BY <2>2, ContinueBackups
    <2> QED
      BY <1>4, <2>1, <2>2 DEF Mark
  <1>5. CASE Handler(p)
    <2>1. CASE mem[p].backup /\ Log(p, "handler", FailTarget(mem[p]), "release")
      BY <2>1, BackedKnows, LogBackups
    <2>2. CASE Continue(p, "release")
      BY <2>2, ContinueBackups
    <2> QED
      BY <1>5, <2>1, <2>2 DEF Handler
  <1> QED
    BY <1>1, <1>2, <1>3, <1>4, <1>5 DEF MayLog

LEMMA NoLogBackups ==
  ASSUME TypeOK, Roles, FreshIds, Records, Backups, NEW p \in Proc, NoLog(p)
  PROVE  Backups'
  <1> USE DEF Unbacked, Backed
  <1>1. CASE Reject(p)
    <2>1. CASE Quit(p)
      BY <1>1, <2>1, QuitBackups DEF Reject
    <2>2. CASE Allocate(p) /\ Goto(p, "acquire") /\ UNCHANGED <<cmd, mem>>
      <3>1. ~mem[p].backup /\ ~Restoring(p) /\ cur'[p] = nextTx
            /\ nextTx \in Tx /\ UNCHANGED journal
        BY <1>1, <2>2 DEF Reject, Allocate, Backups, Roles, TypeOK
      <3>2. ~journal[nextTx].backup
        BY <3>1 DEF FreshIds, NewJournal, Tx
      <3> QED
        BY <2>2, <3>1, <3>2
           DEF Allocate, Goto, Backups, TypeOK, Creator, Restoring
    <2> QED
      BY <1>1, <2>1, <2>2 DEF Reject
  <1>2. CASE Acquire(p)
    <2>1. CASE Quit(p) /\ UNCHANGED <<journal, lock>>
      BY <2>1, QuitBackups
    <2>2. CASE Continue(p, IF Restoring(p) THEN "rstart" ELSE "begin")
      BY <1>2, <2>2, ContinueBackups DEF Acquire, Backups
    <2> QED
      BY <1>2, <2>1, <2>2 DEF Acquire
  <1>3. CASE ExportTree(p) \/ SecondRead(p)
    BY <1>3, ContinueBackups DEF ExportTree, SecondRead, Backups, Roles
  <1>4. CASE Wipe(p) \/ Copy(p) \/ Readback(p)
    BY <1>4, ContinueBackups DEF Wipe, Copy, Readback, Backups
  <1>5. CASE Latest(p)
    BY <1>5, ContinueBackups, QuitBackups DEF Latest, Backups
  <1>6. CASE Select(p)
    <2>1. CASE Quit(p)
      BY <1>6, <2>1, QuitBackups DEF Select
    <2>2. CASE /\ \E i \in Candidates : cur' = [cur EXCEPT ![p] = i]
               /\ Goto(p, "open")
               /\ UNCHANGED <<cmd, mem>>
      <3>1. ~mem[p].backup /\ cmd[p] \notin {"install", "plan", "backup"}
        BY <1>6 DEF Select, Backups, Roles
      <3> QED
        BY <1>6, <2>2, <3>1, MoveBackups
           DEF Select, Goto, Creator, Restoring, TypeOK
    <2> QED
      BY <1>6, <2>1, <2>2 DEF Select
  <1>7. CASE Open(p)
    <2>1. CASE Quit(p)
      BY <1>7, <2>1, QuitBackups DEF Open, RefuseIdentity
    <2>2. CASE /\ cmd[p] # "mark" => journal[cur[p]].state \in Restorable
               /\ mem' = [mem EXCEPT ![p] = journal[cur[p]]]
               /\ Goto(p, IF cmd[p] = "mark" THEN "mark" ELSE "acquire")
               /\ UNCHANGED <<cmd, cur>>
      <3>1. cur[p] \in Tx /\ cur[p] # 0
        BY <1>7, HasTx DEF Open, RefuseIdentity, NoTx, Tx
      <3>2. cmd[p] \notin {"install", "plan", "backup"}
        BY <1>7 DEF Open, RefuseIdentity, Roles
      <3>3. cmd[p] # "mark" => Restoring(p) /\ journal[cur[p]].backup
        BY <1>7, <2>2, <3>1, <3>2, RecoverableHasBackup
           DEF Open, RefuseIdentity, TypeOK, Records, Restoring, Roles, Command
      <3>4. cmd[p] = "mark" => ~Restoring(p)
        BY DEF Restoring
      <3> QED
        BY <1>7, <2>2, <3>1, <3>2, <3>3, <3>4
           DEF Open, RefuseIdentity, Goto, Backups, TypeOK, Creator, Restoring
    <2> QED
      BY <1>7, <2>1, <2>2 DEF Open, RefuseIdentity
  <1>8. CASE Raise(p)
    BY <1>8, ContinueBackups DEF Raise
  <1>9. CASE Release(p)
    BY <1>9, QuitBackups DEF Release
  <1> QED
    BY <1>1, <1>2, <1>3, <1>4, <1>5, <1>6, <1>7, <1>8, <1>9 DEF NoLog

LEMMA StartBackups ==
  ASSUME TypeOK, Roles, FreshIds, Backups, NEW p \in Proc, Start(p)
  PROVE  Backups'
  <1> USE DEF Unbacked, Backed
  <1>1. pc[p] = "idle" /\ ~mem[p].backup /\ cur[p] = 0
    BY DEF Start, StartInstall, StartUnlocked, StartRestore, StartNamed,
           Backups, TypeOK
  <1>2. CASE StartInstall(p) \/ StartRestore(p)
    <2>1. \A q \in Proc : q # p => cmd'[q] = cmd[q]
      BY <1>2 DEF StartInstall, StartRestore, TypeOK
    <2>2. cur' = cur /\ UNCHANGED <<journal, mem>>
      BY <1>2 DEF StartInstall, StartRestore
    <2>3. \/ pc' = [pc EXCEPT ![p] = "reject"]
          \/ pc' = [pc EXCEPT ![p] = "latest"]
      BY <1>2 DEF StartInstall, StartRestore, Goto
    <2> QED
      BY <1>1, <2>1, <2>2, <2>3, MoveBackups DEF Creator, Restoring
  <1>3. CASE StartUnlocked(p)
    <2>1. PICK c \in {"plan", "backup"} : cmd' = [cmd EXCEPT ![p] = c]
      BY <1>3 DEF StartUnlocked
    <2>2. ~journal[nextTx].backup /\ nextTx \in Tx
      BY <1>3 DEF StartUnlocked, Allocate, FreshIds, NewJournal, Tx
    <2> QED
      BY <1>1, <1>3, <2>1, <2>2
         DEF StartUnlocked, Allocate, Goto, Backups, TypeOK, Creator, Restoring
  <1>4. CASE StartNamed(p)
    <2>1. PICK c \in {"recover", "mark"}, i \in Tx :
             /\ cmd' = [cmd EXCEPT ![p] = c]
             /\ cur' = [cur EXCEPT ![p] = i]
      BY <1>4 DEF StartNamed
    <2> QED
      BY <1>1, <1>4, <2>1, MoveBackups
         DEF StartNamed, Goto, TypeOK, Creator, Restoring
  <1> QED
    BY <1>2, <1>3, <1>4 DEF Start

LEMMA NextBackups ==
  TypeOK /\ Roles /\ FreshIds /\ Records /\ Backups /\ [Next]_vars => Backups'
  <1> SUFFICES ASSUME TypeOK, Roles, FreshIds, Records, Backups, [Next]_vars
               PROVE  Backups'
    OBVIOUS
  <1>1. CASE UNCHANGED vars
    BY <1>1 DEF vars, local, Backups, Creator, Restoring
  <1>2. ASSUME NEW p \in Proc, Step(p) PROVE Backups'
    BY <1>2, StepCases, PureLogBackups, MayLogBackups, NoLogBackups
  <1>3. ASSUME NEW p \in Proc, Crash(p) PROVE Backups'
    BY <1>3, QuitBackups DEF Crash
  <1> QED
    BY <1>1, <1>2, <1>3, StartBackups DEF Next

-----------------------------------------------------------------------------
(***************************************************************************)
(* The device                                                              *)
(***************************************************************************)

\* A step that changes no tree keeps DeviceMatches, if the label it goes to
\* asks no more of the device than is known.
LEMMA SameTreesMatch ==
  ASSUME TypeOK, DeviceMatches, NEW p \in Proc, UNCHANGED disk,
         \A q \in Proc : q # p => /\ pc'[q] = pc[q]
                                  /\ cmd'[q] = cmd[q]
                                  /\ cur'[q] = cur[q],
         cmd'[p] = "install" /\ pc'[p] \in {"matched", "rescan", "bind", "bverify", "commit"}
           => device = Desired(original[cur'[p]]),
         Restoring(p)' /\ pc'[p] \in {"matched", "rolledback"}
           => device = original[cur'[p]]
  PROVE  DeviceMatches'
  BY DEF DeviceMatches, Restoring, disk

\* The steps that neither change a tree nor compare the device with one.
LEMMA OtherStepsMatch ==
  ASSUME TypeOK, Roles, DeviceMatches, NEW p \in Proc,
         \/ PureLog(p) \/ MayLog(p) \/ Start(p) \/ Crash(p)
         \/ NoLog(p) /\ UNCHANGED disk /\ ~Readback(p)
  PROVE  DeviceMatches'
  <1>1. UNCHANGED disk
    BY DEF PureLog, MayLog, Log, Begin, Probe, BackupVerified, PlanReady,
           Place, Placed, Matched, BindingVerified, Commit, RestoreStarted,
           RolledBack, Fail, Resolve, BackupProbe, Rescan, Bind, Mark, Handler,
           Start, StartInstall, StartUnlocked, StartRestore, StartNamed, Crash
  <1>2. \A q \in Proc : q # p => /\ pc'[q] = pc[q]
                                 /\ cmd'[q] = cmd[q]
                                 /\ cur'[q] = cur[q]
    <2> USE DEF TypeOK, Goto, Continue, Quit, Allocate
    <2>1. CASE PureLog(p)
      BY <2>1 DEF PureLog, Log, transition, Begin, Probe, BackupVerified,
             PlanReady, Place, Placed, Matched, BindingVerified, Commit,
             RestoreStarted, RolledBack, Fail
    <2>2. CASE MayLog(p)
      BY <2>2 DEF MayLog, Log, transition, Resolve, BackupProbe, Rescan, Bind,
             Mark, Handler
    <2>3. CASE NoLog(p)
      BY <2>3 DEF NoLog, Reject, Acquire, ExportTree, SecondRead, Wipe, Copy,
             Readback, Latest, Select, Open, RefuseIdentity, Raise, Release
    <2>4. CASE Start(p) \/ Crash(p)
      BY <2>4 DEF Start, StartInstall, StartUnlocked, StartRestore,
             StartNamed, Crash
    <2> QED
      BY <2>1, <2>2, <2>3, <2>4
  <1>3. /\ cmd'[p] = "install" /\ pc'[p] \in {"matched", "rescan", "bind", "bverify", "commit"}
             => /\ cmd[p] = "install" /\ cur'[p] = cur[p]
                /\ pc[p] \in {"matched", "rescan", "bind", "bverify", "commit"}
        /\ Restoring(p)' /\ pc'[p] \in {"matched", "rolledback"}
             => Restoring(p) /\ cur'[p] = cur[p] /\ pc[p] \in {"matched", "rolledback"}
    <2> USE DEF TypeOK, Goto, Continue, Quit, Allocate, Restoring
    <2>1. CASE PureLog(p)
      BY <2>1 DEF PureLog, Log, transition, Begin, Probe, BackupVerified,
             PlanReady, Place, Placed, Matched, BindingVerified, Commit,
             RestoreStarted, RolledBack, Fail
    <2>2. CASE MayLog(p)
      BY <2>2 DEF MayLog, Log, transition, Resolve, BackupProbe, Rescan, Bind,
             Mark, Handler
    <2>3. CASE NoLog(p) /\ ~Readback(p)
      BY <2>3 DEF NoLog, Reject, Acquire, ExportTree, SecondRead, Wipe, Copy,
             Latest, Select, Open, RefuseIdentity, Raise, Release
    <2>4. CASE Start(p) \/ Crash(p)
      BY <2>4 DEF Start, StartInstall, StartUnlocked, StartRestore,
             StartNamed, Crash
    <2> QED
      BY <2>1, <2>2, <2>3, <2>4
  <1> QED
    BY <1>1, <1>2, <1>3, SameTreesMatch DEF DeviceMatches

\* Only the holder of the lock changes the device.
LEMMA PlacingHoldsLock ==
  ASSUME TypeOK, Roles, HoldsLock, NEW p \in Proc, pc[p] \in {"wipe", "copy"}
  PROVE  lock = p /\ TakesLock(cmd[p])
  <1>1. TakesLock(cmd[p])
    BY DEF Roles, TypeOK, Command, TakesLock, Restoring
  <1> QED
    BY <1>1 DEF HoldsLock, Outside

LEMMA PlacingMatches ==
  ASSUME TypeOK, Roles, HoldsLock, DeviceMatches, NEW p \in Proc,
         Wipe(p) \/ Copy(p)
  PROVE  DeviceMatches'
  <1>1. pc[p] \in {"wipe", "copy"} /\ UNCHANGED <<original, cmd, cur>>
        /\ pc'[p] \notin {"matched", "rescan", "bind", "bverify", "commit", "rolledback"}
        /\ \A q \in Proc : q # p => pc'[q] = pc[q]
    BY DEF Wipe, Copy, Continue, Goto, TypeOK
  <1>2. lock = p
    BY <1>1, PlacingHoldsLock
  <1>3. ASSUME NEW q \in Proc, q # p
        PROVE  /\ cmd[q] = "install" => pc[q] \notin {"matched", "rescan", "bind", "bverify", "commit"}
               /\ Restoring(q) => pc[q] \notin {"matched", "rolledback"}
    BY <1>2, <1>3 DEF HoldsLock, TakesLock, Outside, Restoring
  <1> QED
    BY <1>1, <1>3 DEF DeviceMatches, Restoring

\* The first export is made before the backup is verified: no other process
\* has a verified backup of the same transaction to match.
LEMMA ExportMatches ==
  ASSUME TypeOK, Roles, FreshIds, Backups, DeviceMatches, NEW p \in Proc,
         ExportTree(p)
  PROVE  DeviceMatches'
  <1>1. /\ Creator(p) /\ ~mem[p].backup /\ cur[p] \in Tx
        /\ UNCHANGED <<device, cmd, cur>>
        /\ pc'[p] \in {"read2", "fail"}
        /\ \A q \in Proc : q # p => pc'[q] = pc[q]
        /\ \A i \in Tx : i # cur[p] => original'[i] = original[i]
    BY HasTx DEF ExportTree, Continue, Goto, TypeOK, Roles, Command, Restoring,
           Creator, Backups, Unbacked, NoTx, Tx
  <1>2. ~journal[cur[p]].backup
    BY <1>1 DEF Backups
  <1>3. ASSUME NEW q \in Proc, q # p, pc[q] \in Backed
        PROVE  cur[q] \in Tx /\ cur[q] # cur[p]
    <2>1. cur[q] # 0 /\ journal[cur[q]].backup
      BY <1>3 DEF Backups
    <2> QED
      BY <1>2, <2>1 DEF TypeOK, Tx
  <1>4. ASSUME NEW q \in Proc, q # p, pc[q] \in Backed
        PROVE  original'[cur[q]] = original[cur[q]]
    BY <1>1, <1>3, <1>4
  <1> QED
    BY <1>1, <1>4 DEF DeviceMatches, Restoring, Backed

LEMMA ReadbackMatches ==
  ASSUME TypeOK, Roles, DeviceMatches, NEW p \in Proc, Readback(p)
  PROVE  DeviceMatches'
  <1>1. /\ UNCHANGED <<disk, cmd, cur>>
        /\ \A q \in Proc : q # p => pc'[q] = pc[q]
        /\ (pc'[p] = "matched" /\ device = Target(p)) \/ pc'[p] = "fail"
    BY DEF Readback, Continue, Goto, TypeOK
  <1> QED
    BY <1>1, SameTreesMatch DEF Target, Restoring

LEMMA NextDeviceMatches ==
  IInv /\ [Next]_vars => DeviceMatches'
  <1> SUFFICES ASSUME IInv, [Next]_vars PROVE DeviceMatches'
    OBVIOUS
  <1> USE DEF IInv
  <1>1. CASE UNCHANGED vars
    BY <1>1 DEF vars, disk, local, DeviceMatches, Restoring
  <1>2. ASSUME NEW p \in Proc, Step(p) PROVE DeviceMatches'
    <2>1. CASE Wipe(p) \/ Copy(p)
      BY <2>1, PlacingMatches
    <2>2. CASE ExportTree(p)
      BY <2>2, ExportMatches
    <2>3. CASE Readback(p)
      BY <2>3, ReadbackMatches
    <2>4. CASE NoLog(p) /\ ~Wipe(p) /\ ~Copy(p) /\ ~ExportTree(p) /\ ~Readback(p)
      <3>1. UNCHANGED disk
        BY <2>4 DEF NoLog, Reject, Acquire, SecondRead, Latest, Select, Open,
               RefuseIdentity, Raise, Release
      <3> QED
        BY <2>4, <3>1, OtherStepsMatch
    <2>5. CASE PureLog(p) \/ MayLog(p)
      BY <2>5, OtherStepsMatch
    <2> QED
      BY <1>2, <2>1, <2>2, <2>3, <2>4, <2>5, StepCases DEF NoLog
  <1>3. ASSUME NEW p \in Proc, Start(p) \/ Crash(p) PROVE DeviceMatches'
    BY <1>3, OtherStepsMatch
  <1> QED
    BY <1>1, <1>2, <1>3 DEF Next

-----------------------------------------------------------------------------
(***************************************************************************)
(* The invariant, and what follows from it                                 *)
(***************************************************************************)

\* The inductive invariant.
THEOREM Invariance == Spec => []IInv
  <1>1. Init => IInv
    BY InitTypeOK, InitRoles, InitFreshIds, InitRecords DEF IInv
  <1>2. IInv /\ [Next]_vars => IInv'
    BY NextTypeOK, NextRoles, NextHoldsLock, NextFreshIds, NextRecords,
       NextBackups, NextDeviceMatches DEF IInv
  <1> QED
    BY <1>1, <1>2, PTL DEF Spec

\* Which step writes a given state: COMMITTED and ROLLED_BACK have one each.
LEMMA FinalStates ==
  ASSUME TypeOK, [Next]_vars, NEW i \in Tx,
         journal'[i].state # journal[i].state,
         journal'[i].state \in {"COMMITTED", "ROLLED_BACK"}
  PROVE  \E p \in Proc :
           /\ cur[p] = i
           /\ \/ journal'[i].state = "COMMITTED" /\ Commit(p)
              \/ journal'[i].state = "ROLLED_BACK" /\ RolledBack(p)
  <1>1. ASSUME NEW p \in Proc, NEW from, NEW s, NEW to, from \notin NoTx,
               Log(p, from, s, to)
        PROVE  cur[p] = i /\ journal'[i].state = s
    <2>1. cur[p] \in Tx
      BY <1>1, HasTx DEF Log
    <2>2. Appended(mem[p], s).state = s
      BY DEF Appended
    <2> QED
      BY <1>1, <2>1, <2>2 DEF Log, transition, TypeOK
  <1>2. journal' # journal
    OBVIOUS
  <1>3. PICK p \in Proc : PureLog(p) \/ MayLog(p)
    BY <1>2, StepCases
       DEF vars, Next, Start, StartInstall, StartUnlocked, StartRestore,
           StartNamed, Crash, NoLog, Reject, Acquire, ExportTree, SecondRead,
           Wipe, Copy, Readback, Latest, Select, Open, RefuseIdentity, Raise,
           Release, Continue
  <1>4. FailTarget(mem[p]) \notin {"COMMITTED", "ROLLED_BACK"}
    BY DEF FailTarget
  <1>5. ~MayLog(p)
    BY <1>1, <1>2, <1>4
       DEF MayLog, Resolve, BackupProbe, Rescan, Bind, Mark, Handler, Continue,
           NoTx
  <1>6. Commit(p) \/ RolledBack(p)
    BY <1>1, <1>3, <1>4, <1>5
       DEF PureLog, Begin, Probe, BackupVerified, PlanReady, Place, Placed,
           Matched, BindingVerified, RestoreStarted, Fail, NoTx
  <1> QED
    BY <1>1, <1>6 DEF Commit, RolledBack, NoTx

\* A journal becomes COMMITTED only while the device holds the desired tree
\* of its verified backup.
THEOREM CommittedIsInstalled == Spec => CommitMatches
  <1> DEFINE A == \A i \in Tx :
                    journal[i].state # "COMMITTED" /\ journal'[i].state = "COMMITTED"
                      => journal[i].backup /\ device = Desired(original[i])
  <1>1. IInv /\ [Next]_vars => [A]_vars
    <2> SUFFICES ASSUME IInv, [Next]_vars, NEW i \in Tx,
                        journal[i].state # "COMMITTED",
                        journal'[i].state = "COMMITTED"
                 PROVE  journal[i].backup /\ device = Desired(original[i])
      OBVIOUS
    <2>1. PICK p \in Proc : cur[p] = i /\ Commit(p)
      BY FinalStates DEF IInv
    <2>2. pc[p] = "commit" /\ cmd[p] = "install"
      BY <2>1 DEF Commit, Log, IInv, TypeOK, Command, Roles, Restoring
    <2> QED
      BY <2>1, <2>2 DEF IInv, DeviceMatches, Backups, Backed
  <1> QED
    BY Invariance, <1>1, PTL DEF Spec, CommitMatches

\* A journal becomes ROLLED_BACK only while the device holds its original tree.
THEOREM RolledBackIsRestored == Spec => RollbackExact
  <1> DEFINE A == \A i \in Tx :
                    journal[i].state # "ROLLED_BACK" /\ journal'[i].state = "ROLLED_BACK"
                      => journal[i].backup /\ device = original[i]
  <1>1. IInv /\ [Next]_vars => [A]_vars
    <2> SUFFICES ASSUME IInv, [Next]_vars, NEW i \in Tx,
                        journal[i].state # "ROLLED_BACK",
                        journal'[i].state = "ROLLED_BACK"
                 PROVE  journal[i].backup /\ device = original[i]
      OBVIOUS
    <2>1. PICK p \in Proc : cur[p] = i /\ RolledBack(p)
      BY FinalStates DEF IInv
    <2>2. pc[p] = "rolledback" /\ Restoring(p)
      BY <2>1 DEF RolledBack, Log, IInv, TypeOK, Command, Roles, Restoring
    <2> QED
      BY <2>1, <2>2 DEF IInv, DeviceMatches, Backups, Backed
  <1> QED
    BY Invariance, <1>1, PTL DEF Spec, RollbackExact

-----------------------------------------------------------------------------
(***************************************************************************)
(* Who writes what                                                         *)
(***************************************************************************)

\* A journal that a step of q changes is that of its transaction.
LEMMA StepWrites ==
  ASSUME TypeOK, NEW q \in Proc, Start(q) \/ Step(q) \/ Crash(q)
  PROVE  /\ \A i \in Tx : i # cur[q] => journal'[i] = journal[i]
         /\ \/ journal' = journal
            \/ PureLog(q) \/ MayLog(q)
         /\ \A r \in Proc : r # q => pc'[r] = pc[r] /\ cur'[r] = cur[r]
  <1> USE DEF TypeOK, Goto, Continue, Quit, Allocate
  <1>1. CASE PureLog(q)
    BY <1>1 DEF PureLog, Log, transition, Begin, Probe, BackupVerified,
             PlanReady, Place, Placed, Matched, BindingVerified, Commit,
             RestoreStarted, RolledBack, Fail
  <1>2. CASE MayLog(q)
    BY <1>2 DEF MayLog, Log, transition, Resolve, BackupProbe, Rescan, Bind,
             Mark, Handler
  <1>3. CASE NoLog(q)
    BY <1>3 DEF NoLog, Reject, Acquire, ExportTree, SecondRead, Wipe, Copy,
             Readback, Latest, Select, Open, RefuseIdentity, Raise, Release
  <1>4. CASE Start(q) \/ Crash(q)
    BY <1>4 DEF Start, StartInstall, StartUnlocked, StartRestore,
             StartNamed, Crash
  <1> QED
    BY <1>1, <1>2, <1>3, <1>4, StepCases
=============================================================================
