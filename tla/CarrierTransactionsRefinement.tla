-------------------- MODULE CarrierTransactionsRefinement --------------------
(***************************************************************************)
(* CarrierTransactions implements what is promised of it: it uses the lock *)
(* as DeviceLock allows, and its journals and its device are those of      *)
(* TreeReplacement.  The second holds as long as no dry run runs together  *)
(* with another command (DryRunsAlone).                                    *)
(***************************************************************************)
EXTENDS CarrierTransactionsProofs

-----------------------------------------------------------------------------
(***************************************************************************)
(* The lock                                                                *)
(***************************************************************************)

\* The lock file names only a process in its locked region: with HoldsLock,
\* which is the converse, the region is empty or that of the owner.
OwnerInside == \A p \in Proc : lock = p => InLockedRegion(p)

LEMMA InitOwnerInside == Init => OwnerInside
  BY ConstantAssumption DEF Init, OwnerInside, ConstantAssumption

\* The steps that neither take nor free the lock leave the region as it is.
LEMMA SameRegion ==
  ASSUME TypeOK, Roles, NEW p \in Proc,
         \/ PureLog(p) \/ MayLog(p) \/ Start(p)
         \/ NoLog(p) /\ ~Acquire(p) /\ ~Release(p)
  PROVE  /\ lock' = lock
         /\ \A q \in Proc : InLockedRegion(q)' <=> InLockedRegion(q)
  <1> USE DEF TypeOK, Goto, Continue, Quit, InLockedRegion, TakesLock, Outside
  <1>1. CASE PureLog(p)
    BY <1>1 DEF PureLog, Log, transition, Begin, Probe, BackupVerified,
                PlanReady, Place, Placed, Matched, BindingVerified, Commit,
                RestoreStarted, RolledBack, Fail
  <1>2. CASE MayLog(p)
    BY <1>2 DEF MayLog, Log, transition, Resolve, BackupProbe, Rescan, Bind,
                Mark, Handler
  <1>3. CASE Reject(p) \/ ExportTree(p) \/ SecondRead(p) \/ Latest(p)
    BY <1>3 DEF Reject, ExportTree, SecondRead, Latest
  <1>4. CASE Wipe(p) \/ Copy(p) \/ Readback(p)
    BY <1>4 DEF Wipe, Copy, Readback
  <1>5. CASE Select(p) \/ Open(p)
    BY <1>5 DEF Select, Open, RefuseIdentity, Roles, Restoring
  <1>6. CASE Raise(p)
    BY <1>6 DEF Raise, CallLabels, WriteLabels
  <1>7. CASE Start(p)
    BY <1>7 DEF Start, StartInstall, StartUnlocked, StartRestore, StartNamed
  <1> QED
    BY <1>1, <1>2, <1>3, <1>4, <1>5, <1>6, <1>7 DEF NoLog

\* Only the commands that take the lock come to "acquire".
LEMMA AcquirersTakeLock ==
  ASSUME TypeOK, Roles, NEW p \in Proc, pc[p] = "acquire"
  PROVE  TakesLock(cmd[p])
  BY DEF TypeOK, Roles, Command, TakesLock, Restoring

LEMMA NextOwnerInside ==
  ASSUME TypeOK, Roles, HoldsLock, OwnerInside, [Next]_vars
  PROVE  OwnerInside'
  <1>1. CASE UNCHANGED vars
    BY <1>1 DEF vars, local, OwnerInside, InLockedRegion
  <1>2. ASSUME NEW p \in Proc,
               \/ PureLog(p) \/ MayLog(p) \/ Start(p)
               \/ NoLog(p) /\ ~Acquire(p) /\ ~Release(p)
        PROVE  OwnerInside'
    BY <1>2, SameRegion DEF OwnerInside
  <1>3. ASSUME NEW p \in Proc, Acquire(p) PROVE OwnerInside'
    <2>1. TakesLock(cmd[p]) /\ lock # p
      BY <1>3, AcquirersTakeLock DEF Acquire, OwnerInside, InLockedRegion, Outside
    <2> QED
      BY <1>3, <2>1, ConstantAssumption
         DEF Acquire, Continue, Quit, Goto, TypeOK, OwnerInside,
             InLockedRegion, Outside, ConstantAssumption
  <1>4. ASSUME NEW p \in Proc, Release(p) \/ Crash(p) PROVE OwnerInside'
    BY <1>4, ConstantAssumption
       DEF Release, Crash, Quit, Goto, TypeOK, OwnerInside, InLockedRegion,
           Outside, ConstantAssumption
  <1> QED
    BY <1>1, <1>2, <1>3, <1>4, StepCases DEF Next, NoLog

\* The processes in their locked region.
Inside == {p \in Proc : InLockedRegion(p)}

LEMMA InitLock == Init => Lock!Init
  BY ConstantAssumption
     DEF Init, Lock!Init, InLockedRegion, TakesLock, ConstantAssumption

LEMMA SameRegionStutters ==
  ASSUME lock' = lock,
         \A q \in Proc : InLockedRegion(q)' <=> InLockedRegion(q)
  PROVE  UNCHANGED Lock!vars
  BY DEF Lock!vars

\* Taking the lock, with nobody inside, is Enter.
LEMMA AcquireEnters ==
  ASSUME TypeOK, Roles, HoldsLock, OwnerInside, NEW p \in Proc, Acquire(p)
  PROVE  [Lock!Next]_(Lock!vars)
  <1>1. TakesLock(cmd[p]) /\ lock # p /\ pc[p] = "acquire"
    BY AcquirersTakeLock DEF Acquire, OwnerInside, InLockedRegion, Outside
  <1>2. CASE Quit(p) /\ UNCHANGED lock
    <2>1. \A q \in Proc : InLockedRegion(q)' <=> InLockedRegion(q)
      BY <1>1, <1>2
         DEF Quit, Goto, TypeOK, InLockedRegion, Outside, TakesLock
    <2> QED
      BY <1>2, <2>1, SameRegionStutters
  <1>3. CASE /\ lock \in {NoLock, Dead} /\ lock' = p
             /\ Continue(p, IF Restoring(p) THEN "rstart" ELSE "begin")
    <2>1. \A q \in Proc : ~InLockedRegion(q)
      BY <1>3, ConstantAssumption
         DEF HoldsLock, InLockedRegion, ConstantAssumption
    <2>2. \A q \in Proc : InLockedRegion(q)' <=> q = p
      BY <1>1, <1>3, <2>1
         DEF Continue, Goto, TypeOK, InLockedRegion, Outside
    <2>3. lock' # Dead
      BY <1>3, ConstantAssumption DEF ConstantAssumption
    <2>4. Inside = {} /\ Inside' = {p}
      BY <2>1, <2>2 DEF Inside
    <2>5. Lock!Enter(p)
      BY <2>3, <2>4 DEF Lock!Enter, Inside
    <2> QED
      BY <2>5 DEF Lock!Next
  <1> QED
    BY <1>2, <1>3 DEF Acquire

\* A command returns, or is killed: it leaves the region, or was not in it.
LEMMA EndLeaves ==
  ASSUME TypeOK, Roles, HoldsLock, OwnerInside, NEW p \in Proc,
         Release(p) \/ Crash(p)
  PROVE  [Lock!Next]_(Lock!vars)
  <1>1. /\ ~InLockedRegion(p)'
        /\ \A q \in Proc : q # p => (InLockedRegion(q)' <=> InLockedRegion(q))
    BY DEF Release, Crash, Quit, Goto, TypeOK, InLockedRegion, Outside
  <1>2. CASE InLockedRegion(p)
    <2>1. \A q \in Proc : InLockedRegion(q) <=> q = p
      BY <1>2 DEF HoldsLock, InLockedRegion
    <2>2. Inside = {p} /\ Inside' = {}
      BY <1>1, <2>1 DEF Inside
    <2>3. Lock!Leave(p)
      BY <2>2 DEF Lock!Leave, Inside
    <2> QED
      BY <2>3 DEF Lock!Next
  <1>3. CASE ~InLockedRegion(p)
    <2>1. lock' = lock
      BY <1>3 DEF Release, Crash, OwnerInside, InLockedRegion, Outside
    <2> QED
      BY <1>1, <1>3, <2>1, SameRegionStutters
  <1> QED
    BY <1>2, <1>3

LEMMA NextImplementsLock ==
  IInv /\ OwnerInside /\ [Next]_vars => [Lock!Next]_(Lock!vars)
  <1> SUFFICES ASSUME IInv, OwnerInside, [Next]_vars
               PROVE  [Lock!Next]_(Lock!vars)
    OBVIOUS
  <1> USE DEF IInv
  <1>1. CASE UNCHANGED vars
    BY <1>1 DEF vars, local, Lock!vars, InLockedRegion
  <1>2. ASSUME NEW p \in Proc,
               \/ PureLog(p) \/ MayLog(p) \/ Start(p)
               \/ NoLog(p) /\ ~Acquire(p) /\ ~Release(p)
        PROVE  [Lock!Next]_(Lock!vars)
    BY <1>2, SameRegion, SameRegionStutters
  <1> QED
    BY <1>1, <1>2, AcquireEnters, EndLeaves, StepCases DEF Next, NoLog

\* The commands keep to the lock, whichever run together and are killed: no
\* two are between acquire() and release_lock(), and none frees another's.
THEOREM LockKeptTo == Spec => ImplementsDeviceLock
  <1>1. IInv /\ OwnerInside /\ [Next]_vars => OwnerInside'
    BY NextOwnerInside DEF IInv
  <1> QED
    BY Invariance, InitOwnerInside, InitLock, <1>1, NextImplementsLock, PTL
       DEF Spec, ImplementsDeviceLock, Lock!Spec

-----------------------------------------------------------------------------
(***************************************************************************)
(* How far a transaction is on disk, seen by those who may write it        *)
(***************************************************************************)

\* A dry run at "plan" is a second writer of a journal that another command
\* may be restoring (run "dry_run"): there are none, or only one command at a
\* time.
DryRunsAlone == "plan" \notin Ops \/ \A p, q \in Proc : p = q

\* Before a command has a transaction's journal open, its memory is empty.
FreshMemory ==
  \A p \in Proc : pc[p] \in NoTx \cup {"open"} => mem[p] = NewJournal

\* The command "backup" fails only before it has a verified backup.
BackupUnlogged ==
  \A p \in Proc : cmd[p] = "backup" /\ pc[p] = "fail" => ~mem[p].backup

\* The states before a placement, and the labels an installation or a dry run
\* goes through in them.
Early == PreBackup \cup {"BACKUP_VERIFIED", "DESIRED_TREE_READY"}

EarlyLabels ==
  { "acquire", "begin", "probe", "resolve", "bprobe", "read1", "read2",
    "backed", "plan", "place" }

Prepares(p) == cmd[p] \in {"install", "plan"} /\ pc[p] \in EarlyLabels

\* Nobody can have marked a transaction before its placement: no other process
\* has a later view of it than its own command.
EarlyInv ==
  \A p \in Proc : Prepares(p) =>
    /\ journal[cur[p]].state \in Early
    /\ \A q \in Proc : q # p /\ cur[q] = cur[p] => mem[q].state \in Early

\* From the first change of the device to the end.
Placing ==
  { "wipe", "copy", "placed", "readback", "matched", "rescan", "bind",
    "bverify", "commit", "rolledback" }

\* Meanwhile the transaction stays open or settled on disk, whoever marks it.
PlacingInv ==
  \A p \in Proc :
    /\ pc[p] \in Placing => PhaseOf(journal[cur[p]]) \in {"open", "settled"}
    /\ pc[p] \in {"wipe", "copy"} => PhaseOf(journal[cur[p]]) = "open"

NoDryRuns == "plan" \notin Ops => \A p \in Proc : cmd[p] # "plan"

PhaseInv == NoDryRuns /\ FreshMemory /\ BackupUnlogged /\ EarlyInv /\ PlacingInv

LEMMA InitPhaseInv == Init => PhaseInv
  BY DEF Init, PhaseInv, NoDryRuns, FreshMemory, BackupUnlogged, EarlyInv,
         Prepares, PlacingInv, Placing

LEMMA NextNoDryRuns ==
  ASSUME TypeOK, NoDryRuns, [Next]_vars
  PROVE  NoDryRuns'
  <1> USE DEF TypeOK, NoDryRuns, Goto, Continue, Quit
  <1>1. CASE UNCHANGED vars
    BY <1>1 DEF vars, local
  <1>2. ASSUME NEW p \in Proc, PureLog(p) \/ MayLog(p) PROVE NoDryRuns'
    BY <1>2 DEF PureLog, MayLog, Log, transition, Begin, Probe, BackupVerified,
                PlanReady, Place, Placed, Matched, BindingVerified, Commit,
                RestoreStarted, RolledBack, Fail, Resolve, BackupProbe, Rescan,
                Bind, Mark, Handler
  <1>3. ASSUME NEW p \in Proc, NoLog(p) PROVE NoDryRuns'
    BY <1>3 DEF NoLog, Reject, Acquire, ExportTree, SecondRead, Wipe, Copy,
                Readback, Latest, Select, Open, RefuseIdentity, Raise, Release
  <1>4. ASSUME NEW p \in Proc, Start(p) \/ Crash(p) PROVE NoDryRuns'
    BY <1>4 DEF Start, StartInstall, StartUnlocked, StartRestore, StartNamed,
                Crash
  <1> QED
    BY <1>1, <1>2, <1>3, <1>4, StepCases DEF Next

LEMMA NextFreshMemory ==
  ASSUME TypeOK, Roles, FreshMemory, [Next]_vars
  PROVE  FreshMemory'
  <1> USE DEF TypeOK, FreshMemory, NoTx, Goto, Continue, Quit
  <1>1. CASE UNCHANGED vars
    BY <1>1 DEF vars, local
  <1>2. ASSUME NEW p \in Proc, PureLog(p) PROVE FreshMemory'
    BY <1>2 DEF PureLog, Log, transition, Begin, Probe, BackupVerified,
                PlanReady, Place, Placed, Matched, BindingVerified, Commit,
                RestoreStarted, RolledBack, Fail
  <1>3. ASSUME NEW p \in Proc, MayLog(p) PROVE FreshMemory'
    BY <1>3 DEF MayLog, Log, transition, Resolve, BackupProbe, Rescan, Bind,
                Mark, Handler
  <1>4. ASSUME NEW p \in Proc, NoLog(p) PROVE FreshMemory'
    <2>1. CASE Reject(p) \/ Acquire(p) \/ ExportTree(p) \/ SecondRead(p)
      BY <2>1 DEF Reject, Acquire, ExportTree, SecondRead
    <2>2. CASE Wipe(p) \/ Copy(p) \/ Readback(p) \/ Raise(p)
      BY <2>2 DEF Wipe, Copy, Readback, Raise
    <2>3. CASE Latest(p) \/ Select(p) \/ Open(p) \/ Release(p)
      BY <2>3 DEF Latest, Select, Open, RefuseIdentity, Release
    <2> QED
      BY <1>4, <2>1, <2>2, <2>3 DEF NoLog
  <1>5. ASSUME NEW p \in Proc, Start(p) \/ Crash(p) PROVE FreshMemory'
    BY <1>5 DEF Start, StartInstall, StartUnlocked, StartRestore, StartNamed,
                Crash
  <1> QED
    BY <1>1, <1>2, <1>3, <1>4, <1>5, StepCases DEF Next

LEMMA NextBackupUnlogged ==
  ASSUME IInv, BackupUnlogged, [Next]_vars
  PROVE  BackupUnlogged'
  <1> USE DEF IInv, TypeOK, BackupUnlogged, Goto, Continue, Quit, Unbacked
  <1>1. CASE UNCHANGED vars
    BY <1>1 DEF vars, local
  <1>2. ASSUME NEW p \in Proc, PureLog(p) PROVE BackupUnlogged'
    BY <1>2 DEF PureLog, Log, transition, Begin, Probe, BackupVerified,
                PlanReady, Place, Placed, Matched, BindingVerified, Commit,
                RestoreStarted, RolledBack, Fail
  <1>3. ASSUME NEW p \in Proc, MayLog(p) PROVE BackupUnlogged'
    BY <1>3 DEF MayLog, Log, transition, Resolve, BackupProbe, Rescan, Bind,
                Mark, Handler, Backups, Roles
  <1>4. ASSUME NEW p \in Proc, NoLog(p) PROVE BackupUnlogged'
    <2>1. CASE Reject(p) \/ Acquire(p) \/ Latest(p) \/ Select(p) \/ Release(p)
      BY <2>1 DEF Reject, Acquire, Latest, Select, Release
    <2>2. CASE ExportTree(p) \/ SecondRead(p)
      BY <2>2 DEF ExportTree, SecondRead, Backups
    <2>3. CASE Wipe(p) \/ Copy(p) \/ Readback(p) \/ Raise(p)
      BY <2>3 DEF Wipe, Copy, Readback, Raise, Roles
    <2>4. CASE Open(p)
      BY <2>4 DEF Open, RefuseIdentity
    <2> QED
      BY <1>4, <2>1, <2>2, <2>3, <2>4 DEF NoLog
  <1>5. ASSUME NEW p \in Proc, Start(p) \/ Crash(p) PROVE BackupUnlogged'
    BY <1>5 DEF Start, StartInstall, StartUnlocked, StartRestore, StartNamed,
                Crash
  <1> QED
    BY <1>1, <1>2, <1>3, <1>4, <1>5, StepCases DEF Next

\* A step leaves the others' memory alone.  The memory it leaves its process
\* with is that of before, what is on disk, or none.
LEMMA StepMemory ==
  ASSUME TypeOK, NEW q \in Proc, Start(q) \/ Step(q) \/ Crash(q)
  PROVE  /\ \A r \in Proc : r # q => cmd'[r] = cmd[r] /\ mem'[r] = mem[r]
         /\ \/ mem'[q] = mem[q] /\ (cur'[q] = cur[q] \/ pc[q] \in NoTx)
            \/ cur'[q] = cur[q] /\ mem'[q] = journal'[cur[q]]
            \/ cur'[q] = 0
  <1> USE DEF TypeOK, Goto, Continue, Quit, Allocate, NoTx
  <1>1. ASSUME NEW from, NEW t, NEW to, from \notin NoTx, Log(q, from, t, to)
        PROVE  /\ \A r \in Proc : r # q => cmd'[r] = cmd[r] /\ mem'[r] = mem[r]
               /\ cur'[q] = cur[q] /\ mem'[q] = journal'[cur[q]]
    BY <1>1, HasTx DEF Log, transition
  <1>2. CASE PureLog(q)
    BY <1>1, <1>2 DEF PureLog, Begin, Probe, BackupVerified, PlanReady, Place,
             Placed, Matched, BindingVerified, Commit, RestoreStarted,
             RolledBack, Fail
  <1>3. CASE MayLog(q)
    BY <1>1, <1>3 DEF MayLog, Resolve, BackupProbe, Rescan, Bind, Mark, Handler
  <1>4. CASE NoLog(q)
    BY <1>4 DEF NoLog, Reject, Acquire, ExportTree, SecondRead, Wipe, Copy,
             Readback, Latest, Select, Open, RefuseIdentity, Raise, Release
  <1>5. CASE Start(q) \/ Crash(q)
    BY <1>5 DEF Start, StartInstall, StartUnlocked, StartRestore, StartNamed,
             Crash
  <1> QED
    BY <1>2, <1>3, <1>4, <1>5, StepCases

\* A process with a verified backup in memory, or in its locked region, has
\* the lock or a backup on disk.
LEMMA PlacingOwns ==
  ASSUME IInv, NEW p \in Proc, pc[p] \in Placing
  PROVE  lock = p /\ cmd[p] \in {"install", "restore", "recover"} /\ journal[cur[p]].backup
  <1>1. TakesLock(cmd[p]) /\ cmd[p] \in {"install", "restore", "recover"}
    BY DEF IInv, TypeOK, Roles, Command, TakesLock, Restoring, Placing
  <1> QED
    BY <1>1 DEF IInv, HoldsLock, Backups, Backed, Outside, Placing

\* The transaction a command prepares or places is written by nobody else,
\* except that mark-recovery may mark it.
LEMMA OnlyMark ==
  ASSUME IInv, PhaseInv, DryRunsAlone, NEW p \in Proc, NEW q \in Proc, p # q,
         Prepares(p) \/ pc[p] \in Placing, cur[q] = cur[p],
         PureLog(q) \/ MayLog(q)
  PROVE  journal' = journal \/ Log(q, "mark", "RECOVERY_REQUIRED", "release")
  <1>1. pc[q] \notin NoTx \cup {"open", "acquire", "release"}
    BY DEF PureLog, MayLog, Log, Begin, Probe, BackupVerified, PlanReady,
           Place, Placed, Matched, BindingVerified, Commit, RestoreStarted,
           RolledBack, Fail, Resolve, BackupProbe, Rescan, Bind, Mark, Handler,
           NoTx
  <1>2. cmd[q] # "plan" /\ cmd[p] # "plan"
    BY DEF DryRunsAlone, PhaseInv, NoDryRuns
  <1>3. TakesLock(cmd[q]) => lock = q
    BY <1>1 DEF IInv, HoldsLock, Outside, NoTx
  <1>4. Prepares(p) => Creator(p)
    BY HasTx DEF IInv, TypeOK, Prepares, Creator, EarlyLabels, NoTx
  <1>5. cmd[q] \in {"install", "backup"} => Creator(q)
    BY <1>1 DEF IInv, TypeOK, Creator, NoTx
  <1>6. cmd[q] # "install"
    BY <1>3, <1>4, <1>5, PlacingOwns DEF IInv, FreshIds, TakesLock
  <1>7. cmd[q] # "backup"
    <2> SUFFICES ASSUME cmd[q] = "backup" PROVE FALSE
      OBVIOUS
    <2>1. pc[p] \in Placing
      BY <1>4, <1>5 DEF IInv, FreshIds
    <2>2. mem[q].backup
      BY <1>5, <2>1, PlacingOwns DEF IInv, Backups
    <2> QED
      BY <1>1, <2>2 DEF IInv, Roles, Backups, Unbacked, PhaseInv, BackupUnlogged
  <1>8. ~Restoring(q)
    <2> SUFFICES ASSUME Restoring(q) PROVE FALSE
      OBVIOUS
    <2>1. lock = q /\ mem[q].backup /\ journal[cur[p]].backup
      <3>1. pc[q] \in Backed \cup {"fail"}
        BY <1>1 DEF IInv, Roles, Backed, NoTx
      <3> QED
        BY <1>3, <3>1 DEF IInv, Backups, TakesLock, Restoring
    <2>2. lock # p
      BY <2>1
    <2>3. pc[p] = "acquire" /\ Creator(p) /\ ~Restoring(p)
      BY <1>2, <1>4, <2>2, PlacingOwns
         DEF IInv, HoldsLock, Prepares, TakesLock, Outside, EarlyLabels,
             Restoring
    <2> QED
      BY <2>1, <2>3 DEF IInv, Backups
  <1>9. cmd[q] = "mark" /\ pc[q] = "mark"
    BY <1>1, <1>2, <1>6, <1>7, <1>8
       DEF IInv, TypeOK, Command, Restoring, Roles, NoTx
  <1> QED
    BY <1>9
       DEF PureLog, MayLog, Log, Begin, Probe, BackupVerified, PlanReady,
           Place, Placed, Matched, BindingVerified, Commit, RestoreStarted,
           RolledBack, Fail, Resolve, BackupProbe, Rescan, Bind, Mark, Handler,
           Continue

\* A command that prepares its transaction has just allocated it, or was
\* preparing it and writes no state from a placement on.
LEMMA PreparingSteps ==
  ASSUME TypeOK, Roles, NEW p \in Proc, Start(p) \/ Step(p) \/ Crash(p),
         Prepares(p)', ~StartUnlocked(p)
  PROVE  \/ Allocate(p) /\ journal' = journal /\ Incomplete = {}
         \/ /\ Prepares(p) /\ cur'[p] = cur[p] /\ cmd'[p] = cmd[p]
            /\ journal' = journal \/ journal'[cur[p]].state \in Early
  <1> USE DEF TypeOK, Goto, Continue, Quit, Prepares, EarlyLabels
  <1>1. ASSUME NEW from \in EarlyLabels, NEW t \in Early, NEW to,
               Log(p, from, t, to)
        PROVE  journal'[cur[p]].state \in Early /\ cur'[p] = cur[p]
               /\ cmd'[p] = cmd[p] /\ pc[p] = from
    BY <1>1, HasTx DEF Log, transition, Appended, NoTx
  <1>2. CASE PureLog(p)
    <2>1. \/ Begin(p) \/ Probe(p) \/ BackupVerified(p) \/ PlanReady(p)
      BY <1>2 DEF PureLog, Log, Begin, Probe, BackupVerified, PlanReady, Place,
             Placed, Matched, BindingVerified, Commit, RestoreStarted,
             RolledBack, Fail
    <2> QED
      BY <1>1, <2>1
         DEF Begin, Probe, BackupVerified, PlanReady, Early, PreBackup
  <1>3. CASE MayLog(p)
    <2>1. Resolve(p) \/ BackupProbe(p)
      BY <1>3 DEF MayLog, Log, Resolve, BackupProbe, Rescan, Bind, Mark, Handler
    <2> QED
      BY <1>1, <2>1 DEF Resolve, BackupProbe, Early, PreBackup
  <1>4. CASE NoLog(p)
    BY <1>4 DEF NoLog, Reject, Acquire, ExportTree, SecondRead, Wipe, Copy,
             Readback, Latest, Select, Open, RefuseIdentity, Raise, Release,
             Roles
  <1>5. CASE Start(p) \/ Crash(p)
    BY <1>5 DEF Start, StartInstall, StartRestore, StartNamed, Crash
  <1> QED
    BY <1>2, <1>3, <1>4, <1>5, StepCases

LEMMA NextEarlyInv ==
  ASSUME IInv, PhaseInv, DryRunsAlone, NEW r \in Proc,
         Start(r) \/ Step(r) \/ Crash(r)
  PROVE  EarlyInv'
  <1> SUFFICES ASSUME NEW p \in Proc, Prepares(p)'
               PROVE  /\ journal'[cur'[p]].state \in Early
                      /\ \A q \in Proc : q # p /\ cur'[q] = cur'[p]
                                           => mem'[q].state \in Early
    BY DEF EarlyInv
  <1> USE DEF IInv, PhaseInv
  <1>1. "NEW" \in Early
    BY DEF Early, PreBackup
  <1>2. CASE r = p
    <2>1. \A q \in Proc : q # p => cur'[q] = cur[q] /\ mem'[q] = mem[q]
      BY <1>2, StepWrites, StepMemory
    <2>2. CASE Allocate(p) /\ journal' = journal
      <3>1. cur'[p] = nextTx /\ nextTx \in Tx
        BY <2>2 DEF Allocate, TypeOK
      <3>2. journal[nextTx] = NewJournal /\ \A q \in Proc : cur[q] # nextTx
        BY <3>1 DEF FreshIds, TypeOK, Tx
      <3> QED
        BY <1>1, <2>1, <2>2, <3>1, <3>2 DEF NewJournal
    <2>3. CASE /\ Prepares(p) /\ cur'[p] = cur[p]
               /\ journal' = journal \/ journal'[cur[p]].state \in Early
      BY <2>1, <2>3 DEF EarlyInv
    <2>4. CASE StartUnlocked(p)
      BY <2>2, <2>4 DEF StartUnlocked
    <2> QED
      BY <1>2, <2>2, <2>3, <2>4, PreparingSteps
  <1>3. CASE r # p
    <2>1. /\ Prepares(p) /\ cur'[p] = cur[p] /\ cur[p] # 0
          /\ \A q \in Proc : q # r => cur'[q] = cur[q] /\ mem'[q] = mem[q]
      BY <1>3, StepWrites, StepMemory DEF Prepares, TypeOK, EarlyLabels
    <2>2. journal'[cur[p]] = journal[cur[p]]
      <3> SUFFICES ASSUME journal'[cur[p]] # journal[cur[p]] PROVE FALSE
        OBVIOUS
      <3>1. cur[p] \in Tx
        BY <2>1 DEF TypeOK, Tx
      <3>2. cur[r] = cur[p] /\ (PureLog(r) \/ MayLog(r))
        BY <3>1, StepWrites
      <3>3. Log(r, "mark", "RECOVERY_REQUIRED", "release")
        BY <1>3, <2>1, <3>2, OnlyMark
      <3>4. "RECOVERY_REQUIRED" \in ALLOWED_TRANSITIONS(mem[r].state)
        BY <3>3 DEF Log, transition
      <3>5. mem[r].state \in Early
        BY <1>3, <2>1, <3>2 DEF EarlyInv
      <3> QED
        BY <3>4, <3>5 DEF ALLOWED_TRANSITIONS, Early, PreBackup
    <2>3. journal'[cur'[p]].state \in Early
      BY <2>1, <2>2 DEF EarlyInv
    <2>4. ASSUME cur'[r] = cur'[p] PROVE mem'[r].state \in Early
      <3>1. CASE mem'[r] = mem[r] /\ cur'[r] = cur[r]
        BY <1>3, <2>1, <2>4, <3>1 DEF EarlyInv
      <3>2. CASE mem'[r] = mem[r] /\ pc[r] \in NoTx
        BY <1>1, <3>2 DEF FreshMemory, NewJournal
      <3>3. CASE cur'[r] = cur[r] /\ mem'[r] = journal'[cur[r]]
        BY <2>3, <2>4, <3>3
      <3> QED
        BY <2>1, <2>4, <3>1, <3>2, <3>3, StepMemory
    <2> QED
      BY <2>1, <2>3, <2>4 DEF EarlyInv
  <1> QED
    BY <1>2, <1>3

-----------------------------------------------------------------------------
(***************************************************************************)
(* The phases                                                              *)
(***************************************************************************)

\* The phases of journals with a verified backup.
LEMMA Phases ==
  ASSUME NEW rec, rec.backup
  PROVE  /\ rec.state \in INCOMPLETE_STATES => PhaseOf(rec) = "open"
         /\ rec.state \in {"BACKUP_VERIFIED", "DESIRED_TREE_READY"}
              => PhaseOf(rec) = "saved"
         /\ rec.state \in { "RESCAN_REQUESTED", "BINDING_OBSERVED",
                             "BINDING_VERIFIED", "RESTORE_VERIFIED" }
              => PhaseOf(rec) = "settled"
         /\ rec.state = "COMMITTED" => PhaseOf(rec) = "committed"
         /\ rec.state = "ROLLED_BACK" => PhaseOf(rec) = "rolledback"
         /\ rec.state = "FAILED" => PhaseOf(rec) = "failed"
         /\ PhaseOf(rec) # "none"
  BY DEF PhaseOf, INCOMPLETE_STATES

LEMMA NoPhase ==
  ASSUME NEW rec, ~rec.backup
  PROVE  PhaseOf(rec) = "none"
  BY DEF PhaseOf

\* What a placing command writes, it may write: it is open or settled.
LEMMA PlacingSteps ==
  ASSUME TypeOK, NEW p \in Proc, Start(p) \/ Step(p) \/ Crash(p),
         pc'[p] \in Placing
  PROVE  /\ cur'[p] = cur[p] /\ cur[p] \in Tx
         /\ \/ /\ journal' = journal /\ pc[p] \in Placing
               /\ pc'[p] \in {"wipe", "copy"} => pc[p] \in {"wipe", "copy"}
            \/ /\ journal'[cur[p]].state \in INCOMPLETE_STATES
                      \cup { "RESCAN_REQUESTED", "BINDING_OBSERVED",
                             "BINDING_VERIFIED", "RESTORE_VERIFIED" }
               /\ pc'[p] \in {"wipe", "copy"}
                    => journal'[cur[p]].state \in INCOMPLETE_STATES
  <1> USE DEF TypeOK, Goto, Continue, Quit, Placing
  <1>1. ASSUME NEW from, NEW t, NEW to, Log(p, from, t, to), from \notin NoTx
        PROVE  /\ cur'[p] = cur[p] /\ cur[p] \in Tx /\ pc[p] = from
               /\ journal'[cur[p]].state = t /\ pc'[p] = to
    BY <1>1, HasTx DEF Log, transition, Appended
  <1>2. CASE PureLog(p)
    BY <1>1, <1>2 DEF PureLog, Begin, Probe, BackupVerified, PlanReady, Place,
             Placed, Matched, BindingVerified, Commit, RestoreStarted,
             RolledBack, Fail, INCOMPLETE_STATES, NoTx
  <1>3. CASE MayLog(p)
    BY <1>1, <1>3 DEF MayLog, Resolve, BackupProbe, Rescan, Bind, Mark, Handler,
             INCOMPLETE_STATES, NoTx
  <1>4. CASE NoLog(p)
    BY <1>4, HasTx DEF NoLog, Reject, Acquire, ExportTree, SecondRead, Wipe,
             Copy, Readback, Latest, Select, Open, RefuseIdentity, Raise,
             Release, NoTx
  <1>5. CASE Start(p) \/ Crash(p)
    BY <1>5 DEF Start, StartInstall, StartUnlocked, StartRestore, StartNamed,
             Crash
  <1> QED
    BY <1>2, <1>3, <1>4, <1>5, StepCases

LEMMA NextPlacingInv ==
  ASSUME IInv, IInv', PhaseInv, DryRunsAlone, NEW r \in Proc,
         Start(r) \/ Step(r) \/ Crash(r)
  PROVE  PlacingInv'
  <1> SUFFICES ASSUME NEW p \in Proc, pc'[p] \in Placing
               PROVE  /\ PhaseOf(journal'[cur'[p]]) \in {"open", "settled"}
                      /\ pc'[p] \in {"wipe", "copy"}
                           => PhaseOf(journal'[cur'[p]]) = "open"
    BY DEF PlacingInv, Placing
  <1>1. journal'[cur'[p]].backup
    BY DEF IInv, Backups, Backed, Placing
  <1>2. CASE r = p
    <2>1. CASE /\ journal' = journal /\ pc[p] \in Placing /\ cur'[p] = cur[p]
               /\ pc'[p] \in {"wipe", "copy"} => pc[p] \in {"wipe", "copy"}
      BY <2>1 DEF PhaseInv, PlacingInv
    <2>2. CASE /\ journal'[cur[p]].state \in INCOMPLETE_STATES
                     \cup { "RESCAN_REQUESTED", "BINDING_OBSERVED",
                            "BINDING_VERIFIED", "RESTORE_VERIFIED" }
               /\ cur'[p] = cur[p]
               /\ pc'[p] \in {"wipe", "copy"}
                    => journal'[cur[p]].state \in INCOMPLETE_STATES
      BY <1>1, <2>2, Phases
    <2> QED
      BY <1>2, <2>1, <2>2, PlacingSteps DEF IInv
  <1>3. CASE r # p
    <2>1. pc'[p] = pc[p] /\ cur'[p] = cur[p] /\ cur[p] \in Tx
      BY <1>3, StepWrites, HasTx DEF IInv, Placing, NoTx
    <2>2. CASE journal'[cur[p]] = journal[cur[p]]
      BY <2>1, <2>2 DEF PhaseInv, PlacingInv
    <2>3. CASE journal'[cur[p]] # journal[cur[p]]
      <3>1. cur[r] = cur[p] /\ (PureLog(r) \/ MayLog(r))
        BY <2>1, <2>3, StepWrites DEF IInv
      <3>2. Log(r, "mark", "RECOVERY_REQUIRED", "release")
        BY <1>3, <2>1, <2>3, <3>1, OnlyMark
      <3>3. journal'[cur[p]].state = "RECOVERY_REQUIRED"
        BY <2>1, <3>1, <3>2 DEF Log, transition, Appended, IInv, TypeOK
      <3> QED
        BY <1>1, <2>1, <3>3, Phases DEF INCOMPLETE_STATES
    <2> QED
      BY <2>2, <2>3
  <1> QED
    BY <1>2, <1>3

LEMMA NextPhaseInv ==
  DryRunsAlone /\ IInv /\ IInv' /\ PhaseInv /\ [Next]_vars => PhaseInv'
  <1> SUFFICES ASSUME DryRunsAlone, IInv, IInv', PhaseInv, [Next]_vars
               PROVE  PhaseInv'
    OBVIOUS
  <1>1. NoDryRuns' /\ FreshMemory' /\ BackupUnlogged'
    BY NextNoDryRuns, NextFreshMemory, NextBackupUnlogged DEF IInv, PhaseInv
  <1>2. CASE UNCHANGED vars
    BY <1>1, <1>2
       DEF vars, local, PhaseInv, EarlyInv, PlacingInv, Prepares
  <1>3. CASE Next
    BY <1>1, <1>3, NextEarlyInv, NextPlacingInv DEF Next, PhaseInv
  <1> QED
    BY <1>2, <1>3

-----------------------------------------------------------------------------
(***************************************************************************)
(* The replacement of a tree, step by step                                 *)
(***************************************************************************)
Phase == [i \in Tx |-> PhaseOf(journal[i])]

LEMMA InitReplacement == Init => Replacement!Init
  <1> SUFFICES ASSUME Init PROVE Replacement!Init
    OBVIOUS
  <1>1. \A i \in Tx : ~journal[i].backup
    BY DEF Init, NewJournal
  <1>2. \A i \in Tx : PhaseOf(journal[i]) = "none"
    BY <1>1, NoPhase
  <1> QED
    BY <1>2 DEF Init, Replacement!Init

LEMMA SamePhasesStutter ==
  ASSUME Phase' = Phase, UNCHANGED <<original, device>>
  PROVE  UNCHANGED Replacement!vars
  BY DEF Replacement!vars, Phase

\* A transition moves its transaction to the phase of what it writes.
LEMMA LogMoves ==
  ASSUME TypeOK, NEW p \in Proc, NEW from, NEW s, NEW to,
         from \notin NoTx, Log(p, from, s, to)
  PROVE  /\ cur[p] \in Tx /\ pc[p] = from /\ UNCHANGED <<original, device>>
         /\ Phase' = [Phase EXCEPT ![cur[p]] = PhaseOf(Appended(mem[p], s))]
         /\ Phase[cur[p]] = PhaseOf(journal[cur[p]])
         /\ Appended(mem[p], s).state = s
         /\ mem[p].backup => Appended(mem[p], s).backup
         /\ s = "BACKUP_VERIFIED" => Appended(mem[p], s).backup
  <1>1. cur[p] \in Tx
    BY HasTx DEF Log
  <1>2. journal' = [journal EXCEPT ![cur[p]] = Appended(mem[p], s)]
    BY DEF Log, transition
  <1>3. Phase' = [Phase EXCEPT ![cur[p]] = PhaseOf(Appended(mem[p], s))]
    BY <1>1, <1>2 DEF Phase, TypeOK
  <1> QED
    BY <1>1, <1>3 DEF Phase, Log, disk, Appended

\* Before the backup is verified nothing is promised, on disk or in memory.
LEMMA UnbackedStutters ==
  ASSUME TypeOK, NEW p \in Proc, NEW from, NEW s, NEW to,
         from \notin NoTx, Log(p, from, s, to), WriterKnows(p),
         ~mem[p].backup, s # "BACKUP_VERIFIED"
  PROVE  UNCHANGED Replacement!vars
  <1>1. /\ cur[p] \in Tx /\ UNCHANGED <<original, device>>
        /\ Phase' = [Phase EXCEPT ![cur[p]] = PhaseOf(Appended(mem[p], s))]
        /\ Phase[cur[p]] = PhaseOf(journal[cur[p]])
    BY LogMoves
  <1>2. ~journal[cur[p]].backup /\ ~Appended(mem[p], s).backup
    BY DEF WriterKnows, Appended
  <1>3. Phase[cur[p]] = "none" /\ PhaseOf(Appended(mem[p], s)) = "none"
    BY <1>1, <1>2, NoPhase
  <1>4. Phase' = Phase
    BY <1>1, <1>3 DEF Phase
  <1> QED
    BY <1>1, <1>4, SamePhasesStutter

\* A transition that opens, opens again or fails a transaction.
LEMMA LogOpens ==
  ASSUME TypeOK, Backups, NEW p \in Proc, NEW from, NEW s, NEW to,
         from \notin NoTx, Log(p, from, s, to), WriterKnows(p),
         s \in INCOMPLETE_STATES \cup {"FAILED"}
  PROVE  [Replacement!Next]_(Replacement!vars)
  <1>1. s # "BACKUP_VERIFIED"
    BY DEF INCOMPLETE_STATES
  <1>2. CASE mem[p].backup
    <2>1. /\ cur[p] \in Tx /\ UNCHANGED <<original, device>>
          /\ Phase' = [Phase EXCEPT ![cur[p]] = PhaseOf(Appended(mem[p], s))]
          /\ Phase[cur[p]] = PhaseOf(journal[cur[p]])
          /\ Appended(mem[p], s).state = s /\ Appended(mem[p], s).backup
      BY <1>2, LogMoves
    <2>2. Phase[cur[p]] # "none"
      BY <1>2, <2>1, Phases DEF Backups
    <2>3. PhaseOf(Appended(mem[p], s)) \in {"open", "failed"}
      BY <2>1, Phases
    <2>4. Replacement!OpenOrFail(cur[p])
      BY <2>1, <2>2, <2>3
         DEF Replacement!OpenOrFail, Replacement!Move, Phase
    <2> QED
      BY <2>1, <2>4 DEF Replacement!Next
  <1> QED
    BY <1>1, <1>2, UnbackedStutters

\* A transition that rests on a readback.
LEMMA LogFinishes ==
  ASSUME TypeOK, Backups, PlacingInv, NEW p \in Proc, NEW from \in Placing, NEW s,
         NEW to, Log(p, from, s, to),
         \/ /\ s \in { "RESCAN_REQUESTED", "BINDING_OBSERVED",
                       "BINDING_VERIFIED", "RESTORE_VERIFIED" }
            /\ device \in {original[cur[p]], Desired(original[cur[p]])}
         \/ s = "COMMITTED" /\ device = Desired(original[cur[p]])
         \/ s = "ROLLED_BACK" /\ device = original[cur[p]]
  PROVE  [Replacement!Next]_(Replacement!vars)
  <1>1. from \notin NoTx /\ from \in Backed
    BY DEF Placing, NoTx, Backed
  <1>2. /\ cur[p] \in Tx /\ pc[p] = from /\ UNCHANGED <<original, device>>
        /\ Phase' = [Phase EXCEPT ![cur[p]] = PhaseOf(Appended(mem[p], s))]
        /\ Phase[cur[p]] = PhaseOf(journal[cur[p]])
        /\ Appended(mem[p], s).state = s
        /\ mem[p].backup => Appended(mem[p], s).backup
    BY <1>1, LogMoves
  <1>3. mem[p].backup /\ Phase[cur[p]] \in {"open", "settled"}
    BY <1>1, <1>2 DEF Backups, PlacingInv
  <1>4. \/ /\ PhaseOf(Appended(mem[p], s)) = "settled"
           /\ device \in {original[cur[p]], Desired(original[cur[p]])}
        \/ /\ PhaseOf(Appended(mem[p], s)) = "committed"
           /\ device = Desired(original[cur[p]])
        \/ /\ PhaseOf(Appended(mem[p], s)) = "rolledback"
           /\ device = original[cur[p]]
    BY <1>2, <1>3, Phases
  <1>5. Replacement!Finish(cur[p])
    BY <1>2, <1>3, <1>4
       DEF Replacement!Finish, Replacement!Move, Phase
  <1> QED
    BY <1>2, <1>5 DEF Replacement!Next

LEMMA PureLogImplements ==
  ASSUME IInv, PhaseInv, NEW p \in Proc, PureLog(p)
  PROVE  [Replacement!Next]_(Replacement!vars)
  <1> USE DEF IInv, PhaseInv, NoTx
  <1>1. WriterKnows(p)
    BY PureLogKnows
  <1>2. CASE Begin(p) \/ Probe(p)
    <2>1. ~mem[p].backup
      BY <1>2 DEF Begin, Probe, Log, Backups, Unbacked
    <2> QED
      BY <1>1, <1>2, <2>1, UnbackedStutters DEF Begin, Probe
  <1>3. CASE BackupVerified(p)
    <2>1. PICK to : Log(p, "backed", "BACKUP_VERIFIED", to)
      BY <1>3 DEF BackupVerified
    <2> DEFINE rec == Appended(mem[p], "BACKUP_VERIFIED")
    <2>2. /\ cur[p] \in Tx /\ UNCHANGED <<original, device>>
          /\ Phase' = [Phase EXCEPT ![cur[p]] = PhaseOf(rec)]
          /\ Phase[cur[p]] = PhaseOf(journal[cur[p]])
          /\ rec.state = "BACKUP_VERIFIED" /\ rec.backup
      BY <2>1, LogMoves
    <2>3. ~mem[p].backup
      BY <2>1 DEF Log, Backups, Unbacked
    <2>4. Phase[cur[p]] = "none"
      BY <1>1, <2>2, <2>3, NoPhase DEF WriterKnows
    <2>5. PhaseOf(rec) = "saved"
      BY <2>2, Phases
    <2>6. Replacement!Save(cur[p])
      BY <2>2, <2>4, <2>5
         DEF Replacement!Save, Replacement!Move, Phase
    <2> QED
      BY <2>2, <2>6 DEF Replacement!Next
  <1>4. CASE PlanReady(p)
    <2>1. PICK to : Log(p, "plan", "DESIRED_TREE_READY", to)
      BY <1>4 DEF PlanReady
    <2> DEFINE rec == Appended(mem[p], "DESIRED_TREE_READY")
    <2>2. mem[p].backup /\ journal[cur[p]].backup
      BY <2>1 DEF Log, Backups, Backed
    <2>3. /\ cur[p] \in Tx /\ UNCHANGED <<original, device>>
          /\ Phase' = [Phase EXCEPT ![cur[p]] = PhaseOf(rec)]
          /\ Phase[cur[p]] = PhaseOf(journal[cur[p]])
          /\ rec.state = "DESIRED_TREE_READY" /\ rec.backup
      BY <2>1, <2>2, LogMoves
    <2>4. Prepares(p)
      BY <2>1 DEF Log, Prepares, EarlyLabels, Roles, TypeOK, Command, Restoring
    <2>5. journal[cur[p]].state \in {"BACKUP_VERIFIED", "DESIRED_TREE_READY"}
      BY <2>2, <2>3, <2>4 DEF EarlyInv, Early, Records, RecordOK
    <2>6. Phase[cur[p]] = "saved" /\ PhaseOf(rec) = "saved"
      BY <2>2, <2>3, <2>5, Phases
    <2>7. Phase' = Phase
      BY <2>3, <2>6 DEF Phase
    <2> QED
      BY <2>3, <2>7, SamePhasesStutter
  <1>5. CASE Place(p) \/ Placed(p) \/ RestoreStarted(p)
    BY <1>1, <1>5, LogOpens DEF Place, Placed, RestoreStarted, INCOMPLETE_STATES
  <1>6. CASE Fail(p)
    BY <1>1, <1>6, LogOpens DEF Fail, FailTarget, INCOMPLETE_STATES
  <1>7. CASE Matched(p)
    <2>1. CASE Restoring(p)
      BY <1>7, <2>1, LogFinishes
         DEF Matched, Log, Placing, DeviceMatches
    <2>2. CASE ~Restoring(p)
      BY <1>1, <1>7, <2>2, LogOpens DEF Matched, INCOMPLETE_STATES
    <2> QED
      BY <2>1, <2>2
  <1>8. CASE BindingVerified(p) \/ Commit(p)
    <2>1. cmd[p] = "install"
      BY <1>8 DEF BindingVerified, Commit, Log, Roles, TypeOK, Command, Restoring
    <2> QED
      BY <1>8, <2>1, LogFinishes
         DEF BindingVerified, Commit, Log, Placing, DeviceMatches
  <1>9. CASE RolledBack(p)
    <2>1. Restoring(p)
      BY <1>9 DEF RolledBack, Log, Roles, TypeOK, Command, Restoring
    <2> QED
      BY <1>9, <2>1, LogFinishes DEF RolledBack, Log, Placing, DeviceMatches
  <1> QED
    BY <1>2, <1>3, <1>4, <1>5, <1>6, <1>7, <1>8, <1>9 DEF PureLog

\* The steps that may only go on, or write.
LEMMA MayLogImplements ==
  ASSUME IInv, PhaseInv, NEW p \in Proc, MayLog(p)
  PROVE  [Replacement!Next]_(Replacement!vars)
  <1> USE DEF IInv, PhaseInv, NoTx
  <1>1. ASSUME journal' = journal, UNCHANGED disk
        PROVE  [Replacement!Next]_(Replacement!vars)
    BY <1>1, SamePhasesStutter DEF Phase, disk
  <1>2. CASE Resolve(p) \/ BackupProbe(p)
    <2>1. pc[p] \in {"resolve", "bprobe"}
      BY <1>2 DEF Resolve, BackupProbe, Log
    <2>2. cmd[p] \in {"install", "plan", "backup"} /\ ~mem[p].backup
      BY <2>1 DEF Roles, TypeOK, Command, Restoring, Backups, Unbacked
    <2>3. WriterKnows(p)
      BY <2>1, <2>2, CreatorKnows
    <2> QED
      BY <1>1, <1>2, <2>2, <2>3, UnbackedStutters
         DEF Resolve, BackupProbe, Continue
  <1>3. CASE Rescan(p) \/ Bind(p)
    <2>1. pc[p] \in {"rescan", "bind"}
      BY <1>3 DEF Rescan, Bind, Log
    <2>2. device = Desired(original[cur[p]])
      BY <2>1 DEF Roles, TypeOK, Command, Restoring, DeviceMatches
    <2> QED
      BY <1>1, <1>3, <2>2, LogFinishes DEF Rescan, Bind, Continue, Placing
  <1>4. CASE Mark(p)
    <2>1. CASE Log(p, "mark", "RECOVERY_REQUIRED", "release")
      <3>1. mem[p].backup
        BY <2>1, RecoverableHasBackup DEF Log, transition, Records, TypeOK
      <3> QED
        BY <2>1, <3>1, BackedKnows, LogOpens DEF INCOMPLETE_STATES
    <2> QED
      BY <1>1, <1>4, <2>1 DEF Mark, Continue
  <1>5. CASE Handler(p)
    <2>1. CASE mem[p].backup /\ Log(p, "handler", FailTarget(mem[p]), "release")
      BY <2>1, BackedKnows, LogOpens DEF FailTarget, INCOMPLETE_STATES
    <2> QED
      BY <1>1, <1>5, <2>1 DEF Handler, Continue
  <1> QED
    BY <1>2, <1>3, <1>4, <1>5 DEF MayLog

\* The first export, before the transaction has a verified backup.
LEMMA ExportImplements ==
  ASSUME IInv, NEW p \in Proc, ExportTree(p)
  PROVE  [Replacement!Next]_(Replacement!vars)
  <1> USE DEF IInv
  <1>1. cur[p] \in Tx /\ journal' = journal /\ device' = device
    BY HasTx DEF ExportTree, Continue, NoTx
  <1>2. Phase' = Phase
    BY <1>1 DEF Phase
  <1>3. CASE original' = original
    BY <1>1, <1>2, <1>3, SamePhasesStutter
  <1>4. CASE original' = [original EXCEPT ![cur[p]] = device]
    <2>1. Creator(p) /\ ~mem[p].backup
      BY <1>1 DEF ExportTree, TypeOK, Roles, Command, Restoring, Creator,
             Backups, Unbacked, Tx
    <2>2. Phase[cur[p]] = "none"
      BY <1>1, <2>1, NoPhase DEF Phase, Backups
    <2>3. Replacement!Export(cur[p])
      BY <1>1, <1>2, <1>4, <2>2 DEF Replacement!Export, Phase
    <2> QED
      BY <1>1, <2>3 DEF Replacement!Next
  <1> QED
    BY <1>3, <1>4 DEF ExportTree

\* The device changes under a transaction that is open on disk.
LEMMA PlacingImplements ==
  ASSUME IInv, PhaseInv, NEW p \in Proc, Wipe(p) \/ Copy(p)
  PROVE  [Replacement!Next]_(Replacement!vars)
  <1> USE DEF IInv, PhaseInv
  <1>1. /\ cur[p] \in Tx /\ pc[p] \in {"wipe", "copy"}
        /\ journal' = journal /\ original' = original
        /\ device' \in {device, Torn, Target(p)}
    BY HasTx DEF Wipe, Copy, Continue, NoTx
  <1>2. Phase' = Phase /\ Phase[cur[p]] = "open"
    BY <1>1 DEF Phase, PlacingInv
  <1>3. CASE device' = device
    BY <1>1, <1>2, <1>3, SamePhasesStutter
  <1>4. CASE device' \in {Torn, Target(p)}
    <2>1. Replacement!Place(cur[p])
      BY <1>1, <1>2, <1>4 DEF Replacement!Place, Phase, Target
    <2> QED
      BY <1>1, <2>1 DEF Replacement!Next
  <1> QED
    BY <1>1, <1>3, <1>4

LEMMA NextImplementsReplacement ==
  IInv /\ PhaseInv /\ [Next]_vars => [Replacement!Next]_(Replacement!vars)
  <1> SUFFICES ASSUME IInv, PhaseInv, [Next]_vars
               PROVE  [Replacement!Next]_(Replacement!vars)
    OBVIOUS
  <1>1. ASSUME journal' = journal, UNCHANGED disk
        PROVE  [Replacement!Next]_(Replacement!vars)
    BY <1>1, SamePhasesStutter DEF Phase, disk
  <1>2. CASE UNCHANGED vars
    BY <1>1, <1>2 DEF vars
  <1>3. ASSUME NEW p \in Proc, NoLog(p)
        PROVE  [Replacement!Next]_(Replacement!vars)
    <2>1. CASE ExportTree(p)
      BY <2>1, ExportImplements
    <2>2. CASE Wipe(p) \/ Copy(p)
      BY <2>2, PlacingImplements
    <2>3. CASE ~ExportTree(p) /\ ~Wipe(p) /\ ~Copy(p)
      BY <1>1, <1>3, <2>3
         DEF NoLog, Reject, Acquire, SecondRead, Readback, Latest, Select,
             Open, RefuseIdentity, Raise, Release, Continue, Quit, disk
    <2> QED
      BY <2>1, <2>2, <2>3
  <1>4. ASSUME NEW p \in Proc, Start(p) \/ Crash(p)
        PROVE  [Replacement!Next]_(Replacement!vars)
    BY <1>1, <1>4 DEF Start, StartInstall, StartUnlocked, StartRestore,
                StartNamed, Crash
  <1> QED
    BY <1>2, <1>3, <1>4, PureLogImplements, MayLogImplements, StepCases DEF Next

\* What the journals on disk say is what happens to the device: it changes only
\* under a transaction that is open and whose backup is fixed, and COMMITTED and
\* ROLLED_BACK say what it held at that moment.
THEOREM ReplacementImplemented ==
  ASSUME DryRunsAlone
  PROVE  Spec => ImplementsTreeReplacement
  <1>1. IInv /\ IInv' /\ PhaseInv /\ [Next]_vars => PhaseInv'
    BY NextPhaseInv
  <1> QED
    BY Invariance, InitPhaseInv, InitReplacement, <1>1,
       NextImplementsReplacement, PTL
       DEF Spec, ImplementsTreeReplacement, Replacement!Spec

-----------------------------------------------------------------------------
(***************************************************************************)
(* The write-ahead record                                                  *)
(***************************************************************************)

\* Next to no dry run, whoever replaces the tree on the device holds the lock
\* and has said so on disk, with a verified backup to go back to.
THEOREM PlacementIsRecorded ==
  ASSUME DryRunsAlone
  PROVE  Spec => []WriteAhead
  <1>1. IInv /\ IInv' /\ PhaseInv /\ [Next]_vars => PhaseInv'
    BY NextPhaseInv
  <1>2. IInv /\ PhaseInv => WriteAhead
    <2> SUFFICES ASSUME IInv, PhaseInv, NEW p \in Proc,
                        pc[p] \in {"wipe", "copy"}
                 PROVE  lock = p /\ cur[p] \in Incomplete /\ journal[cur[p]].backup
      BY DEF WriteAhead
    <2>1. lock = p
      BY PlacingHoldsLock DEF IInv
    <2>2. journal[cur[p]].backup /\ cur[p] \in Tx
      BY HasTx DEF IInv, Backups, Backed, NoTx
    <2>3. PhaseOf(journal[cur[p]]) = "open"
      BY DEF PhaseInv, PlacingInv
    <2> QED
      BY <2>1, <2>2, <2>3 DEF PhaseOf, Incomplete
  <1> QED
    BY Invariance, InitPhaseInv, <1>1, <1>2, PTL DEF Spec

-----------------------------------------------------------------------------
(***************************************************************************)
(* A torn device                                                           *)
(***************************************************************************)

\* The trees a device has by itself are whole, and the tree that is built from
\* a whole one is whole: Torn is what only a placement leaves.
WholeTrees == Stock # Torn /\ \A t \in Tree : Desired(t) = Torn => t = Torn

\* A torn device has a transaction that is open or has failed, or whose backup
\* was torn already.
Accounted ==
  device = Torn =>
    \E i \in Tx : \/ Phase[i] \in {"open", "failed"}
                  \/ Phase[i] # "none" /\ original[i] = Torn

\* TreeReplacement is all it needs: a placement happens under an open
\* transaction, and one that is settled has had its tree on the device.
LEMMA ReplacementAccounts ==
  ASSUME WholeTrees, TypeOK, Accounted, [Replacement!Next]_(Replacement!vars)
  PROVE  Accounted'
  <1>1. CASE UNCHANGED Replacement!vars
    BY <1>1 DEF Replacement!vars, Accounted, Phase
  <1>2. ASSUME NEW i \in Tx, Replacement!Export(i) PROVE Accounted'
    BY <1>2 DEF Replacement!Export, Accounted, Phase, TypeOK
  <1>3. ASSUME NEW i \in Tx, Replacement!Save(i) PROVE Accounted'
    BY <1>3 DEF Replacement!Save, Replacement!Move, Accounted, Phase
  <1>4. ASSUME NEW i \in Tx, Replacement!OpenOrFail(i) PROVE Accounted'
    BY <1>4 DEF Replacement!OpenOrFail, Replacement!Move, Accounted, Phase
  <1>5. ASSUME NEW i \in Tx, Replacement!Place(i) PROVE Accounted'
    BY <1>5 DEF Replacement!Place, Accounted, Phase
  <1>6. ASSUME NEW i \in Tx, Replacement!Finish(i) PROVE Accounted'
    BY <1>6 DEF Replacement!Finish, Replacement!Move, Accounted, Phase, TypeOK,
             WholeTrees
  <1> QED
    BY <1>1, <1>2, <1>3, <1>4, <1>5, <1>6 DEF Replacement!Next

LEMMA AccountedOnDisk == TypeOK /\ Accounted => TornIsAccountedFor
  <1> SUFFICES ASSUME TypeOK, Accounted, device = Torn
               PROVE  \E i \in Tx : /\ journal[i].backup
                                    /\ \/ i \in Incomplete
                                       \/ journal[i].state = "FAILED"
                                       \/ original[i] = Torn
    BY DEF TornIsAccountedFor
  <1>1. PICK i \in Tx : \/ Phase[i] \in {"open", "failed"}
                        \/ Phase[i] # "none" /\ original[i] = Torn
    BY DEF Accounted
  <1>2. PhaseOf(journal[i]) = Phase[i]
    BY DEF Phase
  <1>3. journal[i].backup
    BY <1>1, <1>2, NoPhase
  <1>4. PhaseOf(journal[i]) = "open" => i \in Incomplete
    BY <1>3 DEF PhaseOf, Incomplete
  <1>5. PhaseOf(journal[i]) = "failed" => journal[i].state = "FAILED"
    BY <1>3 DEF PhaseOf
  <1> QED
    BY <1>1, <1>2, <1>3, <1>4, <1>5

\* A torn device is told of by a journal on disk, whatever commands overlapped
\* or were killed, except next to a dry run.
THEOREM TornIsRecorded ==
  ASSUME DryRunsAlone, WholeTrees
  PROVE  Spec => []TornIsAccountedFor
  <1>1. Init => Accounted
    BY DEF Init, Accounted, WholeTrees
  <1>2. IInv /\ IInv' /\ PhaseInv /\ [Next]_vars => PhaseInv'
    BY NextPhaseInv
  <1>3. IInv /\ PhaseInv /\ Accounted /\ [Next]_vars => Accounted'
    BY NextImplementsReplacement, ReplacementAccounts DEF IInv
  <1>4. IInv /\ Accounted => TornIsAccountedFor
    BY AccountedOnDisk DEF IInv
  <1> QED
    BY Invariance, InitPhaseInv, <1>1, <1>2, <1>3, <1>4, PTL DEF Spec
=============================================================================
