---------------------- MODULE CarrierTransactionsSerial ----------------------
(***************************************************************************)
(* What the journals promise when commands do not overlap, or do not write *)
(* each other's transactions: a command's view of its journal is then what *)
(* is on disk.  (With overlapping commands it is not: run "stale_open".)   *)
(***************************************************************************)
EXTENDS CarrierTransactionsRefinement

OneAtATime == \A p, q \in Proc : p = q

\* No command opens a transaction that another one has started.
NoneReopened == Ops \cap {"restore", "recover", "mark"} = {}

CommandsGiven == \A p \in Proc : cmd[p] \in Ops \cup {"none"}

\* With its transaction open, a command remembers what is on disk.
MemIsDisk ==
  \A p \in Proc : pc[p] \notin NoTx \cup {"open"} => mem[p] = journal[cur[p]]

LEMMA InitSerial == Init => CommandsGiven /\ MemIsDisk
  BY DEF Init, CommandsGiven, MemIsDisk, NoTx

LEMMA NextCommandsGiven ==
  ASSUME TypeOK, CommandsGiven, [Next]_vars
  PROVE  CommandsGiven'
  <1> USE DEF TypeOK, CommandsGiven, Goto, Continue, Quit
  <1>1. CASE UNCHANGED vars
    BY <1>1 DEF vars, local
  <1>2. ASSUME NEW p \in Proc, PureLog(p) \/ MayLog(p) PROVE CommandsGiven'
    BY <1>2 DEF PureLog, MayLog, Log, transition, Begin, Probe, BackupVerified,
                PlanReady, Place, Placed, Matched, BindingVerified, Commit,
                RestoreStarted, RolledBack, Fail, Resolve, BackupProbe, Rescan,
                Bind, Mark, Handler
  <1>3. ASSUME NEW p \in Proc, NoLog(p) PROVE CommandsGiven'
    BY <1>3 DEF NoLog, Reject, Acquire, ExportTree, SecondRead, Wipe, Copy,
                Readback, Latest, Select, Open, RefuseIdentity, Raise, Release
  <1>4. ASSUME NEW p \in Proc, Start(p) \/ Crash(p) PROVE CommandsGiven'
    BY <1>4 DEF Start, StartInstall, StartUnlocked, StartRestore, StartNamed,
                Crash
  <1> QED
    BY <1>1, <1>2, <1>3, <1>4, StepCases DEF Next

\* A step that writes a journal appends to its memory, which is then on disk.
LEMMA WriterSteps ==
  ASSUME TypeOK, NEW q \in Proc, PureLog(q) \/ MayLog(q)
  PROVE  \/ UNCHANGED <<journal, mem, cur>> /\ pc[q] \notin NoTx \cup {"open"}
         \/ /\ pc[q] \notin NoTx \cup {"open"} /\ cur[q] \in Tx /\ cur' = cur
            /\ mem'[q] = journal'[cur[q]]
            /\ journal'[cur[q]].state \in ALLOWED_TRANSITIONS(mem[q].state)
  <1>1. ASSUME NEW from, NEW s, NEW to, Log(q, from, s, to),
               from \notin NoTx \cup {"open"}
        PROVE  /\ pc[q] \notin NoTx \cup {"open"} /\ cur[q] \in Tx /\ cur' = cur
               /\ mem'[q] = journal'[cur[q]]
               /\ journal'[cur[q]].state \in ALLOWED_TRANSITIONS(mem[q].state)
    BY <1>1, HasTx DEF Log, transition, Appended, TypeOK
  <1>2. CASE PureLog(q)
    BY <1>1, <1>2 DEF PureLog, Begin, Probe, BackupVerified, PlanReady, Place,
             Placed, Matched, BindingVerified, Commit, RestoreStarted,
             RolledBack, Fail, NoTx
  <1>3. CASE MayLog(q)
    BY <1>1, <1>3 DEF MayLog, Resolve, BackupProbe, Rescan, Bind, Mark, Handler,
             Continue, NoTx
  <1> QED
    BY <1>2, <1>3

\* The steps of a command keep its own view true.
LEMMA OwnMemIsDisk ==
  ASSUME IInv, FreshMemory, MemIsDisk, NEW p \in Proc,
         Start(p) \/ Step(p) \/ Crash(p), pc'[p] \notin NoTx \cup {"open"}
  PROVE  mem'[p] = journal'[cur'[p]]
  <1> USE DEF IInv, TypeOK, Goto, Continue, Quit, NoTx
  <1>1. CASE PureLog(p) \/ MayLog(p)
    BY <1>1, WriterSteps DEF MemIsDisk
  <1>2. ASSUME Allocate(p), pc[p] \in {"idle", "reject"},
               UNCHANGED <<journal, mem>>
        PROVE  mem'[p] = journal'[cur'[p]]
    <2>1. mem[p] = NewJournal
      BY <1>2 DEF FreshMemory
    <2>2. cur'[p] = nextTx /\ journal[nextTx] = NewJournal
      BY <1>2 DEF Allocate, FreshIds, Tx
    <2> QED
      BY <1>2, <2>1, <2>2
  <1>3. CASE NoLog(p)
    <2>1. CASE Reject(p)
      BY <1>2, <2>1 DEF Reject
    <2>2. CASE Acquire(p) \/ ExportTree(p) \/ SecondRead(p)
      BY <2>2 DEF Acquire, ExportTree, SecondRead, MemIsDisk
    <2>3. CASE Wipe(p) \/ Copy(p) \/ Readback(p)
      BY <2>3 DEF Wipe, Copy, Readback, MemIsDisk
    <2>4. CASE Raise(p)
      BY <2>4 DEF Raise, CallLabels, WriteLabels, MemIsDisk
    <2>5. CASE Open(p)
      BY <2>5 DEF Open, RefuseIdentity
    <2>6. CASE Latest(p) \/ Select(p) \/ Release(p)
      BY <2>6 DEF Latest, Select, Release
    <2> QED
      BY <1>3, <2>1, <2>2, <2>3, <2>4, <2>5, <2>6 DEF NoLog
  <1>4. CASE Start(p)
    BY <1>2, <1>4 DEF Start, StartInstall, StartUnlocked, StartRestore, StartNamed
  <1>5. CASE Crash(p)
    BY <1>5 DEF Crash
  <1> QED
    BY <1>1, <1>3, <1>4, <1>5, StepCases

\* Where nobody opens the transaction of another, it has one writer.
LEMMA OthersElsewhere ==
  ASSUME IInv, CommandsGiven, NoneReopened, NEW p \in Proc, NEW q \in Proc,
         p # q, pc[p] \notin NoTx, PureLog(q) \/ MayLog(q)
  PROVE  cur[q] # cur[p]
  <1>1. pc[q] \notin NoTx
    BY WriterSteps DEF IInv
  <1>2. ASSUME NEW r \in Proc, pc[r] \notin NoTx PROVE Creator(r)
    <2>1. cmd[r] \in {"install", "plan", "backup"}
      BY <1>2 DEF IInv, TypeOK, Command, Roles, CommandsGiven, NoneReopened, NoTx
    <2> QED
      BY <1>2, <2>1, HasTx DEF IInv, Creator, Tx
  <1> QED
    BY <1>1, <1>2 DEF IInv, FreshIds

LEMMA NextMemIsDisk ==
  ASSUME IInv, FreshMemory, CommandsGiven, MemIsDisk, [Next]_vars,
         OneAtATime \/ NoneReopened
  PROVE  MemIsDisk'
  <1>1. CASE UNCHANGED vars
    BY <1>1 DEF vars, local, MemIsDisk
  <1>2. ASSUME NEW r \in Proc, Start(r) \/ Step(r) \/ Crash(r),
               NEW p \in Proc, pc'[p] \notin NoTx \cup {"open"}
        PROVE  mem'[p] = journal'[cur'[p]]
    <2>1. CASE r = p
      BY <1>2, <2>1, OwnMemIsDisk
    <2>2. CASE r # p
      <3>1. pc'[p] = pc[p] /\ cur'[p] = cur[p] /\ mem'[p] = mem[p]
        BY <1>2, <2>2, StepWrites, StepMemory DEF IInv
      <3>2. cur[p] \in Tx /\ pc[p] \notin NoTx
        BY <1>2, <3>1, HasTx DEF IInv
      <3>3. NoneReopened
        BY <2>2 DEF OneAtATime
      <3>4. journal'[cur[p]] = journal[cur[p]]
        BY <1>2, <2>2, <3>2, <3>3, StepWrites, OthersElsewhere DEF IInv
      <3> QED
        BY <1>2, <3>1, <3>4 DEF MemIsDisk
    <2> QED
      BY <2>1, <2>2
  <1> QED
    BY <1>1, <1>2 DEF Next, MemIsDisk

LEMMA NextFollowsTable ==
  ASSUME IInv, MemIsDisk, [Next]_vars, NEW i \in Tx,
         journal'[i].state # journal[i].state
  PROVE  journal'[i].state \in ALLOWED_TRANSITIONS(journal[i].state)
  <1>1. PICK q \in Proc : Start(q) \/ Step(q) \/ Crash(q)
    BY DEF Next, vars
  <1>2. cur[q] = i /\ (PureLog(q) \/ MayLog(q)) /\ journal' # journal
    BY <1>1, StepWrites DEF IInv
  <1> QED
    BY <1>2, WriterSteps DEF MemIsDisk, IInv

\* Every change of a journal on disk is one of the table, for commands that run
\* one after the other and may be killed; and for installations, dry runs and
\* backups that overlap.
THEOREM TableFollowed ==
  ASSUME OneAtATime \/ NoneReopened
  PROVE  Spec => JournalFollowsTable
  <1>1. IInv /\ FreshMemory /\ [Next]_vars => FreshMemory'
    BY NextFreshMemory DEF IInv
  <1>2. IInv /\ CommandsGiven /\ [Next]_vars => CommandsGiven'
    BY NextCommandsGiven DEF IInv
  <1>3. IInv /\ FreshMemory /\ CommandsGiven /\ MemIsDisk /\ [Next]_vars => MemIsDisk'
    BY NextMemIsDisk
  <1>4. IInv /\ MemIsDisk /\ [Next]_vars =>
          [\A i \in Tx : journal'[i].state # journal[i].state
             => journal'[i].state \in ALLOWED_TRANSITIONS(journal[i].state)]_vars
    BY NextFollowsTable
  <1>5. Init => FreshMemory
    BY InitPhaseInv DEF PhaseInv
  <1> QED
    BY Invariance, InitSerial, <1>1, <1>2, <1>3, <1>4, <1>5, PTL
       DEF Spec, JournalFollowsTable

-----------------------------------------------------------------------------
(***************************************************************************)
(* Installing over an incomplete transaction                               *)
(***************************************************************************)

\* What _reject_incomplete has found stays true up to the placement.
NoneIncomplete ==
  \A p \in Proc : cmd[p] = "install" /\ pc[p] \in EarlyLabels => Incomplete = {}

LEMMA NextNoneIncomplete ==
  ASSUME IInv, NoneIncomplete, [Next]_vars, OneAtATime
  PROVE  NoneIncomplete'
  <1> USE DEF IInv
  <1>1. CASE UNCHANGED vars
    BY <1>1 DEF vars, local, NoneIncomplete, Incomplete
  <1>2. ASSUME NEW p \in Proc, Start(p) \/ Step(p) \/ Crash(p),
               cmd'[p] = "install", pc'[p] \in EarlyLabels
        PROVE  Incomplete' = {}
    <2>1. ~StartUnlocked(p) /\ Prepares(p)'
      BY <1>2 DEF StartUnlocked, Prepares, TypeOK
    <2>2. CASE Allocate(p) /\ journal' = journal /\ Incomplete = {}
      BY <2>2 DEF Incomplete
    <2>3. CASE /\ Prepares(p) /\ cur'[p] = cur[p] /\ cmd'[p] = cmd[p]
               /\ journal' = journal \/ journal'[cur[p]].state \in Early
      <3>1. Incomplete = {}
        BY <1>2, <2>3 DEF Prepares, NoneIncomplete
      <3>2. \A i \in Tx : i # cur[p] => journal'[i] = journal[i]
        BY <1>2, StepWrites
      <3>3. Early \cap INCOMPLETE_STATES = {}
        BY DEF Early, PreBackup, INCOMPLETE_STATES
      <3> QED
        BY <2>3, <3>1, <3>2, <3>3 DEF Incomplete
    <2> QED
      BY <1>2, <2>1, <2>2, <2>3, PreparingSteps
  <1> QED
    BY <1>1, <1>2 DEF Next, NoneIncomplete, OneAtATime

\* An installation that runs alone starts to change the device only when no
\* transaction is incomplete.
THEOREM NoneOverwritten ==
  ASSUME OneAtATime
  PROVE  Spec => NoInstallOverIncomplete
  <1>1. Init => NoneIncomplete
    BY DEF Init, NoneIncomplete
  <1>2. IInv /\ NoneIncomplete /\ [Next]_vars => NoneIncomplete'
    BY NextNoneIncomplete
  <1>3. NoneIncomplete =>
          [\A p \in Proc :
             cmd[p] = "install" /\ pc[p] = "place" /\ pc'[p] = "wipe"
               => Incomplete \subseteq {cur[p]}]_vars
    BY DEF NoneIncomplete, EarlyLabels
  <1> QED
    BY Invariance, <1>1, <1>2, <1>3, PTL DEF Spec, NoInstallOverIncomplete
=============================================================================
