------------------------- MODULE JournalFileProofs -------------------------
(***************************************************************************)
(* Proofs about JournalFile, for any set of processes of which any may     *)
(* write without the lock.                                                 *)
(*                                                                         *)
(* Writing a journal does not disturb the lock: every step is one of       *)
(* OperationLock or leaves its variables alone, so what is proved of it in *)
(* OperationLockProofs holds here too (LockInvariance).  A journal is torn *)
(* only by two writers that have the temporary file open together.  Until  *)
(* the clean-up has gone wrong or somebody writes without the lock beside  *)
(* another, there is one writer (OneWriter), its file is the temporary     *)
(* one, and what it has written there is whole (Written).                  *)
(***************************************************************************)
EXTENDS JournalFile, OperationLockProofs

Fine == ~wrongful /\ ~raced

FilesOK ==
  /\ shown \in Content
  /\ tmp \in Content \cup {"absent"}
  /\ handle \in [Pid -> {"none", "tmp", "shown", "gone"}]
  /\ wrote \subseteq Pid
  /\ \A p \in wrote : Writing(p)

\* Only a process in its locked region, or outside of it, has a file open.
WritersAt == \A p \in Pid : Writing(p) => pc[p] \in {"cs", "idle"}

OneWriter == Fine => \A p, q \in Pid : Writing(p) /\ Writing(q) => p = q

Written ==
  Fine => /\ shown = "whole"
          /\ \A p \in Pid : Writing(p) => handle[p] = "tmp" /\ tmp # "absent"
          /\ \A p \in wrote : tmp = "whole"
          /\ (\E p \in Pid : Writing(p) /\ p \notin wrote) => tmp = "part"

JInv == IInv /\ FilesOK /\ WritersAt /\ OneWriter /\ Written

-----------------------------------------------------------------------------

\* A step of JournalFile is one of the lock or does not touch it.
LEMMA LockRefined == [JournalNext]_allVars => [Next]_vars
  <1> SUFFICES ASSUME [JournalNext]_allVars PROVE [Next]_vars
    OBVIOUS
  <1>1. CASE UNCHANGED allVars
    BY <1>1 DEF allVars, vars
  <1>2. ASSUME NEW p \in Pid,
               OpenTmp(p) \/ WriteTmp(p) \/ Replace(p) \/ WriteRaises(p)
        PROVE  UNCHANGED vars
    BY <1>2 DEF OpenTmp, WriteTmp, Replace, WriteRaises
  <1>3. ASSUME NEW p \in Pid, LockStep(p) \/ Killed(p) PROVE Next
    BY <1>3 DEF LockStep, Killed, Next
  <1> QED
    BY <1>1, <1>2, <1>3 DEF JournalNext

LEMMA LockKept == IInv /\ [JournalNext]_allVars => IInv'
  BY LockRefined, NextTypeOK, NextVerdicts, NextOwnsFile DEF IInv

LEMMA JournalInitInv == JournalInit => JInv
  <1> SUFFICES ASSUME JournalInit PROVE JInv
    OBVIOUS
  <1>1. IInv
    BY InitIInv DEF JournalInit
  <1>2. FilesOK /\ WritersAt /\ OneWriter /\ Written
    BY DEF JournalInit, FilesOK, WritersAt, OneWriter, Written, Writing, Content
  <1> QED
    BY <1>1, <1>2 DEF JInv

\* Two processes in their locked regions are one, until the clean-up goes wrong.
LEMMA CsExcludes ==
  IInv /\ ~wrongful
    => \A p, q \in Pid : pc[p] = "cs" /\ pc[q] = "cs" => p = q
  BY DEF IInv, OwnsFile, Owner

LEMMA OpenTmpInv ==
  ASSUME JInv, NEW p \in Pid, OpenTmp(p)
  PROVE  FilesOK' /\ WritersAt' /\ OneWriter' /\ Written'
  <1> USE DEF JInv, FilesOK, Writing, Content
  <1>1. UNCHANGED <<pc, wrongful, shown, wrote>> /\ tmp' = "part"
        /\ handle' = [handle EXCEPT ![p] = "tmp"]
        /\ raced' = (raced \/ Races(p)) /\ ~Writing(p) /\ pc[p] \in {"cs", "idle"}
    BY DEF OpenTmp, vars, MayWrite
  <1>2. FilesOK'
    BY <1>1
  <1>3. WritersAt'
    BY <1>1 DEF WritersAt
  <1>4. ASSUME Fine', NEW q \in Pid \ {p} PROVE ~Writing(q)
    <2> SUFFICES ASSUME Writing(q) PROVE FALSE
      OBVIOUS
    <2>1. ~wrongful /\ ~Races(p)
      BY <1>1, <1>4 DEF Fine
    <2>2. pc[p] = "cs" /\ pc[q] = "cs"
      BY <1>1, <2>1 DEF Races, WritersAt
    <2> QED
      BY <2>1, <2>2, CsExcludes
  <1>5. OneWriter'
    BY <1>1, <1>4 DEF OneWriter
  <1>6. Written'
    <2> SUFFICES ASSUME Fine' PROVE Written'
      BY DEF Written
    <2>1. Fine
      BY <1>1 DEF Fine
    <2>2. wrote = {}
      BY <1>1, <1>4
    <2> QED
      BY <1>1, <1>4, <2>1, <2>2 DEF Written
  <1> QED
    BY <1>2, <1>3, <1>5, <1>6

LEMMA WriteTmpInv ==
  ASSUME JInv, NEW p \in Pid, WriteTmp(p)
  PROVE  FilesOK' /\ WritersAt' /\ OneWriter' /\ Written'
  <1> USE DEF JInv, FilesOK, Writing, Content
  <1>1. UNCHANGED <<pc, wrongful, handle, raced>> /\ wrote' = wrote \cup {p}
        /\ Writing(p) /\ p \notin wrote
        /\ (IF handle[p] = "tmp" THEN tmp' \in Over(p, tmp) ELSE tmp' = tmp)
        /\ (IF handle[p] = "shown" THEN shown' \in Over(p, shown) ELSE shown' = shown)
    BY DEF WriteTmp, vars
  <1>2. FilesOK'
    BY <1>1 DEF Over
  <1>3. WritersAt' /\ OneWriter'
    BY <1>1 DEF WritersAt, OneWriter, Fine
  <1>4. Written'
    <2> SUFFICES ASSUME Fine PROVE Written'
      BY <1>1 DEF Written, Fine
    <2>1. handle[p] = "tmp" /\ tmp = "part" /\ shown = "whole"
      BY <1>1 DEF Written
    <2>2. \A q \in Pid \ {p} : handle[q] = "none"
      BY <1>1 DEF OneWriter
    <2>3. tmp' = "whole" /\ shown' = "whole"
      BY <1>1, <2>1, <2>2 DEF Over
    <2>4. wrote' \subseteq {p}
      BY <1>1, <2>2
    <2> QED
      BY <1>1, <2>1, <2>2, <2>3, <2>4 DEF Written
  <1> QED
    BY <1>2, <1>3, <1>4

LEMMA ReplaceInv ==
  ASSUME JInv, NEW p \in Pid, Replace(p)
  PROVE  FilesOK' /\ WritersAt' /\ OneWriter' /\ Written'
  <1> USE DEF JInv, FilesOK, Writing, Content
  <1>1. UNCHANGED <<pc, wrongful, raced>> /\ p \in wrote /\ wrote' = wrote \ {p}
    BY DEF Replace, Closed, vars
  <1>2. handle' \in [Pid -> {"none", "tmp", "shown", "gone"}]
        /\ \A q \in Pid : handle'[q] = "none" <=> (q = p \/ handle[q] = "none")
    <2>1. CASE tmp = "absent"
      BY <2>1 DEF Replace
    <2>2. CASE tmp # "absent"
      BY <2>2 DEF Replace
    <2> QED
      BY <2>1, <2>2
  <1>3. FilesOK'
    <2>1. shown' \in Content /\ tmp' \in Content \cup {"absent"}
      BY DEF Replace
    <2> QED
      BY <1>1, <1>2, <2>1
  <1>4. WritersAt' /\ OneWriter'
    BY <1>1, <1>2 DEF WritersAt, OneWriter, Fine
  <1>5. Written'
    <2> SUFFICES ASSUME Fine PROVE Written'
      BY <1>1 DEF Written, Fine
    <2>1. Writing(p) /\ tmp = "whole"
      BY <1>1 DEF Written
    <2>2. shown' = "whole"
      BY <2>1 DEF Replace
    <2>3. \A q \in Pid : handle'[q] = "none"
      BY <1>2, <2>1 DEF OneWriter
    <2>4. wrote' = {}
      BY <1>3, <2>3
    <2> QED
      BY <2>2, <2>3, <2>4 DEF Written
  <1> QED
    BY <1>3, <1>4, <1>5

LEMMA LockStepInv ==
  ASSUME JInv, NEW p \in Pid, LockStep(p)
  PROVE  FilesOK' /\ WritersAt' /\ OneWriter' /\ Written'
  <1> USE DEF JInv, FilesOK, Writing, Content
  <1>1. UNCHANGED <<shown, tmp, handle, wrote, raced>> /\ handle[p] = "none"
    BY DEF LockStep, files
  <1>2. \A q \in Pid \ {p} : pc'[q] = pc[q]
    BY DEF LockStep, Begin, Step, Exists, Recheck, Read, Judge, Unlink, Open,
           WritePayload, Release, Abandon, Goto, IInv, TypeOK
  <1>3. wrongful => wrongful'
    BY DEF LockStep, Begin, Step, Exists, Recheck, Read, Judge, Unlink, Open,
           WritePayload, Release, Abandon
  <1> QED
    BY <1>1, <1>2, <1>3 DEF WritersAt, OneWriter, Written, Fine

\* A writer that is alone leaves a beginning, or all it has written.
LEMMA BreakOffInv ==
  ASSUME JInv, NEW p \in Pid, BreakOff(p),
         \A q \in Pid \ {p} : pc'[q] = pc[q], wrongful' = wrongful
  PROVE  FilesOK' /\ WritersAt' /\ OneWriter' /\ Written'
  <1> USE DEF JInv, FilesOK, Writing, Content
  <1>1. raced' = raced /\ wrote' = wrote \ {p}
        /\ handle' = [handle EXCEPT ![p] = "none"]
    BY DEF BreakOff
  <1>2. FilesOK'
    <2>1. shown' \in Content /\ tmp' \in Content \cup {"absent"}
      BY DEF BreakOff, Partly
    <2> QED
      BY <1>1, <2>1
  <1>3. WritersAt' /\ OneWriter'
    BY <1>1 DEF WritersAt, OneWriter, Fine
  <1>4. Written'
    <2> SUFFICES ASSUME Fine PROVE Written'
      BY <1>1 DEF Written, Fine
    <2>1. shown' = "whole"
      BY DEF Written, BreakOff
    <2>2. tmp' = tmp
      <3>1. CASE Writing(p) /\ p \notin wrote
        <4>1. tmp = "part" /\ \A q \in Pid \ {p} : handle[q] # handle[p]
          BY <3>1 DEF Written, OneWriter
        <4> QED
          BY <4>1 DEF BreakOff, Partly
      <3>2. CASE ~(Writing(p) /\ p \notin wrote)
        BY <3>2 DEF BreakOff
      <3> QED
        BY <3>1, <3>2
    <2> QED
      BY <1>1, <2>1, <2>2 DEF Written
  <1> QED
    BY <1>2, <1>3, <1>4

LEMMA LeavesInv ==
  ASSUME JInv, NEW p \in Pid, WriteRaises(p) \/ Killed(p)
  PROVE  FilesOK' /\ WritersAt' /\ OneWriter' /\ Written'
  <1>1. BreakOff(p)
    BY DEF WriteRaises, Killed
  <1>2. (\A q \in Pid \ {p} : pc'[q] = pc[q]) /\ wrongful' = wrongful
    BY DEF WriteRaises, Killed, End, Goto, vars, JInv, IInv, TypeOK
  <1> QED
    BY <1>1, <1>2, BreakOffInv

\* The inductive invariant of the composition.
THEOREM JournalInvariance == JournalSpec => []JInv
  <1>1. JInv /\ [JournalNext]_allVars => JInv'
    <2> SUFFICES ASSUME JInv, [JournalNext]_allVars PROVE JInv'
      OBVIOUS
    <2>1. IInv'
      BY LockKept DEF JInv
    <2>2. FilesOK' /\ WritersAt' /\ OneWriter' /\ Written'
      <3>1. CASE UNCHANGED allVars
        BY <3>1 DEF allVars, vars, files, JInv, FilesOK, WritersAt, OneWriter,
                    Written, Fine, Writing
      <3>2. CASE JournalNext
        BY <3>2, OpenTmpInv, WriteTmpInv, ReplaceInv, LockStepInv, LeavesInv
           DEF JournalNext
      <3> QED
        BY <3>1, <3>2
    <2> QED
      BY <2>1, <2>2 DEF JInv
  <1> QED
    BY JournalInitInv, <1>1, PTL DEF JournalSpec

\* The journal parses at every moment, wherever writers are killed, as long as
\* the lock's clean-up has not gone wrong and no command writes without the lock
\* beside another writer.
THEOREM JournalReadable == JournalSpec => []JournalWhole
  <1>1. JInv => JournalWhole
    BY DEF JInv, Written, Fine, JournalWhole
  <1> QED
    BY JournalInvariance, <1>1, PTL
=============================================================================
