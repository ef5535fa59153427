------------------------ MODULE OperationLockProofs ------------------------
(***************************************************************************)
(* Proofs about OperationLock, for any set of processes.                   *)
(*                                                                         *)
(* Exclusion is not inductive by itself: two processes can both be         *)
(* at "cs" after one of them has created the file while the other already  *)
(* held it.  What rules that out, as long as no live owner has lost its    *)
(* file, is that an owner's file is the one the path names (OwnsFile).     *)
(* That the verdict "stale" of a read pid is right when the unlink runs    *)
(* (VerdictHolds) needs that a dead process stays dead.                    *)
(***************************************************************************)
EXTENDS OperationLock, TLAPS

\* A pid that is being judged has been read from the file, and none is
\* remembered outside is_stale() and the unlink that follows it.
PidWasRead ==
  \A p \in Pid : /\ pc[p] = "judge" => seen[p] \in Pid
                 /\ seen[p] \in Pid => pc[p] \in {"judge", "unlink"}

\* A process that unlinks after it has read a pid has found its owner dead.
VerdictHolds ==
  \A p \in Pid : pc[p] = "unlink" /\ seen[p] \in Pid => pc[seen[p]] = "dead"

\* Until a live owner loses its file, the path names the file of every owner.
OwnsFile == ~wrongful => \A p \in Pid : Owner(p) => file.by = p

IInv == TypeOK /\ PidWasRead /\ VerdictHolds /\ OwnsFile

-----------------------------------------------------------------------------

\* A missing file is the one that nobody has created.
LEMMA MissingFile == TypeOK => (file = NoFile <=> file.by = NoPid)
  BY DEF TypeOK, NoFile

LEMMA InitIInv == Init => IInv
  <1> SUFFICES ASSUME Init PROVE IInv
    OBVIOUS
  <1> USE NoPidAssumption DEF Init, NoFile
  <1>1. file \in [by : Pid \cup {NoPid}, full : BOOLEAN] /\ ~file.full
    OBVIOUS
  <1>2. TypeOK
    BY <1>1 DEF TypeOK, Label
  <1>3. PidWasRead /\ VerdictHolds /\ OwnsFile
    BY DEF PidWasRead, VerdictHolds, OwnsFile, Owner
  <1> QED
    BY <1>2, <1>3 DEF IInv

\* The steps of a process keep the ranges of the variables.
LEMMA NextTypeOK == TypeOK /\ PidWasRead /\ [Next]_vars => TypeOK'
  <1> SUFFICES ASSUME TypeOK, PidWasRead, [Next]_vars
               PROVE  TypeOK'
    OBVIOUS
  <1> USE NoPidAssumption DEF TypeOK, Goto, Label, NoFile, Creating
  <1>1. CASE UNCHANGED vars
    BY <1>1 DEF vars
  <1>2. ASSUME NEW p \in Pid, Begin(p) PROVE TypeOK'
    BY <1>2 DEF Begin
  <1>3. ASSUME NEW p \in Pid, Exists(p) \/ Recheck(p) PROVE TypeOK'
    BY <1>3 DEF Exists, Recheck
  <1>4. ASSUME NEW p \in Pid, Read(p) PROVE TypeOK'
    BY <1>4 DEF Read
  <1>5. ASSUME NEW p \in Pid, Judge(p) PROVE TypeOK'
    BY <1>5 DEF Judge
  <1>6. ASSUME NEW p \in Pid, Unlink(p) PROVE TypeOK'
    BY <1>6 DEF Unlink
  <1>7. ASSUME NEW p \in Pid, Open(p) PROVE TypeOK'
    <2>1. CASE file # NoFile
      BY <1>7, <2>1 DEF Open
    <2>2. CASE file = NoFile
      <3>1. file' = [by |-> p, full |-> FALSE] /\ UNCHANGED <<seen, wrongful>>
        BY <1>7, <2>2 DEF Open
      <3>2. pc' \in [Pid -> Label]
        BY <1>7 DEF Open
      <3> QED
        BY <3>1, <3>2
    <2> QED
      BY <2>1, <2>2
  <1>8. ASSUME NEW p \in Pid, WritePayload(p) PROVE TypeOK'
    BY <1>8 DEF WritePayload
  <1>9. ASSUME NEW p \in Pid, Release(p) \/ Abandon(p) PROVE TypeOK'
    <2>1. CASE Release(p)
      BY <2>1 DEF Release
    <2>2. CASE Abandon(p)
      BY <2>2 DEF Abandon
    <2> QED
      BY <1>9, <2>1, <2>2
  <1>10. ASSUME NEW p \in Pid, End(p) PROVE TypeOK'
    BY <1>10 DEF End
  <1> QED
    BY <1>1, <1>2, <1>3, <1>4, <1>5, <1>6, <1>7, <1>8, <1>9, <1>10
       DEF Next, Step

\* What each step does to the pids that have been read and judged.
LEMMA NextVerdicts ==
  TypeOK /\ PidWasRead /\ VerdictHolds /\ [Next]_vars
    => PidWasRead' /\ VerdictHolds'
  <1> SUFFICES ASSUME TypeOK, PidWasRead, VerdictHolds, [Next]_vars
               PROVE  PidWasRead' /\ VerdictHolds'
    OBVIOUS
  <1> USE NoPidAssumption DEF TypeOK, PidWasRead, VerdictHolds, Goto, Label
  <1>1. CASE UNCHANGED vars
    BY <1>1 DEF vars
  <1>2. ASSUME NEW p \in Pid, Begin(p) PROVE PidWasRead' /\ VerdictHolds'
    BY <1>2 DEF Begin
  <1>3. ASSUME NEW p \in Pid, Exists(p) \/ Recheck(p)
        PROVE  PidWasRead' /\ VerdictHolds'
    BY <1>3 DEF Exists, Recheck
  <1>4. ASSUME NEW p \in Pid, Read(p) PROVE PidWasRead' /\ VerdictHolds'
    <2>1. CASE file.full
      BY <1>4, <2>1 DEF Read
    <2>2. CASE ~file.full
      BY <1>4, <2>2 DEF Read
    <2> QED
      BY <2>1, <2>2
  <1>5. ASSUME NEW p \in Pid, Judge(p) PROVE PidWasRead' /\ VerdictHolds'
    BY <1>5 DEF Judge
  <1>6. ASSUME NEW p \in Pid, Unlink(p) PROVE PidWasRead' /\ VerdictHolds'
    BY <1>6 DEF Unlink
  <1>7. ASSUME NEW p \in Pid, Open(p) PROVE PidWasRead' /\ VerdictHolds'
    BY <1>7 DEF Open
  <1>8. ASSUME NEW p \in Pid, WritePayload(p)
        PROVE  PidWasRead' /\ VerdictHolds'
    BY <1>8 DEF WritePayload
  <1>9. ASSUME NEW p \in Pid, Release(p) \/ Abandon(p)
        PROVE  PidWasRead' /\ VerdictHolds'
    BY <1>9 DEF Release, Abandon
  <1>10. ASSUME NEW p \in Pid, End(p) PROVE PidWasRead' /\ VerdictHolds'
    BY <1>10 DEF End
  <1> QED
    BY <1>1, <1>2, <1>3, <1>4, <1>5, <1>6, <1>7, <1>8, <1>9, <1>10
       DEF Next, Step

\* Only Open makes an owner, of the file it has just created; only Unlink and
\* Release remove a file, and Unlink says so when its owner was alive.
LEMMA NextOwnsFile == TypeOK /\ OwnsFile /\ [Next]_vars => OwnsFile'
  <1> SUFFICES ASSUME TypeOK, OwnsFile, [Next]_vars, ~wrongful',
                      NEW q \in Pid, Owner(q)'
               PROVE  file.by' = q
    BY DEF OwnsFile
  <1> USE NoPidAssumption DEF TypeOK, OwnsFile, Owner, Goto, Label
  <1>1. CASE UNCHANGED vars
    BY <1>1 DEF vars
  <1>2. ASSUME NEW p \in Pid, Begin(p) \/ Exists(p) \/ Recheck(p)
        PROVE  file.by' = q
    BY <1>2 DEF Begin, Exists, Recheck
  <1>3. ASSUME NEW p \in Pid, Read(p) PROVE file.by' = q
    BY <1>3 DEF Read
  <1>4. ASSUME NEW p \in Pid, Judge(p) PROVE file.by' = q
    BY <1>4 DEF Judge
  <1>5. ASSUME NEW p \in Pid, Unlink(p) PROVE file.by' = q
    BY <1>5 DEF Unlink
  <1>6. ASSUME NEW p \in Pid, Open(p) PROVE file.by' = q
    BY <1>6, MissingFile DEF Open, Creating
  <1>7. ASSUME NEW p \in Pid, WritePayload(p) PROVE file.by' = q
    BY <1>7 DEF WritePayload
  <1>8. ASSUME NEW p \in Pid, Release(p) PROVE file.by' = q
    BY <1>8 DEF Release
  <1>9. ASSUME NEW p \in Pid, Abandon(p) \/ End(p) PROVE file.by' = q
    BY <1>9 DEF Abandon, End
  <1> QED
    BY <1>1, <1>2, <1>3, <1>4, <1>5, <1>6, <1>7, <1>8, <1>9 DEF Next, Step

\* The inductive invariant.
THEOREM Invariance == Spec => []IInv
  <1>1. IInv /\ [Next]_vars => IInv'
    BY NextTypeOK, NextVerdicts, NextOwnsFile DEF IInv
  <1> QED
    BY InitIInv, <1>1, PTL DEF Spec

\* Type correctness of the lock protocol.
THEOREM TypeCorrect == Spec => []TypeOK
  <1>1. IInv => TypeOK
    BY DEF IInv
  <1> QED
    BY Invariance, <1>1, PTL

\* Two processes hold the lock only after the clean-up in acquire() has taken
\* a live owner's file away: the O_EXCL creation itself excludes.
THEOREM Exclusion == Spec => []ExclusiveUnlessWrongful
  <1>1. IInv => ExclusiveUnlessWrongful
    BY DEF IInv, OwnsFile, Owner, ExclusiveUnlessWrongful, MutualExclusion
  <1> QED
    BY Invariance, <1>1, PTL

\* A live owner loses its file only to a process that could not read the file
\* or had read another one: os.kill never condemns the owner of the file that
\* is unlinked.
THEOREM WrongfulUnlink == Spec => WrongfulNeedsReplacement
  <1> DEFINE A == \A p \in Pid :
                    pc[p] = "unlink" /\ ~wrongful /\ wrongful' /\ pc'[p] = "open"
                      => seen[p] # file.by
  <1>1. IInv /\ [Next]_vars => [A]_vars
    <2> SUFFICES ASSUME IInv, [Next]_vars, NEW p \in Pid,
                        pc[p] = "unlink", ~wrongful, wrongful', pc'[p] = "open"
                 PROVE  seen[p] # file.by
      OBVIOUS
    <2> USE DEF IInv, TypeOK
    <2>1. Unlink(p)
      BY DEF vars, Next, Step, Begin, Exists, Recheck, Read, Judge, Unlink,
             Open, WritePayload, Release, Abandon, End, Goto
    <2>2. PICK q \in Pid : file.by = q /\ Owner(q)
      BY <2>1 DEF Unlink
    <2> QED
      BY <2>2 DEF VerdictHolds, Owner
  <1> QED
    BY Invariance, <1>1, PTL DEF Spec, WrongfulNeedsReplacement

-----------------------------------------------------------------------------
(***************************************************************************)
(* The protocol implements DeviceLock.  Until a live owner loses its file  *)
(* there is one owner at most, so creating the file is Enter; unlinking,   *)
(* dying or forgetting the lock is Leave; and the clean-up is Reclaim, or  *)
(* Break if the owner is alive.  After that the mapping stutters.          *)
(***************************************************************************)

LEMMA OneInside == IInv => \A p, q \in Inside : p = q
  BY DEF IInv, OwnsFile, Inside

LEMMA InitImplements == Init => Lock!Init
  BY DEF Init, Inside, LeftFile, Owner, Lock!Init

\* After a live owner has lost its file, nothing is promised.
LEMMA BrokenStutters ==
  ASSUME IInv, wrongful, wrongful'
  PROVE  UNCHANGED Lock!vars
  BY DEF IInv, TypeOK, Inside, LeftFile, Lock!vars

\* A step that leaves the owners, and the file or its creator, as they are.
LEMMA SameOwnersStutter ==
  ASSUME IInv, IInv', ~wrongful, ~wrongful', file'.by = file.by,
         \A q \in Pid : Owner(q)' <=> Owner(q)
  PROVE  UNCHANGED Lock!vars
  <1>1. Inside' = Inside
    BY DEF Inside
  <1>2. file = NoFile <=> file' = NoFile
    <2>1. file = NoFile <=> file.by = NoPid
      BY MissingFile DEF IInv
    <2>2. file' = NoFile <=> file'.by = NoPid
      BY DEF IInv, TypeOK, NoFile
    <2> QED
      BY <2>1, <2>2
  <1>3. LeftFile' = LeftFile
    BY <1>1, <1>2 DEF LeftFile
  <1>4. wrongful' = wrongful
    BY DEF IInv, TypeOK
  <1> QED
    BY <1>1, <1>3, <1>4 DEF Lock!vars

LEMMA OpenImplements ==
  ASSUME IInv, IInv', NEW p \in Pid, Open(p), ~wrongful
  PROVE  [Lock!Next]_(Lock!vars)
  <1> USE DEF IInv, TypeOK, Goto
  <1>1. ~wrongful'
    BY DEF Open
  <1>2. CASE file # NoFile
    <2>1. file' = file /\ \A q \in Pid : Owner(q)' <=> Owner(q)
      BY <1>2 DEF Open, Owner
    <2> QED
      BY <1>1, <2>1, SameOwnersStutter
  <1>3. CASE file = NoFile
    <2>1. file' = Creating(p) /\ pc' = [pc EXCEPT ![p] = "write"]
      BY <1>3 DEF Open
    <2>2. Inside = {} /\ ~LeftFile
      BY <1>3, NoPidAssumption DEF OwnsFile, Inside, LeftFile, NoFile
    <2>3. Inside' = {p}
      BY <1>1, <2>1, <2>2 DEF Inside, Owner
    <2>4. ~LeftFile'
      BY <2>1, <2>3 DEF LeftFile, Creating
    <2>5. Lock!Enter(p)
      BY <1>1, <2>2, <2>3, <2>4 DEF Lock!Enter
    <2> QED
      BY <2>5 DEF Lock!Next
  <1> QED
    BY <1>2, <1>3

LEMMA UnlinkImplements ==
  ASSUME IInv, IInv', NEW p \in Pid, Unlink(p), ~wrongful
  PROVE  [Lock!Next]_(Lock!vars)
  <1> USE DEF IInv, TypeOK, Goto
  <1>1. file' = NoFile /\ \A q \in Pid : Owner(q)' <=> Owner(q)
    BY DEF Unlink, Owner
  <1>2. ~LeftFile'
    BY <1>1 DEF LeftFile
  <1>3. CASE wrongful'
    <2>1. PICK q \in Pid : Owner(q)
      BY <1>3 DEF Unlink
    <2>2. Inside # {} /\ Inside' = {}
      BY <1>3, <2>1 DEF Inside
    <2>3. Lock!Break
      BY <1>2, <1>3, <2>2 DEF Lock!Break
    <2> QED
      BY <2>3 DEF Lock!Next
  <1>4. CASE ~wrongful'
    <2>1. Inside' = Inside
      BY <1>1, <1>4 DEF Inside
    <2>2. CASE LeftFile
      <3>1. Lock!Reclaim
        BY <1>2, <1>4, <2>1, <2>2 DEF Lock!Reclaim
      <3> QED
        BY <3>1 DEF Lock!Next
    <2>3. CASE ~LeftFile
      BY <1>2, <1>4, <2>1, <2>3 DEF Lock!vars, LeftFile
    <2> QED
      BY <2>2, <2>3
  <1> QED
    BY <1>3, <1>4

\* A process leaves the locked region, or was not in it.
LEMMA LeavingImplements ==
  ASSUME IInv, IInv', NEW p \in Pid, Release(p) \/ Abandon(p) \/ End(p), ~wrongful
  PROVE  [Lock!Next]_(Lock!vars)
  <1> USE DEF IInv, TypeOK, Goto
  <1>1. ~wrongful' /\ ~Owner(p)'
    BY DEF Release, Abandon, End, Owner
  <1>2. \A q \in Pid \ {p} : Owner(q)' <=> Owner(q)
    BY DEF Release, Abandon, End, Owner
  <1>3. CASE Owner(p)
    <2>1. Inside = {p}
      BY <1>3, OneInside DEF Inside
    <2>2. Inside' = {}
      BY <1>1, <1>2, <2>1 DEF Inside
    <2>3. LeftFile' \in BOOLEAN
      BY DEF LeftFile
    <2>4. Lock!Leave(p)
      BY <1>1, <2>1, <2>2, <2>3 DEF Lock!Leave
    <2> QED
      BY <2>4 DEF Lock!Next
  <1>4. CASE ~Owner(p)
    <2>1. file' = file
      BY <1>4 DEF Release, Abandon, End, Owner
    <2> QED
      BY <1>1, <1>2, <1>4, <2>1, SameOwnersStutter
  <1> QED
    BY <1>3, <1>4

LEMMA NextImplements == IInv /\ IInv' /\ [Next]_vars => [Lock!Next]_(Lock!vars)
  <1> SUFFICES ASSUME IInv, IInv', [Next]_vars PROVE [Lock!Next]_(Lock!vars)
    OBVIOUS
  <1>1. CASE UNCHANGED vars
    BY <1>1 DEF vars, Lock!vars, Inside, LeftFile, Owner, NoFile
  <1>2. CASE wrongful
    <2>1. wrongful' \/ UNCHANGED vars
      BY <1>2 DEF Next, Step, Begin, Exists, Recheck, Read, Judge, Unlink, Open,
         WritePayload, Release, Abandon, End
    <2> QED
      BY <1>1, <1>2, <2>1, BrokenStutters
  <1>3. ASSUME ~wrongful, NEW p \in Pid,
               Begin(p) \/ Exists(p) \/ Recheck(p) \/ Read(p) \/ Judge(p)
                 \/ WritePayload(p)
        PROVE  [Lock!Next]_(Lock!vars)
    <2>1. ~wrongful' /\ file'.by = file.by
      BY <1>3 DEF Begin, Exists, Recheck, Read, Judge, WritePayload, IInv, TypeOK
    <2>2. \A q \in Pid : Owner(q)' <=> Owner(q)
      BY <1>3 DEF Begin, Exists, Recheck, Read, Judge, WritePayload, IInv, TypeOK,
         Owner, Goto
    <2> QED
      BY <1>3, <2>1, <2>2, SameOwnersStutter
  <1> QED
    BY <1>1, <1>2, <1>3, OpenImplements, UnlinkImplements, LeavingImplements
       DEF Next, Step

\* The interleaved system calls implement the lock the commands rely on.
THEOREM LockImplemented == Spec => ImplementsDeviceLock
  BY Invariance, InitImplements, NextImplements, PTL
     DEF Spec, ImplementsDeviceLock, Lock!Spec
=============================================================================
