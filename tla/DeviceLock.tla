----------------------------- MODULE DeviceLock -----------------------------
(***************************************************************************)
(* What OperationLock promises the commands: on one device, at most one of *)
(* them at a time is in its locked region, and a lock that its owner did   *)
(* not give back is taken over, not waited for.                            *)
(*                                                                         *)
(* The promise is conditional.  broken says that it has been given up,     *)
(* because the lock file of a command inside was unlinked by another; from *)
(* then on nothing is promised.                                            *)
(***************************************************************************)
CONSTANT Proc      \* the processes that use the lock

VARIABLES
  inside,    \* the processes in their locked region
  left,      \* a lock has been left behind by a process no longer inside
  broken     \* the promise has been given up

vars == <<inside, left, broken>>

Init == inside = {} /\ ~left /\ ~broken

\* Nobody is inside; a lock left behind is taken over.
Enter(p) ==
  /\ ~broken
  /\ inside = {}
  /\ inside' = {p}
  /\ ~left'
  /\ UNCHANGED broken

\* The lock is given back, or left behind by a crash or an exception.
Leave(p) ==
  /\ ~broken
  /\ inside = {p}
  /\ inside' = {}
  /\ left' \in BOOLEAN
  /\ UNCHANGED broken

\* A lock left behind is cleaned up.
Reclaim ==
  /\ ~broken
  /\ left /\ ~left'
  /\ UNCHANGED <<inside, broken>>

\* A live owner's lock is cleaned up.
Break ==
  /\ ~broken /\ broken'
  /\ inside # {} /\ inside' = {}
  /\ ~left'

Next == Reclaim \/ Break \/ \E p \in Proc : Enter(p) \/ Leave(p)

Spec == Init /\ [][Next]_vars
=============================================================================
