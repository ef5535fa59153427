-------------------------- MODULE TreeReplacement --------------------------
(***************************************************************************)
(* What the transactions promise about the carrier tree of one device,     *)
(* whichever commands run, stop or are killed:                             *)
(*                                                                         *)
(*   - the tree changes only under a transaction that is open, and has a   *)
(*     backup that has been fixed before it was opened;                    *)
(*   - it becomes that transaction's backup, the tree desired over that    *)
(*     backup, or a torn tree;                                             *)
(*   - a transaction is committed only over the desired tree, and rolled   *)
(*     back only over the backup itself.                                   *)
(*                                                                         *)
(* How a transaction knows what is on the device, what it reads twice and  *)
(* who holds which lock is the business of CarrierTransactions.            *)
(***************************************************************************)
CONSTANTS
  Tx,              \* the transactions
  Tree, Stock,     \* the trees a device may hold; the one it has at first
  Torn,            \* an incomplete tree
  Desired(_)       \* the tree to install over a backup

VARIABLES
  phase,      \* how far each transaction is
  backup,     \* the tree it has saved
  device      \* the tree on the device

vars == <<phase, backup, device>>

Phase == {"none", "saved", "open", "settled", "committed", "rolledback", "failed"}

Move(i, to) == phase' = [phase EXCEPT ![i] = to]

Init ==
  /\ phase = [i \in Tx |-> "none"]
  /\ backup = [i \in Tx |-> Stock]
  /\ device = Stock

\* The tree is exported while the transaction has no backup yet.
Export(i) ==
  /\ phase[i] = "none"
  /\ backup' = [backup EXCEPT ![i] = device]
  /\ UNCHANGED <<phase, device>>

\* From here on the backup is fixed.
Save(i) ==
  /\ phase[i] = "none" /\ Move(i, "saved")
  /\ UNCHANGED <<backup, device>>

\* Any transaction with a backup can be opened, or opened again, or fail.
OpenOrFail(i) ==
  /\ phase[i] # "none"
  /\ \E to \in {"open", "failed"} : Move(i, to)
  /\ UNCHANGED <<backup, device>>

Place(i) ==
  /\ phase[i] = "open"
  /\ device' \in {Torn, backup[i], Desired(backup[i])}
  /\ UNCHANGED <<phase, backup>>

\* The placement is over, and what was meant to be there is there.
Finish(i) ==
  /\ phase[i] \in {"open", "settled"}
  /\ \/ Move(i, "settled") /\ device \in {backup[i], Desired(backup[i])}
     \/ Move(i, "committed") /\ device = Desired(backup[i])
     \/ Move(i, "rolledback") /\ device = backup[i]
  /\ UNCHANGED <<backup, device>>

Next ==
  \E i \in Tx : Export(i) \/ Save(i) \/ OpenOrFail(i) \/ Place(i) \/ Finish(i)

Spec == Init /\ [][Next]_vars
=============================================================================
