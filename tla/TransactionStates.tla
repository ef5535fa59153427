------------------------- MODULE TransactionStates -------------------------
(***************************************************************************)
(* The vocabulary of a carrier transaction: the states of its journal, the *)
(* transitions the journal accepts and the sets of states the commands     *)
(* test.  Translated from models.py, transaction/journal.py and            *)
(* transaction/recovery.py; a pure module, without variables.              *)
(*                                                                         *)
(* A journal is reduced to what the code tests of it: its current state,   *)
(* and whether its event list has a BACKUP_VERIFIED entry.  The events are *)
(* append-only, so the second is a flag that never goes back to FALSE.     *)
(***************************************************************************)

TransactionState ==
  { "NEW", "DEVICE_CONNECTED", "PROBED", "COMPATIBILITY_VERIFIED",
    "BACKUP_STARTED", "BACKUP_VERIFIED", "DESIRED_TREE_READY",
    "INSTALL_STARTED", "INSTALL_FINISHED", "READBACK_VERIFIED",
    "RESCAN_REQUESTED", "BINDING_OBSERVED", "BINDING_VERIFIED", "COMMITTED",
    "FAILED", "RECOVERY_REQUIRED", "RESTORE_STARTED", "RESTORE_VERIFIED",
    "ROLLED_BACK" }

INCOMPLETE_STATES ==
  { "INSTALL_STARTED", "INSTALL_FINISHED", "READBACK_VERIFIED",
    "RECOVERY_REQUIRED", "RESTORE_STARTED" }

\* The states a journal in state s may move to.
ALLOWED_TRANSITIONS(s) ==
  CASE s = "NEW"                    -> {"DEVICE_CONNECTED", "FAILED"}
    [] s = "DEVICE_CONNECTED"       -> {"PROBED", "FAILED"}
    [] s = "PROBED"                 -> {"COMPATIBILITY_VERIFIED", "FAILED"}
    [] s = "COMPATIBILITY_VERIFIED" -> {"BACKUP_STARTED", "FAILED"}
    [] s = "BACKUP_STARTED"         -> {"BACKUP_VERIFIED", "FAILED"}
    [] s = "BACKUP_VERIFIED"        -> {"DESIRED_TREE_READY", "RESTORE_STARTED", "FAILED"}
    [] s = "DESIRED_TREE_READY"     -> {"INSTALL_STARTED", "FAILED"}
    [] s = "INSTALL_STARTED"        -> {"INSTALL_FINISHED", "RECOVERY_REQUIRED", "FAILED"}
    [] s = "INSTALL_FINISHED"       -> {"READBACK_VERIFIED", "RECOVERY_REQUIRED", "FAILED"}
    [] s = "READBACK_VERIFIED"      -> {"RESCAN_REQUESTED", "RECOVERY_REQUIRED", "FAILED"}
    [] s = "RESCAN_REQUESTED"       -> {"BINDING_OBSERVED", "RECOVERY_REQUIRED", "FAILED"}
    [] s = "BINDING_OBSERVED"       -> {"BINDING_VERIFIED", "RECOVERY_REQUIRED", "FAILED"}
    [] s = "BINDING_VERIFIED"       -> {"COMMITTED", "RECOVERY_REQUIRED"}
    [] s = "RECOVERY_REQUIRED"      -> {"RESTORE_STARTED"}
    [] s = "RESTORE_STARTED"        -> {"RESTORE_VERIFIED", "FAILED"}
    [] s = "RESTORE_VERIFIED"       -> {"ROLLED_BACK"}
    [] OTHER                        -> {}      \* COMMITTED, FAILED, ROLLED_BACK

\* The states restore_transaction accepts.
Restorable == {"BACKUP_VERIFIED", "RECOVERY_REQUIRED"}

\* The states in which _mark_recovery repeats a fail() that did not get through.
HandlerStates ==
  { "INSTALL_STARTED", "INSTALL_FINISHED", "READBACK_VERIFIED",
    "RESCAN_REQUESTED", "BINDING_OBSERVED", "BINDING_VERIFIED" }

Journal == [state : TransactionState, backup : BOOLEAN]

NewJournal == [state |-> "NEW", backup |-> FALSE]

\* The journal after an event of state s has been appended to it.
Appended(rec, s) ==
  [state |-> s, backup |-> rec.backup \/ s = "BACKUP_VERIFIED"]

\* The state fail() moves a journal to.
FailTarget(rec) ==
  IF rec.backup /\ "RECOVERY_REQUIRED" \in ALLOWED_TRANSITIONS(rec.state)
    THEN "RECOVERY_REQUIRED" ELSE "FAILED"
=============================================================================
