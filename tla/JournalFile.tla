---------------------------- MODULE JournalFile ----------------------------
(***************************************************************************)
(* How a journal gets onto the disk (_atomic_write_json of                 *)
(* transaction/journal.py): written to journal.json.tmp, which then takes  *)
(* the place of journal.json.  The temporary file has one name, whoever    *)
(* writes, and a killed writer leaves it behind.                           *)
(*                                                                         *)
(* The writers are the processes of OperationLock: in their locked region, *)
(* and outside of it those that run mark-recovery or the end of a dry run. *)
(* Here it is one journal they all write, and CarrierTransactions has one  *)
(* step for what are three here.                                           *)
(*                                                                         *)
(* A file is "part" when it is empty or holds a beginning only, and        *)
(* "mixed" when it has the text of one writer with the tail of another's.  *)
(* Neither parses, and main() reads every journal before it does anything. *)
(***************************************************************************)
EXTENDS OperationLock

CONSTANT Unlocked   \* the processes that may write without the lock

ASSUME UnlockedAssumption == Unlocked \subseteq Pid

VARIABLES
  shown,    \* journal.json
  tmp,      \* journal.json.tmp
  handle,   \* the file each process has open: by its present name, if any
  wrote,    \* the writers whose text is in that file already
  raced     \* history: two processes have been writing, one without the lock

files == <<shown, tmp, handle, wrote, raced>>
allVars == <<vars, files>>

Content == {"whole", "part", "mixed"}

Writing(p) == handle[p] # "none"

JournalInit ==
  /\ Init
  /\ shown = "whole"
  /\ tmp = "absent"
  /\ handle = [p \in Pid |-> "none"]
  /\ wrote = {}
  /\ raced = FALSE

MayWrite(p) == pc[p] = "cs" \/ (p \in Unlocked /\ pc[p] = "idle")

\* p starts to write next to a writer that has no lock, or has none itself.
Races(p) ==
  \E q \in Pid \ {p} : Writing(q) /\ "idle" \in {pc[p], pc[q]}

OpenInPlace(p) ==
  /\ MayWrite(p) /\ ~Writing(p)
  /\ shown' = "part"
  /\ handle' = [handle EXCEPT ![p] = "shown"]
  /\ raced' = (raced \/ Races(p))
  /\ UNCHANGED <<vars, tmp, wrote>>

\* tmp.open("w"): the temporary file is created, or emptied if it is there.
OpenTmp(p) ==
  /\ MayWrite(p) /\ ~Writing(p)
  /\ tmp' = "part"
  /\ handle' = [handle EXCEPT ![p] = "tmp"]
  /\ raced' = (raced \/ Races(p))
  /\ UNCHANGED <<vars, shown, wrote>>

\* What a file may hold when p has written all its text from the start of it.
Over(p, content) ==
  IF content = "part" /\ \A q \in Pid \ {p} : handle[q] # handle[p]
    THEN {"whole"}
    ELSE {"whole", "mixed"}

\* json.dump, flush and fsync, into the open file, whatever its name is by now.
WriteTmp(p) ==
  /\ Writing(p) /\ p \notin wrote
  /\ wrote' = wrote \cup {p}
  /\ IF handle[p] = "tmp" THEN tmp' \in Over(p, tmp) ELSE UNCHANGED tmp
  /\ IF handle[p] = "shown" THEN shown' \in Over(p, shown) ELSE UNCHANGED shown
  /\ UNCHANGED <<vars, handle, raced>>

Closed(p) ==
  /\ p \in wrote
  /\ wrote' = wrote \ {p}

\* os.replace: whatever has the temporary name becomes the journal.  If
\* another process has renamed it already, this raises.
Replace(p) ==
  /\ Closed(p)
  /\ IF tmp = "absent"
       THEN /\ handle' = [handle EXCEPT ![p] = "none"]
            /\ UNCHANGED <<shown, tmp>>
       ELSE /\ shown' = tmp
            /\ tmp' = "absent"
            /\ handle' = [q \in Pid |->
                 CASE q = p -> "none"
                   [] q # p /\ handle[q] = "tmp" -> "shown"
                   [] q # p /\ handle[q] = "shown" -> "gone"
                   [] OTHER -> handle[q]]
  /\ UNCHANGED <<vars, raced>>

\* What a file may hold when p has left off part of the way.
Partly(p, content) ==
  IF content = "part" /\ \A q \in Pid \ {p} : handle[q] # handle[p]
    THEN {"part"}
    ELSE {content, "mixed"}

\* The file is closed as it is, with all the text in it or a beginning.
BreakOff(p) ==
  /\ handle' = [handle EXCEPT ![p] = "none"]
  /\ wrote' = wrote \ {p}
  /\ tmp' \in IF handle[p] = "tmp" /\ p \notin wrote THEN Partly(p, tmp) ELSE {tmp}
  /\ shown' \in IF handle[p] = "shown" /\ p \notin wrote THEN Partly(p, shown) ELSE {shown}
  /\ UNCHANGED raced

\* json.dump, flush, fsync or os.replace raises: the caller goes on, and
\* nothing removes the temporary file.
WriteRaises(p) ==
  /\ Writing(p)
  /\ BreakOff(p)
  /\ UNCHANGED vars

\* Between two writes the lock goes its way; main() has to get through the
\* journals first.
LockStep(p) ==
  /\ ~Writing(p)
  /\ \/ Begin(p) /\ shown = "whole"
     \/ Step(p)
     \/ Abandon(p)
  /\ UNCHANGED files

\* A writer that ends leaves the files as they are.
Killed(p) ==
  /\ End(p)
  /\ BreakOff(p)

JournalNext ==
  \E p \in Pid :
    \/ OpenTmp(p) \/ WriteTmp(p) \/ Replace(p) \/ WriteRaises(p)
    \/ LockStep(p) \/ Killed(p)

\* As in OperationLock; nobody has to write a journal.
JournalFairness == \A p \in Pid : WF_allVars(~Writing(p) /\ Step(p) /\ UNCHANGED files)

JournalSpec == JournalInit /\ [][JournalNext]_allVars /\ JournalFairness

-----------------------------------------------------------------------------
(***************************************************************************)
(* Properties                                                              *)
(***************************************************************************)

\* The journal can be read at every moment, and writers may die at every
\* moment, as long as writers exclude each other: it is torn only after the
\* clean-up of the lock has gone wrong, or after a command that writes without
\* the lock has overlapped with another writer.
JournalWhole == shown = "whole" \/ wrongful \/ raced
=============================================================================
