------------------------- MODULE CommCenterBinding -------------------------
(***************************************************************************)
(* What CarrierBundleLab concludes from CommCenter's log: the attempts of  *)
(* correlate_attempts, and the verdict of BindingVerifier.verify, while the *)
(* phone goes on logging.                                                  *)
(*                                                                         *)
(* The monitor parses the whole log file anew at every look.  The file     *)
(* grows until a monitor that starts empties it, and the parser goes       *)
(* through it line by line, so its result is the one of parsing each line  *)
(* as it arrives: attempts and open are the parser's variables after the   *)
(* lines in log.                                                           *)
(*                                                                         *)
(* The syslog processes of earlier monitors are never stopped and go on    *)
(* writing into the same file.  That they repeat lines is no case of its   *)
(* own, as any line may follow any other here; that they write at offsets  *)
(* of their own, and may spoil lines already there, is left out.           *)
(*                                                                         *)
(* Only lines that _parse_record lets through are logged here: those of    *)
(* CommCenter that have a known marker.  A line that has been written in   *)
(* part does not parse, and is not there yet.                              *)
(***************************************************************************)
EXTENDS Sequences, Integers

CONSTANTS
  Slot,        \* the SIM slots
  NoSlot,      \* a line, or an attempt, that names no slot
  Bundle,      \* the carrier bundles a path may resolve to
  NoBundle,    \* no path
  Expected,    \* the bundle whose binding is awaited
  Message,     \* what a line may say
  MaxLines     \* bound: lines the phone logs

Key == Slot \cup {NoSlot}

Outcome == {"none", "success", "failure"}

\* A message that starts an attempt ("re-evaluating ... carrier bundle") is
\* tested for nothing else.  One that only has a linking path has neither a
\* path nor an outcome; it counts, as it opens an attempt where there is none.
AnyMessage ==
  [reeval : BOOLEAN, path : Bundle \cup {NoBundle}, outcome : Outcome]

ASSUME ConstantAssumption ==
  /\ NoSlot \notin Slot
  /\ NoBundle \notin Bundle
  /\ Expected \in Bundle
  /\ Message \subseteq AnyMessage
  /\ MaxLines \in Nat

Line == [slot : Key, msg : Message]

\* override_success and override_failure; completed_at is set with either.
Attempt ==
  [slot : Key, path : Bundle \cup {NoBundle}, success : BOOLEAN,
   failed : BOOLEAN, completed : BOOLEAN]

BindingStatus == {"WAITING", "OBSERVED", "VERIFIED", "FAILED", "TIMEOUT"}

VARIABLES
  log,        \* the log file: the lines so far
  attempts,   \* the attempts, oldest first
  open,       \* open_by_slot: the index in attempts of each key's, or 0
  old,        \* history: how many lines the log has from before the monitor
              \* the command has started, if it has
  pc,         \* where verify() is
  status      \* its answer; "none" before

parser == <<attempts, open>>
vars == <<log, parser, old, pc, status>>

Init ==
  /\ log = <<>>
  /\ attempts = <<>>
  /\ open = [k \in Key |-> 0]
  /\ old = 0
  /\ pc = "idle"
  /\ status = "none"

(***************************************************************************)
(* correlate_attempts                                                      *)
(***************************************************************************)
NewAttemptUnlabelled(k) ==
  [slot |-> NoSlot, path |-> NoBundle, success |-> FALSE, failed |-> FALSE,
   completed |-> FALSE]

NewAttempt(k) ==
  [slot |-> k, path |-> NoBundle, success |-> FALSE, failed |-> FALSE,
   completed |-> FALSE]

\* The keys an attempt is open for.
OpenKeys == {k \in Key : open[k] # 0}

AttemptOfLast(k) == Len(attempts)

\* The attempt a line of key k is about: that of its key; or, for a line that
\* names no slot, the one attempt there is, if there is just one.  0 if none.
AttemptOf(k) ==
  IF open[k] = 0 /\ k = NoSlot /\ \E j \in Key : OpenKeys = {j}
    THEN open[CHOOSE j \in Key : OpenKeys = {j}]
    ELSE open[k]

UpdatedWithPathKept(a, m) ==
  [a EXCEPT !.path = IF @ = NoBundle THEN m.path ELSE @,
            !.success = (m.outcome = "success") \/ (@ /\ m.outcome = "none"),
            !.failed = @ \/ m.outcome = "failure",
            !.completed = @ \/ m.outcome # "none"]

\* A success does not clear a failure: the attempt keeps override_failure.
Updated(a, m) ==
  [a EXCEPT !.path = IF m.path # NoBundle THEN m.path ELSE @,
            !.success = (m.outcome = "success") \/ (@ /\ m.outcome = "none"),
            !.failed = @ \/ m.outcome = "failure",
            !.completed = @ \/ m.outcome # "none"]

PushUnopened(k, a) ==
  /\ attempts' = Append(attempts, a)
  /\ open' = [open EXCEPT ![k] = IF @ = 0 THEN Len(attempts) + 1 ELSE @]

\* A new attempt, open for its key.
Push(k, a) ==
  /\ attempts' = Append(attempts, a)
  /\ open' = [open EXCEPT ![k] = Len(attempts) + 1]

\* The phone logs a line: the file has it, and the next look finds it parsed.
Record(k, m) ==
  /\ pc # "done" /\ Len(log) < MaxLines
  /\ log' = Append(log, [slot |-> k, msg |-> m])
  /\ IF m.reeval THEN Push(k, NewAttempt(k))
     ELSE IF AttemptOf(k) = 0 THEN Push(k, Updated(NewAttempt(k), m))
     ELSE /\ attempts' = [attempts EXCEPT ![AttemptOf(k)] = Updated(@, m)]
          /\ UNCHANGED open
  /\ UNCHANGED <<old, pc, status>>

(***************************************************************************)
(* CommCenterMonitor.start                                                 *)
(***************************************************************************)

\* The live log is opened for writing, whatever it holds.
Truncate ==
  /\ log' = <<>>
  /\ attempts' = <<>>
  /\ open' = [k \in Key |-> 0]

TriggerAppending ==
  /\ pc = "idle" /\ pc' = "start"
  /\ old' = Len(log)
  /\ UNCHANGED <<log, parser, status>>

\* The rescan of an install starts the monitor of the live log.
Trigger ==
  /\ pc = "idle" /\ pc' = "start"
  /\ Truncate
  /\ old' = Len(log')
  /\ UNCHANGED status

\* "carrier verify --log", or a workflow that was given a monitor with a log:
\* start() is not called, or leaves a log that is there as it is.
GivenLog ==
  /\ pc = "idle" /\ pc' = "start"
  /\ UNCHANGED <<log, parser, old, status>>

\* "carrier verify" alone: its monitor has no log, and finds no attempt.
NoLog ==
  /\ pc = "idle" /\ pc' = "done"
  /\ status' = "WAITING"
  /\ UNCHANGED <<log, parser, old>>

\* Another command starts a monitor of the same device.
OtherTrigger ==
  /\ pc # "done"
  /\ Truncate
  /\ old' = 0
  /\ UNCHANGED <<pc, status>>

(***************************************************************************)
(* BindingVerifier.verify                                                  *)
(***************************************************************************)

\* An attempt of the expected bundle with a success: _verified.
Verified == \E i \in 1 .. Len(attempts) :
              attempts[i].path = Expected /\ attempts[i].success

\* _status_for: the last attempt decides.
StatusFor(timedOut) ==
  IF attempts = <<>> THEN IF timedOut THEN "TIMEOUT" ELSE "WAITING"
  ELSE LET a == attempts[Len(attempts)] IN
       CASE a.failed -> "FAILED"
         [] ~a.failed /\ a.path \notin {NoBundle, Expected} /\ a.completed -> "FAILED"
         [] ~a.failed /\ a.path = Expected ->
              IF a.success THEN "VERIFIED" ELSE "OBSERVED"
         [] OTHER -> IF timedOut THEN "TIMEOUT" ELSE "WAITING"

Answer(timedOut) ==
  /\ status' = StatusFor(timedOut)
  /\ pc' = "done"
  /\ UNCHANGED <<log, parser, old>>

\* Without a timeout there is one look.
Look == pc = "start" /\ Answer(FALSE)

Wait ==
  /\ pc = "start"
  /\ pc' = "waiting"
  /\ UNCHANGED <<log, parser, old, status>>

PollAnyAttempt == pc = "waiting" /\ attempts # <<>> /\ Answer(~Verified)

\* A look of wait_for_binding that ends the wait; one that finds nothing
\* verified sleeps and looks again.
Poll == pc = "waiting" /\ Verified /\ Answer(FALSE)

Deadline ==
  /\ pc = "waiting"
  /\ pc' = "last"
  /\ UNCHANGED <<log, parser, old, status>>

\* After the deadline the log is read once more, and may have the answer.
LastLook == pc = "last" /\ Answer(~Verified)

Next ==
  \/ \E k \in Key, m \in Message : Record(k, m)
  \/ Trigger \/ GivenLog \/ NoLog \/ OtherTrigger
  \/ Look \/ Wait \/ Poll \/ Deadline \/ LastLook

Spec == Init /\ [][Next]_vars

-----------------------------------------------------------------------------
(***************************************************************************)
(* Properties                                                              *)
(***************************************************************************)

\* The values the variables range over; an open attempt is one of its key.
TypeOK ==
  /\ log \in Seq(Line) /\ Len(log) <= MaxLines
  /\ attempts \in Seq(Attempt)
  /\ open \in [Key -> 0 .. Len(attempts)]
  /\ \A k \in OpenKeys : attempts[open[k]].slot = k
  /\ old \in 0 .. Len(log)
  /\ pc \in {"idle", "start", "waiting", "last", "done"}
  /\ status \in BindingStatus \cup {"none"}

\* Line n of the log is about slot k, or may be, and no re-evaluation of k
\* has made it obsolete.
Current(n, k) ==
  /\ log[n].slot \in {k, NoSlot}
  /\ \A m \in n .. Len(log) : ~(log[m].slot = k /\ log[m].msg.reeval)

\* The log shows that the expected bundle is bound for slot k: a path and a
\* success, no other path after it and no failure, in the lines that name k.
\* (A failure that names no slot, before the path, may be that of one slot.)
Evidence(k) ==
  \E i, j \in 1 .. Len(log) :
    /\ Current(i, k) /\ log[i].msg.path = Expected
    /\ Current(j, k) /\ log[j].msg.outcome = "success"
    /\ \A n \in 1 .. Len(log) : log[n].slot = k /\ Current(n, k) =>
         /\ n > i => log[n].msg.path \in {NoBundle, Expected}
         /\ n > i \/ k # NoSlot => log[n].msg.outcome # "failure"

\* VERIFIED, on which an install commits, rests on the lines of one slot since
\* its last re-evaluation: never on the path of one SIM and the success of the
\* other, on an earlier attempt, or over a failure.
VerifiedIsEvidenced ==
  [][pc' = "done" /\ pc # "done" /\ status' = "VERIFIED"
       => \E k \in Key : Evidence(k)]_vars

\* Lines of an earlier binding do not verify this one: an install that started
\* its monitor is VERIFIED by a path and a success that have come into the log
\* since then.
VerifiedSinceRescan ==
  [][pc' = "done" /\ pc # "done" /\ status' = "VERIFIED"
       => \E i, j \in old + 1 .. Len(log) :
            log[i].msg.path = Expected /\ log[j].msg.outcome = "success"]_vars

\* The phone has named slot k, by line n, first and alone: what names no slot
\* is about it.  (For NoSlot: no line has named a slot.)
Alone(k, n) ==
  /\ log[1].slot = k
  /\ \A m \in 1 .. n :
       log[m].slot = k \/ (log[m].slot = NoSlot /\ ~log[m].msg.reeval)

\* What line n says, it says of slot k.
About(n, k) ==
  /\ ~log[n].msg.reeval
  /\ \/ log[n].slot = k /\ k # NoSlot
     \/ log[n].slot \in {k, NoSlot} /\ Alone(k, n)

\* Line n comes after line i, with no re-evaluation of slot k since, and is
\* about k or may be.
During(i, n, k) ==
  /\ i < n /\ log[n].slot \in {k, NoSlot}
  /\ \A m \in i + 1 .. n : ~(log[m].slot = k /\ log[m].msg.reeval)

\* Line i shows the expected path for slot k, and no line takes it back.
ShowsPath(i, k) ==
  /\ About(i, k) /\ log[i].msg.path = Expected
  /\ \A n \in 1 .. Len(log) :
       During(i, n, k) => log[n].msg.path \in {NoBundle, Expected}

\* Line j shows a success for slot k, and no failure follows.
ShowsSuccess(j, k) ==
  /\ About(j, k) /\ log[j].msg.outcome = "success"
  /\ \A n \in 1 .. Len(log) : During(j, n, k) => log[n].msg.outcome # "failure"

\* The log shows both for slot k, with no re-evaluation of it between them.
\* One that comes after them, or a later attempt of any slot, changes nothing.
ShowsBinding(k) ==
  \E i, j \in 1 .. Len(log) :
    /\ ShowsPath(i, k) /\ ShowsSuccess(j, k)
    /\ i = j \/ During(i, j, k) \/ During(j, i, k)

\* TIMEOUT, on which an install is marked for recovery, is never the answer
\* when the lines of the log show a slot to be bound: no line is counted for
\* another slot's attempt, none is lost to an attempt that a re-evaluation has
\* closed, and a success that comes between the last poll and the deadline is
\* still seen.
TimeoutIsUnbound ==
  [][pc' = "done" /\ pc # "done" /\ status' = "TIMEOUT"
       => \A k \in Key : ~ShowsBinding(k)]_vars

\* A re-evaluation closes the attempts of its slot: no later line, whatever
\* slot it names or leaves out, changes what is known of them, as long as the
\* log is not emptied.
ClosedAttemptsFrozen ==
  [][log' # <<>> => \A i \in 1 .. Len(attempts) :
       (\E n \in 1 .. Len(attempts) : n > i /\ attempts[n].slot = attempts[i].slot)
         => attempts'[i] = attempts[i]]_vars

\* A wait that ends before its deadline has the verdict it waited for, if the
\* log has one attempt only and no failure.  (With two, the last one decides.)
OneAttemptDecides ==
  [][pc = "waiting" /\ pc' = "done" /\ Len(attempts) = 1 /\ ~attempts[1].failed
       => status' = "VERIFIED"]_vars

\* Line j reports a success of another bundle: the last path its slot had
\* resolved to, in the lines that name the slot, is not the expected one.
OfAnotherBundle(j) ==
  \E i \in 1 .. j :
    /\ log[i].slot = log[j].slot
    /\ log[i].msg.path \notin {NoBundle, Expected}
    /\ \A n \in i .. j : log[n].slot = log[j].slot => log[n].msg.path # Expected

\* README: COMMITTED requires kOverrideBundleSuccess, and "A resolved path alone
\* stays OBSERVED / WAITING": the success that makes the expected path VERIFIED
\* is not one that was reported for another bundle before.
SuccessIsOfThisBundle ==
  [][pc' = "done" /\ pc # "done" /\ status' = "VERIFIED"
       => \E j \in 1 .. Len(log) :
            log[j].msg.outcome = "success" /\ ~OfAnotherBundle(j)]_vars
=============================================================================
