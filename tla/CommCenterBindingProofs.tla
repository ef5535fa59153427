---------------------- MODULE CommCenterBindingProofs ----------------------
(***************************************************************************)
(* Proofs about CommCenterBinding, for any number of slots, bundles, lines *)
(* and kinds of message: what an answer of the verifier says of the log.   *)
(***************************************************************************)
EXTENDS CommCenterBinding, TLAPS

-----------------------------------------------------------------------------
(***************************************************************************)
(* The inductive invariant                                                 *)
(***************************************************************************)

\* The open attempt of a key is the last one of the key.
OpenIsLatest ==
  \A k \in Key, n \in 1 .. Len(attempts) :
    attempts[n].slot = k => n <= open[k]

\* No monitor starts on a log that is kept.
StartsEmpty == old = 0

\* A slot that a line has named has an attempt.  (A line that names none may
\* have gone to the attempt of the one slot that had one.)
NamedIsOpen ==
  \A n \in 1 .. Len(log) : log[n].slot # NoSlot => open[log[n].slot] # 0

\* Line i gives the open attempt of k the expected path: since then the lines
\* of k name no other one, and no failure that the attempt does not have.
PathFrom(i, k) ==
  /\ Current(i, k) /\ log[i].msg.path = Expected
  /\ \A n \in 1 .. Len(log) : n > i /\ log[n].slot = k /\ Current(n, k) =>
       /\ log[n].msg.path \in {NoBundle, Expected}
       /\ log[n].msg.outcome = "failure" => attempts[open[k]].failed

PathShown ==
  \A k \in OpenKeys : attempts[open[k]].path = Expected
    => \E i \in 1 .. Len(log) : PathFrom(i, k)

SuccessShown ==
  \A k \in OpenKeys : attempts[open[k]].success
    => \E j \in 1 .. Len(log) : Current(j, k) /\ log[j].msg.outcome = "success"

\* A failure that names a slot is not lost as long as its attempt is open.
FailureKept ==
  \A n \in 1 .. Len(log) :
    /\ log[n].slot # NoSlot /\ Current(n, log[n].slot)
    /\ log[n].msg.outcome = "failure"
    => attempts[open[log[n].slot]].failed

BindingInv ==
  /\ TypeOK
  /\ OpenIsLatest
  /\ StartsEmpty
  /\ NamedIsOpen
  /\ PathShown
  /\ SuccessShown
  /\ FailureKept

-----------------------------------------------------------------------------
(***************************************************************************)
(* Lemmas about the parser                                                 *)
(***************************************************************************)

\* The message of a line, field by field.
LEMMA MessageFields ==
  ASSUME NEW m \in Message
  PROVE  /\ m \in [reeval : BOOLEAN, path : Bundle \cup {NoBundle}, outcome : Outcome]
         /\ m.reeval \in BOOLEAN
         /\ m.path \in Bundle \cup {NoBundle}
         /\ m.outcome \in Outcome
BY ConstantAssumption DEF AnyMessage

\* A new attempt knows nothing but its slot.
LEMMA NewAttemptKnows ==
  ASSUME NEW k \in Key
  PROVE  /\ NewAttempt(k) \in Attempt
         /\ NewAttempt(k).slot = k
         /\ NewAttempt(k).path = NoBundle
         /\ NewAttempt(k).success = FALSE
         /\ NewAttempt(k).failed = FALSE
BY DEF NewAttempt, Attempt

\* A line adds to an attempt what it says: a path replaces the one before, a
\* failure stays.
LEMMA UpdatedKnows ==
  ASSUME NEW a \in Attempt, NEW m \in Message
  PROVE  /\ Updated(a, m) \in Attempt
         /\ Updated(a, m).slot = a.slot
         /\ Updated(a, m).path = IF m.path # NoBundle THEN m.path ELSE a.path
         /\ Updated(a, m).success
              = ((m.outcome = "success") \/ (a.success /\ m.outcome = "none"))
         /\ Updated(a, m).failed = (a.failed \/ m.outcome = "failure")
<1>1. /\ a.slot \in Key /\ a.path \in Bundle \cup {NoBundle}
      /\ a.success \in BOOLEAN /\ a.failed \in BOOLEAN /\ a.completed \in BOOLEAN
  BY DEF Attempt
<1>2. m.path \in Bundle \cup {NoBundle} /\ m.outcome \in Outcome
  BY MessageFields
<1>3. Updated(a, m) \in Attempt
  BY <1>2 DEF Updated, Attempt
<1>4. Updated(a, m).slot = a.slot
  BY DEF Updated, Attempt
<1>5. Updated(a, m).path = IF m.path # NoBundle THEN m.path ELSE a.path
  BY DEF Updated, Attempt
<1>6. Updated(a, m).success
        = ((m.outcome = "success") \/ (a.success /\ m.outcome = "none"))
  BY <1>1 DEF Updated, Attempt
<1>7. Updated(a, m).failed = (a.failed \/ m.outcome = "failure")
  BY <1>1 DEF Updated, Attempt
<1>. QED  BY <1>3, <1>4, <1>5, <1>6, <1>7

\* The attempt a line goes to is one that is open, for the key of the line or,
\* if that is none, for another key.
LEMMA AttemptOfIsOpen ==
  ASSUME TypeOK, NEW k \in Key
  PROVE  /\ open[k] # 0 => AttemptOf(k) = open[k]
         /\ k # NoSlot => AttemptOf(k) = open[k]
         /\ AttemptOf(k) \in 0 .. Len(attempts)
         /\ AttemptOf(k) # 0 =>
              \E j \in OpenKeys : AttemptOf(k) = open[j] /\ k \in {j, NoSlot}
<1>1. CASE open[k] = 0 /\ k = NoSlot /\ \E j \in Key : OpenKeys = {j}
  <2>1. PICK j \in Key : OpenKeys = {j}
    BY <1>1
  <2>2. (CHOOSE i \in Key : OpenKeys = {i}) = j
    BY <2>1
  <2>3. AttemptOf(k) = open[j]
    BY <1>1, <2>2 DEF AttemptOf
  <2>4. j \in OpenKeys /\ open[j] \in 0 .. Len(attempts)
    BY <2>1 DEF TypeOK
  <2>. QED  BY <1>1, <2>3, <2>4
<1>2. CASE ~(open[k] = 0 /\ k = NoSlot /\ \E j \in Key : OpenKeys = {j})
  <2>1. AttemptOf(k) = open[k]
    BY <1>2 DEF AttemptOf
  <2>. QED  BY <2>1 DEF TypeOK, OpenKeys
<1>. QED  BY <1>1, <1>2

\* Two keys are never open for the same attempt.
LEMMA OpenOfOneKey ==
  ASSUME TypeOK, NEW j \in OpenKeys, NEW k \in OpenKeys, open[j] = open[k]
  PROVE  j = k
BY DEF TypeOK

\* An open attempt is an attempt.
LEMMA OpenAttempt ==
  ASSUME TypeOK, NEW k \in OpenKeys
  PROVE  /\ k \in Key
         /\ open[k] \in 1 .. Len(attempts)
         /\ attempts[open[k]] \in Attempt
         /\ attempts[open[k]].slot = k
<1>1. k \in Key /\ open[k] # 0
  BY DEF OpenKeys
<1>2. open[k] \in 1 .. Len(attempts)
  BY <1>1 DEF TypeOK
<1>3. attempts[open[k]] \in Attempt
  BY <1>2 DEF TypeOK
<1>. QED  BY <1>1, <1>2, <1>3 DEF TypeOK

\* The log after a line is the log before it, and the line.
LEMMA LogGrows ==
  ASSUME TypeOK, NEW k \in Key, NEW m \in Message, Record(k, m)
  PROVE  /\ log' \in Seq(Line)
         /\ Len(log) \in Nat /\ Len(log') = Len(log) + 1
         /\ \A n \in 1 .. Len(log) : log'[n] = log[n]
         /\ log'[Len(log) + 1].slot = k
         /\ log'[Len(log) + 1].msg = m
<1>1. [slot |-> k, msg |-> m] \in Line
  BY MessageFields DEF Line, AnyMessage, ConstantAssumption
<1>. QED  BY <1>1 DEF Record, TypeOK

\* A line leaves the earlier ones current, but for the lines of its slot when
\* it is a re-evaluation.
LEMMA CurrentAfter ==
  ASSUME TypeOK, NEW k \in Key, NEW m \in Message, Record(k, m), NEW h \in Key,
         NEW N \in Nat, N = Len(log) + 1
  PROVE  /\ \A n \in 1 .. Len(log) :
              Current(n, h)' <=> Current(n, h) /\ ~(k = h /\ m.reeval)
         /\ Current(N, h)' <=> k \in {h, NoSlot} /\ ~(k = h /\ m.reeval)
<1>1. /\ Len(log) \in Nat /\ Len(log') = N
      /\ \A n \in 1 .. Len(log) : log'[n] = log[n]
      /\ log'[N].slot = k /\ log'[N].msg = m
  BY LogGrows
<1>2. ASSUME NEW n \in 1 .. Len(log)
      PROVE  Current(n, h)' <=> Current(n, h) /\ ~(k = h /\ m.reeval)
  <2>1. n .. N = (n .. Len(log)) \cup {N} /\ n .. Len(log) \subseteq 1 .. Len(log)
    BY <1>1
  <2>2. Current(n, h)' <=>
          /\ log[n].slot \in {h, NoSlot}
          /\ \A i \in n .. N : ~(log'[i].slot = h /\ log'[i].msg.reeval)
    BY <1>1 DEF Current
  <2>. QED  BY <1>1, <2>1, <2>2 DEF Current
<1>3. Current(N, h)' <=> k \in {h, NoSlot} /\ ~(k = h /\ m.reeval)
  <2>1. \A i \in N .. N : i = N
    BY <1>1
  <2>2. N \in N .. N
    BY <1>1
  <2>3. Current(N, h)' <=>
          /\ log'[N].slot \in {h, NoSlot}
          /\ \A i \in N .. N : ~(log'[i].slot = h /\ log'[i].msg.reeval)
    BY <1>1 DEF Current
  <2>. QED  BY <1>1, <2>1, <2>2, <2>3
<1>. QED  BY <1>2, <1>3

-----------------------------------------------------------------------------
(***************************************************************************)
(* What a line does to the attempt that is open for a key                  *)
(***************************************************************************)

\* A re-evaluation opens a new one for its key ...
ReopenedBy(h, k, m) ==
  h = k /\ m.reeval /\ attempts'[open'[h]] = NewAttempt(k)

\* ... and so does another line that has none to go to ...
OpenedBy(h, k, m) ==
  /\ h = k /\ ~m.reeval /\ open[h] = 0
  /\ attempts'[open'[h]] = Updated(NewAttempt(k), m)

\* ... that else goes to the one of its slot, or to the only one there is ...
UpdatedBy(h, k, m) ==
  /\ ~m.reeval /\ open[h] # 0 /\ k \in {h, NoSlot}
  /\ attempts'[open'[h]] = Updated(attempts[open[h]], m)

\* ... and leaves those of the other keys alone.
KeptBy(h, k) ==
  h # k /\ open[h] # 0 /\ attempts'[open'[h]] = attempts[open[h]]

\* Record, for the attempts as a whole: one is appended, for the key of the
\* line, or an open one is updated.
LEMMA RecordAppendsOrUpdates ==
  ASSUME TypeOK, NEW k \in Key, NEW m \in Message, Record(k, m)
  PROVE  \/ /\ m.reeval \/ AttemptOf(k) = 0
            /\ Push(k, IF m.reeval THEN NewAttempt(k) ELSE Updated(NewAttempt(k), m))
         \/ /\ ~m.reeval /\ AttemptOf(k) # 0
            /\ attempts' = [attempts EXCEPT ![AttemptOf(k)] = Updated(@, m)]
            /\ open' = open
BY MessageFields DEF Record

LEMMA PushedIsOpen ==
  ASSUME TypeOK, NEW k \in Key, NEW a \in Attempt, a.slot = k, Push(k, a)
  PROVE  /\ attempts' \in Seq(Attempt)
         /\ Len(attempts') = Len(attempts) + 1
         /\ attempts'[Len(attempts) + 1] = a
         /\ \A n \in 1 .. Len(attempts) : attempts'[n] = attempts[n]
         /\ open' \in [Key -> 0 .. Len(attempts')]
         /\ open'[k] = Len(attempts) + 1
         /\ \A h \in Key \ {k} : open'[h] = open[h]
<1>1. /\ attempts' = Append(attempts, a)
      /\ open' = [open EXCEPT ![k] = Len(attempts) + 1]
  BY DEF Push
<1>2. attempts \in Seq(Attempt) /\ open \in [Key -> 0 .. Len(attempts)]
  BY DEF TypeOK
<1>. QED  BY <1>1, <1>2

LEMMA RecordOn ==
  ASSUME TypeOK, NEW k \in Key, NEW m \in Message, Record(k, m),
         NEW h \in Key, open'[h] # 0
  PROVE  \/ ReopenedBy(h, k, m) \/ OpenedBy(h, k, m)
         \/ UpdatedBy(h, k, m) \/ KeptBy(h, k)
<1>. DEFINE a == IF m.reeval THEN NewAttempt(k) ELSE Updated(NewAttempt(k), m)
<1>1. a \in Attempt /\ a.slot = k
  <2>1. NewAttempt(k) \in Attempt /\ NewAttempt(k).slot = k
    BY NewAttemptKnows
  <2>2. /\ Updated(NewAttempt(k), m) \in Attempt
        /\ Updated(NewAttempt(k), m).slot = k
    BY <2>1, UpdatedKnows
  <2>. QED  BY <2>1, <2>2
<1>2. CASE (m.reeval \/ AttemptOf(k) = 0) /\ Push(k, a)
  <2>1. /\ attempts'[open'[k]] = a
        /\ \A n \in 1 .. Len(attempts) : attempts'[n] = attempts[n]
        /\ \A i \in Key \ {k} : open'[i] = open[i]
    BY <1>1, <1>2, PushedIsOpen
  <2>2. CASE h = k
    <3>1. m.reeval \/ open[h] = 0
      BY <1>2, <2>2, AttemptOfIsOpen DEF TypeOK
    <3>. QED  BY <2>1, <2>2, <3>1, MessageFields DEF ReopenedBy, OpenedBy
  <2>3. CASE h # k
    <3>1. open[h] # 0 /\ open[h] \in 1 .. Len(attempts)
      BY <2>1, <2>3 DEF TypeOK
    <3>. QED  BY <2>1, <2>3, <3>1 DEF KeptBy
  <2>. QED  BY <2>2, <2>3
<1>3. CASE /\ ~m.reeval /\ AttemptOf(k) # 0
           /\ attempts' = [attempts EXCEPT ![AttemptOf(k)] = Updated(@, m)]
           /\ open' = open
  <2>1. PICK j \in OpenKeys : AttemptOf(k) = open[j] /\ k \in {j, NoSlot}
    BY <1>3, AttemptOfIsOpen
  <2>2. open[j] \in 1 .. Len(attempts)
    BY <2>1, OpenAttempt
  <2>3. h \in OpenKeys /\ open[h] \in 1 .. Len(attempts)
    BY <1>3, OpenAttempt DEF OpenKeys
  <2>4. attempts \in Seq(Attempt)
    BY DEF TypeOK
  <2>5. CASE h = j
    <3>1. attempts'[open'[h]] = Updated(attempts[open[h]], m)
      BY <1>3, <2>1, <2>2, <2>4, <2>5
    <3>. QED  BY <1>3, <2>1, <2>3, <2>5, <3>1 DEF UpdatedBy, OpenKeys
  <2>6. CASE h # j
    <3>1. open[h] # open[j]
      BY <2>1, <2>3, <2>6, OpenOfOneKey
    <3>2. attempts'[open'[h]] = attempts[open[h]]
      BY <1>3, <2>1, <2>2, <2>3, <2>4, <3>1
    <3>3. h # k
      BY <2>1, <2>3, <3>1, AttemptOfIsOpen DEF OpenKeys
    <3>. QED  BY <2>3, <3>2, <3>3 DEF KeptBy, OpenKeys
  <2>. QED  BY <2>5, <2>6
<1>. QED  BY <1>2, <1>3, RecordAppendsOrUpdates

-----------------------------------------------------------------------------
(***************************************************************************)
(* A line keeps the invariant                                              *)
(***************************************************************************)
LEMMA RecordTyped ==
  ASSUME TypeOK, NEW k \in Key, NEW m \in Message, Record(k, m)
  PROVE  TypeOK'
<1>1. /\ log' \in Seq(Line) /\ Len(log') = Len(log) + 1 /\ Len(log) \in Nat
  BY LogGrows
<1>2. Len(log') <= MaxLines
  BY <1>1, ConstantAssumption DEF Record, TypeOK
<1>3. attempts' \in Seq(Attempt) /\ open' \in [Key -> 0 .. Len(attempts')]
  <2>1. ASSUME NEW a \in Attempt, a.slot = k, Push(k, a)
        PROVE  attempts' \in Seq(Attempt) /\ open' \in [Key -> 0 .. Len(attempts')]
    BY <2>1, PushedIsOpen
  <2>2. /\ NewAttempt(k) \in Attempt /\ NewAttempt(k).slot = k
    BY NewAttemptKnows
  <2>3. /\ Updated(NewAttempt(k), m) \in Attempt
        /\ Updated(NewAttempt(k), m).slot = k
    BY <2>2, UpdatedKnows
  <2>4. CASE /\ ~m.reeval /\ AttemptOf(k) # 0
             /\ attempts' = [attempts EXCEPT ![AttemptOf(k)] = Updated(@, m)]
             /\ open' = open
    <3>1. AttemptOf(k) \in 1 .. Len(attempts)
      BY <2>4, AttemptOfIsOpen DEF TypeOK
    <3>2. attempts[AttemptOf(k)] \in Attempt
      BY <3>1 DEF TypeOK
    <3>3. Updated(attempts[AttemptOf(k)], m) \in Attempt
      BY <3>2, UpdatedKnows
    <3>. QED  BY <2>4, <3>1, <3>3 DEF TypeOK
  <2>. QED  BY <2>1, <2>2, <2>3, <2>4, RecordAppendsOrUpdates
<1>4. ASSUME NEW h \in Key, open'[h] # 0
      PROVE  attempts'[open'[h]].slot = h
  <2>1. CASE ReopenedBy(h, k, m)
    BY <2>1, NewAttemptKnows DEF ReopenedBy
  <2>2. CASE OpenedBy(h, k, m)
    <3>1. NewAttempt(k) \in Attempt /\ NewAttempt(k).slot = k
      BY NewAttemptKnows
    <3>. QED  BY <2>2, <3>1, UpdatedKnows DEF OpenedBy
  <2>3. CASE UpdatedBy(h, k, m)
    <3>1. attempts[open[h]] \in Attempt /\ attempts[open[h]].slot = h
      BY <2>3, OpenAttempt DEF UpdatedBy, OpenKeys
    <3>. QED  BY <2>3, <3>1, UpdatedKnows DEF UpdatedBy
  <2>4. CASE KeptBy(h, k)
    <3>1. attempts[open[h]].slot = h
      BY <2>4, OpenAttempt DEF KeptBy, OpenKeys
    <3>. QED  BY <2>4, <3>1 DEF KeptBy
  <2>. QED  BY <1>4, <2>1, <2>2, <2>3, <2>4, RecordOn
<1>5. old' \in 0 .. Len(log') /\ pc' = pc /\ status' = status
  BY <1>1 DEF Record, TypeOK
<1>. QED  BY <1>1, <1>2, <1>3, <1>4, <1>5 DEF TypeOK, OpenKeys

LEMMA RecordOpensLatest ==
  ASSUME TypeOK, OpenIsLatest, NEW k \in Key, NEW m \in Message, Record(k, m)
  PROVE  OpenIsLatest'
<1>. SUFFICES ASSUME NEW h \in Key, NEW n \in 1 .. Len(attempts'),
                     attempts'[n].slot = h
              PROVE  n <= open'[h]
  BY DEF OpenIsLatest
<1>1. Len(attempts) \in Nat /\ attempts \in Seq(Attempt) /\ open \in [Key -> 0 .. Len(attempts)]
  BY DEF TypeOK
<1>2. ASSUME NEW a \in Attempt, a.slot = k, Push(k, a)
      PROVE  n <= open'[h]
  <2>1. CASE h = k
    BY <1>1, <1>2, <2>1, PushedIsOpen
  <2>2. CASE h # k
    <3>1. n \in 1 .. Len(attempts) /\ attempts[n].slot = h /\ open'[h] = open[h]
      BY <1>1, <1>2, <2>2, PushedIsOpen
    <3>. QED  BY <3>1 DEF OpenIsLatest
  <2>. QED  BY <2>1, <2>2
<1>3. /\ NewAttempt(k) \in Attempt /\ NewAttempt(k).slot = k
  BY NewAttemptKnows
<1>4. /\ Updated(NewAttempt(k), m) \in Attempt
      /\ Updated(NewAttempt(k), m).slot = k
  BY <1>3, UpdatedKnows
<1>5. CASE /\ ~m.reeval /\ AttemptOf(k) # 0
           /\ attempts' = [attempts EXCEPT ![AttemptOf(k)] = Updated(@, m)]
           /\ open' = open
  <2>1. n \in 1 .. Len(attempts) /\ attempts[n] \in Attempt
    BY <1>1, <1>5
  <2>2. Updated(attempts[n], m).slot = attempts[n].slot
    BY <2>1, UpdatedKnows
  <2>3. attempts[n].slot = h
    BY <1>1, <1>5, <2>1, <2>2
  <2>. QED  BY <1>5, <2>1, <2>3 DEF OpenIsLatest
<1>. QED  BY <1>2, <1>3, <1>4, <1>5, RecordAppendsOrUpdates

\* A key that has an attempt open keeps one, and the key of a line that names
\* a slot gets one.
LEMMA RecordKeepsOpen ==
  ASSUME TypeOK, NEW k \in Key, NEW m \in Message, Record(k, m)
  PROVE  /\ \A h \in OpenKeys : open'[h] # 0
         /\ k # NoSlot => open'[k] # 0
<1>1. Len(attempts) \in Nat
  BY DEF TypeOK
<1>2. ASSUME NEW a \in Attempt, a.slot = k, Push(k, a)
      PROVE  \A h \in OpenKeys \cup {k} : open'[h] # 0
  <2>1. /\ open'[k] = Len(attempts) + 1
        /\ \A h \in Key \ {k} : open'[h] = open[h]
    BY <1>2, PushedIsOpen
  <2>. QED  BY <1>1, <2>1 DEF OpenKeys
<1>3. /\ NewAttempt(k) \in Attempt /\ NewAttempt(k).slot = k
  BY NewAttemptKnows
<1>4. /\ Updated(NewAttempt(k), m) \in Attempt
      /\ Updated(NewAttempt(k), m).slot = k
  BY <1>3, UpdatedKnows
<1>5. CASE ~m.reeval /\ AttemptOf(k) # 0 /\ open' = open
  BY <1>5, AttemptOfIsOpen DEF OpenKeys
<1>. QED  BY <1>2, <1>3, <1>4, <1>5, RecordAppendsOrUpdates

LEMMA RecordNames ==
  ASSUME TypeOK, NamedIsOpen, NEW k \in Key, NEW m \in Message, Record(k, m)
  PROVE  NamedIsOpen'
<1>. SUFFICES ASSUME NEW n \in 1 .. Len(log'), log'[n].slot # NoSlot
              PROVE  open'[log'[n].slot] # 0
  BY DEF NamedIsOpen
<1>1. /\ Len(log) \in Nat /\ Len(log') = Len(log) + 1
      /\ \A i \in 1 .. Len(log) : log'[i] = log[i]
      /\ log'[Len(log) + 1].slot = k
  BY LogGrows
<1>2. CASE n = Len(log) + 1
  BY <1>1, <1>2, RecordKeepsOpen
<1>3. CASE n \in 1 .. Len(log)
  <2>1. log[n] \in Line
    BY <1>3 DEF TypeOK
  <2>2. log[n].slot \in OpenKeys
    BY <1>1, <1>3, <2>1 DEF NamedIsOpen, OpenKeys, Line
  <2>. QED  BY <1>1, <1>3, <2>2, RecordKeepsOpen
<1>. QED  BY <1>1, <1>2, <1>3

\* What line i has shown for h stays shown, if the new line does not close the
\* attempt, names no other path and loses no failure.
LEMMA PathStays ==
  ASSUME TypeOK, NEW k \in Key, NEW m \in Message, Record(k, m),
         NEW h \in Key, NEW i \in 1 .. Len(log), PathFrom(i, h),
         attempts[open[h]].failed => attempts'[open'[h]].failed,
         k = h => /\ ~m.reeval
                  /\ m.path \in {NoBundle, Expected}
                  /\ m.outcome = "failure" => attempts'[open'[h]].failed
  PROVE  PathFrom(i, h)'
<1>1. /\ Len(log) \in Nat /\ Len(log') = Len(log) + 1
      /\ \A n \in 1 .. Len(log) : log'[n] = log[n]
      /\ log'[Len(log) + 1].slot = k /\ log'[Len(log) + 1].msg = m
  BY LogGrows
<1>2. \A n \in 1 .. Len(log) : Current(n, h)' <=> Current(n, h) /\ ~(k = h /\ m.reeval)
  BY <1>1, CurrentAfter
<1>3. Current(i, h)' /\ log'[i].msg.path = Expected
  BY <1>1, <1>2 DEF PathFrom
<1>4. ASSUME NEW n \in 1 .. Len(log'), n > i, log'[n].slot = h, Current(n, h)'
      PROVE  /\ log'[n].msg.path \in {NoBundle, Expected}
             /\ log'[n].msg.outcome = "failure" => attempts'[open'[h]].failed
  <2>1. CASE n = Len(log) + 1
    BY <1>1, <1>4, <2>1
  <2>2. CASE n \in 1 .. Len(log)
    <3>1. log'[n] = log[n] /\ Current(n, h)
      BY <1>1, <1>2, <1>4, <2>2
    <3>. QED  BY <1>4, <2>2, <3>1 DEF PathFrom
  <2>. QED  BY <1>1, <2>1, <2>2
<1>. QED  BY <1>3, <1>4 DEF PathFrom

\* A line that names the expected bundle, of h or of no slot, shows it for h.
LEMMA PathComes ==
  ASSUME TypeOK, NEW k \in Key, NEW m \in Message, Record(k, m),
         NEW h \in Key, k \in {h, NoSlot}, ~m.reeval, m.path = Expected
  PROVE  \E i \in 1 .. Len(log') : PathFrom(i, h)'
<1>1. PICK N \in Nat : N = Len(log) + 1
  BY LogGrows
<1>2. /\ Len(log) \in Nat /\ Len(log') = N
      /\ log'[N].slot = k /\ log'[N].msg = m
  BY <1>1, LogGrows
<1>3. Current(N, h)'
  BY <1>1, CurrentAfter
<1>4. N \in 1 .. Len(log') /\ \A n \in 1 .. Len(log') : ~(n > N)
  BY <1>1, <1>2
<1>5. PathFrom(N, h)'
  BY <1>2, <1>3, <1>4 DEF PathFrom
<1>. QED  BY <1>4, <1>5

LEMMA RecordShowsPath ==
  ASSUME TypeOK, PathShown, NEW k \in Key, NEW m \in Message, Record(k, m)
  PROVE  PathShown'
<1>. SUFFICES ASSUME NEW h \in Key, open'[h] # 0,
                     attempts'[open'[h]].path = Expected
              PROVE  \E i \in 1 .. Len(log') : PathFrom(i, h)'
  BY DEF PathShown, OpenKeys
<1>1. /\ Len(log) \in Nat /\ Len(log') = Len(log) + 1
  BY LogGrows
<1>2. NoBundle # Expected /\ m.path \in Bundle \cup {NoBundle} /\ m.reeval \in BOOLEAN
  BY ConstantAssumption, MessageFields
<1>3. CASE ReopenedBy(h, k, m)
  BY <1>2, <1>3, NewAttemptKnows DEF ReopenedBy
<1>4. CASE OpenedBy(h, k, m)
  <2>1. NewAttempt(k) \in Attempt /\ NewAttempt(k).path = NoBundle
    BY NewAttemptKnows
  <2>2. m.path = Expected
    BY <1>2, <1>4, <2>1, UpdatedKnows DEF OpenedBy
  <2>. QED  BY <1>4, <2>2, PathComes DEF OpenedBy
<1>5. CASE UpdatedBy(h, k, m)
  <2>1. /\ h \in OpenKeys /\ ~m.reeval /\ k \in {h, NoSlot}
        /\ attempts'[open'[h]] = Updated(attempts[open[h]], m)
        /\ attempts[open[h]] \in Attempt
    BY <1>5, OpenAttempt DEF UpdatedBy, OpenKeys
  <2>2. /\ attempts'[open'[h]].path
             = IF m.path # NoBundle THEN m.path ELSE attempts[open[h]].path
        /\ attempts'[open'[h]].failed
             = (attempts[open[h]].failed \/ m.outcome = "failure")
    BY <2>1, UpdatedKnows
  <2>3. CASE m.path # NoBundle
    BY <2>1, <2>2, <2>3, PathComes
  <2>4. CASE m.path = NoBundle
    <3>1. PICK i \in 1 .. Len(log) : PathFrom(i, h)
      BY <2>1, <2>2, <2>4 DEF PathShown
    <3>2. PathFrom(i, h)'
      BY <2>1, <2>2, <2>4, <3>1, PathStays
    <3>. QED  BY <1>1, <3>2
  <2>. QED  BY <2>3, <2>4
<1>6. CASE KeptBy(h, k)
  <2>1. PICK i \in 1 .. Len(log) : PathFrom(i, h)
    BY <1>6 DEF KeptBy, PathShown, OpenKeys
  <2>2. PathFrom(i, h)'
    BY <1>6, <2>1, PathStays DEF KeptBy
  <2>. QED  BY <1>1, <2>2
<1>. QED  BY <1>3, <1>4, <1>5, <1>6, RecordOn

LEMMA RecordShowsSuccess ==
  ASSUME TypeOK, SuccessShown, NEW k \in Key, NEW m \in Message, Record(k, m)
  PROVE  SuccessShown'
<1>. SUFFICES ASSUME NEW h \in Key, open'[h] # 0,
                     attempts'[open'[h]].success
              PROVE  \E j \in 1 .. Len(log') :
                       Current(j, h)' /\ log'[j].msg.outcome = "success"
  BY DEF SuccessShown, OpenKeys
<1>1. PICK N \in Nat : N = Len(log) + 1
  BY LogGrows
<1>2. /\ Len(log) \in Nat /\ Len(log') = N
      /\ \A n \in 1 .. Len(log) : log'[n] = log[n]
      /\ log'[N].slot = k /\ log'[N].msg = m
  BY <1>1, LogGrows
<1>3. /\ \A n \in 1 .. Len(log) : Current(n, h)' <=> Current(n, h) /\ ~(k = h /\ m.reeval)
      /\ Current(N, h)' <=> k \in {h, NoSlot} /\ ~(k = h /\ m.reeval)
  BY <1>1, CurrentAfter
<1>4. ASSUME k \in {h, NoSlot}, ~m.reeval, m.outcome = "success"
      PROVE  \E j \in 1 .. Len(log') :
               Current(j, h)' /\ log'[j].msg.outcome = "success"
  <2>1. Current(N, h)' /\ log'[N].msg.outcome = "success"
    BY <1>2, <1>3, <1>4
  <2>2. N \in 1 .. Len(log')
    BY <1>1, <1>2
  <2>. QED  BY <2>1, <2>2
<1>5. ASSUME h \in OpenKeys, attempts[open[h]].success, ~(k = h /\ m.reeval)
      PROVE  \E j \in 1 .. Len(log') :
               Current(j, h)' /\ log'[j].msg.outcome = "success"
  <2>1. PICK j \in 1 .. Len(log) : Current(j, h) /\ log[j].msg.outcome = "success"
    BY <1>5 DEF SuccessShown
  <2>2. Current(j, h)' /\ log'[j].msg.outcome = "success"
    BY <1>2, <1>3, <1>5, <2>1
  <2>3. j \in 1 .. Len(log')
    BY <1>1, <1>2
  <2>. QED  BY <2>2, <2>3
<1>6. CASE ReopenedBy(h, k, m)
  BY <1>6, NewAttemptKnows DEF ReopenedBy
<1>7. CASE OpenedBy(h, k, m)
  <2>1. NewAttempt(k) \in Attempt /\ NewAttempt(k).success = FALSE
    BY NewAttemptKnows
  <2>2. m.outcome = "success"
    BY <1>7, <2>1, UpdatedKnows DEF OpenedBy
  <2>. QED  BY <1>4, <1>7, <2>2 DEF OpenedBy
<1>8. CASE UpdatedBy(h, k, m)
  <2>1. /\ h \in OpenKeys /\ ~m.reeval /\ k \in {h, NoSlot}
        /\ attempts'[open'[h]] = Updated(attempts[open[h]], m)
        /\ attempts[open[h]] \in Attempt
    BY <1>8, OpenAttempt DEF UpdatedBy, OpenKeys
  <2>2. m.outcome = "success" \/ attempts[open[h]].success
    BY <2>1, UpdatedKnows
  <2>. QED  BY <1>4, <1>5, <2>1, <2>2
<1>9. CASE KeptBy(h, k)
  BY <1>5, <1>9 DEF KeptBy, OpenKeys
<1>. QED  BY <1>6, <1>7, <1>8, <1>9, RecordOn

LEMMA RecordKeepsFailure ==
  ASSUME TypeOK, NamedIsOpen, FailureKept,
         NEW k \in Key, NEW m \in Message, Record(k, m)
  PROVE  FailureKept'
<1>. SUFFICES ASSUME NEW n \in 1 .. Len(log'), NEW h \in Key, h = log'[n].slot,
                     h # NoSlot, Current(n, h)', log'[n].msg.outcome = "failure"
              PROVE  attempts'[open'[h]].failed
  <2>1. log' \in Seq(Line)
    BY LogGrows
  <2>2. \A n \in 1 .. Len(log') : log'[n] \in Line
    BY <2>1
  <2>3. \A n \in 1 .. Len(log') : log'[n].slot \in Key
    BY <2>2 DEF Line
  <2>. QED  BY <2>3 DEF FailureKept
<1>1. PICK N \in Nat : N = Len(log) + 1
  BY LogGrows
<1>2. /\ Len(log) \in Nat /\ Len(log') = N
      /\ \A i \in 1 .. Len(log) : log'[i] = log[i]
      /\ log'[N].slot = k /\ log'[N].msg = m
  BY <1>1, LogGrows
<1>3. /\ \A i \in 1 .. Len(log) : Current(i, h)' <=> Current(i, h) /\ ~(k = h /\ m.reeval)
      /\ Current(N, h)' <=> k \in {h, NoSlot} /\ ~(k = h /\ m.reeval)
  BY <1>1, CurrentAfter
<1>4. ~(k = h /\ m.reeval) /\ (n = N \/ n \in 1 .. Len(log))
  BY <1>1, <1>2, <1>3
<1>5. n = N => h = k /\ m.outcome = "failure"
  BY <1>2
<1>6. n \in 1 .. Len(log) => open[h] # 0 /\ attempts[open[h]].failed
  <2>1. CASE n \in 1 .. Len(log)
    <3>1. log'[n] = log[n] /\ Current(n, h)
      BY <1>2, <1>3, <2>1
    <3>. QED  BY <2>1, <3>1 DEF FailureKept, NamedIsOpen
  <2>. QED  BY <2>1
<1>7. open'[h] # 0
  BY <1>4, <1>5, <1>6, RecordKeepsOpen DEF OpenKeys
<1>8. CASE ReopenedBy(h, k, m)
  BY <1>4, <1>8 DEF ReopenedBy
<1>9. CASE OpenedBy(h, k, m)
  <2>1. NewAttempt(k) \in Attempt
    BY NewAttemptKnows
  <2>2. m.outcome = "failure"
    BY <1>4, <1>5, <1>6, <1>9 DEF OpenedBy
  <2>. QED  BY <1>9, <2>1, <2>2, UpdatedKnows DEF OpenedBy
<1>10. CASE UpdatedBy(h, k, m)
  <2>1. /\ attempts'[open'[h]] = Updated(attempts[open[h]], m)
        /\ attempts[open[h]] \in Attempt
    BY <1>10, OpenAttempt DEF UpdatedBy, OpenKeys
  <2>2. attempts'[open'[h]].failed
          = (attempts[open[h]].failed \/ m.outcome = "failure")
    BY <2>1, UpdatedKnows
  <2>3. attempts[open[h]].failed \/ m.outcome = "failure"
    BY <1>4, <1>5, <1>6
  <2>. QED  BY <2>2, <2>3
<1>11. CASE KeptBy(h, k)
  BY <1>4, <1>5, <1>6, <1>11 DEF KeptBy
<1>. QED  BY <1>7, <1>8, <1>9, <1>10, <1>11, RecordOn

-----------------------------------------------------------------------------
(***************************************************************************)
(* The invariant holds of every behaviour                                  *)
(***************************************************************************)

\* An empty log has nothing to show.
LEMMA NothingShown ==
  ASSUME log = <<>>, attempts = <<>>, open = [k \in Key |-> 0], old = 0,
         pc \in {"idle", "start", "waiting", "last", "done"},
         status \in BindingStatus \cup {"none"}
  PROVE  BindingInv
<1>1. \A k \in Key : open[k] = 0
  OBVIOUS
<1>2. OpenKeys = {}
  BY <1>1 DEF OpenKeys
<1>3. TypeOK
  BY <1>2, ConstantAssumption DEF TypeOK
<1>. QED  BY <1>2, <1>3
     DEF BindingInv, OpenIsLatest, StartsEmpty, NamedIsOpen, PathShown,
         SuccessShown, FailureKept

LEMMA TruncateShowsNothing ==
  ASSUME Truncate, old' = 0,
         pc' \in {"idle", "start", "waiting", "last", "done"},
         status' \in BindingStatus \cup {"none"}
  PROVE  BindingInv'
<1>1. log' = <<>> /\ attempts' = <<>> /\ open' = [k \in Key |-> 0]
  BY DEF Truncate
<1>2. \A k \in Key : open'[k] = 0
  BY <1>1
<1>3. OpenKeys' = {}
  BY <1>2 DEF OpenKeys
<1>4. TypeOK'
  BY <1>1, <1>3, ConstantAssumption DEF TypeOK
<1>. QED  BY <1>1, <1>3, <1>4
     DEF BindingInv, OpenIsLatest, StartsEmpty, NamedIsOpen, PathShown,
         SuccessShown, FailureKept

\* The verifier only reads.
LEMMA ReadingKeeps ==
  ASSUME BindingInv, UNCHANGED <<log, parser, old>>,
         pc' \in {"idle", "start", "waiting", "last", "done"},
         status' \in BindingStatus \cup {"none"}
  PROVE  BindingInv'
<1>1. log' = log /\ attempts' = attempts /\ open' = open /\ old' = old
  BY DEF parser
<1>2. OpenKeys' = OpenKeys
  BY <1>1 DEF OpenKeys
<1>3. \A n \in 1 .. Len(log), k \in Key : Current(n, k)' <=> Current(n, k)
  BY <1>1 DEF Current
<1>4. \A n \in 1 .. Len(log), k \in Key : PathFrom(n, k)' <=> PathFrom(n, k)
  BY <1>1 DEF PathFrom, Current
<1>5. TypeOK'
  BY <1>1, <1>2 DEF BindingInv, TypeOK
<1>6. OpenIsLatest' /\ StartsEmpty' /\ NamedIsOpen'
  BY <1>1 DEF BindingInv, OpenIsLatest, StartsEmpty, NamedIsOpen
<1>7. PathShown' /\ SuccessShown'
  BY <1>1, <1>2, <1>3, <1>4 DEF BindingInv, PathShown, SuccessShown, OpenKeys
<1>8. FailureKept'
  BY <1>1 DEF BindingInv, FailureKept, Current
<1>. QED  BY <1>5, <1>6, <1>7, <1>8 DEF BindingInv

LEMMA AnswerIsStatus ==
  ASSUME NEW t \in BOOLEAN
  PROVE  StatusFor(t) \in BindingStatus
<1>1. CASE attempts = <<>>
  BY <1>1 DEF StatusFor, BindingStatus
<1>2. CASE attempts # <<>>
  <2>. DEFINE a == attempts[Len(attempts)]
  <2>1. CASE a.failed
    BY <1>2, <2>1 DEF StatusFor, BindingStatus
  <2>2. CASE ~a.failed /\ a.path \notin {NoBundle, Expected} /\ a.completed
    BY <1>2, <2>2 DEF StatusFor, BindingStatus
  <2>3. CASE ~a.failed /\ a.path = Expected
    BY <1>2, <2>3 DEF StatusFor, BindingStatus
  <2>4. CASE ~a.failed /\ ~(a.path \notin {NoBundle, Expected} /\ a.completed)
             /\ a.path # Expected
    BY <1>2, <2>4 DEF StatusFor, BindingStatus
  <2>. QED  BY <2>1, <2>2, <2>3, <2>4
<1>. QED  BY <1>1, <1>2

\* The answers: one look, one that finds a success, and the last one.
LEMMA AnswersOfNext ==
  ASSUME Next, pc # "done", pc' = "done"
  PROVE  \/ NoLog
         \/ Look
         \/ Poll
         \/ LastLook
BY DEF Next, Record, Trigger, GivenLog, OtherTrigger, Wait, Deadline

\* What holds before any line of the log has been read.
THEOREM BindingInvInit == Init => BindingInv
BY NothingShown DEF Init

\* Every line, every truncated log and every look of the verifier keeps it.
THEOREM BindingInvNext == BindingInv /\ [Next]_vars => BindingInv'
<1>. SUFFICES ASSUME BindingInv, [Next]_vars
              PROVE  BindingInv'
  OBVIOUS
<1>. USE DEF BindingStatus
<1>1. /\ TypeOK /\ old = 0
      /\ pc \in {"idle", "start", "waiting", "last", "done"}
      /\ status \in BindingStatus \cup {"none"}
  BY DEF BindingInv, TypeOK, StartsEmpty
<1>2. ASSUME NEW k \in Key, NEW m \in Message, Record(k, m)
      PROVE  BindingInv'
  <2>1. TypeOK'
    BY <1>1, <1>2, RecordTyped
  <2>2. OpenIsLatest' /\ NamedIsOpen'
    BY <1>1, <1>2, RecordOpensLatest, RecordNames DEF BindingInv
  <2>3. PathShown' /\ SuccessShown' /\ FailureKept'
    BY <1>1, <1>2, RecordShowsPath, RecordShowsSuccess, RecordKeepsFailure
    DEF BindingInv
  <2>4. StartsEmpty'
    BY <1>1, <1>2 DEF Record, StartsEmpty
  <2>. QED  BY <2>1, <2>2, <2>3, <2>4 DEF BindingInv
<1>3. CASE Trigger
  BY <1>1, <1>3, TruncateShowsNothing DEF Trigger, Truncate
<1>4. CASE OtherTrigger
  BY <1>1, <1>4, TruncateShowsNothing DEF OtherTrigger
<1>5. ASSUME NEW t \in BOOLEAN, Answer(t)
      PROVE  BindingInv'
  BY <1>5, AnswerIsStatus, ReadingKeeps DEF Answer
<1>6. CASE GivenLog \/ NoLog \/ Wait \/ Deadline
  BY <1>1, <1>6, ReadingKeeps DEF GivenLog, NoLog, Wait, Deadline
<1>7. CASE Look \/ Poll \/ LastLook
  BY <1>5, <1>7 DEF Look, Poll, LastLook, Verified
<1>8. CASE UNCHANGED vars
  BY <1>1, <1>8, ReadingKeeps DEF vars
<1>. QED  BY <1>2, <1>3, <1>4, <1>6, <1>7, <1>8 DEF Next

\* The invariant, from the first state on.
THEOREM BindingInvariant == Spec => []BindingInv
<1>. QED  BY BindingInvInit, BindingInvNext, PTL DEF Spec

\* The parser's variables and the verifier's keep their types; an open attempt
\* is one of its slot.
THEOREM BindingTyped == Spec => []TypeOK
<1>1. BindingInv => TypeOK
  BY DEF BindingInv
<1>. QED  BY <1>1, BindingInvariant, PTL

-----------------------------------------------------------------------------
(***************************************************************************)
(* What the answers say                                                    *)
(***************************************************************************)

\* The last attempt is open, for its key.
LEMMA LastIsOpen ==
  ASSUME TypeOK, OpenIsLatest, attempts # <<>>
  PROVE  \E k \in OpenKeys : open[k] = Len(attempts)
<1>1. /\ Len(attempts) \in 1 .. Len(attempts)
      /\ attempts[Len(attempts)] \in Attempt
  BY DEF TypeOK
<1>2. PICK k \in Key : attempts[Len(attempts)].slot = k
  BY <1>1 DEF Attempt
<1>3. open[k] = Len(attempts)
  BY <1>1, <1>2 DEF TypeOK, OpenIsLatest
<1>. QED  BY <1>1, <1>3 DEF OpenKeys

\* VERIFIED is answered for an attempt that has the expected path, a success
\* and no failure ...
LEMMA VerifiedOfLast ==
  ASSUME NEW t \in BOOLEAN, StatusFor(t) = "VERIFIED"
  PROVE  /\ attempts # <<>>
         /\ attempts[Len(attempts)].path = Expected
         /\ attempts[Len(attempts)].success
         /\ ~attempts[Len(attempts)].failed
<1>. DEFINE a == attempts[Len(attempts)]
<1>1. attempts # <<>>
  BY DEF StatusFor
<1>2. CASE a.failed
  BY <1>1, <1>2 DEF StatusFor
<1>3. CASE ~a.failed /\ a.path \notin {NoBundle, Expected} /\ a.completed
  BY <1>1, <1>3 DEF StatusFor
<1>4. CASE ~a.failed /\ a.path = Expected
  BY <1>1, <1>4 DEF StatusFor
<1>5. CASE ~a.failed /\ ~(a.path \notin {NoBundle, Expected} /\ a.completed)
           /\ a.path # Expected
  BY <1>1, <1>5 DEF StatusFor
<1>. QED  BY <1>2, <1>3, <1>4, <1>5

\* ... and TIMEOUT after the deadline only.
LEMMA TimeoutAfterDeadline ==
  ASSUME NEW t \in BOOLEAN, StatusFor(t) = "TIMEOUT"
  PROVE  t
<1>. SUFFICES ASSUME t = FALSE
              PROVE  FALSE
  OBVIOUS
<1>. DEFINE a == attempts[Len(attempts)]
<1>1. attempts # <<>>
  BY DEF StatusFor
<1>2. CASE a.failed
  BY <1>1, <1>2 DEF StatusFor
<1>3. CASE ~a.failed /\ a.path \notin {NoBundle, Expected} /\ a.completed
  BY <1>1, <1>3 DEF StatusFor
<1>4. CASE ~a.failed /\ a.path = Expected
  BY <1>1, <1>4 DEF StatusFor
<1>5. CASE ~a.failed /\ ~(a.path \notin {NoBundle, Expected} /\ a.completed)
           /\ a.path # Expected
  BY <1>1, <1>5 DEF StatusFor
<1>. QED  BY <1>2, <1>3, <1>4, <1>5

\* An answer is what StatusFor gives of the attempts.
LEMMA AnswerFromAttempts ==
  ASSUME Next, pc # "done", pc' = "done", status' \in {"VERIFIED", "TIMEOUT"}
  PROVE  \E t \in BOOLEAN : status' = StatusFor(t) /\ (t => ~Verified)
<1>1. ~NoLog
  BY DEF NoLog
<1>2. CASE Look \/ Poll
  BY <1>2 DEF Look, Poll, Answer
<1>3. CASE LastLook
  <2>1. (~Verified) \in BOOLEAN
    BY DEF Verified
  <2>. QED  BY <1>3, <2>1 DEF LastLook, Answer
<1>. QED  BY <1>1, <1>2, <1>3, AnswersOfNext

\* The open attempt of k, if it has what VERIFIED asks for, has it from lines
\* that are evidence for k.
LEMMA EvidenceOfOpen ==
  ASSUME BindingInv, NEW k \in OpenKeys,
         attempts[open[k]].path = Expected,
         attempts[open[k]].success,
         ~attempts[open[k]].failed
  PROVE  Evidence(k)
<1>1. PICK i \in 1 .. Len(log) : PathFrom(i, k)
  BY DEF BindingInv, PathShown
<1>2. PICK j \in 1 .. Len(log) : Current(j, k) /\ log[j].msg.outcome = "success"
  BY DEF BindingInv, SuccessShown
<1>3. ASSUME NEW n \in 1 .. Len(log), log[n].slot = k, Current(n, k)
      PROVE  /\ n > i => log[n].msg.path \in {NoBundle, Expected}
             /\ n > i \/ k # NoSlot => log[n].msg.outcome # "failure"
  <2>1. CASE n > i
    BY <1>1, <1>3, <2>1 DEF PathFrom
  <2>2. CASE k # NoSlot
    BY <1>1, <1>3, <2>2 DEF BindingInv, FailureKept, PathFrom
  <2>. QED  BY <2>1, <2>2
<1>. QED  BY <1>1, <1>2, <1>3 DEF Evidence, PathFrom

\* VERIFIED, on which an install commits, rests on lines about one slot since
\* its last re-evaluation, with no other path after the expected one and no
\* failure, however the lines of the slots and those that name none are mixed.
THEOREM VerdictHasEvidence == Spec => VerifiedIsEvidenced
<1>1. ASSUME BindingInv, Next, pc # "done", pc' = "done", status' = "VERIFIED"
      PROVE  \E k \in Key : Evidence(k)
  <2>1. PICK t \in BOOLEAN : StatusFor(t) = "VERIFIED"
    BY <1>1, AnswerFromAttempts
  <2>2. /\ attempts # <<>>
        /\ attempts[Len(attempts)].path = Expected
        /\ attempts[Len(attempts)].success
        /\ ~attempts[Len(attempts)].failed
    BY <2>1, VerifiedOfLast
  <2>3. PICK k \in OpenKeys : open[k] = Len(attempts)
    BY <1>1, <2>2, LastIsOpen DEF BindingInv
  <2>. QED  BY <1>1, <2>2, <2>3, EvidenceOfOpen DEF OpenKeys
<1>2. BindingInv /\ [Next]_vars
        => [pc' = "done" /\ pc # "done" /\ status' = "VERIFIED"
              => \E k \in Key : Evidence(k)]_vars
  BY <1>1
<1>. QED  BY <1>2, BindingInvariant, PTL DEF Spec, VerifiedIsEvidenced

\* An install that has started its monitor is VERIFIED by lines that came after
\* that, never by those of an earlier binding.
THEOREM VerdictIsFresh == Spec => VerifiedSinceRescan
<1>1. ASSUME BindingInv, Next, pc # "done", pc' = "done", status' = "VERIFIED"
      PROVE  \E i, j \in old + 1 .. Len(log) :
               log[i].msg.path = Expected /\ log[j].msg.outcome = "success"
  <2>1. PICK t \in BOOLEAN : StatusFor(t) = "VERIFIED"
    BY <1>1, AnswerFromAttempts
  <2>2. /\ attempts # <<>>
        /\ attempts[Len(attempts)].path = Expected
        /\ attempts[Len(attempts)].success
        /\ ~attempts[Len(attempts)].failed
    BY <2>1, VerifiedOfLast
  <2>3. PICK k \in OpenKeys : open[k] = Len(attempts)
    BY <1>1, <2>2, LastIsOpen DEF BindingInv
  <2>4. Evidence(k)
    BY <1>1, <2>2, <2>3, EvidenceOfOpen
  <2>5. old = 0
    BY <1>1 DEF BindingInv, StartsEmpty
  <2>. QED  BY <2>4, <2>5 DEF Evidence
<1>2. BindingInv /\ [Next]_vars
        => [pc' = "done" /\ pc # "done" /\ status' = "VERIFIED"
              => \E i, j \in old + 1 .. Len(log) :
                   log[i].msg.path = Expected /\ log[j].msg.outcome = "success"]_vars
  BY <1>1
<1>. QED  BY <1>2, BindingInvariant, PTL DEF Spec, VerifiedSinceRescan

-----------------------------------------------------------------------------
(***************************************************************************)
(* What the lines show is kept                                             *)
(***************************************************************************)

\* The attempt of slot k that line i is of is still the last of its slot.
Latest(i, k) ==
  \A m \in i + 1 .. Len(log) : ~(log[m].slot = k /\ log[m].msg.reeval)

\* The key of the first line has an attempt, as nothing but a new log takes it.
FirstIsOpen ==
  /\ log # <<>> => open[log[1].slot] # 0
  /\ log = <<>> => OpenKeys = {}

\* As long as the phone has named one slot only, and has named it first, there
\* is an attempt of this slot only.
AloneIsOnly ==
  \A k \in Key : log # <<>> /\ Alone(k, Len(log)) => OpenKeys = {k}

\* A path, or a success, that the lines show of the last attempt of a slot is
\* what the attempt has.
PathHeld ==
  \A k \in Key : \A i \in 1 .. Len(log) : ShowsPath(i, k) /\ Latest(i, k)
    => open[k] # 0 /\ attempts[open[k]].path = Expected

SuccessHeld ==
  \A k \in Key : \A j \in 1 .. Len(log) : ShowsSuccess(j, k) /\ Latest(j, k)
    => open[k] # 0 /\ attempts[open[k]].success

\* A slot that has been re-evaluated since the lines showed it to be bound has
\* an earlier attempt with the path and the success.
BindingHeld ==
  \A k \in Key : \A i, j \in 1 .. Len(log) :
    /\ ShowsPath(i, k) /\ ShowsSuccess(j, k)
    /\ i = j \/ During(i, j, k) \/ During(j, i, k)
    /\ ~Latest(i, k)
    => \E n \in 1 .. Len(attempts) :
         /\ n < open[k] /\ attempts[n].slot = k
         /\ attempts[n].path = Expected /\ attempts[n].success

ShownIsKept ==
  /\ FirstIsOpen
  /\ AloneIsOnly
  /\ PathHeld
  /\ SuccessHeld
  /\ BindingHeld

\* A line changes nothing of what the earlier ones say, or of which follow
\* which; it follows all those whose slot it may be about.
LEMMA LinesAfter ==
  ASSUME TypeOK, NEW k \in Key, NEW m \in Message, Record(k, m), NEW h \in Key,
         NEW N \in Nat, N = Len(log) + 1
  PROVE  \A i \in 1 .. Len(log) :
           /\ log'[i] = log[i]
           /\ Alone(h, i)' <=> Alone(h, i)
           /\ About(i, h)' <=> About(i, h)
           /\ Latest(i, h)' <=> Latest(i, h) /\ ~(k = h /\ m.reeval)
           /\ \A n \in 1 .. Len(log) : During(i, n, h)' <=> During(i, n, h)
           /\ During(i, N, h)' <=>
                k \in {h, NoSlot} /\ Latest(i, h) /\ ~(k = h /\ m.reeval)
<1>1. /\ Len(log) \in Nat /\ Len(log') = N
      /\ \A n \in 1 .. Len(log) : log'[n] = log[n]
      /\ log'[N].slot = k /\ log'[N].msg = m
  BY LogGrows
<1>. SUFFICES ASSUME NEW i \in 1 .. Len(log)
              PROVE  /\ log'[i] = log[i]
                     /\ Alone(h, i)' <=> Alone(h, i)
                     /\ About(i, h)' <=> About(i, h)
                     /\ Latest(i, h)' <=> Latest(i, h) /\ ~(k = h /\ m.reeval)
                     /\ \A n \in 1 .. Len(log) : During(i, n, h)' <=> During(i, n, h)
                     /\ During(i, N, h)' <=>
                          k \in {h, NoSlot} /\ Latest(i, h) /\ ~(k = h /\ m.reeval)
  OBVIOUS
<1>2. Alone(h, i)' <=> Alone(h, i)
  <2>1. 1 \in 1 .. Len(log) /\ 1 .. i \subseteq 1 .. Len(log)
    BY <1>1
  <2>. QED  BY <1>1, <2>1 DEF Alone
<1>3. About(i, h)' <=> About(i, h)
  BY <1>1, <1>2 DEF About
<1>4. i + 1 .. N = (i + 1 .. Len(log)) \cup {N} /\ i + 1 .. Len(log) \subseteq 1 .. Len(log)
  BY <1>1
<1>5. (\A n \in i + 1 .. N : ~(log'[n].slot = h /\ log'[n].msg.reeval))
        <=> Latest(i, h) /\ ~(k = h /\ m.reeval)
  BY <1>1, <1>4 DEF Latest
<1>6. Latest(i, h)' <=> Latest(i, h) /\ ~(k = h /\ m.reeval)
  BY <1>1, <1>5 DEF Latest
<1>7. ASSUME NEW n \in 1 .. Len(log)
      PROVE  During(i, n, h)' <=> During(i, n, h)
  <2>1. i + 1 .. n \subseteq 1 .. Len(log)
    BY <1>1
  <2>. QED  BY <1>1, <2>1 DEF During
<1>8. During(i, N, h)' <=> k \in {h, NoSlot} /\ Latest(i, h) /\ ~(k = h /\ m.reeval)
  BY <1>1, <1>5 DEF During
<1>. QED  BY <1>1, <1>2, <1>3, <1>6, <1>7, <1>8

\* What a line shows after another one has come, it has shown before; and the
\* other does not take it back.
LEMMA ShownBefore ==
  ASSUME TypeOK, NEW k \in Key, NEW m \in Message, Record(k, m), NEW h \in Key,
         NEW i \in 1 .. Len(log)
  PROVE  /\ ShowsPath(i, h)' =>
              /\ ShowsPath(i, h)
              /\ k \in {h, NoSlot} /\ Latest(i, h) /\ ~(k = h /\ m.reeval)
                   => m.path \in {NoBundle, Expected}
         /\ ShowsSuccess(i, h)' =>
              /\ ShowsSuccess(i, h)
              /\ k \in {h, NoSlot} /\ Latest(i, h) /\ ~(k = h /\ m.reeval)
                   => m.outcome # "failure"
<1>0. PICK N \in Nat : N = Len(log) + 1
  BY LogGrows
<1>1. /\ Len(log) \in Nat /\ Len(log') = N
      /\ \A n \in 1 .. Len(log) : log'[n] = log[n]
      /\ log'[N].msg = m
  BY <1>0, LogGrows
<1>2. N \in 1 .. Len(log') /\ 1 .. Len(log) \subseteq 1 .. Len(log')
  BY <1>0, <1>1
<1>3. /\ About(i, h)' <=> About(i, h)
      /\ \A n \in 1 .. Len(log) : During(i, n, h)' <=> During(i, n, h)
      /\ During(i, N, h)' <=>
           k \in {h, NoSlot} /\ Latest(i, h) /\ ~(k = h /\ m.reeval)
  BY <1>0, LinesAfter
<1>4. ShowsPath(i, h)' =>
        /\ ShowsPath(i, h)
        /\ k \in {h, NoSlot} /\ Latest(i, h) /\ ~(k = h /\ m.reeval)
             => m.path \in {NoBundle, Expected}
  BY <1>1, <1>2, <1>3 DEF ShowsPath
<1>5. ShowsSuccess(i, h)' =>
        /\ ShowsSuccess(i, h)
        /\ k \in {h, NoSlot} /\ Latest(i, h) /\ ~(k = h /\ m.reeval)
             => m.outcome # "failure"
  BY <1>1, <1>2, <1>3 DEF ShowsSuccess
<1>. QED  BY <1>4, <1>5

\* The first line opens an attempt of its key, and later ones keep it open.
LEMMA RecordFirst ==
  ASSUME TypeOK, FirstIsOpen, NEW k \in Key, NEW m \in Message, Record(k, m)
  PROVE  FirstIsOpen'
<1>1. /\ Len(log) \in Nat /\ Len(log') = Len(log) + 1
      /\ \A n \in 1 .. Len(log) : log'[n] = log[n]
      /\ log'[Len(log) + 1].slot = k /\ log \in Seq(Line)
  BY LogGrows DEF TypeOK
<1>2. log' # <<>>
  BY <1>1
<1>3. CASE log # <<>>
  <2>1. 1 \in 1 .. Len(log)
    BY <1>1, <1>3
  <2>2. log[1] \in Line
    BY <1>1, <2>1
  <2>3. log[1].slot \in OpenKeys
    BY <1>3, <2>2 DEF FirstIsOpen, OpenKeys, Line
  <2>4. open'[log[1].slot] # 0
    BY <2>3, RecordKeepsOpen
  <2>. QED  BY <1>1, <1>2, <2>1, <2>4 DEF FirstIsOpen
<1>4. CASE log = <<>>
  <2>1. log'[1].slot = k
    BY <1>1, <1>4
  <2>2. AttemptOf(k) = 0
    BY <1>4, AttemptOfIsOpen DEF FirstIsOpen
  <2>3. ASSUME NEW a \in Attempt, a.slot = k, Push(k, a)
        PROVE  open'[k] # 0
    BY <2>3, PushedIsOpen DEF TypeOK
  <2>4. /\ NewAttempt(k) \in Attempt /\ NewAttempt(k).slot = k
    BY NewAttemptKnows
  <2>5. /\ Updated(NewAttempt(k), m) \in Attempt
        /\ Updated(NewAttempt(k), m).slot = k
    BY <2>4, UpdatedKnows
  <2>6. open'[k] # 0
    BY <2>2, <2>3, <2>4, <2>5, RecordAppendsOrUpdates
  <2>. QED  BY <1>2, <2>1, <2>6 DEF FirstIsOpen
<1>. QED  BY <1>3, <1>4

\* A line that names no slot goes to the one attempt there is.
LEMMA UnnamedGoesToOnly ==
  ASSUME TypeOK, NEW m \in Message, Record(NoSlot, m), ~m.reeval,
         NEW h \in Key, h # NoSlot, OpenKeys = {h}
  PROVE  UpdatedBy(h, NoSlot, m) /\ open' = open
<1>1. NoSlot \in Key /\ open[NoSlot] = 0 /\ open[h] # 0
  BY DEF Key, OpenKeys
<1>2. (CHOOSE j \in Key : OpenKeys = {j}) = h
  OBVIOUS
<1>3. AttemptOf(NoSlot) = open[h]
  BY <1>1, <1>2 DEF AttemptOf
<1>4. /\ attempts' = [attempts EXCEPT ![open[h]] = Updated(@, m)]
      /\ open' = open
  BY <1>1, <1>3, RecordAppendsOrUpdates
<1>5. open[h] \in 1 .. Len(attempts) /\ attempts \in Seq(Attempt)
  BY OpenAttempt DEF TypeOK
<1>6. attempts'[open'[h]] = Updated(attempts[open[h]], m)
  BY <1>4, <1>5
<1>. QED  BY <1>1, <1>4, <1>6 DEF UpdatedBy

\* As long as one slot only is named, and first, no other has an attempt.
LEMMA RecordAlone ==
  ASSUME TypeOK, FirstIsOpen, AloneIsOnly,
         NEW k \in Key, NEW m \in Message, Record(k, m)
  PROVE  AloneIsOnly'
<1>1. PICK N \in Nat : N = Len(log) + 1
  BY LogGrows
<1>2. /\ Len(log) \in Nat /\ Len(log') = N /\ log \in Seq(Line)
      /\ \A n \in 1 .. Len(log) : log'[n] = log[n]
      /\ log'[N].slot = k /\ log'[N].msg = m
  BY <1>1, LogGrows DEF TypeOK
<1>. SUFFICES ASSUME NEW h \in Key, Alone(h, N)'
              PROVE  OpenKeys' = {h}
  BY <1>2 DEF AloneIsOnly, Alone
<1>3. /\ log'[1].slot = h /\ 1 .. Len(log) \subseteq 1 .. N /\ N \in 1 .. N
      /\ k = h \/ (k = NoSlot /\ ~m.reeval)
  BY <1>1, <1>2 DEF Alone
<1>4. open'[h] # 0
  BY <1>2, <1>3, RecordFirst DEF FirstIsOpen
<1>5. log # <<>> => OpenKeys = {h}
  <2>1. CASE log # <<>>
    <3>1. 1 \in 1 .. Len(log)
      BY <1>2, <2>1
    <3>2. Alone(h, Len(log))
      BY <1>2, <1>3, <3>1 DEF Alone
    <3>. QED  BY <2>1, <3>2 DEF AloneIsOnly
  <2>. QED  BY <2>1
<1>6. CASE k = h
  <2>1. \A j \in Key \ {h} : open[j] = 0
    BY <1>5 DEF FirstIsOpen, OpenKeys
  <2>2. ASSUME NEW a \in Attempt, a.slot = k, Push(k, a)
        PROVE  \A j \in Key \ {h} : open'[j] = 0
    BY <1>6, <2>1, <2>2, PushedIsOpen
  <2>3. /\ NewAttempt(k) \in Attempt /\ NewAttempt(k).slot = k
    BY NewAttemptKnows
  <2>4. /\ Updated(NewAttempt(k), m) \in Attempt
        /\ Updated(NewAttempt(k), m).slot = k
    BY <2>3, UpdatedKnows
  <2>5. \A j \in Key \ {h} : open'[j] = 0
    BY <2>1, <2>2, <2>3, <2>4, RecordAppendsOrUpdates
  <2>. QED  BY <1>4, <2>5 DEF OpenKeys
<1>7. CASE k # h
  <2>1. k = NoSlot /\ ~m.reeval
    BY <1>3, <1>7
  <2>2. log # <<>>
    BY <1>1, <1>2, <1>3, <1>7
  <2>3. open' = open
    BY <1>5, <1>7, <2>1, <2>2, UnnamedGoesToOnly
  <2>. QED  BY <1>5, <2>2, <2>3 DEF OpenKeys
<1>. QED  BY <1>6, <1>7

\* What a line says of slot h, it says to the attempt that is open for h.
LEMMA AboutIsHeard ==
  ASSUME TypeOK, FirstIsOpen, AloneIsOnly,
         NEW k \in Key, NEW m \in Message, Record(k, m), NEW h \in Key,
         NEW N \in Nat, N = Len(log) + 1, About(N, h)'
  PROVE  /\ open'[h] # 0
         /\ OpenedBy(h, k, m) \/ UpdatedBy(h, k, m)
<1>1. /\ Len(log) \in Nat /\ Len(log') = N /\ log \in Seq(Line)
      /\ \A n \in 1 .. Len(log) : log'[n] = log[n]
      /\ log'[N].slot = k /\ log'[N].msg = m
  BY LogGrows DEF TypeOK
<1>2. ~m.reeval
  BY <1>1 DEF About
<1>3. open'[h] # 0
  <2>1. CASE k = h /\ h # NoSlot
    BY <2>1, RecordKeepsOpen
  <2>2. CASE ~(k = h /\ h # NoSlot)
    <3>1. Alone(h, N)'
      BY <1>1, <2>2 DEF About
    <3>2. log'[1].slot = h /\ log' # <<>>
      BY <1>1, <3>1 DEF Alone
    <3>. QED  BY <3>2, RecordFirst DEF FirstIsOpen
  <2>. QED  BY <2>1, <2>2
<1>4. CASE k = h
  <2>1. ~ReopenedBy(h, k, m) /\ ~KeptBy(h, k)
    BY <1>2, <1>4 DEF ReopenedBy, KeptBy
  <2>. QED  BY <1>3, <2>1, RecordOn
<1>5. CASE k # h
  <2>1. k = NoSlot /\ Alone(h, N)'
    BY <1>1, <1>5 DEF About
  <2>2. log'[1].slot = h /\ \A i \in 1 .. N :
          log'[i].slot = h \/ (log'[i].slot = NoSlot /\ ~log'[i].msg.reeval)
    BY <2>1 DEF Alone
  <2>3. log # <<>> /\ 1 \in 1 .. Len(log) /\ 1 .. Len(log) \subseteq 1 .. N
    BY <1>1, <1>5, <2>2
  <2>4. Alone(h, Len(log))
    BY <1>1, <2>2, <2>3 DEF Alone
  <2>5. OpenKeys = {h}
    BY <2>3, <2>4 DEF AloneIsOnly
  <2>. QED  BY <1>2, <1>3, <1>5, <2>1, <2>5, UnnamedGoesToOnly
<1>. QED  BY <1>4, <1>5

LEMMA RecordHoldsPath ==
  ASSUME TypeOK, FirstIsOpen, AloneIsOnly, PathHeld,
         NEW k \in Key, NEW m \in Message, Record(k, m)
  PROVE  PathHeld'
<1>1. PICK N \in Nat : N = Len(log) + 1
  BY LogGrows
<1>2. /\ Len(log) \in Nat /\ Len(log') = N
      /\ log'[N].slot = k /\ log'[N].msg = m
  BY <1>1, LogGrows
<1>3. NoBundle # Expected /\ m.path \in Bundle \cup {NoBundle}
  BY ConstantAssumption, MessageFields
<1>. SUFFICES ASSUME NEW h \in Key, NEW i \in 1 .. Len(log'),
                     ShowsPath(i, h)', Latest(i, h)'
              PROVE  open'[h] # 0 /\ attempts'[open'[h]].path = Expected
  BY DEF PathHeld
<1>4. CASE i = N
  <2>1. About(N, h)' /\ m.path = Expected
    BY <1>2, <1>4 DEF ShowsPath
  <2>2. open'[h] # 0 /\ (OpenedBy(h, k, m) \/ UpdatedBy(h, k, m))
    BY <1>1, <2>1, AboutIsHeard
  <2>3. CASE OpenedBy(h, k, m)
    <3>1. NewAttempt(k) \in Attempt
      BY NewAttemptKnows
    <3>. QED  BY <1>3, <2>1, <2>2, <2>3, <3>1, UpdatedKnows DEF OpenedBy
  <2>4. CASE UpdatedBy(h, k, m)
    <3>1. attempts[open[h]] \in Attempt
      BY <2>4, OpenAttempt DEF UpdatedBy, OpenKeys
    <3>. QED  BY <1>3, <2>1, <2>2, <2>4, <3>1, UpdatedKnows DEF UpdatedBy
  <2>. QED  BY <2>2, <2>3, <2>4
<1>5. CASE i \in 1 .. Len(log)
  <2>1. /\ ShowsPath(i, h)
        /\ k \in {h, NoSlot} /\ Latest(i, h) /\ ~(k = h /\ m.reeval)
             => m.path \in {NoBundle, Expected}
    BY <1>5, ShownBefore
  <2>2. Latest(i, h) /\ ~(k = h /\ m.reeval)
    BY <1>1, <1>5, LinesAfter
  <2>3. h \in OpenKeys /\ attempts[open[h]].path = Expected /\ open[h] # 0
    BY <1>5, <2>1, <2>2 DEF PathHeld, OpenKeys
  <2>4. open'[h] # 0
    BY <2>3, RecordKeepsOpen
  <2>5. CASE UpdatedBy(h, k, m)
    <3>1. k \in {h, NoSlot} /\ attempts[open[h]] \in Attempt
      BY <2>3, <2>5, OpenAttempt DEF UpdatedBy
    <3>2. m.path \in {NoBundle, Expected}
      BY <2>1, <2>2, <3>1
    <3>. QED  BY <2>3, <2>4, <2>5, <3>1, <3>2, UpdatedKnows DEF UpdatedBy
  <2>6. CASE KeptBy(h, k)
    BY <2>3, <2>4, <2>6 DEF KeptBy
  <2>7. ~ReopenedBy(h, k, m) /\ ~OpenedBy(h, k, m)
    BY <2>2, <2>3 DEF ReopenedBy, OpenedBy
  <2>. QED  BY <2>4, <2>5, <2>6, <2>7, RecordOn
<1>. QED  BY <1>1, <1>2, <1>4, <1>5

LEMMA RecordHoldsSuccess ==
  ASSUME TypeOK, FirstIsOpen, AloneIsOnly, SuccessHeld,
         NEW k \in Key, NEW m \in Message, Record(k, m)
  PROVE  SuccessHeld'
<1>1. PICK N \in Nat : N = Len(log) + 1
  BY LogGrows
<1>2. /\ Len(log) \in Nat /\ Len(log') = N
      /\ log'[N].slot = k /\ log'[N].msg = m
  BY <1>1, LogGrows
<1>3. m.outcome \in Outcome
  BY MessageFields
<1>. SUFFICES ASSUME NEW h \in Key, NEW i \in 1 .. Len(log'),
                     ShowsSuccess(i, h)', Latest(i, h)'
              PROVE  open'[h] # 0 /\ attempts'[open'[h]].success
  BY DEF SuccessHeld
<1>4. CASE i = N
  <2>1. About(N, h)' /\ m.outcome = "success"
    BY <1>2, <1>4 DEF ShowsSuccess
  <2>2. open'[h] # 0 /\ (OpenedBy(h, k, m) \/ UpdatedBy(h, k, m))
    BY <1>1, <2>1, AboutIsHeard
  <2>3. CASE OpenedBy(h, k, m)
    <3>1. NewAttempt(k) \in Attempt
      BY NewAttemptKnows
    <3>. QED  BY <2>1, <2>2, <2>3, <3>1, UpdatedKnows DEF OpenedBy
  <2>4. CASE UpdatedBy(h, k, m)
    <3>1. attempts[open[h]] \in Attempt
      BY <2>4, OpenAttempt DEF UpdatedBy, OpenKeys
    <3>. QED  BY <2>1, <2>2, <2>4, <3>1, UpdatedKnows DEF UpdatedBy
  <2>. QED  BY <2>2, <2>3, <2>4
<1>5. CASE i \in 1 .. Len(log)
  <2>1. /\ ShowsSuccess(i, h)
        /\ k \in {h, NoSlot} /\ Latest(i, h) /\ ~(k = h /\ m.reeval)
             => m.outcome # "failure"
    BY <1>5, ShownBefore
  <2>2. Latest(i, h) /\ ~(k = h /\ m.reeval)
    BY <1>1, <1>5, LinesAfter
  <2>3. h \in OpenKeys /\ attempts[open[h]].success /\ open[h] # 0
    BY <1>5, <2>1, <2>2 DEF SuccessHeld, OpenKeys
  <2>4. open'[h] # 0
    BY <2>3, RecordKeepsOpen
  <2>5. CASE UpdatedBy(h, k, m)
    <3>1. k \in {h, NoSlot} /\ attempts[open[h]] \in Attempt
      BY <2>3, <2>5, OpenAttempt DEF UpdatedBy
    <3>2. m.outcome \in {"success", "none"}
      BY <1>3, <2>1, <2>2, <3>1 DEF Outcome
    <3>3. Updated(attempts[open[h]], m).success
      BY <2>3, <3>1, <3>2, UpdatedKnows
    <3>. QED  BY <2>4, <2>5, <3>3 DEF UpdatedBy
  <2>6. CASE KeptBy(h, k)
    BY <2>3, <2>4, <2>6 DEF KeptBy
  <2>7. ~ReopenedBy(h, k, m) /\ ~OpenedBy(h, k, m)
    BY <2>2, <2>3 DEF ReopenedBy, OpenedBy
  <2>. QED  BY <2>4, <2>5, <2>6, <2>7, RecordOn
<1>. QED  BY <1>1, <1>2, <1>4, <1>5

\* An attempt that its slot has left stays as it is, and before the open one.
LEMMA LeftStays ==
  ASSUME TypeOK, NEW k \in Key, NEW m \in Message, Record(k, m), NEW h \in Key,
         NEW n \in 1 .. Len(attempts), n < open[h], attempts[n].slot = h
  PROVE  /\ n \in 1 .. Len(attempts') /\ n < open'[h]
         /\ attempts'[n] = attempts[n]
<1>1. /\ Len(attempts) \in Nat /\ attempts \in Seq(Attempt)
      /\ open[h] \in 0 .. Len(attempts)
  BY DEF TypeOK
<1>2. ASSUME NEW a \in Attempt, a.slot = k, Push(k, a)
      PROVE  /\ n \in 1 .. Len(attempts') /\ n < open'[h]
             /\ attempts'[n] = attempts[n]
  <2>1. /\ Len(attempts') = Len(attempts) + 1
        /\ attempts'[n] = attempts[n]
        /\ open'[k] = Len(attempts) + 1
        /\ h # k => open'[h] = open[h]
    BY <1>2, PushedIsOpen
  <2>. QED  BY <1>1, <2>1
<1>3. /\ NewAttempt(k) \in Attempt /\ NewAttempt(k).slot = k
  BY NewAttemptKnows
<1>4. /\ Updated(NewAttempt(k), m) \in Attempt
      /\ Updated(NewAttempt(k), m).slot = k
  BY <1>3, UpdatedKnows
<1>5. CASE /\ ~m.reeval /\ AttemptOf(k) # 0
           /\ attempts' = [attempts EXCEPT ![AttemptOf(k)] = Updated(@, m)]
           /\ open' = open
  <2>1. PICK j \in OpenKeys : AttemptOf(k) = open[j]
    BY <1>5, AttemptOfIsOpen
  <2>2. attempts[open[j]].slot = j /\ open[j] \in 1 .. Len(attempts)
    BY OpenAttempt
  <2>3. n # open[j]
    BY <1>1, <2>2
  <2>. QED  BY <1>1, <1>5, <2>1, <2>2, <2>3
<1>. QED  BY <1>2, <1>3, <1>4, <1>5, RecordAppendsOrUpdates

\* A re-evaluation of a slot leaves its attempt behind.
LEMMA ReopenedLeaves ==
  ASSUME TypeOK, NEW k \in Key, NEW m \in Message, Record(k, m), m.reeval,
         k \in OpenKeys
  PROVE  /\ open[k] \in 1 .. Len(attempts') /\ open[k] < open'[k]
         /\ attempts'[open[k]] = attempts[open[k]]
         /\ attempts[open[k]].slot = k
<1>1. open[k] \in 1 .. Len(attempts) /\ attempts[open[k]].slot = k
  BY OpenAttempt
<1>2. NewAttempt(k) \in Attempt /\ NewAttempt(k).slot = k
  BY NewAttemptKnows
<1>3. Push(k, NewAttempt(k))
  BY RecordAppendsOrUpdates
<1>4. /\ Len(attempts') = Len(attempts) + 1
      /\ attempts'[open[k]] = attempts[open[k]]
      /\ open'[k] = Len(attempts) + 1
  BY <1>1, <1>2, <1>3, PushedIsOpen
<1>5. Len(attempts) \in Nat
  BY DEF TypeOK
<1>. QED  BY <1>1, <1>4, <1>5

LEMMA RecordHoldsBinding ==
  ASSUME TypeOK, ShownIsKept, NEW k \in Key, NEW m \in Message, Record(k, m)
  PROVE  BindingHeld'
<1>1. PICK N \in Nat : N = Len(log) + 1
  BY LogGrows
<1>2. /\ Len(log) \in Nat /\ Len(log') = N
  BY <1>1, LogGrows
<1>. SUFFICES ASSUME NEW h \in Key,
                     NEW i \in 1 .. Len(log'), NEW j \in 1 .. Len(log'),
                     ShowsPath(i, h)', ShowsSuccess(j, h)',
                     i = j \/ During(i, j, h)' \/ During(j, i, h)',
                     ~Latest(i, h)'
              PROVE  \E n \in 1 .. Len(attempts') :
                       /\ n < open'[h] /\ attempts'[n].slot = h
                       /\ attempts'[n].path = Expected /\ attempts'[n].success
  BY DEF BindingHeld
\* The last line has none after it, and follows none that has been left.
<1>3. Latest(N, h)' /\ ~During(N, j, h)' /\ ~During(N, i, h)'
  BY <1>1, <1>2 DEF Latest, During
<1>4. i \in 1 .. Len(log)
  BY <1>1, <1>2, <1>3
<1>5. j \in 1 .. Len(log)
  <2>1. CASE j = N
    <3>1. During(i, N, h)'
      BY <1>1, <1>2, <1>3, <1>4, <2>1
    <3>2. Latest(i, h)'
      BY <1>1, <1>4, <3>1, LinesAfter
    <3>. QED  BY <3>2
  <2>. QED  BY <1>1, <1>2, <2>1
<1>6. /\ ShowsPath(i, h) /\ ShowsSuccess(j, h)
      /\ i = j \/ During(i, j, h) \/ During(j, i, h)
  BY <1>1, <1>4, <1>5, ShownBefore, LinesAfter
<1>7. CASE ~Latest(i, h)
  <2>1. PICK n \in 1 .. Len(attempts) :
          /\ n < open[h] /\ attempts[n].slot = h
          /\ attempts[n].path = Expected /\ attempts[n].success
    BY <1>4, <1>5, <1>6, <1>7 DEF ShownIsKept, BindingHeld
  <2>2. /\ n \in 1 .. Len(attempts') /\ n < open'[h]
        /\ attempts'[n] = attempts[n]
    BY <2>1, LeftStays
  <2>. QED  BY <2>1, <2>2
<1>8. CASE Latest(i, h)
  <2>1. k = h /\ m.reeval
    BY <1>1, <1>4, <1>8, LinesAfter
  <2>2. Latest(j, h)
    BY <1>2, <1>4, <1>5, <1>6, <1>8 DEF Latest, During
  <2>3. /\ open[h] # 0 /\ attempts[open[h]].path = Expected
        /\ attempts[open[h]].success
    BY <1>4, <1>5, <1>6, <1>8, <2>2 DEF ShownIsKept, PathHeld, SuccessHeld
  <2>4. h \in OpenKeys
    BY <2>3 DEF OpenKeys
  <2>. QED  BY <2>1, <2>3, <2>4, ReopenedLeaves
<1>. QED  BY <1>7, <1>8

\* An empty log shows nothing.
LEMMA EmptyHolds ==
  ASSUME log = <<>>, OpenKeys = {}
  PROVE  ShownIsKept
BY DEF ShownIsKept, FirstIsOpen, AloneIsOnly, PathHeld, SuccessHeld, BindingHeld

\* It holds before the first line, and every step keeps it.
THEOREM ShownIsKeptInit == Init => ShownIsKept
<1>. SUFFICES ASSUME Init
              PROVE  ShownIsKept
  OBVIOUS
<1>1. log = <<>> /\ open = [k \in Key |-> 0]
  BY DEF Init
<1>2. OpenKeys = {}
  BY <1>1 DEF OpenKeys
<1>. QED  BY <1>1, <1>2, EmptyHolds

THEOREM ShownIsKeptNext == BindingInv /\ ShownIsKept /\ [Next]_vars => ShownIsKept'
<1>. SUFFICES ASSUME BindingInv, ShownIsKept, [Next]_vars
              PROVE  ShownIsKept'
  OBVIOUS
<1>1. TypeOK
  BY DEF BindingInv
<1>2. ASSUME NEW k \in Key, NEW m \in Message, Record(k, m)
      PROVE  ShownIsKept'
  <2>1. FirstIsOpen' /\ AloneIsOnly'
    BY <1>1, <1>2, RecordFirst, RecordAlone DEF ShownIsKept
  <2>2. PathHeld' /\ SuccessHeld'
    BY <1>1, <1>2, RecordHoldsPath, RecordHoldsSuccess DEF ShownIsKept
  <2>3. BindingHeld'
    BY <1>1, <1>2, RecordHoldsBinding
  <2>. QED  BY <2>1, <2>2, <2>3 DEF ShownIsKept
<1>3. CASE Trigger \/ OtherTrigger
  <2>1. log' = <<>> /\ open' = [k \in Key |-> 0]
    BY <1>3 DEF Trigger, OtherTrigger, Truncate
  <2>2. OpenKeys' = {}
    BY <2>1 DEF OpenKeys
  <2>. QED  BY <2>1, <2>2
       DEF ShownIsKept, FirstIsOpen, AloneIsOnly, PathHeld, SuccessHeld, BindingHeld
<1>4. CASE UNCHANGED <<log, parser>>
  <2>1. log' = log /\ attempts' = attempts /\ open' = open
    BY <1>4 DEF parser
  <2>2. OpenKeys' = OpenKeys
    BY <2>1 DEF OpenKeys
  <2>3. \A k \in Key, i \in 1 .. Len(log) :
          /\ Latest(i, k)' <=> Latest(i, k)
          /\ ShowsPath(i, k)' <=> ShowsPath(i, k)
          /\ ShowsSuccess(i, k)' <=> ShowsSuccess(i, k)
          /\ \A j \in 1 .. Len(log) : During(i, j, k)' <=> During(i, j, k)
    BY <2>1 DEF Latest, ShowsPath, ShowsSuccess, During, About, Alone
  <2>4. FirstIsOpen' /\ AloneIsOnly'
    BY <2>1, <2>2 DEF ShownIsKept, FirstIsOpen, AloneIsOnly, Alone
  <2>5. PathHeld' /\ SuccessHeld' /\ BindingHeld'
    BY <2>1, <2>3 DEF ShownIsKept, PathHeld, SuccessHeld, BindingHeld
  <2>. QED  BY <2>4, <2>5 DEF ShownIsKept
<1>. QED  BY <1>2, <1>3, <1>4
     DEF Next, GivenLog, NoLog, Look, Wait, Poll, Deadline, LastLook, Answer, vars

\* What a line has shown of a slot and none has taken back, the attempts have.
THEOREM ShownIsAlwaysKept == Spec => []ShownIsKept
<1>. QED  BY ShownIsKeptInit, ShownIsKeptNext, BindingInvariant, PTL DEF Spec

\* A slot that the log shows to be bound is one the verifier finds verified.
LEMMA ShownIsVerified ==
  ASSUME TypeOK, ShownIsKept, NEW k \in Key, ShowsBinding(k)
  PROVE  Verified
<1>1. PICK i \in 1 .. Len(log), j \in 1 .. Len(log) :
        /\ ShowsPath(i, k) /\ ShowsSuccess(j, k)
        /\ i = j \/ During(i, j, k) \/ During(j, i, k)
  BY DEF ShowsBinding
<1>2. CASE Latest(i, k)
  <2>1. Latest(j, k)
    BY <1>1, <1>2 DEF Latest, During, TypeOK
  <2>2. /\ k \in OpenKeys /\ attempts[open[k]].path = Expected
        /\ attempts[open[k]].success
    BY <1>1, <1>2, <2>1 DEF ShownIsKept, PathHeld, SuccessHeld, OpenKeys
  <2>3. open[k] \in 1 .. Len(attempts)
    BY <2>2, OpenAttempt
  <2>. QED  BY <2>2, <2>3 DEF Verified
<1>3. CASE ~Latest(i, k)
  BY <1>1, <1>3 DEF ShownIsKept, BindingHeld, Verified
<1>. QED  BY <1>2, <1>3

\* TIMEOUT is never the answer when the lines of the log show a slot to be
\* bound: no line of it has been counted for another slot, or is lost to an
\* attempt that a re-evaluation has closed, however late the success has come.
THEOREM NoBindingMissed == Spec => TimeoutIsUnbound
<1>1. ASSUME BindingInv, ShownIsKept, Next,
             pc # "done", pc' = "done", status' = "TIMEOUT"
      PROVE  \A k \in Key : ~ShowsBinding(k)
  <2>1. PICK t \in BOOLEAN : StatusFor(t) = "TIMEOUT" /\ (t => ~Verified)
    BY <1>1, AnswerFromAttempts
  <2>2. ~Verified
    BY <2>1, TimeoutAfterDeadline
  <2>. QED  BY <1>1, <2>2, ShownIsVerified DEF BindingInv
<1>2. BindingInv /\ ShownIsKept /\ [Next]_vars
        => [pc' = "done" /\ pc # "done" /\ status' = "TIMEOUT"
              => \A k \in Key : ~ShowsBinding(k)]_vars
  BY <1>1
<1>. QED  BY <1>2, BindingInvariant, ShownIsAlwaysKept, PTL DEF Spec, TimeoutIsUnbound

-----------------------------------------------------------------------------
(***************************************************************************)
(* What closes an attempt, and what ends a wait                            *)
(***************************************************************************)

\* Once its slot is re-evaluated, no line changes what is known of an attempt,
\* one that names no slot included.
THEOREM ClosedStayClosed == Spec => ClosedAttemptsFrozen
<1>1. ASSUME BindingInv, [Next]_vars, log' # <<>>,
             NEW i \in 1 .. Len(attempts), NEW n \in 1 .. Len(attempts),
             n > i, attempts[n].slot = attempts[i].slot
      PROVE  attempts'[i] = attempts[i]
  <2>1. ASSUME NEW k \in Key, NEW m \in Message, Record(k, m)
        PROVE  attempts'[i] = attempts[i]
    <3>1. ASSUME NEW a \in Attempt, a.slot = k, Push(k, a)
          PROVE  attempts'[i] = attempts[i]
      BY <1>1, <3>1, PushedIsOpen DEF BindingInv
    <3>2. /\ NewAttempt(k) \in Attempt /\ NewAttempt(k).slot = k
      BY NewAttemptKnows
    <3>3. /\ Updated(NewAttempt(k), m) \in Attempt
          /\ Updated(NewAttempt(k), m).slot = k
      BY <3>2, UpdatedKnows
    <3>4. CASE /\ ~m.reeval /\ AttemptOf(k) # 0
               /\ attempts' = [attempts EXCEPT ![AttemptOf(k)] = Updated(@, m)]
      <4>1. PICK j \in OpenKeys : AttemptOf(k) = open[j]
        BY <1>1, <3>4, AttemptOfIsOpen DEF BindingInv
      <4>2. attempts[open[j]].slot = j /\ open[j] \in 1 .. Len(attempts) /\ j \in Key
        BY <1>1, OpenAttempt DEF BindingInv
      <4>3. i # open[j]
        BY <1>1, <4>2 DEF BindingInv, OpenIsLatest
      <4>. QED  BY <1>1, <3>4, <4>1, <4>2, <4>3 DEF BindingInv, TypeOK
    <3>. QED  BY <1>1, <2>1, <3>1, <3>2, <3>3, <3>4, RecordAppendsOrUpdates
              DEF BindingInv
  <2>2. CASE Trigger \/ OtherTrigger
    BY <1>1, <2>2 DEF Trigger, OtherTrigger, Truncate
  <2>3. CASE UNCHANGED parser
    BY <2>3 DEF parser
  <2>. QED  BY <1>1, <2>1, <2>2, <2>3
       DEF Next, GivenLog, NoLog, Look, Wait, Poll, Deadline, LastLook, Answer, vars
<1>2. BindingInv /\ [Next]_vars
        => [log' # <<>> => \A i \in 1 .. Len(attempts) :
             (\E n \in 1 .. Len(attempts) : n > i /\ attempts[n].slot = attempts[i].slot)
               => attempts'[i] = attempts[i]]_vars
  BY <1>1
<1>. QED  BY <1>2, BindingInvariant, PTL DEF Spec, ClosedAttemptsFrozen

\* A wait that ends before its deadline, with one attempt that has not failed,
\* ends with VERIFIED.
THEOREM OneAttemptIsEnough == Spec => OneAttemptDecides
<1>1. ASSUME Next, pc = "waiting", pc' = "done", Len(attempts) = 1,
             ~attempts[1].failed
      PROVE  status' = "VERIFIED"
  <2>1. Poll
    BY <1>1, AnswersOfNext DEF NoLog, Look, LastLook
  <2>2. PICK i \in 1 .. Len(attempts) : attempts[i].path = Expected /\ attempts[i].success
    BY <2>1 DEF Poll, Verified
  <2>3. attempts[1].path = Expected /\ attempts[1].success
    BY <1>1, <2>2
  <2>4. attempts # <<>>
    BY <1>1
  <2>5. StatusFor(FALSE) = "VERIFIED"
    BY <1>1, <2>3, <2>4 DEF StatusFor
  <2>. QED  BY <2>1, <2>5 DEF Poll, Answer
<1>2. [Next]_vars
        => [pc = "waiting" /\ pc' = "done" /\ Len(attempts) = 1 /\ ~attempts[1].failed
              => status' = "VERIFIED"]_vars
  BY <1>1
<1>. QED  BY <1>2, PTL DEF Spec, OneAttemptDecides
=============================================================================
