----------------------------- MODULE GuidedProofs -----------------------------
(***************************************************************************)
(* Proofs about GuidedLifecycle, for scenarios of any length, and about    *)
(* GuidedRuntime, the worker on top of it, for any number of buttons and   *)
(* prompts and any bounds.                                                 *)
(*                                                                         *)
(* The session: a call is a control, which leaves the attempts alone; an   *)
(* attempt, which adds one at the current line; or a pronunciation result, *)
(* which changes nothing else.                                             *)
(*                                                                         *)
(* The worker: its steps are calls of the session or leave it alone, so it *)
(* inherits what holds of every session.  A session that has ended stays   *)
(* so, and therefore every reply that says so is true for ever, however    *)
(* late it is read.                                                        *)
(***************************************************************************)
EXTENDS GuidedRuntime, FiniteSetTheorems, SequenceTheorems, TLAPS

-----------------------------------------------------------------------------
(***************************************************************************)
(* The attempts of a record.                                               *)
(***************************************************************************)
LEMMA PositionsAreFinite == ASSUME NEW n \in Nat PROVE IsFiniteSet(1 .. n)
<1>1. 1 \in Int /\ n \in Int
  OBVIOUS
<1> QED
  BY ONLY <1>1, FS_Interval

LEMMA AttemptsAreFinite ==
    ASSUME NEW r \in Records, NEW turn
    PROVE  /\ DOMAIN r.attempts = 1 .. Len(r.attempts)
           /\ Len(r.attempts) \in Nat
           /\ AttemptsAt(r, turn) \subseteq 1 .. Len(r.attempts)
           /\ IsFiniteSet(AttemptsAt(r, turn))
           /\ Cardinality(AttemptsAt(r, turn)) \in Nat
<1>1. r.attempts \in Seq(Attempts)
  BY DEF Records
<1>2. DOMAIN r.attempts = 1 .. Len(r.attempts) /\ Len(r.attempts) \in Nat
  BY <1>1
<1>3. AttemptsAt(r, turn) \subseteq 1 .. Len(r.attempts)
  BY <1>2 DEF AttemptsAt
<1>4. IsFiniteSet(1 .. Len(r.attempts))
  BY <1>2, PositionsAreFinite
<1>5. IsFiniteSet(AttemptsAt(r, turn))
  BY <1>3, <1>4, FS_Subset
<1> QED
  BY <1>2, <1>3, <1>5, FS_CardinalityType

\* The attempt that AddAttempt appends, and what it makes of the others.
NewAttempt(r, queued) ==
    [turn          |-> r.turn,
     selected      |-> TRUE,
     retry         |-> RetryNumber(r),
     pronunciation |-> IF queued THEN "queued" ELSE "not_requested"]

Deselected(r) ==
    [i \in DOMAIN r.attempts |->
        [r.attempts[i] EXCEPT !.selected = @ /\ r.attempts[i].turn # r.turn]]

LEMMA DeselectedType ==
    ASSUME NEW r \in Records
    PROVE  /\ Deselected(r) \in Seq(Attempts)
           /\ Len(Deselected(r)) = Len(r.attempts)
           /\ \A i \in 1 .. Len(r.attempts) :
                 Deselected(r)[i] =
                    [r.attempts[i] EXCEPT !.selected = @ /\ r.attempts[i].turn # r.turn]
<1>1. r.attempts \in Seq(Attempts) /\ r.turn \in Turns
  BY DEF Records
<1>2. DOMAIN r.attempts = 1 .. Len(r.attempts) /\ Len(r.attempts) \in Nat
  BY <1>1
<1>3. \A i \in 1 .. Len(r.attempts) :
         [r.attempts[i] EXCEPT !.selected = @ /\ r.attempts[i].turn # r.turn] \in Attempts
  <2> TAKE i \in 1 .. Len(r.attempts)
  <2>1. r.attempts[i] \in Attempts
    BY <1>1, <1>2
  <2>2. (r.attempts[i].selected /\ r.attempts[i].turn # r.turn) \in BOOLEAN
    OBVIOUS
  <2> QED
    BY <2>1, <2>2 DEF Attempts
<1>4. Deselected(r) \in [1 .. Len(r.attempts) -> Attempts]
  BY <1>2, <1>3 DEF Deselected
<1>5. Deselected(r) \in Seq(Attempts) /\ Len(Deselected(r)) = Len(r.attempts)
  BY <1>2, <1>4
<1> QED
  BY <1>2, <1>5 DEF Deselected

LEMMA AddedAttempt ==
    ASSUME NEW r \in Records, NEW queued \in BOOLEAN, RetryNumber(r) \in 0 .. MaxRetries
    PROVE  /\ AddAttempt(r, queued) \in Seq(Attempts)
           /\ Len(AddAttempt(r, queued)) = Len(r.attempts) + 1
           /\ AddAttempt(r, queued)[Len(r.attempts) + 1] = NewAttempt(r, queued)
           /\ \A i \in 1 .. Len(r.attempts) :
                 AddAttempt(r, queued)[i] =
                    [r.attempts[i] EXCEPT !.selected = @ /\ r.attempts[i].turn # r.turn]
<1>1. AddAttempt(r, queued) = Append(Deselected(r), NewAttempt(r, queued))
  BY DEF AddAttempt, Deselected, NewAttempt
<1>2. r.turn \in Turns
  BY DEF Records
<1>3. NewAttempt(r, queued) \in Attempts
  BY <1>2 DEF NewAttempt, Attempts, PronunciationStatuses
<1>4. Len(r.attempts) \in Nat
  BY AttemptsAreFinite
<1> QED
  BY <1>1, <1>3, <1>4, DeselectedType, AppendProperties

\* What an attempt does to the sets of attempts at a line.
LEMMA AttemptsAtAfter ==
    ASSUME NEW r \in Records, NEW n, NEW queued \in BOOLEAN,
           RetryNumber(r) \in 0 .. MaxRetries,
           n.attempts = AddAttempt(r, queued), NEW turn
    PROVE  AttemptsAt(n, turn) =
              IF turn = r.turn THEN AttemptsAt(r, turn) \cup {Len(r.attempts) + 1}
              ELSE AttemptsAt(r, turn)
<1> DEFINE len == Len(r.attempts)
<1>1. /\ n.attempts \in Seq(Attempts)
      /\ Len(n.attempts) = len + 1
      /\ n.attempts[len + 1] = NewAttempt(r, queued)
      /\ \A i \in 1 .. len : n.attempts[i] =
            [r.attempts[i] EXCEPT !.selected = @ /\ r.attempts[i].turn # r.turn]
  BY AddedAttempt
<1>2. len \in Nat /\ DOMAIN r.attempts = 1 .. len /\ r.attempts \in Seq(Attempts)
  BY AttemptsAreFinite DEF Records
<1>3. DOMAIN n.attempts = 1 .. (len + 1)
  BY <1>1
<1>4. \A i \in 1 .. len : n.attempts[i].turn = r.attempts[i].turn
  <2> TAKE i \in 1 .. len
  <2>1. r.attempts[i] \in Attempts
    BY <1>2
  <2> QED
    BY <1>1, <2>1 DEF Attempts
<1>5. n.attempts[len + 1].turn = r.turn
  BY <1>1 DEF NewAttempt
<1>6. 1 .. (len + 1) = (1 .. len) \cup {len + 1}
  BY <1>2
<1> HIDE DEF len
<1> QED
  BY <1>2, <1>3, <1>4, <1>5, <1>6 DEF AttemptsAt, len

-----------------------------------------------------------------------------
(***************************************************************************)
(* The inductive invariant is the conjunction of the properties: the bound *)
(* on the retries keeps the records well typed, and the order of the lines *)
(* gives the next line its first attempt.                                  *)
(***************************************************************************)
IInv ==
    /\ TypeOK
    /\ FieldsAgree
    /\ LinesInOrder
    /\ LastAttemptSelected
    /\ AtMostTwoRetries

\* An attempt, as the proofs use it: what it does to the attempts, and the
\* three ways it can move the session.
Attempted(queued) ==
    /\ record.status = "in_progress"
    /\ record.state \in {"user_prompt_visible", "awaiting_retry_decision"}
    /\ record'.attempts = AddAttempt(record, queued)
    /\ \/ /\ RetryNumber(record) < MaxRetries
          /\ record'.state = "awaiting_retry_decision"
          /\ record'.status = record.status
          /\ record'.pausedFrom = record.pausedFrom
          /\ record'.turn = record.turn
       \/ /\ record.turn = NumTurns
          /\ record'.state = "completed"
          /\ record'.status = "completed"
          /\ record'.pausedFrom = "none"
          /\ record'.turn = record.turn
       \/ /\ record.turn # NumTurns
          /\ record'.state = "assistant_speaking"
          /\ record'.status = record.status
          /\ record'.pausedFrom = record.pausedFrom
          /\ record'.turn = record.turn + 1

\* The fields of a record, and that they are all there is.
Fields(r) == r = [status |-> r.status, state |-> r.state, pausedFrom |-> r.pausedFrom,
                  turn |-> r.turn, attempts |-> r.attempts]

LEMMA AttemptMoves ==
    ASSUME TypeOK, Attempt
    PROVE  Fields(record') /\ \E queued \in BOOLEAN : Attempted(queued)
<1>1. PICK unclear \in BOOLEAN, queued \in BOOLEAN :
         record' = AfterAttempt(record, unclear, queued)
  BY DEF Attempt
<1> DEFINE heard == [record EXCEPT !.attempts = AddAttempt(record, queued)]
<1>2. /\ heard = [status |-> record.status, state |-> record.state,
                  pausedFrom |-> record.pausedFrom, turn |-> record.turn,
                  attempts |-> AddAttempt(record, queued)]
  BY DEF TypeOK, Records
<1>3. record' = IF RetryRecommended(record, unclear)
                THEN [heard EXCEPT !.state = "awaiting_retry_decision"]
                ELSE FinishTurn(heard)
  BY <1>1 DEF AfterAttempt
<1>4. /\ record.status = "in_progress"
      /\ record.state \in {"user_prompt_visible", "awaiting_retry_decision"}
  BY DEF Attempt, MaySpeak, InProgress
<1> HIDE DEF heard
<1>5. CASE RetryRecommended(record, unclear)
  BY <1>2, <1>3, <1>4, <1>5 DEF RetryRecommended, Attempted, Fields
<1>6. CASE ~RetryRecommended(record, unclear) /\ record.turn = NumTurns
  BY <1>2, <1>3, <1>4, <1>6 DEF FinishTurn, Attempted, Fields
<1>7. CASE ~RetryRecommended(record, unclear) /\ record.turn # NumTurns
  BY <1>2, <1>3, <1>4, <1>7 DEF FinishTurn, Attempted, Fields
<1> QED
  BY <1>5, <1>6, <1>7

\* The moves of a control, which leaves the attempts alone.
Moved ==
    /\ record'.attempts = record.attempts
    /\ \/ /\ record.state = "assistant_speaking" \/ record.state = "awaiting_retry_decision"
          /\ record'.state = "user_prompt_visible"
          /\ record'.status = record.status
          /\ record'.pausedFrom = record.pausedFrom
          /\ record'.turn = record.turn
       \/ /\ record.state = "awaiting_retry_decision"
          /\ record.turn = NumTurns
          /\ record'.state = "completed"
          /\ record'.status = "completed"
          /\ record'.pausedFrom = "none"
          /\ record'.turn = record.turn
       \/ /\ record.state = "awaiting_retry_decision"
          /\ record.turn # NumTurns
          /\ record'.state = "assistant_speaking"
          /\ record'.status = record.status
          /\ record'.pausedFrom = record.pausedFrom
          /\ record'.turn = record.turn + 1
       \/ /\ record.status = "in_progress" /\ record.state \in Active
          /\ record'.state = "paused"
          /\ record'.pausedFrom = record.state
          /\ record'.status = record.status
          /\ record'.turn = record.turn
       \/ /\ record.status = "in_progress" /\ record.state = "paused"
          /\ record'.state = record.pausedFrom
          /\ record'.pausedFrom = "none"
          /\ record'.status = record.status
          /\ record'.turn = record.turn
       \/ /\ record.status = "in_progress"
          /\ record'.status = "stopped" /\ record'.state = "stopped"
          /\ record'.pausedFrom = "none"
          /\ record'.turn = record.turn

LEMMA ControlMoves ==
    ASSUME TypeOK, FieldsAgree, NEW control \in Controls, Control(control)
    PROVE  Fields(record') /\ Moved
<1>1. record = [status |-> record.status, state |-> record.state,
                pausedFrom |-> record.pausedFrom, turn |-> record.turn,
                attempts |-> record.attempts]
  BY DEF TypeOK, Records
<1>2. record' = AfterControl(record, control) /\ MayControl(record, control)
  BY DEF Control
<1>3. CASE control = "prompt_ready"
  BY <1>1, <1>2, <1>3 DEF MayControl, AfterControl, Moved, Fields
<1>4. CASE control = "continue"
  <2>1. record' = FinishTurn(record) /\ record.state = "awaiting_retry_decision"
    BY <1>2, <1>4 DEF MayControl, MayContinue, AfterControl
  <2>2. CASE record.turn = NumTurns
    BY <1>1, <2>1, <2>2 DEF FinishTurn, Moved, Fields
  <2>3. CASE record.turn # NumTurns
    BY <1>1, <2>1, <2>3 DEF FinishTurn, Moved, Fields
  <2> QED
    BY <2>2, <2>3
<1>5. CASE control = "retry"
  BY <1>1, <1>2, <1>5 DEF MayControl, AfterControl, Moved, Fields
<1>6. CASE control = "pause"
  BY <1>1, <1>2, <1>6 DEF MayControl, MayPause, AfterControl, Pause, InProgress, Moved, Fields
<1>7. CASE control = "resume"
  <2>1. record' = Resume(record) /\ record.status = "in_progress" /\ record.state = "paused"
    BY <1>2, <1>7 DEF MayControl, AfterControl, InProgress
  <2>2. record.pausedFrom \in Active
    BY <2>1 DEF FieldsAgree, TypeOK, Records
  <2> QED
    BY <1>1, <2>1, <2>2 DEF Resume, Moved, Fields
<1>8. CASE control = "stop"
  BY <1>1, <1>2, <1>8 DEF MayControl, AfterControl, Stop, InProgress, Moved, Fields
<1> QED
  BY <1>3, <1>4, <1>5, <1>6, <1>7, <1>8 DEF Controls

\* A pronunciation result.
Evaluated(i, status) ==
    /\ i \in DOMAIN record.attempts
    /\ status \in {"completed", "failed"}
    /\ record' = [record EXCEPT !.attempts = [@ EXCEPT ![i].pronunciation = status]]

LEMMA PronunciationMoves ==
    ASSUME TypeOK, Pronunciation
    PROVE  \E i, status : Evaluated(i, status)
<1>1. PICK i \in DOMAIN record.attempts, status \in {"completed", "failed"} :
         record' = AfterPronunciation(record, i, status)
  BY DEF Pronunciation
<1> QED
  BY <1>1 DEF AfterPronunciation, Evaluated

-----------------------------------------------------------------------------
(***************************************************************************)
(* Controls keep the invariant.                                            *)
(***************************************************************************)
\* AttemptsAt looks at the attempts only.
LEMMA SameAttempts ==
    ASSUME NEW r, NEW n, n.attempts = r.attempts, NEW turn
    PROVE  AttemptsAt(n, turn) = AttemptsAt(r, turn)
  BY DEF AttemptsAt

LEMMA ControlKeepsType ==
    ASSUME TypeOK, FieldsAgree, Moved, Fields(record')
    PROVE  TypeOK'
<1>1. /\ record.status \in Statuses /\ record.state \in States
      /\ record.pausedFrom \in Active \cup {"none"} /\ record.turn \in 1 .. NumTurns
      /\ record.attempts \in Seq(Attempts) /\ NumTurns \in Nat
  BY NumTurnsAssumption DEF TypeOK, Records, Turns
<1>2. /\ record'.status \in Statuses /\ record'.pausedFrom \in Active \cup {"none"}
      /\ record'.attempts \in Seq(Attempts)
  BY <1>1 DEF Moved, Statuses
<1>3. record'.turn \in 1 .. NumTurns
  BY <1>1 DEF Moved
<1>4. record.state = "paused" => record.pausedFrom \in Active
  BY <1>1 DEF FieldsAgree
<1>5. record'.state \in States
  BY <1>1, <1>4 DEF Moved, States, Active
<1> QED
  BY <1>2, <1>3, <1>5 DEF TypeOK, Records, Turns, Fields

LEMMA ControlKeepsFields ==
    ASSUME TypeOK, FieldsAgree, Moved
    PROVE  FieldsAgree'
  BY DEF TypeOK, Records, Statuses, FieldsAgree, Moved, InProgress, Active

LEMMA ControlKeepsLines ==
    ASSUME TypeOK, FieldsAgree, LinesInOrder, Moved
    PROVE  LinesInOrder'
<1>1. \A turn \in Turns : AttemptsAt(record', turn) = AttemptsAt(record, turn)
  BY SameAttempts DEF Moved
<1>2. record.turn \in 1 .. NumTurns /\ NumTurns \in Nat /\ record'.turn \in 1 .. NumTurns
  BY NumTurnsAssumption DEF TypeOK, Records, Turns, Moved
<1>3. \A turn \in 1 .. NumTurns :
         /\ turn < record.turn => AttemptsAt(record, turn) # {}
         /\ turn > record.turn => AttemptsAt(record, turn) = {}
  BY DEF LinesInOrder, Turns
<1>4. record.state = "awaiting_retry_decision" => AttemptsAt(record, record.turn) # {}
  BY DEF LinesInOrder
<1>5. record.state = "paused" /\ record.pausedFrom = "awaiting_retry_decision" =>
         AttemptsAt(record, record.turn) # {}
  BY DEF LinesInOrder
<1>6. record'.turn # record.turn =>
         record'.turn = record.turn + 1 /\ record.state = "awaiting_retry_decision"
  BY DEF Moved
<1>7. \A turn \in Turns :
         /\ turn < record'.turn => AttemptsAt(record', turn) # {}
         /\ turn > record'.turn => AttemptsAt(record', turn) = {}
  <2> TAKE turn \in Turns
  <2>1. turn \in 1 .. NumTurns
    BY DEF Turns
  <2>2. CASE record'.turn = record.turn
    BY <1>1, <1>3, <2>1, <2>2 DEF Turns
  <2>3. CASE record'.turn # record.turn
    <3>1. record'.turn = record.turn + 1 /\ AttemptsAt(record, record.turn) # {}
      BY <1>4, <1>6, <2>3
    <3>2. turn < record'.turn => turn < record.turn \/ turn = record.turn
      BY <1>2, <2>1, <3>1
    <3>3. turn > record'.turn => turn > record.turn
      BY <1>2, <2>1, <3>1
    <3> QED
      BY <1>1, <1>3, <2>1, <3>1, <3>2, <3>3 DEF Turns
  <2> QED
    BY <2>2, <2>3
<1>8. record'.status = "completed" => record'.turn = NumTurns
  BY DEF Moved, FieldsAgree, InProgress, LinesInOrder, Active
<1>9. LET position == IF record'.state = "paused" THEN record'.pausedFrom ELSE record'.state
      IN  position \in {"awaiting_retry_decision", "completed"} =>
             record'.turn = record.turn /\ AttemptsAt(record, record.turn) # {}
  <2>1. record.state = "paused" => record.pausedFrom \in Active
    BY DEF TypeOK, Records, FieldsAgree
  <2> QED
    BY <1>4, <1>5, <2>1 DEF Moved, Active
<1> QED
  BY <1>1, <1>2, <1>7, <1>8, <1>9 DEF LinesInOrder, Turns

LEMMA ControlKeepsAttempts ==
    ASSUME TypeOK, LinesInOrder, LastAttemptSelected, AtMostTwoRetries, Moved
    PROVE  LastAttemptSelected' /\ AtMostTwoRetries'
<1>1. record'.attempts = record.attempts
  BY DEF Moved
<1>2. \A turn : AttemptsAt(record', turn) = AttemptsAt(record, turn)
  BY <1>1, SameAttempts
<1>3. LastAttemptSelected'
  BY <1>1, <1>2 DEF LastAttemptSelected
<1>4. record.turn \in Turns /\ record.turn \in Nat
  BY DEF TypeOK, Records, Turns
<1>5. InProgress(record') => Cardinality(AttemptsAt(record, record'.turn)) <= MaxRetries
  <2> SUFFICES ASSUME InProgress(record')
               PROVE  Cardinality(AttemptsAt(record, record'.turn)) <= MaxRetries
    OBVIOUS
  <2>1. CASE record'.turn = record.turn /\ record.status = "in_progress"
    BY <2>1 DEF AtMostTwoRetries, InProgress, RetryNumber
  <2>2. CASE record'.turn = record.turn + 1
    <3>1. record'.turn \in Turns
      <4>1. record.turn \in 1 .. NumTurns /\ NumTurns \in Nat /\ record.turn # NumTurns
        BY <1>4, <2>2, NumTurnsAssumption DEF Moved, Turns
      <4> QED
        BY <2>2, <4>1 DEF Turns
    <3>2. AttemptsAt(record, record'.turn) = {}
      BY <1>4, <2>2, <3>1 DEF LinesInOrder, Turns
    <3> QED
      BY <3>2, FS_EmptySet DEF MaxRetries
  <2> QED
    BY <1>4, <2>1, <2>2 DEF Moved, InProgress
<1> QED
  BY <1>1, <1>2, <1>3, <1>5 DEF AtMostTwoRetries, RetryNumber

-----------------------------------------------------------------------------
(***************************************************************************)
(* Attempts keep the invariant.                                            *)
(***************************************************************************)
\* What an attempt adds, with the numbers it needs.
LEMMA AttemptAdds ==
    ASSUME IInv, NEW queued \in BOOLEAN, Attempted(queued)
    PROVE  /\ record \in Records
           /\ RetryNumber(record) \in 0 .. MaxRetries
           /\ record'.attempts \in Seq(Attempts)
           /\ DOMAIN record.attempts = 1 .. Len(record.attempts)
           /\ Len(record.attempts) \in Nat
           /\ DOMAIN record'.attempts = (DOMAIN record.attempts) \cup {Len(record.attempts) + 1}
           /\ record'.attempts[Len(record.attempts) + 1] = NewAttempt(record, queued)
           /\ \A i \in DOMAIN record.attempts :
                 /\ record.attempts[i] \in Attempts
                 /\ record'.attempts[i].turn = record.attempts[i].turn
                 /\ record'.attempts[i].retry = record.attempts[i].retry
                 /\ record'.attempts[i].selected <=>
                       record.attempts[i].selected /\ record.attempts[i].turn # record.turn
           /\ \A turn : AttemptsAt(record', turn) =
                 IF turn = record.turn
                 THEN AttemptsAt(record, turn) \cup {Len(record.attempts) + 1}
                 ELSE AttemptsAt(record, turn)
<1>1. record \in Records /\ record.attempts \in Seq(Attempts)
  BY DEF IInv, TypeOK, Records
<1>2. /\ Len(record.attempts) \in Nat
      /\ DOMAIN record.attempts = 1 .. Len(record.attempts)
      /\ \A turn : Cardinality(AttemptsAt(record, turn)) \in Nat
  BY <1>1, AttemptsAreFinite
<1>3. RetryNumber(record) \in 0 .. MaxRetries
  BY <1>2 DEF IInv, AtMostTwoRetries, InProgress, Attempted, RetryNumber, MaxRetries
<1>4. record'.attempts = AddAttempt(record, queued)
  BY DEF Attempted
<1>5. /\ record'.attempts \in Seq(Attempts)
      /\ Len(record'.attempts) = Len(record.attempts) + 1
      /\ record'.attempts[Len(record.attempts) + 1] = NewAttempt(record, queued)
      /\ \A i \in 1 .. Len(record.attempts) : record'.attempts[i] =
            [record.attempts[i] EXCEPT !.selected = @ /\ record.attempts[i].turn # record.turn]
  BY <1>1, <1>3, <1>4, AddedAttempt
<1>6. DOMAIN record'.attempts = (DOMAIN record.attempts) \cup {Len(record.attempts) + 1}
  <2>1. DOMAIN record'.attempts = 1 .. (Len(record.attempts) + 1)
    BY <1>5
  <2> QED
    BY <1>2, <2>1
<1>7. \A i \in DOMAIN record.attempts :
         /\ record.attempts[i] \in Attempts
         /\ record'.attempts[i].turn = record.attempts[i].turn
         /\ record'.attempts[i].retry = record.attempts[i].retry
         /\ record'.attempts[i].selected <=>
               record.attempts[i].selected /\ record.attempts[i].turn # record.turn
  <2> TAKE i \in DOMAIN record.attempts
  <2>1. record.attempts[i] \in Attempts
    BY <1>1, <1>2
  <2> QED
    BY <1>2, <1>5, <2>1 DEF Attempts
<1>8. \A turn : AttemptsAt(record', turn) =
         IF turn = record.turn
         THEN AttemptsAt(record, turn) \cup {Len(record.attempts) + 1}
         ELSE AttemptsAt(record, turn)
  BY <1>1, <1>3, <1>4, AttemptsAtAfter
<1> QED
  BY <1>1, <1>2, <1>3, <1>5, <1>6, <1>7, <1>8

LEMMA AttemptKeepsType ==
    ASSUME IInv, NEW queued \in BOOLEAN, Attempted(queued), Fields(record')
    PROVE  TypeOK'
<1>1. /\ record.status \in Statuses /\ record.state \in States
      /\ record.pausedFrom \in Active \cup {"none"} /\ record.turn \in 1 .. NumTurns
      /\ NumTurns \in Nat
  BY NumTurnsAssumption DEF IInv, TypeOK, Records, Turns
<1>2. record'.attempts \in Seq(Attempts)
  BY AttemptAdds
<1>3. record'.turn \in 1 .. NumTurns
  BY <1>1 DEF Attempted
<1>4. /\ record'.status \in Statuses /\ record'.state \in States
      /\ record'.pausedFrom \in Active \cup {"none"}
  BY <1>1 DEF Attempted, Statuses, States, Active
<1> QED
  BY <1>2, <1>3, <1>4 DEF TypeOK, Records, Turns, Fields

LEMMA AttemptKeepsFields ==
    ASSUME IInv, NEW queued \in BOOLEAN, Attempted(queued)
    PROVE  FieldsAgree'
  BY DEF IInv, FieldsAgree, Attempted, InProgress, Active

LEMMA AttemptKeepsLines ==
    ASSUME IInv, NEW queued \in BOOLEAN, Attempted(queued)
    PROVE  LinesInOrder'
<1>1. record.turn \in 1 .. NumTurns /\ NumTurns \in Nat
  BY NumTurnsAssumption DEF IInv, TypeOK, Records, Turns
<1>2. \A turn : AttemptsAt(record', turn) =
         IF turn = record.turn
         THEN AttemptsAt(record, turn) \cup {Len(record.attempts) + 1}
         ELSE AttemptsAt(record, turn)
  BY AttemptAdds
<1>3. \A turn \in 1 .. NumTurns :
         /\ turn < record.turn => AttemptsAt(record, turn) # {}
         /\ turn > record.turn => AttemptsAt(record, turn) = {}
  BY DEF IInv, LinesInOrder, Turns
<1>4. record'.turn = record.turn \/ record'.turn = record.turn + 1
  BY DEF Attempted
<1>5. AttemptsAt(record', record.turn) # {}
  BY <1>2
<1>6. \A turn \in 1 .. NumTurns :
         /\ turn < record'.turn => AttemptsAt(record', turn) # {}
         /\ turn > record'.turn => AttemptsAt(record', turn) = {}
  <2> TAKE turn \in 1 .. NumTurns
  <2>1. turn < record'.turn => turn < record.turn \/ turn = record.turn
    BY <1>1, <1>4
  <2>2. turn > record'.turn => turn > record.turn /\ turn # record.turn
    BY <1>1, <1>4
  <2> QED
    BY <1>2, <1>3, <1>5, <2>1, <2>2
<1>7. record'.state # "paused"
  BY DEF Attempted
<1>8. record'.state \in {"awaiting_retry_decision", "completed"} => record'.turn = record.turn
  BY DEF Attempted
<1>9. record'.status = "completed" => record'.turn = NumTurns
  BY DEF Attempted
<1> QED
  BY <1>5, <1>6, <1>7, <1>8, <1>9 DEF LinesInOrder, Turns

LEMMA AttemptKeepsSelection ==
    ASSUME IInv, NEW queued \in BOOLEAN, Attempted(queued)
    PROVE  LastAttemptSelected'
<1> DEFINE new == Len(record.attempts) + 1
<1>1. /\ DOMAIN record.attempts = 1 .. Len(record.attempts)
      /\ Len(record.attempts) \in Nat
      /\ DOMAIN record'.attempts = (DOMAIN record.attempts) \cup {new}
      /\ record'.attempts[new] = NewAttempt(record, queued)
      /\ \A i \in DOMAIN record.attempts :
            /\ record'.attempts[i].turn = record.attempts[i].turn
            /\ record'.attempts[i].selected <=>
                  record.attempts[i].selected /\ record.attempts[i].turn # record.turn
      /\ \A turn : AttemptsAt(record', turn) =
            IF turn = record.turn THEN AttemptsAt(record, turn) \cup {new}
            ELSE AttemptsAt(record, turn)
  BY AttemptAdds
<1>2. \A turn : AttemptsAt(record, turn) \subseteq 1 .. Len(record.attempts)
  BY AttemptsAreFinite DEF IInv, TypeOK
<1>3. \A i \in DOMAIN record.attempts : i \in Nat /\ i < new
  BY <1>1
<1>4. \A turn : \A j \in AttemptsAt(record, turn) : j < new /\ j <= new
  BY <1>1, <1>2
<1>5. new <= new /\ new \in Nat
  BY <1>1
<1>6. NewAttempt(record, queued).turn = record.turn /\ NewAttempt(record, queued).selected = TRUE
  BY DEF NewAttempt
<1>7. \A i \in DOMAIN record.attempts : ~(new <= i)
  BY <1>3, <1>5
<1> HIDE DEF new
<1>8. \A i \in DOMAIN record.attempts :
         record'.attempts[i].selected <=>
            \A j \in AttemptsAt(record', record'.attempts[i].turn) : j <= i
  <2> TAKE i \in DOMAIN record.attempts
  <2>1. record.attempts[i].selected <=>
           \A j \in AttemptsAt(record, record.attempts[i].turn) : j <= i
    BY DEF IInv, LastAttemptSelected
  <2>2. CASE record.attempts[i].turn = record.turn
    <3>1. new \in AttemptsAt(record', record'.attempts[i].turn)
      BY <1>1, <2>2
    <3> QED
      BY <1>1, <1>7, <2>2, <3>1
  <2>3. CASE record.attempts[i].turn # record.turn
    BY <1>1, <2>1, <2>3
  <2> QED
    BY <2>2, <2>3
<1>9. /\ record'.attempts[new].selected
      /\ \A j \in AttemptsAt(record', record'.attempts[new].turn) : j <= new
  BY <1>1, <1>4, <1>5, <1>6
<1> QED
  BY <1>1, <1>8, <1>9 DEF LastAttemptSelected

LEMMA AttemptKeepsRetries ==
    ASSUME IInv, NEW queued \in BOOLEAN, Attempted(queued)
    PROVE  AtMostTwoRetries'
<1> DEFINE new == Len(record.attempts) + 1
<1>1. /\ DOMAIN record.attempts = 1 .. Len(record.attempts)
      /\ Len(record.attempts) \in Nat
      /\ DOMAIN record'.attempts = (DOMAIN record.attempts) \cup {new}
      /\ record'.attempts[new] = NewAttempt(record, queued)
      /\ \A i \in DOMAIN record.attempts :
            /\ record'.attempts[i].turn = record.attempts[i].turn
            /\ record'.attempts[i].retry = record.attempts[i].retry
      /\ \A turn : AttemptsAt(record', turn) =
            IF turn = record.turn THEN AttemptsAt(record, turn) \cup {new}
            ELSE AttemptsAt(record, turn)
  BY AttemptAdds
<1>2. \A turn : /\ AttemptsAt(record, turn) \subseteq 1 .. Len(record.attempts)
                /\ IsFiniteSet(AttemptsAt(record, turn))
                /\ Cardinality(AttemptsAt(record, turn)) \in Nat
  BY AttemptsAreFinite DEF IInv, TypeOK
<1>3. \A turn : \A j \in AttemptsAt(record, turn) : j < new
  BY <1>1, <1>2
<1>4. \A i \in DOMAIN record.attempts : ~(new < i)
  BY <1>1
<1>5. ~(new < new) /\ \A turn : new \notin AttemptsAt(record, turn)
  BY <1>1, <1>3
<1>6. /\ NewAttempt(record, queued).turn = record.turn
      /\ NewAttempt(record, queued).retry = Cardinality(AttemptsAt(record, record.turn))
  BY DEF NewAttempt, RetryNumber
<1> HIDE DEF new
<1>7. \A i \in DOMAIN record.attempts :
         record'.attempts[i].retry =
            Cardinality({j \in AttemptsAt(record', record'.attempts[i].turn) : j < i})
  <2> TAKE i \in DOMAIN record.attempts
  <2>1. {j \in AttemptsAt(record', record'.attempts[i].turn) : j < i}
           = {j \in AttemptsAt(record, record.attempts[i].turn) : j < i}
    BY <1>1, <1>4
  <2>2. record.attempts[i].retry =
           Cardinality({j \in AttemptsAt(record, record.attempts[i].turn) : j < i})
    BY DEF IInv, AtMostTwoRetries
  <2> QED
    BY <1>1, <2>1, <2>2
<1>8. record'.attempts[new].retry =
         Cardinality({j \in AttemptsAt(record', record'.attempts[new].turn) : j < new})
  <2>1. {j \in AttemptsAt(record', record'.attempts[new].turn) : j < new}
           = AttemptsAt(record, record.turn)
    BY <1>1, <1>3, <1>5, <1>6
  <2> QED
    BY <1>1, <1>6, <2>1
<1>9. Cardinality(AttemptsAt(record', record.turn)) = RetryNumber(record) + 1
  BY <1>1, <1>2, <1>5, FS_AddElement DEF RetryNumber
<1>10. InProgress(record') => RetryNumber(record') <= MaxRetries
  <2> SUFFICES ASSUME InProgress(record')
               PROVE  RetryNumber(record') <= MaxRetries
    OBVIOUS
  <2>1. RetryNumber(record) \in Nat
    BY <1>2 DEF RetryNumber
  <2>2. CASE RetryNumber(record) < MaxRetries /\ record'.turn = record.turn
    <3>1. RetryNumber(record') = RetryNumber(record) + 1
      BY <1>9, <2>2 DEF RetryNumber
    <3> QED
      BY <2>1, <2>2, <3>1 DEF MaxRetries
  <2>3. CASE record.turn # NumTurns /\ record'.turn = record.turn + 1
    <3>1. record.turn \in 1 .. NumTurns /\ NumTurns \in Nat
      BY NumTurnsAssumption DEF IInv, TypeOK, Records, Turns
    <3>2. /\ record.turn + 1 \in Turns /\ record.turn + 1 > record.turn
          /\ record.turn + 1 # record.turn
      BY <2>3, <3>1 DEF Turns
    <3>3. AttemptsAt(record, record.turn + 1) = {}
      BY <3>2 DEF IInv, LinesInOrder
    <3>4. AttemptsAt(record', record'.turn) = {}
      BY <1>1, <2>3, <3>2, <3>3
    <3>5. RetryNumber(record') = 0
      BY <3>4, FS_EmptySet DEF RetryNumber
    <3> QED
      BY <3>5 DEF MaxRetries
  <2> QED
    BY <2>2, <2>3 DEF Attempted, InProgress
<1> QED
  BY <1>1, <1>7, <1>8, <1>10 DEF AtMostTwoRetries

-----------------------------------------------------------------------------
(***************************************************************************)
(* Pronunciation results change one status and nothing else.               *)
(***************************************************************************)
LEMMA PronunciationChanges ==
    ASSUME TypeOK, NEW i, NEW status, Evaluated(i, status)
    PROVE  /\ record'.status = record.status /\ record'.state = record.state
           /\ record'.pausedFrom = record.pausedFrom /\ record'.turn = record.turn
           /\ Fields(record')
           /\ record'.attempts \in Seq(Attempts)
           /\ Len(record'.attempts) = Len(record.attempts)
           /\ DOMAIN record'.attempts = DOMAIN record.attempts
           /\ \A j \in DOMAIN record.attempts :
                 /\ record'.attempts[j].turn = record.attempts[j].turn
                 /\ record'.attempts[j].retry = record.attempts[j].retry
                 /\ record'.attempts[j].selected = record.attempts[j].selected
           /\ \A turn : AttemptsAt(record', turn) = AttemptsAt(record, turn)
<1> DEFINE new == [record.attempts EXCEPT ![i].pronunciation = status]
<1>1. record \in Records /\ record.attempts \in Seq(Attempts)
  BY DEF TypeOK, Records
<1>2. record' = [status |-> record.status, state |-> record.state,
                 pausedFrom |-> record.pausedFrom, turn |-> record.turn, attempts |-> new]
  BY <1>1 DEF Evaluated, Records
<1>3. DOMAIN record.attempts = 1 .. Len(record.attempts) /\ Len(record.attempts) \in Nat
  BY <1>1
<1>4. i \in DOMAIN record.attempts /\ status \in PronunciationStatuses
  BY DEF Evaluated, PronunciationStatuses
<1>5. \A j \in DOMAIN record.attempts :
         /\ new[j] \in Attempts
         /\ new[j].turn = record.attempts[j].turn
         /\ new[j].retry = record.attempts[j].retry
         /\ new[j].selected = record.attempts[j].selected
  <2> TAKE j \in DOMAIN record.attempts
  <2>1. record.attempts[j] \in Attempts
    BY <1>1, <1>3
  <2>2. new[j] = IF j = i THEN [record.attempts[j] EXCEPT !.pronunciation = status]
                 ELSE record.attempts[j]
    OBVIOUS
  <2> HIDE DEF new
  <2> QED
    BY <1>4, <2>1, <2>2 DEF Attempts
<1>6. DOMAIN new = DOMAIN record.attempts
  OBVIOUS
<1>7. new \in [1 .. Len(record.attempts) -> Attempts]
  BY <1>3, <1>5
<1> HIDE DEF new
<1>8. new \in Seq(Attempts) /\ Len(new) = Len(record.attempts)
  BY <1>3, <1>7
<1>9. record'.attempts = new
  BY <1>2
<1>10. \A turn : AttemptsAt(record', turn) = AttemptsAt(record, turn)
  BY <1>5, <1>6, <1>9 DEF AttemptsAt
<1> QED
  BY <1>2, <1>5, <1>6, <1>8, <1>9, <1>10 DEF Fields

LEMMA PronunciationKeeps ==
    ASSUME IInv, NEW i, NEW status, Evaluated(i, status)
    PROVE  IInv'
<1>1. /\ record'.status = record.status /\ record'.state = record.state
      /\ record'.pausedFrom = record.pausedFrom /\ record'.turn = record.turn
      /\ Fields(record')
      /\ record'.attempts \in Seq(Attempts)
      /\ DOMAIN record'.attempts = DOMAIN record.attempts
      /\ \A j \in DOMAIN record.attempts :
            /\ record'.attempts[j].turn = record.attempts[j].turn
            /\ record'.attempts[j].retry = record.attempts[j].retry
            /\ record'.attempts[j].selected = record.attempts[j].selected
      /\ \A turn : AttemptsAt(record', turn) = AttemptsAt(record, turn)
  BY PronunciationChanges DEF IInv
<1>2. TypeOK'
  BY <1>1 DEF IInv, TypeOK, Records, Fields
<1>3. FieldsAgree'
  BY <1>1 DEF IInv, FieldsAgree, InProgress
<1>4. LinesInOrder'
  BY <1>1 DEF IInv, LinesInOrder
<1>5. LastAttemptSelected'
  BY <1>1 DEF IInv, LastAttemptSelected
<1>6. AtMostTwoRetries'
  <2>1. \A j \in DOMAIN record.attempts :
           record.attempts[j].retry =
              Cardinality({k \in AttemptsAt(record, record.attempts[j].turn) : k < j})
    BY DEF IInv, AtMostTwoRetries
  <2>2. \A j \in DOMAIN record'.attempts :
           record'.attempts[j].retry =
              Cardinality({k \in AttemptsAt(record', record'.attempts[j].turn) : k < j})
    <3> TAKE j \in DOMAIN record'.attempts
    <3>1. AttemptsAt(record', record'.attempts[j].turn)
             = AttemptsAt(record, record.attempts[j].turn)
      BY <1>1
    <3> QED
      BY <1>1, <2>1, <3>1
  <2>3. RetryNumber(record') = RetryNumber(record)
    BY <1>1 DEF RetryNumber
  <2> QED
    BY <1>1, <2>2, <2>3 DEF IInv, AtMostTwoRetries, InProgress
<1> QED
  BY <1>2, <1>3, <1>4, <1>5, <1>6 DEF IInv

-----------------------------------------------------------------------------
(***************************************************************************)
(* The invariant.                                                          *)
(***************************************************************************)
LEMMA InitIsSound == Init => IInv
<1> SUFFICES ASSUME Init PROVE IInv
  OBVIOUS
<1>1. /\ record.status = "in_progress" /\ record.state = "assistant_speaking"
      /\ record.pausedFrom = "none" /\ record.turn = 1 /\ record.attempts = <<>>
      /\ Fields(record)
  BY DEF Init, NewRecord, Fields
<1>2. \A turn : AttemptsAt(record, turn) = {}
  BY <1>1 DEF AttemptsAt
<1>3. 1 \in Turns /\ \A turn \in Turns : ~(turn < 1)
  BY NumTurnsAssumption DEF Turns
<1>4. <<>> \in Seq(Attempts) /\ DOMAIN record.attempts = {}
  BY <1>1
<1>5. TypeOK
  BY <1>1, <1>3, <1>4 DEF TypeOK, Records, Statuses, States, Active, Fields
<1>6. FieldsAgree
  BY <1>1 DEF FieldsAgree, InProgress, Active
<1>7. LinesInOrder
  BY <1>1, <1>2, <1>3 DEF LinesInOrder
<1>8. LastAttemptSelected
  BY <1>4 DEF LastAttemptSelected
<1>9. RetryNumber(record) = 0
  BY <1>2, FS_EmptySet DEF RetryNumber
<1>10. AtMostTwoRetries
  BY <1>4, <1>9 DEF AtMostTwoRetries, MaxRetries
<1> QED
  BY <1>5, <1>6, <1>7, <1>8, <1>10 DEF IInv

LEMMA StepKeeps == IInv /\ [Next]_vars => IInv'
<1> SUFFICES ASSUME IInv, [Next]_vars PROVE IInv'
  OBVIOUS
<1>1. ASSUME NEW control \in Controls, Control(control)
      PROVE  IInv'
  <2>1. Fields(record') /\ Moved
    BY <1>1, ControlMoves DEF IInv
  <2> QED
    BY <2>1, ControlKeepsType, ControlKeepsFields, ControlKeepsLines, ControlKeepsAttempts
       DEF IInv
<1>2. CASE Attempt
  <2>1. PICK queued \in BOOLEAN : Fields(record') /\ Attempted(queued)
    BY <1>2, AttemptMoves DEF IInv
  <2> QED
    BY <2>1, AttemptKeepsType, AttemptKeepsFields, AttemptKeepsLines,
       AttemptKeepsSelection, AttemptKeepsRetries DEF IInv
<1>3. CASE Pronunciation
  <2>1. PICK i : \E status : Evaluated(i, status)
    BY <1>3, PronunciationMoves DEF IInv
  <2>2. PICK status : Evaluated(i, status)
    BY <2>1
  <2> QED
    BY <2>2, PronunciationKeeps
<1>4. CASE UNCHANGED vars
  BY <1>4 DEF vars, IInv, TypeOK, FieldsAgree, LinesInOrder, LastAttemptSelected,
              AtMostTwoRetries, InProgress, AttemptsAt, RetryNumber
<1> QED
  BY <1>1, <1>2, <1>3, <1>4 DEF Next

LEMMA Invariant == Spec => []IInv
  BY InitIsSound, StepKeeps, PTL DEF Spec

-----------------------------------------------------------------------------
\* The record keeps its shape: the lines never run past the scenario and the
\* retry numbers never past the limit.
THEOREM RecordTypeCorrect == Spec => []TypeOK
<1>1. IInv => TypeOK
  BY DEF IInv
<1> QED
  BY <1>1, Invariant, PTL

\* Status, state and the paused state never disagree.
THEOREM FieldsNeverDisagree == Spec => []FieldsAgree
<1>1. IInv => FieldsAgree
  BY DEF IInv
<1> QED
  BY <1>1, Invariant, PTL

\* Lines are read in order, each before the next, all before the end.
THEOREM NoLineSkipped == Spec => []LinesInOrder
<1>1. IInv => LinesInOrder
  BY DEF IInv
<1> QED
  BY <1>1, Invariant, PTL

\* Of the attempts at a line exactly the last is selected.
THEOREM LastAttemptCounts == Spec => []LastAttemptSelected
<1>1. IInv => LastAttemptSelected
  BY DEF IInv
<1> QED
  BY <1>1, Invariant, PTL

\* No sequence of calls gets a third retry of a line.
THEOREM RetriesAreBounded == Spec => []AtMostTwoRetries
<1>1. IInv => AtMostTwoRetries
  BY DEF IInv
<1> QED
  BY <1>1, Invariant, PTL

\* An ended session only receives pronunciation results.
THEOREM EndedStaysEnded == Spec => EndIsFinal
<1>1. IInv /\ [Next]_vars =>
        [/\ record'.turn \in {record.turn, record.turn + 1}
         /\ ~InProgress(record) =>
               /\ [record' EXCEPT !.attempts = <<>>] = [record EXCEPT !.attempts = <<>>]
               /\ Len(record'.attempts) = Len(record.attempts)]_vars
  <2> SUFFICES ASSUME IInv, Next
               PROVE  /\ record'.turn \in {record.turn, record.turn + 1}
                      /\ ~InProgress(record) =>
                           /\ [record' EXCEPT !.attempts = <<>>]
                                 = [record EXCEPT !.attempts = <<>>]
                           /\ Len(record'.attempts) = Len(record.attempts)
    OBVIOUS
  <2>1. ASSUME NEW control \in Controls, Control(control)
        PROVE  InProgress(record) /\ record'.turn \in {record.turn, record.turn + 1}
    <3>1. Moved
      BY <2>1, ControlMoves DEF IInv
    <3> QED
      BY <3>1 DEF Moved, IInv, FieldsAgree, InProgress, Active
  <2>2. CASE Attempt
    BY <2>2, AttemptMoves DEF IInv, Attempted, InProgress
  <2>3. CASE Pronunciation
    <3>1. PICK i : \E status : Evaluated(i, status)
      BY <2>3, PronunciationMoves DEF IInv
    <3>2. PICK status : Evaluated(i, status)
      BY <3>1
    <3>3. /\ record'.status = record.status /\ record'.state = record.state
          /\ record'.pausedFrom = record.pausedFrom /\ record'.turn = record.turn
          /\ Fields(record')
          /\ Len(record'.attempts) = Len(record.attempts)
      BY <3>2, PronunciationChanges DEF IInv
    <3>4. Fields(record)
      BY DEF IInv, TypeOK, Records, Fields
    <3> QED
      BY <3>3, <3>4 DEF Fields
  <2> QED
    BY <2>1, <2>2, <2>3 DEF Next
<1> QED
  BY <1>1, Invariant, PTL DEF Spec, EndIsFinal

\* A pause is undone exactly by a resume.
THEOREM PausesLoseNothing == Spec => PauseLosesNothing
<1>1. IInv /\ [Next]_vars =>
        [record.state = "paused" /\ record'.state \in Active =>
            record' = [record EXCEPT !.state = record.pausedFrom, !.pausedFrom = "none"]]_vars
  <2> SUFFICES ASSUME IInv, Next, record.state = "paused", record'.state \in Active
               PROVE  record' = [record EXCEPT !.state = record.pausedFrom,
                                               !.pausedFrom = "none"]
    OBVIOUS
  <2>1. ASSUME NEW control \in Controls, Control(control)
        PROVE  record' = [record EXCEPT !.state = record.pausedFrom, !.pausedFrom = "none"]
    <3>1. Moved /\ Fields(record')
      BY <2>1, ControlMoves DEF IInv
    <3>2. Fields(record)
      BY DEF IInv, TypeOK, Records, Fields
    <3> QED
      BY <3>1, <3>2 DEF Moved, Fields, Active
  <2>2. CASE Attempt
    BY <2>2, AttemptMoves DEF IInv, Attempted
  <2>3. CASE Pronunciation
    <3>1. PICK i : \E status : Evaluated(i, status)
      BY <2>3, PronunciationMoves DEF IInv
    <3>2. PICK status : Evaluated(i, status)
      BY <3>1
    <3>3. record'.state = record.state
      BY <3>2, PronunciationChanges DEF IInv
    <3> QED
      BY <3>3 DEF Active
  <2> QED
    BY <2>1, <2>2, <2>3 DEF Next
<1> QED
  BY <1>1, Invariant, PTL DEF Spec, PauseLosesNothing

\* The attempts at the current line are the only ones that three for each line
\* before it do not account for.
AttemptsCounted ==
    /\ Len(record.attempts) <= 3 * (record.turn - 1) + RetryNumber(record)
    /\ RetryNumber(record) <= 3

\* Whatever the learner does, no session has more than three attempts for each
\* line it has come to.
THEOREM SessionIsFinite == Spec => []AttemptsBounded
<1>1. Init => AttemptsCounted
  <2> SUFFICES ASSUME Init
               PROVE  AttemptsCounted
    OBVIOUS
  <2>1. record.turn = 1 /\ record.attempts = <<>>
    BY DEF Init, NewRecord
  <2>2. AttemptsAt(record, record.turn) = {}
    BY <2>1 DEF AttemptsAt
  <2>3. RetryNumber(record) = 0
    BY <2>2, FS_EmptySet DEF RetryNumber
  <2> QED
    BY <2>1, <2>3 DEF AttemptsCounted
<1>2. IInv /\ IInv' /\ AttemptsCounted /\ [Next]_vars => AttemptsCounted'
  <2> SUFFICES ASSUME IInv, IInv', AttemptsCounted, [Next]_vars
               PROVE  AttemptsCounted'
    OBVIOUS
  <2>1. /\ record \in Records /\ record' \in Records
        /\ record.turn \in Int /\ record'.turn \in Int
    BY NumTurnsAssumption DEF IInv, TypeOK, Records, Turns
  <2>2. /\ Len(record.attempts) \in Nat /\ Len(record'.attempts) \in Nat
        /\ RetryNumber(record) \in Nat /\ RetryNumber(record') \in Nat
    BY <2>1, AttemptsAreFinite DEF RetryNumber
  <2>3. ASSUME record'.turn = record.turn, Len(record'.attempts) = Len(record.attempts),
               AttemptsAt(record', record.turn) = AttemptsAt(record, record.turn)
        PROVE  AttemptsCounted'
    BY <2>3 DEF AttemptsCounted, RetryNumber
  <2>4. InProgress(record) => RetryNumber(record) <= 2
    BY DEF IInv, AtMostTwoRetries, MaxRetries
  <2>5. ASSUME record'.turn = record.turn + 1
        PROVE  RetryNumber(record') = 0
    <3>1. AttemptsAt(record', record'.turn) = AttemptsAt(record, record.turn + 1)
      <4>1. ASSUME NEW control \in Controls, Control(control)
            PROVE  record'.attempts = record.attempts
        BY <4>1, ControlMoves DEF IInv, Moved
      <4>2. ASSUME NEW queued \in BOOLEAN, Attempted(queued)
            PROVE  AttemptsAt(record', record.turn + 1) = AttemptsAt(record, record.turn + 1)
        <5>1. record.turn + 1 # record.turn
          BY <2>1
        <5> QED
          BY <4>2, <5>1, AttemptAdds
      <4>3. CASE Pronunciation \/ UNCHANGED vars
        <5>1. record'.turn = record.turn
          BY <4>3, PronunciationMoves, PronunciationChanges DEF IInv, vars
        <5> QED
          BY <2>1, <2>5, <5>1
      <4> QED
        BY <2>5, <4>1, <4>2, <4>3, AttemptMoves, SameAttempts DEF IInv, Next
    <3>2. record.turn + 1 \in Turns /\ record.turn + 1 > record.turn
      BY <2>1, <2>5 DEF Records
    <3>3. AttemptsAt(record, record.turn + 1) = {}
      BY <3>2 DEF IInv, LinesInOrder
    <3> QED
      BY <3>1, <3>3, FS_EmptySet DEF RetryNumber
  <2>6. ASSUME NEW control \in Controls, Control(control)
        PROVE  AttemptsCounted'
    <3>1. Moved
      BY <2>6, ControlMoves DEF IInv
    <3>2. record'.attempts = record.attempts
      BY <3>1 DEF Moved
    <3>3. CASE record'.turn = record.turn
      BY <2>3, <3>2, <3>3, SameAttempts
    <3>4. CASE record'.turn = record.turn + 1
      <4>1. InProgress(record)
        BY <2>1, <3>1, <3>4 DEF Moved, IInv, FieldsAgree, Active
      <4> QED
        BY <2>1, <2>2, <2>4, <2>5, <3>2, <3>4, <4>1 DEF AttemptsCounted
    <3> QED
      BY <3>1, <3>3, <3>4 DEF Moved
  <2>7. ASSUME NEW queued \in BOOLEAN, Attempted(queued)
        PROVE  AttemptsCounted'
    <3>1. InProgress(record) /\ Len(record'.attempts) = Len(record.attempts) + 1
      <4>1. RetryNumber(record) \in 0 .. MaxRetries /\ record'.attempts = AddAttempt(record, queued)
        BY <2>7, AttemptAdds DEF Attempted
      <4> QED
        BY <2>1, <2>7, <4>1, AddedAttempt DEF Attempted, InProgress
    <3>2. CASE record'.turn = record.turn
      <4>1. RetryNumber(record') = RetryNumber(record) + 1
        <5>1. AttemptsAt(record', record.turn) =
                 AttemptsAt(record, record.turn) \cup {Len(record.attempts) + 1}
          BY <2>7, AttemptAdds
        <5>2. /\ IsFiniteSet(AttemptsAt(record, record.turn))
              /\ AttemptsAt(record, record.turn) \subseteq 1 .. Len(record.attempts)
          BY <2>1, AttemptsAreFinite
        <5>3. Len(record.attempts) + 1 \notin 1 .. Len(record.attempts)
          BY <2>2
        <5>4. Len(record.attempts) + 1 \notin AttemptsAt(record, record.turn)
          BY <5>2, <5>3
        <5>5. Cardinality(AttemptsAt(record', record.turn))
                 = Cardinality(AttemptsAt(record, record.turn)) + 1
          BY <5>1, <5>2, <5>4, FS_AddElement
        <5> QED
          BY <3>2, <5>5 DEF RetryNumber
      <4>2. RetryNumber(record) <= 2
        BY <2>4, <3>1
      <4>3. Len(record.attempts) <= 3 * (record.turn - 1) + RetryNumber(record)
        BY DEF AttemptsCounted
      <4>4. Len(record'.attempts) <= 3 * (record'.turn - 1) + RetryNumber(record')
        BY <2>1, <2>2, <3>1, <3>2, <4>1, <4>3
      <4>5. RetryNumber(record') <= 3
        BY <2>2, <4>1, <4>2
      <4> QED
        BY <4>4, <4>5 DEF AttemptsCounted
    <3>3. CASE record'.turn = record.turn + 1
      BY <2>1, <2>2, <2>4, <2>5, <3>1, <3>3 DEF AttemptsCounted
    <3> QED
      BY <2>7, <3>2, <3>3 DEF Attempted
  <2>8. CASE Pronunciation
    <3>1. PICK i : \E status : Evaluated(i, status)
      BY <2>8, PronunciationMoves DEF IInv
    <3>2. PICK status : Evaluated(i, status)
      BY <3>1
    <3> QED
      BY <2>3, <3>2, PronunciationChanges DEF IInv
  <2>9. CASE UNCHANGED vars
    BY <2>3, <2>9 DEF vars
  <2> QED
    BY <2>6, <2>7, <2>8, <2>9, AttemptMoves DEF IInv, Next
<1>3. IInv /\ AttemptsCounted => AttemptsBounded
  <2> SUFFICES ASSUME IInv, AttemptsCounted
               PROVE  AttemptsBounded
    OBVIOUS
  <2>1. /\ record.turn \in Int /\ Len(record.attempts) \in Nat /\ RetryNumber(record) \in Nat
    BY NumTurnsAssumption, AttemptsAreFinite DEF IInv, TypeOK, Records, Turns, RetryNumber
  <2> QED
    BY <2>1 DEF AttemptsCounted, AttemptsBounded, MaxRetries
<1> QED
  BY <1>1, <1>2, <1>3, Invariant, PTL DEF Spec

\* The record tells what happened.
THEOREM RecordIsSound == Spec => []RecordSound
<1> QED
  BY FieldsNeverDisagree, NoLineSkipped, LastAttemptCounts, RetriesAreBounded, SessionIsFinite, PTL
  DEF RecordSound

\* No call undoes what calls before it did.
THEOREM StepsAreSound == Spec => StepsSound
<1> QED
  BY EndedStaysEnded, PausesLoseNothing, PTL DEF StepsSound

-----------------------------------------------------------------------------
(***************************************************************************)
(* The worker: the inductive invariant.                                    *)
(***************************************************************************)
Ended == {"completed", "stopped"}

\* A reply that says that the session has ended is right, whenever it is read.
Truthful(reply) == reply.ok /\ reply.view.state \in Ended => record.state = reply.view.state

RepliesAreTrue ==
    \A c \in Callers : Truthful(calls[c].reply) /\ Truthful(calls[c].stored)

\* Only turns are attempts, and only their replies are kept for another try.
Roles ==
    \A c \in Callers \ {Voice} : calls[c].call # "attempt" /\ ~calls[c].stored.ok

\* The reading is counted while its call is under way, from the moment it is
\* stored, and the last attempt is the one that it made.
OneReading ==
    /\ calls[Voice].stored.ok => calls[Voice].phase \in {"sent", "served"}
    /\ counted = IF calls[Voice].stored.ok THEN 1 ELSE 0
    /\ calls[Voice].stored.ok =>
          record.attempts[Len(record.attempts)].turn = calls[Voice].turn

RuntimeIInv ==
    /\ IInv
    /\ RuntimeTypeOK
    /\ Roles
    /\ RepliesAreTrue
    /\ OneReading
    /\ ClosedOnlyAtEnd

-----------------------------------------------------------------------------
(***************************************************************************)
(* Replies and tasks.                                                      *)
(***************************************************************************)
LEMMA ViewType ==
    ASSUME NEW r \in Records
    PROVE  ViewOf(r) \in Views /\ ViewOf(r).state = r.state
<1>1. r.state \in States /\ r.turn \in 0 .. NumTurns /\ 0 \in 0 .. NumTurns
  BY NumTurnsAssumption DEF Records, Turns
<1> QED
  BY <1>1 DEF ViewOf, Views

LEMMA ReplyType ==
    ASSUME NEW r \in Records, NEW call
    PROVE  /\ Reply(r, call) \in Replies
           /\ Reply(r, call).ok
           /\ Reply(r, call).view.state = r.state
           /\ r.state = "completed" => Reply(r, call).spoken = "closing"
<1>1. SpokenAfter(r, call) \in Spoken
  BY DEF SpokenAfter, Spoken
<1>2. r.state = "completed" => SpokenAfter(r, call) = "closing"
  BY DEF SpokenAfter
<1>3. Reply(r, call) = [ok |-> TRUE, view |-> ViewOf(r), spoken |-> SpokenAfter(r, call)]
  BY DEF Reply
<1> QED
  BY <1>1, <1>2, <1>3, ViewType DEF Replies

LEMMA FailureType == Failure \in Replies /\ ~Failure.ok
<1>1. NoView \in Views
  BY NumTurnsAssumption DEF NoView, Views, States
<1> QED
  BY <1>1 DEF Failure, Replies, Spoken

LEMMA IdleType ==
    /\ Idle \in Tasks
    /\ Idle.phase = "idle" /\ Idle.call = "none"
    /\ ~Idle.reply.ok /\ ~Idle.stored.ok
<1>1. 0 \in 0 .. NumTurns /\ 0 \in 0 .. MaxTries
  BY NumTurnsAssumption DEF MaxTries
<1> QED
  BY <1>1, FailureType DEF Idle, Tasks

LEMMA SentType ==
    ASSUME NEW control \in Controls
    PROVE  /\ Sent(control) \in Tasks
           /\ Sent(control).phase = "sent" /\ Sent(control).call = control
           /\ ~Sent(control).reply.ok /\ ~Sent(control).stored.ok
<1>1. 1 \in 0 .. MaxTries
  BY DEF MaxTries
<1>2. Sent(control) = [Idle EXCEPT !.phase = "sent", !.call = control, !.tries = 1]
  BY DEF Sent
<1> QED
  BY <1>1, <1>2, IdleType DEF Tasks

-----------------------------------------------------------------------------
(***************************************************************************)
(* The worker's steps are calls of the session.                            *)
(***************************************************************************)

\* Only Serve has an effect on the session.
LEMMA ServeMoves ==
    ASSUME RuntimeTypeOK, Roles, NEW c \in Callers, Serve(c)
    PROVE  \/ /\ record' = record
           \/ /\ c = Voice /\ calls[c].call = "attempt" /\ Attempt
           \/ /\ calls[c].call \in Controls /\ Control(calls[c].call)
<1>1. calls[c].audio \in BOOLEAN
  BY DEF RuntimeTypeOK, Tasks
<1>2. c # Voice => calls[c].call # "attempt"
  BY DEF Roles
<1>3. \/ record' = record
      \/ /\ calls[c].call \in Controls /\ MayControl(record, calls[c].call)
         /\ record' = AfterControl(record, calls[c].call)
      \/ /\ calls[c].call = "attempt" /\ MayStore(calls[c])
         /\ \E unclear \in BOOLEAN : record' = AfterAttempt(record, unclear, calls[c].audio)
  BY DEF Serve
<1> QED
  BY <1>1, <1>2, <1>3 DEF Control, Attempt, MayStore

LEMMA OthersLeaveRecord ==
    ASSUME [RuntimeNext]_runtimeVars, ~\E c \in Callers : Serve(c)
    PROVE  record' = record
BY DEF RuntimeNext, runtimeVars, StartSpeaking, StopSpeaking, HearNothing, HearLine, HearDecision,
       TurnCompleted, Uploaded, SayReply, SpeechEnds, Interrupted, Resumed, Rejoin, Service, Answered,
       Fails, LosesAnswer, Broken, Handle, Command, Replay, Apply, Silence, Say, Played

LEMMA StepsOfSession ==
    ASSUME RuntimeTypeOK, Roles, [RuntimeNext]_runtimeVars
    PROVE  [Next]_vars
<1>1. ASSUME NEW c \in Callers, Serve(c)
      PROVE  [Next]_vars
    BY <1>1, ServeMoves DEF Next, vars
<1> QED
  BY <1>1, OthersLeaveRecord DEF vars

LEMMA EndedStays ==
    ASSUME IInv, [Next]_vars, record.state \in Ended
    PROVE  record'.state = record.state
<1>0. ~InProgress(record)
  BY DEF IInv, FieldsAgree, Ended, Active
<1>1. ASSUME NEW control \in Controls, Control(control)
      PROVE  FALSE
  BY <1>0, <1>1 DEF Control, MayControl, MayPause, MayContinue, Ended
<1>2. ~Attempt
  BY <1>0 DEF Attempt, MaySpeak
<1>3. CASE Pronunciation
  <2>1. PICK i : \E status : Evaluated(i, status)
    BY <1>3, PronunciationMoves DEF IInv
  <2>2. PICK status : Evaluated(i, status)
    BY <2>1
  <2> QED
    BY <2>2, PronunciationChanges DEF IInv
<1>4. CASE UNCHANGED vars
  BY <1>4 DEF vars
<1> QED
  BY <1>1, <1>2, <1>3, <1>4 DEF Next

-----------------------------------------------------------------------------
(***************************************************************************)
(* What a step makes of a task.                                            *)
(***************************************************************************)

\* A task t that caller c may have next: it has its shape and its role, and its
\* replies are those it had, or are of the session as it now is.
Follows(c, t) ==
    /\ t \in Tasks
    /\ c # Voice => t.call # "attempt" /\ ~t.stored.ok
    /\ t.reply.ok => \/ t.reply \in {calls[c].reply, calls[c].stored}
                     \/ t.reply.view.state = record'.state
    /\ t.stored.ok => \/ t.stored = calls[c].stored
                      \/ t.stored.view.state = record'.state

LEMMA TaskType ==
    ASSUME RuntimeTypeOK, NEW c \in Callers
    PROVE  /\ calls[c] \in Tasks /\ calls[c].reply \in Replies /\ calls[c].stored \in Replies
           /\ calls[c].tries \in 0 .. MaxTries /\ calls[c].turn \in 0 .. NumTurns
           /\ calls[c].audio \in BOOLEAN /\ DOMAIN calls = Callers
BY DEF RuntimeTypeOK, Tasks

LEMMA SameFollows ==
    ASSUME RuntimeTypeOK, Roles, NEW c \in Callers
    PROVE  Follows(c, calls[c])
BY TaskType DEF Follows, Roles

LEMMA IdleFollows ==
    ASSUME NEW c \in Callers
    PROVE  Follows(c, Idle)
BY IdleType DEF Follows

LEMMA SentFollows ==
    ASSUME NEW c \in Callers, NEW control \in Controls
    PROVE  Follows(c, Sent(control))
<1>1. control # "attempt"
  BY DEF Controls
<1> QED
  BY <1>1, SentType DEF Follows

LEMMA OneTaskChanges ==
    ASSUME RuntimeTypeOK, Roles, NEW d \in Callers, NEW t, Follows(d, t),
           calls' = [calls EXCEPT ![d] = t]
    PROVE  /\ \A c \in Callers : Follows(c, calls'[c])
           /\ calls' \in [Callers -> Tasks]
<1>1. \A c \in Callers : Follows(c, calls'[c])
  <2> TAKE c \in Callers
  <2>1. calls'[c] = IF c = d THEN t ELSE calls[c]
    BY DEF RuntimeTypeOK
  <2> QED
    BY <2>1, SameFollows
<1>2. t \in Tasks
  BY DEF Follows
<1> QED
  BY <1>1, <1>2 DEF RuntimeTypeOK

\* The client tries again, or the task goes on without an answer.
LEMMA FollowFollows ==
    ASSUME RuntimeTypeOK, Roles, NEW c \in Callers, NEW spoken \in Spoken, Follow(c, spoken)
    PROVE  \E t : Follows(c, t) /\ calls' = [calls EXCEPT ![c] = t]
<1>0. calls[c].call \in Controls \cup {"none", "attempt", "replay"}
  BY DEF RuntimeTypeOK, Tasks
<1>1. CASE c \in Prompts
  <2>1. calls' = [calls EXCEPT ![c] = Idle]
    BY <1>1 DEF Follow
  <2> QED
    BY <2>1, IdleFollows
<1>2. CASE c \notin Prompts /\ c = Voice
  <2> DEFINE t == [Idle EXCEPT !.phase = "speak"]
  <2>1. calls' = [calls EXCEPT ![c] = t]
    BY <1>2 DEF Follow
  <2>2. Follows(c, t)
    BY <1>2, IdleType DEF Follows, Tasks
  <2> QED
    BY <2>1, <2>2
<1>3. CASE c \notin Prompts /\ c # Voice
  <2> DEFINE t == [Idle EXCEPT !.phase = "speak", !.call = calls[c].call, !.reply.spoken = spoken]
  <2>1. calls' = [calls EXCEPT ![c] = t]
    BY <1>3 DEF Follow
  <2>2. t \in Tasks /\ t.call = calls[c].call /\ ~t.reply.ok /\ ~t.stored.ok
    <3>1. [Idle.reply EXCEPT !.spoken = spoken] \in Replies /\ ~[Idle.reply EXCEPT !.spoken = spoken].ok
      BY IdleType DEF Tasks, Replies
    <3> QED
      BY <1>0, <3>1, IdleType DEF Tasks
  <2>3. Follows(c, t)
    BY <1>3, <2>2 DEF Follows, Roles
  <2> QED
    BY <2>1, <2>3
<1> QED
  BY <1>1, <1>2, <1>3

LEMMA HandleFollows ==
    ASSUME RuntimeTypeOK, Roles, NEW c \in Callers, NEW reply \in Replies, Handle(c, reply)
    PROVE  \E t : Follows(c, t) /\ calls' = [calls EXCEPT ![c] = t]
BY FollowFollows DEF Handle, Replies

LEMMA BrokenFollows ==
    ASSUME RuntimeTypeOK, Roles, NEW c \in Callers, Broken(c)
    PROVE  \E t : Follows(c, t) /\ calls' = [calls EXCEPT ![c] = t]
<1>1. CASE Handle(c, Failure)
  BY <1>1, HandleFollows, FailureType
<1>2. CASE /\ calls[c].tries < MaxTries
           /\ calls' = [calls EXCEPT ![c].phase = "sent", ![c].tries = @ + 1, ![c].reply = Failure]
  <2> DEFINE t == [calls[c] EXCEPT !.phase = "sent", !.tries = @ + 1, !.reply = Failure]
  <2>1. calls' = [calls EXCEPT ![c] = t]
    BY <1>2, TaskType DEF RuntimeTypeOK
  <2>2. calls[c].tries + 1 \in 0 .. MaxTries
    BY <1>2, TaskType DEF MaxTries
  <2>3. t \in Tasks /\ t.call = calls[c].call /\ t.reply = Failure /\ t.stored = calls[c].stored
    BY <2>2, TaskType, FailureType DEF Tasks
  <2>4. Follows(c, t)
    BY <2>3, FailureType DEF Follows, Roles
  <2> QED
    BY <2>1, <2>4
<1> QED
  BY <1>1, <1>2 DEF Broken

LEMMA ServeFollows ==
    ASSUME IInv, IInv', RuntimeTypeOK, Roles, NEW c \in Callers, Serve(c)
    PROVE  \E t : Follows(c, t) /\ calls' = [calls EXCEPT ![c] = t]
<1>0. record \in Records /\ record' \in Records
  BY DEF IInv, TypeOK
<1>1. ASSUME NEW reply \in Replies,
             reply.ok => reply = calls[c].stored \/ reply.view.state = record'.state,
             calls' = [calls EXCEPT ![c].phase = "served", ![c].reply = reply]
      PROVE  \E t : Follows(c, t) /\ calls' = [calls EXCEPT ![c] = t]
  <2> DEFINE t == [calls[c] EXCEPT !.phase = "served", !.reply = reply]
  <2>1. calls' = [calls EXCEPT ![c] = t]
    BY <1>1, TaskType DEF RuntimeTypeOK
  <2>2. t \in Tasks /\ t.call = calls[c].call /\ t.reply = reply /\ t.stored = calls[c].stored
    BY TaskType DEF Tasks
  <2>3. Follows(c, t)
    BY <1>1, <2>2 DEF Follows, Roles
  <2> QED
    BY <2>1, <2>3
<1>2. CASE /\ calls[c].call \in Controls /\ MayControl(record, calls[c].call)
           /\ calls' = [calls EXCEPT ![c].phase = "served", ![c].reply = Reply(record', calls[c].call)]
  BY <1>0, <1>1, <1>2, ReplyType
<1>3. CASE /\ record' = record
           /\ calls' = [calls EXCEPT ![c].phase = "served", ![c].reply = Reply(record, calls[c].call)]
  BY <1>0, <1>1, <1>3, ReplyType
<1>4. CASE calls' = [calls EXCEPT ![c].phase = "served", ![c].reply = calls[c].stored]
  BY <1>1, <1>4, TaskType
<1>5. CASE calls' = [calls EXCEPT ![c].phase = "served", ![c].reply = Failure]
  BY <1>1, <1>5, FailureType
<1>6. CASE /\ calls[c].call = "attempt"
           /\ calls' = [calls EXCEPT ![c].phase = "served", ![c].reply = Reply(record', "attempt"),
                                     ![c].stored = Reply(record', "attempt")]
  <2> DEFINE reply == Reply(record', "attempt")
             t == [calls[c] EXCEPT !.phase = "served", !.reply = reply, !.stored = reply]
  <2>0. reply \in Replies /\ reply.view.state = record'.state
    BY <1>0, ReplyType
  <2> HIDE DEF reply
  <2>1. calls' = [calls EXCEPT ![c] = t]
    BY <1>6, TaskType DEF RuntimeTypeOK, reply
  <2>2. t \in Tasks /\ t.call = calls[c].call /\ t.reply = reply /\ t.stored = reply
    BY <2>0, TaskType DEF Tasks
  <2>3. c = Voice
    BY <1>6 DEF Roles
  <2>4. Follows(c, t)
    BY <2>0, <2>2, <2>3 DEF Follows
  <2> QED
    BY <2>1, <2>4
<1> QED
  BY <1>2, <1>3, <1>4, <1>5, <1>6 DEF Serve

\* The task that the end of a speech starts.
LEMMA ListeningFollows ==
    ASSUME RuntimeTypeOK, NEW tasks \in [Callers -> Tasks], \A c \in Callers : Follows(c, tasks[c]),
           Listening(tasks)
    PROVE  /\ \A c \in Callers : Follows(c, calls'[c])
           /\ calls' \in [Callers -> Tasks]
<1>1. CASE calls' = tasks
  BY <1>1
<1>2. ASSUME NEW p \in Prompts, calls' = [tasks EXCEPT ![p] = Sent("prompt_ready")]
      PROVE  /\ \A c \in Callers : Follows(c, calls'[c])
             /\ calls' \in [Callers -> Tasks]
  <2>1. p \in Callers /\ "prompt_ready" \in Controls
    BY DEF Callers, Controls
  <2>2. Sent("prompt_ready") \in Tasks
    BY <2>1, SentType
  <2>3. \A c \in Callers : calls'[c] = IF c = p THEN Sent("prompt_ready") ELSE tasks[c]
    BY <1>2
  <2>4. \A c \in Callers : Follows(c, calls'[c])
    BY <2>1, <2>3, SentFollows
  <2> QED
    BY <1>2, <2>2, <2>4
<1> QED
  BY <1>1, <1>2 DEF Listening

LEMMA TasksFollow ==
    ASSUME IInv, IInv', RuntimeTypeOK, Roles, [RuntimeNext]_runtimeVars
    PROVE  /\ \A c \in Callers : Follows(c, calls'[c])
           /\ calls' \in [Callers -> Tasks]
<1> DEFINE Fine == /\ \A c \in Callers : Follows(c, calls'[c])
                   /\ calls' \in [Callers -> Tasks]
<1>0. Voice \in Callers /\ Commands \subseteq Callers /\ Prompts \subseteq Callers
  BY DEF Callers
<1>1. ASSUME calls' = calls
      PROVE  Fine
  BY <1>1, SameFollows DEF RuntimeTypeOK
<1>2. ASSUME NEW c \in Callers, \E t : Follows(c, t) /\ calls' = [calls EXCEPT ![c] = t]
      PROVE  Fine
  BY <1>2, OneTaskChanges
<1>3. \A c \in Callers : Follows(c, calls[c])
  BY SameFollows
<1>4. calls \in [Callers -> Tasks]
  BY DEF RuntimeTypeOK
<1>5. ASSUME NEW t, Follows(Voice, t), TurnCompleted([calls EXCEPT ![Voice] = t])
       PROVE  Fine
  <2> DEFINE tasks == [calls EXCEPT ![Voice] = t]
  <2>1. /\ tasks \in [Callers -> Tasks]
        /\ \A d \in Callers : Follows(d, tasks[d])
    <3>1. tasks \in [Callers -> Tasks]
      BY <1>0, <1>4, <1>5 DEF Follows
    <3>2. \A d \in Callers : tasks[d] = IF d = Voice THEN t ELSE calls[d]
      BY <1>4
    <3> HIDE DEF tasks
    <3> QED
      BY <1>3, <1>5, <3>1, <3>2
  <2>2. TurnCompleted(tasks)
    BY <1>5
  <2> HIDE DEF tasks
  <2>3. calls' = tasks \/ Listening(tasks)
    BY <2>2 DEF TurnCompleted
  <2> QED
    BY <2>1, <2>3, ListeningFollows
<1>6. CASE StartSpeaking \/ StopSpeaking \/ Resumed \/ UNCHANGED runtimeVars
  BY <1>1, <1>6 DEF StartSpeaking, StopSpeaking, Resumed, runtimeVars
<1>7. CASE HearNothing
  <2>1. calls' = calls \/ Listening(calls)
    BY <1>7 DEF HearNothing, TurnCompleted
  <2> QED
    BY <1>1, <1>3, <1>4, <2>1, ListeningFollows
<1>8. CASE HearLine
  <2>1. TurnCompleted([calls EXCEPT ![Voice] = Reading])
    BY <1>8 DEF HearLine
  <2>2. view.turn \in 0 .. NumTurns /\ recording \in BOOLEAN
    BY DEF RuntimeTypeOK, Views
  <2>3. Reading \in Tasks /\ ~Reading.reply.ok /\ ~Reading.stored.ok
    BY <2>2, IdleType DEF Reading, Tasks
  <2>4. Follows(Voice, Reading)
    BY <2>3 DEF Follows
  <2> QED
    BY <1>5, <2>1, <2>4
<1>9. ASSUME NEW command \in {"retry", "continue"}, HearDecision(command)
      PROVE  Fine
  <2>1. command \in Controls
    BY DEF Controls
  <2> QED
    BY <1>0, <1>5, <1>9, <2>1, SentFollows DEF HearDecision
<1>10. CASE Uploaded
  <2>0. 1 \in 0 .. MaxTries
    BY DEF MaxTries
  <2>1. PICK heard \in BOOLEAN :
           calls' = [calls EXCEPT ![Voice] =
                        [calls[Voice] EXCEPT !.phase = "sent", !.tries = 1, !.audio = heard]]
    <3>1. calls[Voice] = [calls[Voice] EXCEPT !.audio = calls[Voice].audio]
      BY <1>0, TaskType DEF Tasks
    <3>2. CASE calls' = [calls EXCEPT ![Voice].phase = "sent", ![Voice].tries = 1]
      <4>1. calls' = [calls EXCEPT ![Voice] =
                        [calls[Voice] EXCEPT !.phase = "sent", !.tries = 1,
                                             !.audio = calls[Voice].audio]]
        BY <1>0, <3>2, TaskType DEF RuntimeTypeOK, Tasks
      <4> QED
        BY <1>0, <4>1, TaskType
    <3>3. CASE calls' = [calls EXCEPT ![Voice].phase = "sent", ![Voice].tries = 1,
                                      ![Voice].audio = FALSE]
      BY <1>0, <3>3, TaskType DEF RuntimeTypeOK
    <3> QED
      BY <1>10, <3>2, <3>3 DEF Uploaded
  <2> DEFINE t == [calls[Voice] EXCEPT !.phase = "sent", !.tries = 1, !.audio = heard]
  <2>2. t \in Tasks /\ t.reply = calls[Voice].reply /\ t.stored = calls[Voice].stored
    BY <1>0, <2>0, TaskType DEF Tasks
  <2>3. Follows(Voice, t)
    BY <2>2 DEF Follows
  <2> QED
    BY <1>0, <1>2, <2>1, <2>3
<1>11. CASE SayReply
  BY <1>0, <1>2, <1>11, IdleFollows DEF SayReply
<1>12. CASE SpeechEnds \/ Interrupted
  BY <1>3, <1>4, <1>12, ListeningFollows DEF SpeechEnds, Interrupted
<1>13. CASE Rejoin
  <2>1. calls' = [c \in Callers |-> Idle]
    BY <1>13 DEF Rejoin
  <2> QED
    BY <2>1, IdleFollows, IdleType
<1>14. ASSUME NEW c \in Callers, Serve(c)
       PROVE  Fine
  BY <1>2, <1>14, ServeFollows
<1>15. ASSUME NEW c \in Callers, Answered(c)
       PROVE  Fine
  BY <1>2, <1>15, HandleFollows, TaskType DEF Answered
<1>16. ASSUME NEW c \in Callers, Fails(c) \/ LosesAnswer(c)
       PROVE  Fine
  BY <1>2, <1>16, BrokenFollows DEF Fails, LosesAnswer
<1>17. ASSUME NEW c \in Commands, NEW command \in Controls \ {"prompt_ready"}, Command(c, command)
       PROVE  Fine
  BY <1>0, <1>2, <1>17, SentFollows DEF Command
<1>18. ASSUME NEW c \in Commands, Replay(c)
       PROVE  Fine
  <2> DEFINE said == IF Terminal \/ Paused THEN "none" ELSE "text"
             t == [Idle EXCEPT !.phase = "speak", !.call = "replay", !.reply.spoken = said]
  <2>1. calls' = [calls EXCEPT ![c] = t]
    BY <1>18 DEF Replay
  <2>2. said \in Spoken
    BY DEF Spoken
  <2> HIDE DEF said
  <2>3. [Idle.reply EXCEPT !.spoken = said] \in Replies /\ ~[Idle.reply EXCEPT !.spoken = said].ok
    BY <2>2, IdleType DEF Tasks, Replies
  <2>4. t \in Tasks /\ ~t.reply.ok /\ ~t.stored.ok /\ t.call = "replay"
    BY <2>3, IdleType DEF Tasks
  <2>5. Follows(c, t)
    BY <2>4 DEF Follows
  <2> QED
    BY <1>0, <1>2, <2>1, <2>5
<1>19. ASSUME NEW c \in Commands, Silence(c)
       PROVE  Fine
  <2> DEFINE t == [calls[c] EXCEPT !.phase = "say"]
             tasks == [calls EXCEPT ![c] = t]
  <2>1. t \in Tasks /\ t.call = calls[c].call /\ t.reply = calls[c].reply /\ t.stored = calls[c].stored
    BY <1>0, TaskType DEF Tasks
  <2>2. Follows(c, t)
    BY <1>0, <2>1, SameFollows DEF Follows
  <2> HIDE DEF t
  <2>3. /\ tasks \in [Callers -> Tasks]
        /\ \A d \in Callers : Follows(d, tasks[d])
    <3>1. tasks \in [Callers -> Tasks]
      BY <2>1 DEF RuntimeTypeOK
    <3>2. \A d \in Callers : tasks[d] = IF d = c THEN t ELSE calls[d]
      BY DEF RuntimeTypeOK
    <3> HIDE DEF tasks
    <3> QED
      BY <2>2, <3>1, <3>2, SameFollows
  <2>4. tasks = [calls EXCEPT ![c].phase = "say"]
    BY <1>0, TaskType DEF RuntimeTypeOK, t
  <2> HIDE DEF tasks
  <2>5. calls' = tasks \/ Listening(tasks)
    BY <1>19, <2>4 DEF Silence
  <2> QED
    BY <2>3, <2>5, ListeningFollows
<1>20. ASSUME NEW c \in Commands, Say(c)
       PROVE  Fine
  <2> DEFINE t == [Idle EXCEPT !.phase = "playing"]
  <2>1. calls' = [calls EXCEPT ![c] = t] \/ calls' = [calls EXCEPT ![c] = Idle]
    BY <1>20 DEF Say
  <2>2. t \in Tasks /\ ~t.reply.ok /\ ~t.stored.ok /\ t.call = "none"
    BY IdleType DEF Tasks
  <2>3. Follows(c, t)
    BY <2>2 DEF Follows
  <2> HIDE DEF t
  <2> QED
    BY <1>0, <1>2, <2>1, <2>3, IdleFollows
<1>21. ASSUME NEW c \in Commands, Played(c)
       PROVE  Fine
  BY <1>0, <1>2, <1>21, IdleFollows DEF Played
<1>22. ASSUME NEW c \in Callers, Service(c) \/ Fails(c) \/ LosesAnswer(c)
       PROVE  Fine
  BY <1>14, <1>15, <1>16, <1>22 DEF Service
<1>23. ASSUME NEW c \in Commands, Apply(c)
       PROVE  Fine
  BY <1>19, <1>20, <1>21, <1>23 DEF Apply
<1>24. CASE RuntimeNext
  BY <1>6, <1>7, <1>8, <1>9, <1>10, <1>11, <1>12, <1>13, <1>17, <1>18, <1>22, <1>23, <1>24 DEF RuntimeNext
<1> QED
  BY <1>6, <1>24

-----------------------------------------------------------------------------
(***************************************************************************)
(* The view and the room.                                                  *)
(***************************************************************************)

\* The view is that of the session, or of a reply.
LEMMA ViewMoves ==
    ASSUME [RuntimeNext]_runtimeVars
    PROVE  \/ view' = view
           \/ view' = ViewOf(record) /\ record' = record
           \/ /\ record' = record
              /\ \E c \in Callers : calls[c].reply.ok /\ view' = calls[c].reply.view
<1>1. ASSUME NEW c \in Callers, Answered(c)
      PROVE  \/ view' = view
             \/ record' = record /\ calls[c].reply.ok /\ view' = calls[c].reply.view
  BY <1>1 DEF Answered, Handle
<1>2. ASSUME NEW c \in Callers, Serve(c) \/ Fails(c) \/ LosesAnswer(c)
      PROVE  view' = view
  BY <1>2 DEF Serve, Fails, LosesAnswer, Broken, Handle, Failure
<1>3. CASE Rejoin
  BY <1>3 DEF Rejoin
<1>4. CASE ~Rejoin /\ ~\E c \in Callers : Service(c) \/ Fails(c) \/ LosesAnswer(c)
  BY <1>4 DEF RuntimeNext, runtimeVars, StartSpeaking, StopSpeaking, HearNothing, HearLine,
       HearDecision, TurnCompleted, Uploaded, SayReply, SpeechEnds, Interrupted, Resumed, Command,
       Replay, Apply, Silence, Say, Played
<1> QED
  BY <1>1, <1>2, <1>3, <1>4 DEF Service

\* The room is closed by the worker that sees the session ended, or found so.
LEMMA RoomMoves ==
    ASSUME RuntimeTypeOK, [RuntimeNext]_runtimeVars
    PROVE  /\ room' \in {"open", "closed"}
           /\ room' = "closed" =>
                \/ view' = view /\ (room = "closed" \/ Terminal)
                \/ view' = ViewOf(record) /\ record' = record /\ ~InProgress(record)
<1>0. room \in {"open", "closed"}
  BY DEF RuntimeTypeOK
<1>1. ASSUME NEW c \in Callers, Answered(c) \/ Fails(c) \/ LosesAnswer(c)
      PROVE  room = "open" /\ room' = room
  BY <1>1 DEF Answered, Fails, LosesAnswer, Broken, Handle
<1>2. ASSUME NEW c \in Callers, Serve(c)
      PROVE  room' = room /\ view' = view
  BY <1>2 DEF Serve
<1>3. CASE Rejoin
  BY <1>3 DEF Rejoin
<1>4. CASE ~Rejoin /\ ~\E c \in Callers : Service(c) \/ Fails(c) \/ LosesAnswer(c)
  <2>1. view' = view /\ (room' = room \/ (Terminal /\ room' = "closed"))
    BY <1>4 DEF RuntimeNext, runtimeVars, StartSpeaking, StopSpeaking, HearNothing, HearLine,
       HearDecision, TurnCompleted, Uploaded, SayReply, SpeechEnds, Interrupted, Resumed, Command,
       Replay, Apply, Silence, Say, Played, Listening
  <2> QED
    BY <1>0, <2>1
<1> QED
  BY <1>0, <1>1, <1>2, <1>3, <1>4 DEF Service

LEMMA StepKeepsClosedOnlyAtEnd ==
    ASSUME IInv, RuntimeTypeOK, Roles, RepliesAreTrue, ClosedOnlyAtEnd, [RuntimeNext]_runtimeVars
    PROVE  ClosedOnlyAtEnd'
<1>0. [Next]_vars
  BY StepsOfSession
<1>1. Terminal <=> view.state \in Ended
  BY DEF Terminal, Ended
<1>2. Terminal' <=> view'.state \in Ended
  BY DEF Terminal, Ended
<1>3. ViewOf(record).state = record.state
  BY ViewType DEF IInv, TypeOK
<1>4. view'.state \in Ended => record'.state = view'.state
  <2>1. CASE view' = view
    BY <1>0, <1>1, <2>1, EndedStays DEF ClosedOnlyAtEnd
  <2>2. CASE view' = ViewOf(record) /\ record' = record
    BY <1>3, <2>2
  <2>3. ASSUME NEW c \in Callers, calls[c].reply.ok, view' = calls[c].reply.view, record' = record
        PROVE  view'.state \in Ended => record'.state = view'.state
    BY <2>3 DEF RepliesAreTrue, Truthful
  <2> QED
    BY <2>1, <2>2, <2>3, ViewMoves
<1>5. ~InProgress(record) => record.state \in Ended
  BY DEF IInv, FieldsAgree, TypeOK, Records, Statuses, Ended, InProgress
<1>6. room' = "closed" => view'.state \in Ended
  BY <1>1, <1>3, <1>5, RoomMoves DEF ClosedOnlyAtEnd
<1> QED
  BY <1>2, <1>4, <1>6 DEF ClosedOnlyAtEnd

LEMMA StepKeepsRoles ==
    ASSUME IInv, IInv', RuntimeTypeOK, Roles, [RuntimeNext]_runtimeVars
    PROVE  Roles'
  BY TasksFollow DEF Roles, Follows

LEMMA StepKeepsReplies ==
    ASSUME IInv, IInv', RuntimeTypeOK, Roles, RepliesAreTrue, [RuntimeNext]_runtimeVars
    PROVE  RepliesAreTrue'
<1>0. [Next]_vars
  BY StepsOfSession
<1> SUFFICES ASSUME NEW c \in Callers
             PROVE  Truthful(calls[c].reply)' /\ Truthful(calls[c].stored)'
  BY DEF RepliesAreTrue
<1>1. Follows(c, calls'[c])
  BY TasksFollow
<1>2. ASSUME NEW reply \in {calls[c].reply, calls[c].stored}, reply.ok, reply.view.state \in Ended
      PROVE  record'.state = reply.view.state
  BY <1>0, <1>2, EndedStays DEF RepliesAreTrue, Truthful
<1> QED
  BY <1>1, <1>2 DEF Follows, Truthful

-----------------------------------------------------------------------------
(***************************************************************************)
(* The worker's variables keep their types.                                *)
(***************************************************************************)
LEMMA PendingType ==
    ASSUME RuntimeTypeOK, [RuntimeNext]_runtimeVars
    PROVE  pending' \in Spoken
<1>0. pending \in Spoken /\ "none" \in Spoken
  BY DEF RuntimeTypeOK, Spoken
<1>1. ASSUME NEW c \in Callers, NEW reply \in Replies, Handle(c, reply)
      PROVE  pending' \in Spoken
  BY <1>0, <1>1 DEF Handle, Follow, Replies
<1>2. ASSUME NEW c \in Callers, Answered(c)
      PROVE  pending' \in Spoken
  BY <1>1, <1>2, TaskType DEF Answered
<1>3. ASSUME NEW c \in Callers, Fails(c) \/ LosesAnswer(c)
      PROVE  pending' \in Spoken
  BY <1>0, <1>1, <1>3, FailureType DEF Fails, LosesAnswer, Broken
<1>4. ASSUME NEW c \in Callers, Serve(c)
      PROVE  pending' = pending
  BY <1>4 DEF Serve
<1>5. CASE ~\E c \in Callers : Service(c) \/ Fails(c) \/ LosesAnswer(c)
  BY <1>0, <1>5 DEF RuntimeNext, runtimeVars, StartSpeaking, StopSpeaking, HearNothing, HearLine,
     HearDecision, TurnCompleted, Uploaded, SayReply, SpeechEnds, Interrupted, Resumed, Rejoin,
     Command, Replay, Apply, Silence, Say, Played
<1> QED
  BY <1>0, <1>2, <1>3, <1>4, <1>5 DEF Service

\* The queue of speeches: the first is finished or cut off, talked over or goes on,
\* all are silenced, or one more is asked for.
LEMMA SpeechMoves ==
    ASSUME RuntimeTypeOK, [RuntimeNext]_runtimeVars
    PROVE  \/ speech' = speech
           \/ speech' = <<>>
           \/ speech # <<>> /\ speech' = Tail(speech)
           \/ speech # <<>> /\ \E b \in BOOLEAN : speech' = [speech EXCEPT ![1].paused = b]
           \/ speech' = <<Item(Voice, "text", TRUE)>>
           \/ \E c \in Callers, spoken \in Spoken, firm \in BOOLEAN :
                 speech' = Append(speech, Item(c, spoken, firm))
<1>0. pending \in Spoken /\ Voice \in Callers /\ Commands \subseteq Callers
  BY DEF RuntimeTypeOK, Callers
<1>1. ASSUME NEW c \in Callers, Service(c) \/ Fails(c) \/ LosesAnswer(c)
      PROVE  speech' = speech
  BY <1>1 DEF Service, Serve, Answered, Fails, LosesAnswer, Broken, Handle
<1>2. CASE Rejoin
  BY <1>2 DEF Rejoin, Opening
<1>3. CASE SayReply
  BY <1>0, <1>3 DEF SayReply
<1>4. ASSUME NEW c \in Commands, Say(c)
      PROVE  speech' = speech \/ \E d \in Callers, spoken \in Spoken, firm \in BOOLEAN :
                                    speech' = Append(speech, Item(d, spoken, firm))
  <2>1. Waiter(c) \in Callers /\ calls[c].reply.spoken \in Spoken
    BY <1>0, TaskType DEF Waiter, Replies
  <2> QED
    BY <1>4, <2>1 DEF Say
<1>5. CASE SpeechEnds \/ Interrupted \/ Resumed
  BY <1>5 DEF SpeechEnds, Interrupted, Resumed, Leaves, Silent
<1>6. CASE \/ HearNothing \/ HearLine
            \/ \E command \in {"retry", "continue"} : HearDecision(command)
  BY <1>6 DEF HearNothing, HearLine, HearDecision, TurnCompleted, Leaves
<1>7. CASE StartSpeaking \/ StopSpeaking \/ Uploaded \/ UNCHANGED runtimeVars
  BY <1>7 DEF runtimeVars, StartSpeaking, StopSpeaking, Uploaded
<1>8. ASSUME NEW c \in Commands,
             \/ \E command \in Controls \ {"prompt_ready"} : Command(c, command)
             \/ Replay(c) \/ Silence(c) \/ Played(c)
      PROVE  speech' = speech \/ speech' = <<>>
  BY <1>8 DEF Command, Replay, Silence, Played
<1>9. CASE \E c \in Callers : Service(c) \/ Fails(c) \/ LosesAnswer(c)
  BY <1>1, <1>9
<1>10. CASE \E c \in Commands : \/ \E command \in Controls \ {"prompt_ready"} : Command(c, command)
                               \/ Replay(c) \/ Apply(c)
  BY <1>4, <1>8, <1>10 DEF Apply
<1> QED
  BY <1>2, <1>3, <1>5, <1>6, <1>7, <1>9, <1>10 DEF RuntimeNext

LEMMA OneIsSeq ==
    ASSUME NEW S, NEW e \in S
    PROVE  <<e>> \in Seq(S)
OBVIOUS

LEMMA ItemType ==
    ASSUME NEW c \in Callers, NEW spoken, NEW firm \in BOOLEAN
    PROVE  Item(c, spoken, firm) \in Items
<1>1. (spoken = "closing") \in BOOLEAN /\ FALSE \in BOOLEAN
  OBVIOUS
<1> QED
  BY <1>1 DEF Item, Items

LEMMA SpeechType ==
    ASSUME RuntimeTypeOK, [RuntimeNext]_runtimeVars
    PROVE  speech' \in Seq(Items)
<1>1. speech \in Seq(Items)
  BY DEF RuntimeTypeOK
<1>2. Voice \in Callers /\ TRUE \in BOOLEAN
  BY DEF Callers
<1>3. Item(Voice, "text", TRUE) \in Items
  BY <1>2, ItemType
<1>4. CASE \E c \in Callers, spoken \in Spoken, firm \in BOOLEAN :
              speech' = Append(speech, Item(c, spoken, firm))
  <2>1. PICK c \in Callers, spoken \in Spoken, firm \in BOOLEAN :
                speech' = Append(speech, Item(c, spoken, firm))
    BY <1>4
  <2>2. Item(c, spoken, firm) \in Items
    BY ItemType
  <2> QED
    BY <1>1, <2>1, <2>2
<1>5. CASE speech # <<>> /\ \E b \in BOOLEAN : speech' = [speech EXCEPT ![1].paused = b]
  <2>1. PICK b \in BOOLEAN : speech' = [speech EXCEPT ![1].paused = b]
    BY <1>5
  <2>2. 1 \in DOMAIN speech /\ speech[1] \in Items
    BY <1>1, <1>5
  <2>3. [speech[1] EXCEPT !.paused = b] \in Items
    BY <2>2 DEF Items
  <2>4. speech' = [speech EXCEPT ![1] = [speech[1] EXCEPT !.paused = b]]
    BY <2>1, <2>2
  <2> QED
    BY <1>1, <2>2, <2>3, <2>4
<1>6. CASE speech # <<>> /\ speech' = Tail(speech)
  BY <1>1, <1>6
<1>7. CASE speech' = <<Item(Voice, "text", TRUE)>>
  BY <1>3, <1>7, OneIsSeq
<1>8. CASE speech' = <<>>
  BY <1>8
<1> QED
  BY <1>1, <1>4, <1>5, <1>6, <1>7, <1>8, SpeechMoves

LEMMA FaultsType ==
    ASSUME RuntimeTypeOK, [RuntimeNext]_runtimeVars
    PROVE  faults' \in [failures : 0 .. MaxFailures, lost : 0 .. MaxLost, rejoins : 0 .. MaxRejoins]
<1>0. /\ faults.failures \in 0 .. MaxFailures /\ faults.lost \in 0 .. MaxLost
      /\ faults.rejoins \in 0 .. MaxRejoins
      /\ faults = [failures |-> faults.failures, lost |-> faults.lost, rejoins |-> faults.rejoins]
      /\ MaxFailures \in Nat /\ MaxLost \in Nat /\ MaxRejoins \in Nat
  BY RuntimeAssumption DEF RuntimeTypeOK
<1>1. \/ faults' = faults
      \/ faults.failures < MaxFailures /\ faults' = [faults EXCEPT !.failures = @ + 1]
      \/ faults.lost < MaxLost /\ faults' = [faults EXCEPT !.lost = @ + 1]
      \/ faults.rejoins < MaxRejoins /\ faults' = [faults EXCEPT !.rejoins = @ + 1]
  BY DEF RuntimeNext, runtimeVars, StartSpeaking, StopSpeaking, HearNothing, HearLine,
     HearDecision, TurnCompleted, Uploaded, SayReply, SpeechEnds, Interrupted, Resumed, Rejoin,
     Command, Replay, Apply, Silence, Say, Played, Service, Serve, Answered, Fails, LosesAnswer
<1> QED
  BY <1>0, <1>1

LEMMA FlagsType ==
    ASSUME RuntimeTypeOK, [RuntimeNext]_runtimeVars
    PROVE  /\ {talking', started', recording', troubled'} \subseteq BOOLEAN
           /\ farewell' \in {"due", "said", "cut"}
<1>0. {talking, started, recording, troubled} \subseteq BOOLEAN /\ farewell \in {"due", "said", "cut"}
  BY DEF RuntimeTypeOK
<1>1. ASSUME NEW c \in Callers, NEW reply \in Replies, Handle(c, reply)
      PROVE  troubled' \in BOOLEAN /\ UNCHANGED <<talking, started, recording, farewell>>
  <2>1. (~reply.ok) \in BOOLEAN
    OBVIOUS
  <2> QED
    BY <1>0, <1>1, <2>1 DEF Handle, audio
<1>2. ASSUME NEW c \in Callers, Service(c) \/ Fails(c) \/ LosesAnswer(c)
      PROVE  troubled' \in BOOLEAN /\ UNCHANGED <<talking, started, recording, farewell>>
  BY <1>0, <1>1, <1>2, TaskType, FailureType DEF Service, Serve, Answered, Fails, LosesAnswer,
     Broken, audio
<1>3. CASE Rejoin
  BY <1>3 DEF Rejoin
<1>4. CASE SpeechEnds \/ Interrupted \/ Resumed
  BY <1>0, <1>4 DEF SpeechEnds, Interrupted, Resumed, Leaves, audio
<1>5. CASE /\ ~Rejoin /\ ~(SpeechEnds \/ Interrupted \/ Resumed)
           /\ ~\E c \in Callers : Service(c) \/ Fails(c) \/ LosesAnswer(c)
  BY <1>0, <1>5 DEF RuntimeNext, runtimeVars, audio, StartSpeaking, StopSpeaking, HearNothing,
     HearLine, HearDecision, TurnCompleted, Leaves, Uploaded, SayReply, Command, Replay, Apply, Silence,
     Say, Played
<1> QED
  BY <1>0, <1>2, <1>3, <1>4, <1>5

LEMMA CountedType ==
    ASSUME RuntimeTypeOK, [RuntimeNext]_runtimeVars
    PROVE  counted' \in Nat
<1>1. counted \in Nat
  BY DEF RuntimeTypeOK
<1>2. \/ counted' = counted
      \/ counted' = 0
      \/ counted' = counted + 1
  BY DEF RuntimeNext, runtimeVars, StartSpeaking, StopSpeaking, HearNothing, HearLine,
     HearDecision, TurnCompleted, Uploaded, SayReply, SpeechEnds, Interrupted, Resumed, Rejoin,
     Command, Replay, Apply, Silence, Say, Played, Service, Serve, Answered, Fails, LosesAnswer,
     Broken, Handle
<1> QED
  BY <1>1, <1>2

LEMMA StepKeepsRuntimeType ==
    ASSUME IInv, IInv', RuntimeTypeOK, Roles, [RuntimeNext]_runtimeVars
    PROVE  RuntimeTypeOK'
<1>1. record' \in Records
  BY DEF IInv, TypeOK
<1>2. view' \in Views
  <2>1. view \in Views /\ ViewOf(record) \in Views
    BY ViewType DEF RuntimeTypeOK, IInv, TypeOK
  <2>2. \A c \in Callers : calls[c].reply.view \in Views
    BY TaskType DEF Replies
  <2> QED
    BY <2>1, <2>2, ViewMoves
<1>3. calls' \in [Callers -> Tasks]
  BY TasksFollow
<1>4. room' \in {"open", "closed"}
  BY RoomMoves
<1> QED
  BY <1>1, <1>2, <1>3, <1>4, PendingType, SpeechType, FaultsType, FlagsType, CountedType
  DEF RuntimeTypeOK

-----------------------------------------------------------------------------
(***************************************************************************)
(* One reading, one attempt.                                               *)
(***************************************************************************)

\* What the other tasks do leaves the turn alone, and the attempts.
LEMMA OthersLeaveVoice ==
    ASSUME IInv, RuntimeTypeOK, Roles, [RuntimeNext]_runtimeVars,
           ~(HearLine \/ Uploaded \/ SayReply \/ Rejoin),
           ~\E command \in {"retry", "continue"} : HearDecision(command),
           ~(Service(Voice) \/ Fails(Voice) \/ LosesAnswer(Voice))
    PROVE  /\ calls'[Voice] = calls[Voice]
           /\ counted' = counted
           /\ record'.attempts = record.attempts
<1> DEFINE Fine == /\ calls'[Voice] = calls[Voice]
                   /\ counted' = counted
                   /\ record'.attempts = record.attempts
<1>0. /\ Voice \in Callers /\ Voice \notin Commands /\ Voice \notin Prompts
      /\ calls \in [Callers -> Tasks]
  BY RuntimeAssumption DEF Callers, RuntimeTypeOK
<1>1. CASE StartSpeaking \/ StopSpeaking \/ Resumed \/ UNCHANGED runtimeVars
  BY <1>1 DEF StartSpeaking, StopSpeaking, Resumed, runtimeVars
<1>2. CASE SpeechEnds \/ Interrupted \/ HearNothing
  <2>1. Listening(calls) => calls'[Voice] = calls[Voice]
    BY <1>0 DEF Listening
  <2> QED
    BY <1>2, <2>1 DEF SpeechEnds, Interrupted, HearNothing, TurnCompleted
<1>3. ASSUME NEW c \in Callers \ {Voice}, Serve(c)
      PROVE  Fine
  <2>1. counted' = counted
    BY <1>3 DEF Serve, Roles
  <2>2. calls'[Voice] = calls[Voice]
    BY <1>0, <1>3 DEF Serve
  <2>3. record'.attempts = record.attempts
    <3>1. record' = record \/ (calls[c].call \in Controls /\ Control(calls[c].call))
      BY <1>3, ServeMoves
    <3>2. ASSUME NEW control \in Controls, Control(control)
          PROVE  record'.attempts = record.attempts
      BY <3>2, ControlMoves DEF IInv, Moved
    <3> QED
      BY <3>1, <3>2
  <2> QED
    BY <2>1, <2>2, <2>3
<1>4. ASSUME NEW c \in Callers \ {Voice}, NEW reply, Handle(c, reply)
      PROVE  Fine
  BY <1>0, <1>4 DEF Handle, Follow
<1>5. ASSUME NEW c \in Callers \ {Voice}, Answered(c) \/ Fails(c) \/ LosesAnswer(c)
      PROVE  Fine
  BY <1>0, <1>4, <1>5 DEF Answered, Fails, LosesAnswer, Broken
<1>6. ASSUME NEW c \in Commands,
             \/ \E command \in Controls \ {"prompt_ready"} : Command(c, command)
             \/ Replay(c) \/ Say(c) \/ Played(c)
      PROVE  Fine
  BY <1>0, <1>6 DEF Command, Replay, Say, Played
<1>7. ASSUME NEW c \in Commands, Silence(c)
      PROVE  Fine
  BY <1>0, <1>7 DEF Silence, Listening
<1>8. CASE \E c \in Callers : Service(c) \/ Fails(c) \/ LosesAnswer(c)
  BY <1>3, <1>5, <1>8 DEF Service
<1>9. CASE \E c \in Commands : \/ \E command \in Controls \ {"prompt_ready"} : Command(c, command)
                               \/ Replay(c) \/ Apply(c)
  BY <1>6, <1>7, <1>9 DEF Apply
<1> QED
  BY <1>1, <1>2, <1>8, <1>9 DEF RuntimeNext

\* An attempt is at the line the session is at.
LEMMA AttemptIsLast ==
    ASSUME IInv, Attempt
    PROVE  record'.attempts[Len(record'.attempts)].turn = record.turn
<1>1. PICK queued \in BOOLEAN : Attempted(queued)
  BY AttemptMoves DEF IInv
<1>2. RetryNumber(record) \in 0 .. MaxRetries
  <2>1. RetryNumber(record) \in Nat
    BY AttemptsAreFinite DEF RetryNumber, IInv, TypeOK
  <2>2. InProgress(record)
    BY DEF Attempt, MaySpeak
  <2>3. RetryNumber(record) <= MaxRetries
    BY <2>2 DEF IInv, AtMostTwoRetries
  <2> QED
    BY <2>1, <2>3 DEF MaxRetries
<1>3. record'.attempts = AddAttempt(record, queued)
  BY <1>1 DEF Attempted
<1>4. record \in Records
  BY DEF IInv, TypeOK
<1>5. /\ Len(record'.attempts) = Len(record.attempts) + 1
      /\ record'.attempts[Len(record.attempts) + 1] = NewAttempt(record, queued)
  BY <1>2, <1>3, <1>4, AddedAttempt
<1> QED
  BY <1>5 DEF NewAttempt

LEMMA ServedReading ==
    ASSUME IInv, RuntimeTypeOK, Roles, OneReading, Serve(Voice)
    PROVE  OneReading'
<1>0. Voice \in Callers /\ calls \in [Callers -> Tasks] /\ calls[Voice].phase = "sent"
  BY DEF Callers, RuntimeTypeOK, Serve
<1>1. ASSUME NEW reply, calls' = [calls EXCEPT ![Voice].phase = "served", ![Voice].reply = reply],
             record'.attempts = record.attempts, counted' = counted
      PROVE  OneReading'
  <2>1. /\ calls'[Voice].phase = "served" /\ calls'[Voice].stored = calls[Voice].stored
        /\ calls'[Voice].turn = calls[Voice].turn
    BY <1>0, <1>1, TaskType DEF Tasks
  <2> QED
    BY <1>1, <2>1 DEF OneReading
<1>2. CASE /\ calls[Voice].call \in Controls /\ MayControl(record, calls[Voice].call)
           /\ record' = AfterControl(record, calls[Voice].call) /\ counted' = counted
           /\ calls' = [calls EXCEPT ![Voice].phase = "served",
                                     ![Voice].reply = Reply(record', calls[Voice].call)]
  <2>1. ASSUME NEW control \in Controls, Control(control)
        PROVE  record'.attempts = record.attempts
    BY <2>1, ControlMoves DEF IInv, Moved
  <2> QED
    BY <1>1, <1>2, <2>1 DEF Control
<1>3. CASE \E reply : /\ calls' = [calls EXCEPT ![Voice].phase = "served", ![Voice].reply = reply]
                      /\ record' = record /\ counted' = counted
  BY <1>1, <1>3
<1>4. CASE /\ calls[Voice].call = "attempt" /\ ~calls[Voice].stored.ok
           /\ MayStore(calls[Voice])
           /\ \E unclear \in BOOLEAN : record' = AfterAttempt(record, unclear, calls[Voice].audio)
           /\ \E reply : calls' = [calls EXCEPT ![Voice].phase = "served", ![Voice].reply = reply,
                                                ![Voice].stored = reply]
           /\ counted' = counted + 1
           /\ calls'[Voice].stored.ok
  <2>1. Attempt /\ calls[Voice].turn = record.turn
    BY <1>0, <1>4, TaskType DEF Attempt, MayStore
  <2>2. /\ calls'[Voice].phase = "served" /\ calls'[Voice].turn = calls[Voice].turn
    BY <1>0, <1>4, TaskType DEF Tasks
  <2>3. counted' = 1
    BY <1>4 DEF OneReading
  <2>4. record'.attempts[Len(record'.attempts)].turn = calls'[Voice].turn
    BY <2>1, <2>2, AttemptIsLast
  <2> QED
    BY <1>4, <2>2, <2>3, <2>4 DEF OneReading
<1>5. ASSUME calls' = [calls EXCEPT ![Voice].phase = "served", ![Voice].reply = Reply(record', "attempt"),
                                    ![Voice].stored = Reply(record', "attempt")]
      PROVE  calls'[Voice].stored.ok
  <2>1. Reply(record', "attempt").ok
    BY DEF Reply
  <2> QED
    BY <1>0, <1>5, <2>1, TaskType DEF Tasks
<1> QED
  BY <1>2, <1>3, <1>4, <1>5 DEF Serve

\* What a turn starts, whatever it cuts off.
LEMMA TurnStarts ==
    ASSUME RuntimeTypeOK, HearLine \/ \E command \in {"retry", "continue"} : HearDecision(command)
    PROVE  ~calls'[Voice].reply.ok /\ ~calls'[Voice].stored.ok
<1>0. Voice \in Callers /\ Voice \notin Prompts /\ calls \in [Callers -> Tasks]
  BY RuntimeAssumption DEF Callers, RuntimeTypeOK
<1>1. ASSUME NEW t, TurnCompleted([calls EXCEPT ![Voice] = t])
      PROVE  calls'[Voice] = t
  BY <1>0, <1>1 DEF TurnCompleted, Listening
<1>2. \/ \E command \in Controls : calls'[Voice] = Sent(command)
      \/ calls'[Voice] = Reading
  BY <1>1 DEF HearLine, HearDecision, Controls
<1>3. ~Reading.reply.ok /\ ~Reading.stored.ok
  BY IdleType DEF Reading, Tasks
<1> QED
  BY <1>2, <1>3, SentType

LEMMA StepKeepsOneReading ==
    ASSUME IInv, RuntimeTypeOK, Roles, OneReading, [RuntimeNext]_runtimeVars
    PROVE  OneReading'
<1>0. Voice \in Callers /\ calls \in [Callers -> Tasks] /\ calls[Voice] \in Tasks
  BY DEF Callers, RuntimeTypeOK
<1>1. ASSUME ~calls'[Voice].stored.ok, counted' = 0
      PROVE  OneReading'
  BY <1>1 DEF OneReading
<1>2. ASSUME NEW reply, Handle(Voice, reply)
      PROVE  OneReading'
  <2>1. counted' = 0 /\ Follow(Voice, reply.spoken)
    BY <1>2 DEF Handle
  <2>2. calls'[Voice] = Idle \/ calls'[Voice] = [Idle EXCEPT !.phase = "speak"]
    BY <1>0, <2>1 DEF Follow
  <2>3. ~calls'[Voice].stored.ok
    BY <2>2, IdleType DEF Tasks
  <2> QED
    BY <1>1, <2>1, <2>3
<1>3. ASSUME Broken(Voice)
      PROVE  OneReading'
  <2>1. CASE /\ calls' = [calls EXCEPT ![Voice].phase = "sent", ![Voice].tries = @ + 1,
                                       ![Voice].reply = Failure]
             /\ record' = record /\ counted' = counted
    <3>1. /\ calls'[Voice].phase = "sent" /\ calls'[Voice].stored = calls[Voice].stored
          /\ calls'[Voice].turn = calls[Voice].turn
      BY <1>0, <2>1 DEF Tasks
    <3> QED
      BY <2>1, <3>1 DEF OneReading
  <2> QED
    BY <1>2, <1>3, <2>1 DEF Broken
<1>4. CASE HearLine \/ \E command \in {"retry", "continue"} : HearDecision(command)
  <2>1. ~calls[Voice].stored.ok /\ counted' = 0
    BY <1>4 DEF OneReading, HearLine, HearDecision, TurnCompleted
  <2> QED
    BY <1>1, <1>4, <2>1, TurnStarts
<1>5. CASE Uploaded
  <2>1. ~calls[Voice].stored.ok /\ counted' = 0
    BY <1>5 DEF OneReading, Uploaded
  <2>2. calls'[Voice].stored = calls[Voice].stored
    BY <1>0, <1>5 DEF Uploaded, Tasks
  <2> QED
    BY <1>1, <2>1, <2>2
<1>6. CASE SayReply
  <2>1. ~calls[Voice].stored.ok /\ counted' = 0
    BY <1>6 DEF OneReading, SayReply
  <2> QED
    BY <1>0, <1>1, <1>6, <2>1, IdleType DEF SayReply
<1>7. CASE Rejoin
  BY <1>0, <1>1, <1>7, IdleType DEF Rejoin
<1>8. CASE Service(Voice) \/ Fails(Voice) \/ LosesAnswer(Voice)
  BY <1>2, <1>3, <1>8, ServedReading DEF Service, Answered, Fails, LosesAnswer
<1>9. CASE /\ calls'[Voice] = calls[Voice]
           /\ counted' = counted
           /\ record'.attempts = record.attempts
  BY <1>9 DEF OneReading
<1> QED
  BY <1>4, <1>5, <1>6, <1>7, <1>8, <1>9, OthersLeaveVoice

-----------------------------------------------------------------------------
(***************************************************************************)
(* The worker's theorems.                                                  *)
(***************************************************************************)
LEMMA RuntimeInitIsSound == RuntimeInit => RuntimeIInv
<1> SUFFICES ASSUME RuntimeInit
             PROVE  RuntimeIInv
  OBVIOUS
<1>1. IInv
  BY InitIsSound DEF RuntimeInit, Init
<1>2. Voice \in Callers /\ calls = [c \in Callers |-> Idle]
  BY DEF RuntimeInit, Callers
<1>3. view \in Views /\ view.state = "assistant_speaking"
  BY <1>1, ViewType DEF RuntimeInit, NewRecord, IInv, TypeOK
<1>4. speech \in Seq(Items)
  <2>1. Item(Voice, "text", TRUE) \in Items
    BY <1>2, ItemType
  <2>2. <<Item(Voice, "text", TRUE)>> \in Seq(Items)
    BY <2>1, OneIsSeq
  <2>3. <<>> \in Seq(Items)
    OBVIOUS
  <2> QED
    BY <2>2, <2>3 DEF RuntimeInit, Opening
<1>5. faults \in [failures : 0 .. MaxFailures, lost : 0 .. MaxLost, rejoins : 0 .. MaxRejoins]
  BY RuntimeAssumption DEF RuntimeInit
<1>6. RuntimeTypeOK
  BY <1>1, <1>2, <1>3, <1>4, <1>5, IdleType DEF RuntimeTypeOK, RuntimeInit, Spoken, IInv, TypeOK
<1>7. Roles /\ RepliesAreTrue
  BY <1>2, IdleType DEF Roles, RepliesAreTrue, Truthful
<1>8. OneReading
  BY <1>2, IdleType DEF OneReading, RuntimeInit
<1>9. ClosedOnlyAtEnd
  BY <1>3 DEF ClosedOnlyAtEnd, Terminal, RuntimeInit
<1> QED
  BY <1>1, <1>6, <1>7, <1>8, <1>9 DEF RuntimeIInv

LEMMA RuntimeStepKeeps == RuntimeIInv /\ [RuntimeNext]_runtimeVars => RuntimeIInv'
<1> SUFFICES ASSUME RuntimeIInv, [RuntimeNext]_runtimeVars
             PROVE  RuntimeIInv'
  OBVIOUS
<1>1. IInv /\ RuntimeTypeOK /\ Roles /\ RepliesAreTrue /\ OneReading /\ ClosedOnlyAtEnd
  BY DEF RuntimeIInv
<1>2. IInv'
  BY <1>1, StepsOfSession, StepKeeps
<1> QED
  BY <1>1, <1>2, StepKeepsRuntimeType, StepKeepsRoles, StepKeepsReplies, StepKeepsOneReading,
     StepKeepsClosedOnlyAtEnd DEF RuntimeIInv

LEMMA RuntimeInvariant == RuntimeSpec => []RuntimeIInv
  BY RuntimeInitIsSound, RuntimeStepKeeps, PTL DEF RuntimeSpec

\* Whatever the worker does, and whatever is lost or repeated, the session sees
\* calls that it allows, one at a time.
THEOREM WorkerRefinesLifecycle == RuntimeSpec => RefinesLifecycle
<1>1. RuntimeInit => Init
  BY DEF RuntimeInit, Init
<1>2. RuntimeIInv /\ [RuntimeNext]_runtimeVars => [Next]_vars
  BY StepsOfSession DEF RuntimeIInv
<1> QED
  BY <1>1, <1>2, RuntimeInvariant, PTL DEF RuntimeSpec, RefinesLifecycle, Spec

\* One reading of a line is at most one attempt, at that line; an ended session
\* in the worker's eyes is one at the service, and a room is closed on no other.
THEOREM WorkerAndServiceAgree == RuntimeSpec => []WorkerAgrees
<1>1. RuntimeIInv => WorkerAgrees
  BY DEF RuntimeIInv, WorkerAgrees, OneReading, ReadingCountsOnce
<1> QED
  BY <1>1, RuntimeInvariant, PTL

\* What holds of every session holds of one that a worker drives.
THEOREM WorkerKeepsRecordSound == RuntimeSpec => []RecordSound
<1> QED
  BY WorkerRefinesLifecycle, RecordIsSound, PTL DEF RefinesLifecycle

-----------------------------------------------------------------------------
(***************************************************************************)
(* The worker of a page without buttons: the closing line is said, or      *)
(* talked over, before the room is closed.                                 *)
(***************************************************************************)

\* A prompt's reply is of a line that is shown, and a turn that completes the
\* session is answered with the closing line.
Due(c, task) ==
    /\ c \in Prompts =>
          /\ task.phase \in {"sent", "served"} => task.call = "prompt_ready"
          /\ task.reply.ok => task.reply.view.state = "user_prompt_visible"
    /\ c = Voice =>
          \A reply \in {task.reply, task.stored} :
              reply.ok /\ reply.view.state = "completed" => reply.spoken = "closing"

FarewellDue == \A c \in Callers : Due(c, calls[c])

\* One thing is said at a time, and a turn that cuts it off leaves nothing.
SilentTurn ==
    /\ Len(speech) <= 1
    /\ calls[Voice].phase # "idle" => speech = <<>>

\* Until it has been heard, the closing line is the next thing to be said.
FarewellNext ==
    view.state = "completed" /\ farewell = "due" =>
        \/ calls[Voice].phase = "speak" /\ pending = "closing"
        \/ speech # <<>> /\ Head(speech).closing

ClosedAfterFarewell == room = "closed" /\ view.state = "completed" => farewell # "due"

FarewellInv == FarewellDue /\ SilentTurn /\ FarewellNext /\ ClosedAfterFarewell

VoiceActs ==
    \/ HearLine \/ Uploaded \/ SayReply
    \/ \E command \in {"retry", "continue"} : HearDecision(command)
    \/ Service(Voice) \/ Fails(Voice) \/ LosesAnswer(Voice)

LEMMA VoiceStaysDue ==
    ASSUME IInv, IInv', RuntimeTypeOK, Roles, FarewellDue, [RuntimeNext]_runtimeVars
    PROVE  Due(Voice, calls'[Voice])
<1>0. Voice \in Callers /\ calls \in [Callers -> Tasks] /\ calls[Voice] \in Tasks /\ Voice \notin Prompts
  BY RuntimeAssumption DEF Callers, RuntimeTypeOK
<1>1. Due(Voice, calls[Voice])
  BY <1>0 DEF FarewellDue
<1>2. ASSUME NEW reply, Handle(Voice, reply)
      PROVE  ~calls'[Voice].reply.ok /\ ~calls'[Voice].stored.ok
  <2>1. calls'[Voice] = [Idle EXCEPT !.phase = "speak"]
    BY <1>0, <1>2 DEF Handle, Follow
  <2> QED
    BY <2>1, IdleType DEF Tasks
<1>3. CASE Fails(Voice) \/ LosesAnswer(Voice)
  <2>1. CASE calls' = [calls EXCEPT ![Voice].phase = "sent", ![Voice].tries = @ + 1,
                                    ![Voice].reply = Failure]
    <3>1. calls'[Voice].reply = Failure /\ calls'[Voice].stored = calls[Voice].stored
      BY <1>0, <2>1 DEF Tasks
    <3> QED
      BY <1>0, <1>1, <3>1, FailureType DEF Due
  <2> QED
    BY <1>0, <1>2, <1>3, <2>1 DEF Fails, LosesAnswer, Broken, Due
<1>4. CASE HearLine \/ \E command \in {"retry", "continue"} : HearDecision(command)
  BY <1>0, <1>4, TurnStarts DEF Due
<1>5. CASE Uploaded
  <2>1. calls'[Voice].reply = calls[Voice].reply /\ calls'[Voice].stored = calls[Voice].stored
    BY <1>0, <1>5 DEF Uploaded, Tasks
  <2> QED
    BY <1>0, <1>1, <2>1 DEF Due
<1>6. CASE SayReply \/ Rejoin
  <2>1. calls'[Voice] = Idle
    BY <1>0, <1>6 DEF SayReply, Rejoin
  <2> QED
    BY <1>0, <2>1, IdleType DEF Due
<1>7. CASE Serve(Voice)
  <2> DEFINE Closes(reply) == reply.ok /\ reply.view.state = "completed" => reply.spoken = "closing"
  <2>1. \A call : Closes(Reply(record, call)) /\ Closes(Reply(record', call))
    BY ReplyType DEF IInv, TypeOK
  <2>2. Closes(Failure) /\ Closes(calls[Voice].stored)
    BY <1>1, FailureType DEF Due
  <2> HIDE DEF Closes
  <2>3. ASSUME NEW reply, Closes(reply),
               calls' = [calls EXCEPT ![Voice].phase = "served", ![Voice].reply = reply]
        PROVE  Closes(calls'[Voice].reply) /\ Closes(calls'[Voice].stored)
    BY <1>0, <2>2, <2>3 DEF Tasks
  <2>4. ASSUME NEW reply, Closes(reply),
               calls' = [calls EXCEPT ![Voice].phase = "served", ![Voice].reply = reply,
                                      ![Voice].stored = reply]
        PROVE  Closes(calls'[Voice].reply) /\ Closes(calls'[Voice].stored)
    BY <1>0, <2>4 DEF Tasks
  <2>5. Closes(calls'[Voice].reply) /\ Closes(calls'[Voice].stored)
    BY <1>7, <2>1, <2>2, <2>3, <2>4 DEF Serve
  <2> QED
    BY <1>0, <2>5 DEF Due, Closes
<1>8. CASE Answered(Voice)
  BY <1>0, <1>2, <1>8 DEF Answered, Due
<1>9. CASE calls'[Voice] = calls[Voice]
  BY <1>1, <1>9
<1> QED
  BY <1>3, <1>4, <1>5, <1>6, <1>7, <1>8, <1>9, OthersLeaveVoice DEF Service

LEMMA PromptStaysDue ==
    ASSUME IInv, RuntimeTypeOK, Roles, FarewellDue, Commands = {}, [RuntimeNext]_runtimeVars,
           NEW p \in Prompts
    PROVE  Due(p, calls'[p])
<1>0. /\ p \in Callers /\ p # Voice /\ Voice \in Callers /\ calls \in [Callers -> Tasks]
      /\ calls[p] \in Tasks
  BY RuntimeAssumption DEF Callers, RuntimeTypeOK
<1>1. Due(p, calls[p])
  BY <1>0 DEF FarewellDue
<1>2. ASSUME NEW c \in Callers, NEW reply, Handle(c, reply)
      PROVE  calls'[p] = calls[p] \/ calls'[p] = Idle
  BY <1>0, <1>2 DEF Handle, Follow
<1>3. ASSUME NEW c \in Callers, Fails(c) \/ LosesAnswer(c)
      PROVE  Due(p, calls'[p])
  <2>1. CASE /\ calls[c].phase \in {"sent", "served"}
             /\ calls' = [calls EXCEPT ![c].phase = "sent", ![c].tries = @ + 1,
                                       ![c].reply = Failure]
    <3>1. CASE c = p
      <4>1. calls'[p].reply = Failure /\ calls'[p].call = calls[p].call
        BY <1>0, <2>1, <3>1 DEF Tasks
      <4> QED
        BY <1>0, <1>1, <2>1, <3>1, <4>1, FailureType DEF Due
    <3>2. CASE c # p
      BY <1>0, <1>1, <2>1, <3>2
    <3> QED
      BY <3>1, <3>2
  <2>2. CASE calls'[p] = calls[p] \/ calls'[p] = Idle
    BY <1>0, <1>1, <2>2, IdleType DEF Due
  <2> QED
    BY <1>2, <1>3, <2>1, <2>2 DEF Fails, LosesAnswer, Broken
<1>4. ASSUME NEW c \in Callers, Serve(c)
      PROVE  Due(p, calls'[p])
  <2>1. CASE c # p
    BY <1>0, <1>1, <1>4, <2>1 DEF Serve
  <2>2. CASE c = p
    <3>1. calls[p].call = "prompt_ready" /\ ~calls[p].stored.ok /\ "prompt_ready" # "attempt"
      BY <1>0, <1>1, <1>4, <2>2 DEF Serve, Due, Roles
    <3>2. PICK reply : /\ calls' = [calls EXCEPT ![p].phase = "served", ![p].reply = reply]
                       /\ reply.ok => reply.view.state = "user_prompt_visible"
      <4>1. CASE MayControl(record, "prompt_ready") /\ record' = AfterControl(record, "prompt_ready")
        <5>1. record'.state = "user_prompt_visible"
          BY <4>1 DEF AfterControl, IInv, TypeOK, Records
        <5>2. Reply(record', "prompt_ready").view.state = "user_prompt_visible"
          BY <5>1 DEF Reply, ViewOf
        <5> QED
          BY <1>4, <2>2, <3>1, <4>1, <5>2, FailureType DEF Serve, AlreadyDone, MayControl
      <4>2. CASE AlreadyDone(record, "prompt_ready")
        <5>1. Reply(record, "prompt_ready").view.state = "user_prompt_visible"
          BY <4>2 DEF Reply, ViewOf, AlreadyDone
        <5>2. ~MayControl(record, "prompt_ready")
          BY <4>2 DEF AlreadyDone, MayControl
        <5> QED
          BY <1>4, <2>2, <3>1, <4>2, <5>1, <5>2, FailureType DEF Serve
      <4>3. CASE calls' = [calls EXCEPT ![p].phase = "served", ![p].reply = Failure]
        BY <4>3, FailureType
      <4> QED
        BY <1>4, <2>2, <3>1, <4>1, <4>2, <4>3 DEF Serve
    <3>3. calls'[p].reply = reply /\ calls'[p].call = calls[p].call
      BY <1>0, <3>2 DEF Tasks
    <3> QED
      BY <1>0, <3>1, <3>2, <3>3 DEF Due
  <2> QED
    BY <2>1, <2>2
<1>5. CASE \/ SpeechEnds \/ Interrupted \/ HearNothing \/ HearLine
           \/ \E command \in {"retry", "continue"} : HearDecision(command)
  <2>1. ASSUME NEW tasks, tasks \in [Callers -> Tasks] \/ \E t : tasks = [calls EXCEPT ![Voice] = t],
               tasks[p] = calls[p], Listening(tasks)
        PROVE  calls'[p] = calls[p] \/ calls'[p] = Sent("prompt_ready")
    BY <1>0, <2>1 DEF Listening
  <2>2. ASSUME NEW t, TurnCompleted([calls EXCEPT ![Voice] = t])
        PROVE  calls'[p] = calls[p] \/ calls'[p] = Sent("prompt_ready")
    <3> DEFINE tasks == [calls EXCEPT ![Voice] = t]
    <3>1. tasks[p] = calls[p]
      BY <1>0
    <3>2. TurnCompleted(tasks)
      BY <2>2
    <3>3. \E u : tasks = [calls EXCEPT ![Voice] = u]
      OBVIOUS
    <3> HIDE DEF tasks
    <3>4. calls' = tasks \/ Listening(tasks)
      BY <3>2 DEF TurnCompleted
    <3> QED
      BY <2>1, <3>1, <3>3, <3>4
  <2>3. calls'[p] = calls[p] \/ calls'[p] = Sent("prompt_ready")
    <3>1. CASE SpeechEnds \/ Interrupted
      BY <1>0, <2>1, <3>1 DEF SpeechEnds, Interrupted
    <3>2. CASE HearNothing
      <4>1. calls' = calls \/ Listening(calls)
        BY <3>2 DEF HearNothing, TurnCompleted
      <4> QED
        BY <1>0, <2>1, <4>1
    <3>3. CASE HearLine \/ \E command \in {"retry", "continue"} : HearDecision(command)
      BY <2>2, <3>3 DEF HearLine, HearDecision
    <3> QED
      BY <1>5, <3>1, <3>2, <3>3
  <2>4. "prompt_ready" \in Controls
    BY DEF Controls
  <2> QED
    BY <1>0, <1>1, <2>3, <2>4, SentType DEF Due
<1>6. CASE Rejoin
  BY <1>0, <1>6, IdleType DEF Rejoin, Due
<1>7. ASSUME NEW c \in Callers, Answered(c)
      PROVE  Due(p, calls'[p])
  <2>1. calls'[p] = calls[p] \/ calls'[p] = Idle
    BY <1>2, <1>7 DEF Answered
  <2> QED
    BY <1>0, <1>1, <2>1, IdleType DEF Due
<1>8. CASE \/ StartSpeaking \/ StopSpeaking \/ Resumed \/ Uploaded \/ SayReply
           \/ UNCHANGED runtimeVars
  <2>1. calls'[p] = calls[p]
    BY <1>0, <1>8 DEF runtimeVars, StartSpeaking, StopSpeaking, Resumed, Uploaded, SayReply
  <2> QED
    BY <1>1, <2>1
<1> QED
  BY <1>3, <1>4, <1>5, <1>6, <1>7, <1>8 DEF RuntimeNext, Service

\* Apart from the turn, what becomes of a speech and a new room, only prompts are handled.
SpeechActs == SpeechEnds \/ Interrupted \/ Resumed \/ HearNothing

LEMMA PromptsAreSilent ==
    ASSUME IInv, RuntimeTypeOK, Roles, FarewellDue, Commands = {}, [RuntimeNext]_runtimeVars,
           ~VoiceActs, ~SpeechActs, ~Rejoin
    PROVE  /\ UNCHANGED <<pending, speech, room, farewell>>
           /\ calls'[Voice] = calls[Voice]
           /\ view' = view \/ view'.state = "user_prompt_visible"
<1>1. calls'[Voice] = calls[Voice]
  BY OthersLeaveVoice DEF VoiceActs
<1>2. CASE StartSpeaking \/ StopSpeaking \/ UNCHANGED runtimeVars
  BY <1>1, <1>2 DEF StartSpeaking, StopSpeaking, runtimeVars
<1>3. ASSUME NEW p \in Prompts, NEW reply, Handle(p, reply),
             reply.ok => reply.view.state = "user_prompt_visible"
      PROVE  /\ UNCHANGED <<pending, speech, room, farewell>>
             /\ view' = view \/ view'.state = "user_prompt_visible"
  <2>1. p # Voice
    BY RuntimeAssumption
  <2> QED
    BY <1>3, <2>1 DEF Handle, Follow
<1>4. ASSUME NEW p \in Prompts, Service(p) \/ Fails(p) \/ LosesAnswer(p)
      PROVE  /\ UNCHANGED <<pending, speech, room, farewell>>
             /\ view' = view \/ view'.state = "user_prompt_visible"
  <2>1. calls[p].reply.ok => calls[p].reply.view.state = "user_prompt_visible"
    BY DEF FarewellDue, Due, Callers
  <2> QED
    BY <1>3, <1>4, <2>1, FailureType DEF Service, Serve, Answered, Fails, LosesAnswer, Broken
<1>5. ASSUME NEW c \in Callers
      PROVE  c = Voice \/ c \in Prompts
  BY DEF Callers
<1> QED
  BY <1>1, <1>2, <1>4, <1>5 DEF RuntimeNext, VoiceActs, SpeechActs

\* What becomes of a speech leaves the turn and the view alone.
LEMMA SpeechActsMove ==
    ASSUME IInv, RuntimeTypeOK, Roles, SilentTurn, SpeechActs
    PROVE  /\ view' = view /\ pending' = pending
           /\ calls'[Voice] = calls[Voice]
           /\ Len(speech') <= 1
           /\ speech' # <<>> => speech # <<>>
           /\ \/ Head(speech).closing /\ speech # <<>> /\ farewell' # "due"
              \/ Resumed \/ UNCHANGED <<speech, farewell>>
              \/ speech # <<>> /\ ~Head(speech).closing /\ farewell' = farewell
<1>0. /\ Voice \in Callers /\ Voice \notin Prompts /\ calls \in [Callers -> Tasks]
      /\ speech \in Seq(Items)
  BY RuntimeAssumption DEF Callers, RuntimeTypeOK
<1>1. view' = view /\ pending' = pending
  BY DEF SpeechActs, SpeechEnds, Interrupted, Resumed, HearNothing, TurnCompleted
<1>2. calls'[Voice] = calls[Voice]
  <2>1. Listening(calls) => calls'[Voice] = calls[Voice]
    BY <1>0 DEF Listening
  <2> QED
    BY <2>1 DEF SpeechActs, SpeechEnds, Interrupted, Resumed, HearNothing, TurnCompleted
<1>3. \/ speech' = speech
      \/ speech # <<>> /\ speech' = Tail(speech)
      \/ speech # <<>> /\ \E b : speech' = [speech EXCEPT ![1].paused = b]
  BY DEF SpeechActs, SpeechEnds, Interrupted, Resumed, HearNothing, TurnCompleted, Leaves, Silent
<1>4. Len(speech') <= 1 /\ (speech' # <<>> => speech # <<>>)
  <2>1. Len(speech) <= 1
    BY DEF SilentTurn
  <2>2. ASSUME NEW b, speech' = [speech EXCEPT ![1].paused = b]
        PROVE  Len(speech') = Len(speech)
    BY <1>0, <2>2
  <2> QED
    BY <1>0, <1>3, <2>1, <2>2
<1>5. \/ Head(speech).closing /\ speech # <<>> /\ farewell' # "due"
      \/ Resumed \/ UNCHANGED <<speech, farewell>>
      \/ speech # <<>> /\ ~Head(speech).closing /\ farewell' = farewell
  BY DEF SpeechActs, SpeechEnds, Interrupted, HearNothing, TurnCompleted, Leaves, Silent
<1> QED
  BY <1>1, <1>2, <1>4, <1>5

LEMMA TurnsAreSilent ==
    ASSUME IInv, RuntimeTypeOK, Roles, SilentTurn, Commands = {}, [RuntimeNext]_runtimeVars
    PROVE  SilentTurn'
<1>0. Voice \in Callers /\ calls \in [Callers -> Tasks] /\ speech \in Seq(Items)
  BY DEF Callers, RuntimeTypeOK
<1>1. CASE SpeechActs
  BY <1>1, SpeechActsMove DEF SilentTurn
<1>2. CASE Rejoin
  <2>1. calls'[Voice] = Idle /\ Len(speech') <= 1
    BY <1>0, <1>2 DEF Rejoin, Opening
  <2> QED
    BY <2>1, IdleType DEF SilentTurn
<1>3. CASE SayReply
  <2>1. calls'[Voice] = Idle /\ speech = <<>>
    BY <1>0, <1>3 DEF SayReply, SilentTurn
  <2>2. Len(speech') <= 1
    BY <1>3, <2>1 DEF SayReply
  <2> QED
    BY <2>1, <2>2, IdleType DEF SilentTurn
<1>4. CASE HearLine \/ \E command \in {"retry", "continue"} : HearDecision(command)
  <2>1. \/ speech = <<>> /\ speech' = speech
        \/ speech # <<>> /\ speech' = Tail(speech)
    BY <1>4 DEF HearLine, HearDecision, TurnCompleted, Leaves
  <2>2. speech' = <<>>
    BY <1>0, <2>1 DEF SilentTurn
  <2> QED
    BY <2>2 DEF SilentTurn
<1>5. CASE Uploaded \/ Service(Voice) \/ Fails(Voice) \/ LosesAnswer(Voice)
  <2>1. speech' = speech /\ calls[Voice].phase # "idle"
    BY <1>5 DEF Uploaded, Service, Serve, Answered, Fails, LosesAnswer, Broken, Handle
  <2> QED
    BY <2>1 DEF SilentTurn
<1>6. CASE ~VoiceActs /\ ~SpeechActs /\ ~Rejoin
  <2>1. calls'[Voice] = calls[Voice]
    BY <1>6, OthersLeaveVoice DEF VoiceActs
  <2>2. ASSUME NEW c \in Callers, Service(c) \/ Fails(c) \/ LosesAnswer(c)
        PROVE  speech' = speech
    BY <2>2 DEF Service, Serve, Answered, Fails, LosesAnswer, Broken, Handle
  <2>3. speech' = speech
    BY <1>6, <2>2 DEF RuntimeNext, runtimeVars, VoiceActs, SpeechActs, StartSpeaking, StopSpeaking
  <2> QED
    BY <2>1, <2>3 DEF SilentTurn
<1> QED
  BY <1>1, <1>2, <1>3, <1>4, <1>5, <1>6 DEF VoiceActs

\* A speech that closes the room of a completed session is the closing line.
LEMMA LastSpeechCloses ==
    ASSUME SilentTurn, FarewellNext, SpeechActs, view.state = "completed",
           room = "open", room' = "closed"
    PROVE  farewell' # "due"
<1>1. speech # <<>>
  BY DEF SpeechActs, SpeechEnds, Interrupted, Resumed, HearNothing, TurnCompleted, Silent
<1>2. calls[Voice].phase # "speak"
  BY <1>1 DEF SilentTurn
<1>3. farewell # "due" \/ Head(speech).closing
  BY <1>2 DEF FarewellNext
<1> QED
  BY <1>1, <1>3 DEF SpeechActs, SpeechEnds, Interrupted, Resumed, HearNothing, TurnCompleted, Leaves

LEMMA RejoinNeedsNoFarewell ==
    ASSUME IInv, Rejoin, view'.state = "completed"
    PROVE  farewell' # "due"
<1>1. record.state = "completed"
  BY ViewType DEF Rejoin, IInv, TypeOK
<1>2. ~InProgress(record)
  BY <1>1 DEF IInv, FieldsAgree, Active
<1> QED
  BY <1>2 DEF Rejoin

LEMMA FarewellStaysNext ==
    ASSUME IInv, RuntimeTypeOK, Roles, FarewellDue, SilentTurn, FarewellNext, Commands = {},
           [RuntimeNext]_runtimeVars
    PROVE  FarewellNext'
<1>0. /\ Voice \in Callers /\ Voice \notin Prompts /\ calls \in [Callers -> Tasks]
      /\ calls[Voice] \in Tasks /\ speech \in Seq(Items)
  BY RuntimeAssumption DEF Callers, RuntimeTypeOK
<1>1. SUFFICES ASSUME view'.state = "completed", farewell' = "due"
               PROVE  \/ calls'[Voice].phase = "speak" /\ pending' = "closing"
                      \/ speech' # <<>> /\ Head(speech').closing
  BY DEF FarewellNext
<1>2. view.state = "completed" /\ farewell = "due" /\ calls[Voice].phase # "idle" =>
         calls[Voice].phase = "speak" /\ pending = "closing" /\ speech = <<>>
  BY DEF SilentTurn, FarewellNext
<1>3. CASE Rejoin
  BY <1>1, <1>3, RejoinNeedsNoFarewell
<1>4. CASE SpeechActs
  <2>1. /\ view.state = "completed" /\ pending' = pending /\ calls'[Voice] = calls[Voice]
        /\ \/ Resumed \/ UNCHANGED <<speech, farewell>>
           \/ speech # <<>> /\ ~Head(speech).closing /\ farewell' = farewell
    BY <1>1, <1>4, SpeechActsMove
  <2>2. CASE Resumed
    <3>1. /\ farewell = "due" /\ speech # <<>>
          /\ speech' = [speech EXCEPT ![1].paused = FALSE]
      BY <1>1, <2>2 DEF Resumed
    <3>2. Head(speech).closing
      BY <2>1, <3>1 DEF FarewellNext, SilentTurn
    <3>3. Head(speech) = speech[1] /\ 1 \in DOMAIN speech /\ speech[1] \in Items
      BY <1>0, <3>1
    <3>4. speech'[1].closing = speech[1].closing /\ speech' # <<>> /\ Head(speech') = speech'[1]
      BY <1>0, <3>1, <3>3 DEF Items
    <3> QED
      BY <3>2, <3>3, <3>4
  <2>3. CASE UNCHANGED <<speech, farewell>>
    BY <1>1, <2>1, <2>3 DEF FarewellNext
  <2>4. CASE speech # <<>> /\ ~Head(speech).closing /\ farewell' = farewell
    BY <1>1, <2>1, <2>4 DEF FarewellNext, SilentTurn
  <2> QED
    BY <2>1, <2>2, <2>3, <2>4
<1>5. CASE HearLine \/ \E command \in {"retry", "continue"} : HearDecision(command)
  <2>1. view' = view /\ view.state # "completed"
    BY <1>5 DEF HearLine, HearDecision, TurnCompleted, Terminal
  <2> QED
    BY <1>1, <2>1
<1>6. CASE Uploaded \/ Serve(Voice)
  <2>1. view' = view /\ farewell' = farewell /\ calls[Voice].phase \in {"uploading", "sent"}
    BY <1>6 DEF Uploaded, Serve
  <2> QED
    BY <1>1, <1>2, <2>1
<1>7. CASE SayReply
  <2>1. view' = view /\ farewell' = farewell /\ calls[Voice].phase = "speak"
    BY <1>7 DEF SayReply
  <2>2. pending = "closing" /\ speech = <<>>
    BY <1>1, <1>2, <2>1
  <2>3. speech' = <<Item(Voice, "closing", FALSE)>>
    BY <1>7, <2>2 DEF SayReply
  <2>4. Item(Voice, "closing", FALSE).closing
    BY DEF Item
  <2>5. Head(speech') = Item(Voice, "closing", FALSE) /\ speech' # <<>>
    BY <2>3
  <2> QED
    BY <2>4, <2>5
<1>8. CASE Fails(Voice) \/ LosesAnswer(Voice)
  <2>1. view' = view /\ farewell' = farewell /\ calls[Voice].phase \in {"sent", "served"}
    BY <1>8, FailureType DEF Fails, LosesAnswer, Broken, Handle
  <2> QED
    BY <1>1, <1>2, <2>1
<1>9. CASE Answered(Voice)
  <2> DEFINE reply == calls[Voice].reply
  <2>1. /\ view' = (IF reply.ok THEN reply.view ELSE view)
        /\ Follow(Voice, reply.spoken)
        /\ farewell' = farewell /\ calls[Voice].phase = "served"
    BY <1>9 DEF Answered, Handle
  <2>2. reply.ok /\ reply.view.state = "completed"
    BY <1>1, <1>2, <2>1
  <2>3. reply.spoken = "closing"
    BY <1>0, <2>2 DEF FarewellDue, Due
  <2>4. pending' = "closing" /\ calls'[Voice] = [Idle EXCEPT !.phase = "speak"]
    BY <1>0, <2>1, <2>3 DEF Follow
  <2>5. calls'[Voice].phase = "speak"
    BY <2>4, IdleType DEF Tasks
  <2> QED
    BY <2>4, <2>5
<1>10. CASE ~VoiceActs /\ ~SpeechActs /\ ~Rejoin
  <2>1. /\ UNCHANGED <<pending, speech, room, farewell>>
        /\ calls'[Voice] = calls[Voice]
        /\ view' = view \/ view'.state = "user_prompt_visible"
    BY <1>10, PromptsAreSilent
  <2> QED
    BY <1>1, <2>1 DEF FarewellNext
<1> QED
  BY <1>3, <1>4, <1>5, <1>6, <1>7, <1>8, <1>9, <1>10 DEF VoiceActs, Service

LEMMA ClosedStaysAfterFarewell ==
    ASSUME IInv, RuntimeTypeOK, Roles, FarewellDue, SilentTurn, FarewellNext, ClosedAfterFarewell,
           Commands = {}, [RuntimeNext]_runtimeVars
    PROVE  ClosedAfterFarewell'
<1>1. SUFFICES ASSUME room' = "closed", view'.state = "completed"
               PROVE  farewell' # "due"
  BY DEF ClosedAfterFarewell
<1>2. CASE Rejoin
  BY <1>1, <1>2, RejoinNeedsNoFarewell
<1>3. CASE SpeechActs
  <2>1. view' = view /\ room = "open"
    BY <1>3 DEF SpeechActs, SpeechEnds, Interrupted, Resumed, HearNothing, TurnCompleted
  <2> QED
    BY <1>1, <1>3, <2>1, LastSpeechCloses
<1>4. CASE HearLine \/ \E command \in {"retry", "continue"} : HearDecision(command)
  <2>1. view' = view /\ view.state # "completed"
    BY <1>4 DEF HearLine, HearDecision, TurnCompleted, Terminal
  <2> QED
    BY <1>1, <2>1
<1>5. CASE Uploaded \/ SayReply \/ Service(Voice) \/ Fails(Voice) \/ LosesAnswer(Voice)
  <2>1. room' = room /\ farewell' = farewell /\ (room = "open" \/ view' = view)
    BY <1>5 DEF Uploaded, SayReply, Service, Serve, Answered, Fails, LosesAnswer, Broken, Handle
  <2> QED
    BY <1>1, <2>1 DEF ClosedAfterFarewell
<1>6. CASE ~VoiceActs /\ ~SpeechActs /\ ~Rejoin
  <2>1. /\ UNCHANGED <<pending, speech, room, farewell>>
        /\ view' = view \/ view'.state = "user_prompt_visible"
    BY <1>6, PromptsAreSilent
  <2> QED
    BY <1>1, <2>1 DEF ClosedAfterFarewell
<1> QED
  BY <1>2, <1>3, <1>4, <1>5, <1>6 DEF VoiceActs

LEMMA FarewellInvariant ==
    ASSUME Commands = {}
    PROVE  RuntimeSpec => []FarewellInv
<1>1. RuntimeInit /\ RuntimeIInv => FarewellInv
  <2> SUFFICES ASSUME RuntimeInit, RuntimeIInv
               PROVE  FarewellInv
    OBVIOUS
  <2>1. \A c \in Callers : calls[c] = Idle
    BY DEF RuntimeInit
  <2>2. Voice \in Callers /\ room = "open" /\ view.state = "assistant_speaking"
    BY ViewType DEF Callers, RuntimeInit, NewRecord, RuntimeIInv, IInv, TypeOK
  <2>3. Len(speech) <= 1
    BY DEF RuntimeInit, Opening
  <2> QED
    BY <2>1, <2>2, <2>3, IdleType DEF FarewellInv, FarewellDue, Due, SilentTurn, FarewellNext,
       ClosedAfterFarewell
<1>2. RuntimeIInv /\ RuntimeIInv' /\ FarewellInv /\ [RuntimeNext]_runtimeVars => FarewellInv'
  <2> SUFFICES ASSUME RuntimeIInv, RuntimeIInv', FarewellInv, [RuntimeNext]_runtimeVars
               PROVE  FarewellInv'
    OBVIOUS
  <2>0. /\ IInv /\ IInv' /\ RuntimeTypeOK /\ Roles
        /\ FarewellDue /\ SilentTurn /\ FarewellNext /\ ClosedAfterFarewell
    BY DEF RuntimeIInv, FarewellInv
  <2>1. FarewellDue'
    <3>1. Due(Voice, calls'[Voice])
      BY <2>0, VoiceStaysDue
    <3>2. \A p \in Prompts : Due(p, calls'[p])
      BY <2>0, PromptStaysDue
    <3>3. \A c \in Callers : Due(c, calls'[c])
      BY <3>1, <3>2 DEF Callers
    <3> QED
      BY <3>3 DEF FarewellDue
  <2>2. SilentTurn'
    BY <2>0, TurnsAreSilent
  <2>3. FarewellNext'
    BY <2>0, FarewellStaysNext
  <2>4. ClosedAfterFarewell'
    BY <2>0, ClosedStaysAfterFarewell
  <2> QED
    BY <2>1, <2>2, <2>3, <2>4 DEF FarewellInv
<1> QED
  BY <1>1, <1>2, RuntimeInvariant, PTL DEF RuntimeSpec

\* On a page without buttons the room of a completed session is closed only once
\* its closing line has been said, or the learner has talked over it, however
\* prompts, turns and interruptions overlap and whatever fails.
THEOREM FarewellIsSaid ==
    ASSUME Commands = {}
    PROVE  RuntimeSpec => []ClosingLineSaid
<1>1. RuntimeIInv /\ FarewellInv => ClosingLineSaid
  <2> SUFFICES ASSUME RuntimeIInv, FarewellInv, room = "closed", record.status = "completed"
               PROVE  farewell # "due"
    BY DEF ClosingLineSaid
  <2>1. record.state = "completed"
    BY DEF RuntimeIInv, IInv, FieldsAgree, InProgress
  <2>2. view.state = record.state
    BY DEF RuntimeIInv, ClosedOnlyAtEnd
  <2> QED
    BY <2>1, <2>2 DEF FarewellInv, ClosedAfterFarewell
<1> QED
  BY <1>1, RuntimeInvariant, FarewellInvariant, PTL
=============================================================================
