-------------------------- MODULE GuidedSessionProofs --------------------------
(***************************************************************************)
(* Proofs about GuidedSession for any threads, keys, attempt ids, bounds   *)
(* and lengths of a scenario.  What a thread read is worth something only  *)
(* while the revision has not moved; the invariant says what a thread has  *)
(* in hand then, and how the row, the replay table, the kept audio and the *)
(* jobs fit together.                                                      *)
(***************************************************************************)
EXTENDS GuidedSession, FiniteSetTheorems, SequenceTheorems, TLAPS

-----------------------------------------------------------------------------
(***************************************************************************)
(* One record: what the calls make of it.                                  *)
(***************************************************************************)
LEMMA RetryNumberType ==
    ASSUME NEW r \in Records, NEW turn
    PROVE  /\ r.attempts \in Seq(Attempts) /\ Len(r.attempts) \in Nat
           /\ DOMAIN r.attempts = 1 .. Len(r.attempts)
           /\ IsFiniteSet(AttemptsAt(r, turn)) /\ Cardinality(AttemptsAt(r, turn)) \in Nat
<1>1. /\ r.attempts \in Seq(Attempts) /\ Len(r.attempts) \in Nat
      /\ DOMAIN r.attempts = 1 .. Len(r.attempts)
  BY DEF Records
<1>2. IsFiniteSet(1 .. Len(r.attempts))
  <2>1. 1 \in Int /\ Len(r.attempts) \in Int
    BY <1>1
  <2> QED
    BY ONLY <2>1, FS_Interval
<1>3. IsFiniteSet(AttemptsAt(r, turn))
  BY <1>1, <1>2, FS_Subset DEF AttemptsAt
<1> QED
  BY <1>1, <1>3, FS_CardinalityType

\* No line after the current one was read, the line that can be read has had at
\* most two retries, and a stopped session is in the stopped state.
AheadUnread(r)    == \A turn \in Turns : turn > r.turn => AttemptsAt(r, turn) = {}
RetriesLeft(r)    == InProgress(r) => RetryNumber(r) <= MaxRetries
StoppedForGood(r) == r.status = "stopped" => r.state = "stopped"
RecordKept(r)     == AheadUnread(r) /\ RetriesLeft(r) /\ StoppedForGood(r)

\* The attempts after one more was added: the new one comes last, and of the
\* others only the selection may change.
AddsOne(r, queued, attempts) ==
    /\ attempts \in Seq(Attempts)
    /\ Len(attempts) = Len(r.attempts) + 1
    /\ attempts[Len(r.attempts) + 1] =
          [turn          |-> r.turn,
           selected      |-> TRUE,
           retry         |-> RetryNumber(r),
           pronunciation |-> IF queued THEN "queued" ELSE "not_requested"]
    /\ \A i \in 1 .. Len(r.attempts) :
          /\ attempts[i].turn = r.attempts[i].turn
          /\ attempts[i].retry = r.attempts[i].retry
          /\ attempts[i].pronunciation = r.attempts[i].pronunciation

LEMMA AttemptIsAdded ==
    ASSUME NEW r \in Records, NEW queued \in BOOLEAN, RetryNumber(r) \in 0 .. MaxRetries
    PROVE  AddsOne(r, queued, AddAttempt(r, queued))
<1> DEFINE len == Len(r.attempts)
           new == [turn          |-> r.turn,
                   selected      |-> TRUE,
                   retry         |-> RetryNumber(r),
                   pronunciation |-> IF queued THEN "queued" ELSE "not_requested"]
           kept == [i \in DOMAIN r.attempts |->
                      [r.attempts[i] EXCEPT !.selected = @ /\ r.attempts[i].turn # r.turn]]
<1>1. /\ r.attempts \in Seq(Attempts) /\ len \in Nat /\ DOMAIN r.attempts = 1 .. len
      /\ r.turn \in Turns
  BY RetryNumberType DEF Records
<1>2. new \in Attempts
  BY <1>1 DEF Attempts, PronunciationStatuses
<1>3. \A i \in 1 .. len :
         LET one == [r.attempts[i] EXCEPT !.selected = @ /\ r.attempts[i].turn # r.turn] IN
         /\ one \in Attempts
         /\ one.turn = r.attempts[i].turn /\ one.retry = r.attempts[i].retry
         /\ one.pronunciation = r.attempts[i].pronunciation
  <2> TAKE i \in 1 .. len
  <2>1. r.attempts[i] \in Attempts
    BY <1>1
  <2>2. (r.attempts[i].selected /\ r.attempts[i].turn # r.turn) \in BOOLEAN
    OBVIOUS
  <2> QED
    BY <2>1, <2>2 DEF Attempts
<1>4. /\ kept \in Seq(Attempts) /\ Len(kept) = len
      /\ \A i \in 1 .. len :
            /\ kept[i].turn = r.attempts[i].turn
            /\ kept[i].retry = r.attempts[i].retry
            /\ kept[i].pronunciation = r.attempts[i].pronunciation
  <2>1. kept \in [1 .. len -> Attempts]
    BY <1>1, <1>3
  <2>2. kept \in Seq(Attempts) /\ Len(kept) = len
    <3> HIDE DEF kept
    <3> QED
      BY <1>1, <2>1
  <2> QED
    BY <1>1, <1>3, <2>2
<1>5. AddAttempt(r, queued) = Append(kept, new)
  BY DEF AddAttempt
<1> HIDE DEF kept, new
<1>6. /\ Append(kept, new) \in Seq(Attempts) /\ Len(Append(kept, new)) = len + 1
      /\ \A i \in 1 .. len : Append(kept, new)[i] = kept[i]
      /\ Append(kept, new)[len + 1] = new
  BY <1>1, <1>2, <1>4, AppendProperties
<1> QED
  BY <1>4, <1>5, <1>6 DEF AddsOne, new

LEMMA AttemptsAtAfter ==
    ASSUME NEW r \in Records, NEW queued, NEW added, AddsOne(r, queued, added),
           NEW n, n.attempts = added, NEW turn
    PROVE  AttemptsAt(n, turn) =
              IF turn = r.turn THEN AttemptsAt(r, turn) \cup {Len(r.attempts) + 1}
              ELSE AttemptsAt(r, turn)
<1> DEFINE len == Len(r.attempts)
<1>1. len \in Nat /\ DOMAIN r.attempts = 1 .. len /\ DOMAIN n.attempts = 1 .. (len + 1)
  BY RetryNumberType DEF AddsOne
<1>2. 1 .. (len + 1) = (1 .. len) \cup {len + 1}
  BY <1>1
<1>3. \A i \in 1 .. len : n.attempts[i].turn = r.attempts[i].turn
  BY DEF AddsOne
<1>4. n.attempts[len + 1].turn = r.turn
  BY DEF AddsOne
<1> HIDE DEF len
<1> QED
  BY <1>1, <1>2, <1>3, <1>4 DEF AttemptsAt, len

\* The fields of a record are all there is.
LEMMA RecordFields ==
    ASSUME NEW r \in Records
    PROVE  r = [status |-> r.status, state |-> r.state, pausedFrom |-> r.pausedFrom,
                turn |-> r.turn, attempts |-> r.attempts]
BY DEF Records

\* An attempt adds one at the current line and keeps the record as it should be.
LEMMA AfterAttemptIsKept ==
    ASSUME NEW r \in Records, MaySpeak(r), RecordKept(r), NEW unclear \in BOOLEAN,
           NEW queued \in BOOLEAN
    PROVE  LET n == AfterAttempt(r, unclear, queued) IN
           /\ n \in Records /\ RecordKept(n)
           /\ AddsOne(r, queued, n.attempts)
<1> DEFINE n     == AfterAttempt(r, unclear, queued)
           added == AddAttempt(r, queued)
           heard == [r EXCEPT !.attempts = added]
<1>1. RetryNumber(r) \in 0 .. MaxRetries
  BY RetryNumberType DEF MaySpeak, RecordKept, RetriesLeft, RetryNumber, MaxRetries
<1>2. AddsOne(r, queued, added)
  BY <1>1, AttemptIsAdded
<1>3. heard = [status |-> r.status, state |-> r.state, pausedFrom |-> r.pausedFrom,
               turn |-> r.turn, attempts |-> added]
  BY RecordFields
<1>4. /\ r.status = "in_progress" /\ r.turn \in 1 .. NumTurns /\ NumTurns \in Nat
      /\ r.pausedFrom \in Active \cup {"none"}
  BY NumTurnsAssumption DEF MaySpeak, InProgress, Records, Turns
<1>5. added \in Seq(Attempts)
  BY <1>2 DEF AddsOne
<1>6. \A turn \in Turns : turn > r.turn => turn # r.turn /\ AttemptsAt(r, turn) = {}
  BY <1>4 DEF RecordKept, AheadUnread, Turns
<1> HIDE DEF heard, added
<1>7. CASE RetryRecommended(r, unclear)
  <2>1. n = [status |-> r.status, state |-> "awaiting_retry_decision",
             pausedFrom |-> r.pausedFrom, turn |-> r.turn, attempts |-> added]
    BY <1>3, <1>7 DEF AfterAttempt, heard, added
  <2> HIDE DEF n
  <2>2. n \in Records
    BY <1>4, <1>5, <2>1 DEF Records, Statuses, States, Active, Turns
  <2>3. \A turn : AttemptsAt(n, turn) = IF turn = r.turn
                                        THEN AttemptsAt(r, turn) \cup {Len(r.attempts) + 1}
                                        ELSE AttemptsAt(r, turn)
    <3>1. n.attempts = added
      BY <2>1
    <3> QED
      BY <1>2, <3>1, AttemptsAtAfter
  <2>4. RetryNumber(n) = RetryNumber(r) + 1
    <3>1. Len(r.attempts) + 1 \notin AttemptsAt(r, r.turn)
      <4>1. DOMAIN r.attempts = 1 .. Len(r.attempts) /\ Len(r.attempts) \in Nat
        BY RetryNumberType
      <4>2. Len(r.attempts) + 1 \notin DOMAIN r.attempts
        BY <4>1
      <4> QED
        BY <4>2 DEF AttemptsAt
    <3>2. IsFiniteSet(AttemptsAt(r, r.turn))
      BY RetryNumberType
    <3> QED
      BY <2>1, <2>3, <3>1, <3>2, FS_AddElement DEF RetryNumber
  <2>5. RetryNumber(n) <= MaxRetries
    BY <1>1, <1>7, <2>4 DEF RetryRecommended, MaxRetries
  <2>6. AheadUnread(n)
    BY <1>6, <2>1, <2>3 DEF AheadUnread
  <2>7. RecordKept(n)
    BY <1>4, <2>1, <2>5, <2>6 DEF RecordKept, RetriesLeft, StoppedForGood
  <2> QED
    BY <1>2, <2>1, <2>2, <2>7 DEF n
<1>8. CASE ~RetryRecommended(r, unclear) /\ r.turn = NumTurns
  <2>1. n = [status |-> "completed", state |-> "completed", pausedFrom |-> "none",
             turn |-> r.turn, attempts |-> added]
    BY <1>3, <1>8 DEF AfterAttempt, FinishTurn, heard, added
  <2> HIDE DEF n
  <2>2. n \in Records
    BY <1>4, <1>5, <2>1 DEF Records, Statuses, States, Active, Turns
  <2>3. RecordKept(n)
    BY <1>4, <1>8, <2>1 DEF RecordKept, AheadUnread, RetriesLeft, StoppedForGood, InProgress, Turns
  <2> QED
    BY <1>2, <2>1, <2>2, <2>3 DEF n
<1>9. CASE ~RetryRecommended(r, unclear) /\ r.turn # NumTurns
  <2>1. n = [status |-> r.status, state |-> "assistant_speaking",
             pausedFrom |-> r.pausedFrom, turn |-> r.turn + 1, attempts |-> added]
    BY <1>3, <1>9 DEF AfterAttempt, FinishTurn, heard, added
  <2> HIDE DEF n
  <2>2. n \in Records
    BY <1>4, <1>5, <1>9, <2>1 DEF Records, Statuses, States, Active, Turns
  <2>3. \A turn \in Turns : turn > r.turn => AttemptsAt(n, turn) = {}
    <3>1. ASSUME NEW turn, turn # r.turn PROVE AttemptsAt(n, turn) = AttemptsAt(r, turn)
      <4>1. n.attempts = added
        BY <2>1
      <4> QED
        BY <1>2, <3>1, <4>1, AttemptsAtAfter
    <3> QED
      BY <1>6, <3>1
  <2>4. RetryNumber(n) = 0
    <3>1. r.turn + 1 \in Turns /\ r.turn + 1 > r.turn
      BY <1>4, <1>9 DEF Turns
    <3> QED
      BY <2>1, <2>3, <3>1, FS_EmptySet DEF RetryNumber
  <2>5. RecordKept(n)
    BY <1>4, <2>1, <2>3, <2>4
       DEF RecordKept, AheadUnread, RetriesLeft, StoppedForGood, MaxRetries, Turns
  <2> QED
    BY <1>2, <2>1, <2>2, <2>5 DEF n
<1> QED
  BY <1>7, <1>8, <1>9

\* A control leaves the attempts alone, and only a stop stops the session.
LEMMA AfterControlIsKept ==
    ASSUME NEW r \in Records, RecordKept(r), NEW op \in Controls, MayControl(r, op)
    PROVE  LET n == AfterControl(r, op) IN
           /\ n \in Records /\ RecordKept(n) /\ n.attempts = r.attempts
           /\ op = "stop" => n.status = "stopped"
           /\ r.status # "stopped"
<1> DEFINE n == AfterControl(r, op)
<1>1. /\ r.status \in Statuses /\ r.state \in States /\ r.pausedFrom \in Active \cup {"none"}
      /\ r.turn \in 1 .. NumTurns /\ r.attempts \in Seq(Attempts) /\ NumTurns \in Nat
  BY NumTurnsAssumption DEF Records, Turns
<1>2. r.status # "stopped"
  BY <1>1 DEF MayControl, MayContinue, MayPause, InProgress, Controls, RecordKept, StoppedForGood
<1>3. ASSUME NEW status \in Statuses, NEW state \in States, NEW from \in Active \cup {"none"},
             n = [status |-> status, state |-> state, pausedFrom |-> from, turn |-> r.turn,
                  attempts |-> r.attempts],
             status = "in_progress" => r.status = "in_progress",
             status = "stopped" => state = "stopped"
      PROVE  n \in Records /\ RecordKept(n) /\ n.attempts = r.attempts
  <2> HIDE DEF n
  <2>1. n \in Records
    BY <1>1, <1>3 DEF Records, Turns
  <2>2. \A turn : AttemptsAt(n, turn) = AttemptsAt(r, turn)
    BY <1>3 DEF AttemptsAt
  <2>3. RetryNumber(n) = RetryNumber(r)
    BY <1>3, <2>2 DEF RetryNumber
  <2> QED
    BY <1>3, <2>1, <2>2, <2>3 DEF RecordKept, AheadUnread, RetriesLeft, StoppedForGood, InProgress
<1>4. r = [status |-> r.status, state |-> r.state, pausedFrom |-> r.pausedFrom,
           turn |-> r.turn, attempts |-> r.attempts]
  BY RecordFields
<1>5. "user_prompt_visible" \in States /\ "paused" \in States /\ "stopped" \in States
      /\ "completed" \in States /\ Active \subseteq States
      /\ "completed" \in Statuses /\ "stopped" \in Statuses
  BY DEF States, Active, Statuses
<1>6. CASE op = "prompt_ready" \/ op = "retry"
  <2>1. n = [status |-> r.status, state |-> "user_prompt_visible", pausedFrom |-> r.pausedFrom,
             turn |-> r.turn, attempts |-> r.attempts]
    BY <1>4, <1>6 DEF AfterControl
  <2> QED
    BY <1>1, <1>2, <1>3, <1>5, <1>6, <2>1
<1>7. CASE op = "pause"
  <2>1. n = [status |-> r.status, state |-> "paused", pausedFrom |-> r.state,
             turn |-> r.turn, attempts |-> r.attempts] /\ r.state \in Active
    BY <1>4, <1>7 DEF AfterControl, Pause, MayControl, MayPause
  <2> QED
    BY <1>1, <1>2, <1>3, <1>5, <1>7, <2>1
<1>8. CASE op = "resume"
  <2>1. PICK state \in Active :
            n = [status |-> r.status, state |-> state, pausedFrom |-> "none",
                 turn |-> r.turn, attempts |-> r.attempts]
    <3>1. CASE r.pausedFrom \in Active
      BY <1>4, <1>8, <3>1 DEF AfterControl, Resume
    <3>2. CASE r.pausedFrom \notin Active
      <4>1. "user_prompt_visible" \in Active
        BY DEF Active
      <4> QED
        BY <1>4, <1>8, <3>2, <4>1 DEF AfterControl, Resume
    <3> QED
      BY <3>1, <3>2
  <2> QED
    BY <1>1, <1>2, <1>3, <1>5, <1>8, <2>1
<1>9. CASE op = "stop"
  <2>1. n = [status |-> "stopped", state |-> "stopped", pausedFrom |-> "none",
             turn |-> r.turn, attempts |-> r.attempts]
    BY <1>4, <1>9 DEF AfterControl, Stop
  <2> QED
    BY <1>1, <1>2, <1>3, <1>5, <1>9, <2>1
<1>10. CASE op = "continue" /\ r.turn = NumTurns
  <2>1. n = [status |-> "completed", state |-> "completed", pausedFrom |-> "none",
             turn |-> r.turn, attempts |-> r.attempts]
    BY <1>4, <1>10 DEF AfterControl, FinishTurn
  <2> QED
    BY <1>1, <1>2, <1>3, <1>5, <1>10, <2>1
<1>11. CASE op = "continue" /\ r.turn # NumTurns
  <2>1. n = [status |-> r.status, state |-> "assistant_speaking", pausedFrom |-> r.pausedFrom,
             turn |-> r.turn + 1, attempts |-> r.attempts]
    BY <1>4, <1>11 DEF AfterControl, FinishTurn
  <2> HIDE DEF n
  <2>2. r.turn + 1 \in Turns /\ r.turn + 1 > r.turn
    BY <1>1, <1>11 DEF Turns
  <2>3. n \in Records
    BY <1>1, <2>1, <2>2 DEF Records, States, Active
  <2>4. \A turn : AttemptsAt(n, turn) = AttemptsAt(r, turn)
    BY <2>1 DEF AttemptsAt
  <2>5. RetryNumber(n) = 0
    BY <2>1, <2>2, <2>4, FS_EmptySet DEF RetryNumber, RecordKept, AheadUnread
  <2>6. \A turn \in Turns : turn > r.turn + 1 => turn > r.turn
    BY <1>1 DEF Turns
  <2>7. RecordKept(n)
    BY <1>2, <2>1, <2>4, <2>5, <2>6
       DEF RecordKept, AheadUnread, RetriesLeft, StoppedForGood, MaxRetries
  <2> QED
    BY <1>2, <1>11, <2>1, <2>3, <2>7 DEF n
<1> QED
  BY <1>6, <1>7, <1>8, <1>9, <1>10, <1>11 DEF Controls

\* A pronunciation result changes one status and nothing else.
LEMMA AfterPronunciationIsKept ==
    ASSUME NEW r \in Records, RecordKept(r), NEW i \in DOMAIN r.attempts,
           NEW status \in {"completed", "failed"}
    PROVE  LET n == AfterPronunciation(r, i, status) IN
           /\ n \in Records /\ RecordKept(n)
           /\ n.status = r.status
           /\ Len(n.attempts) = Len(r.attempts)
           /\ \A j \in 1 .. Len(r.attempts) :
                 /\ n.attempts[j].retry = r.attempts[j].retry
                 /\ n.attempts[j].pronunciation =
                       IF j = i THEN status ELSE r.attempts[j].pronunciation
<1> DEFINE new == [r.attempts EXCEPT ![i].pronunciation = status]
           n   == AfterPronunciation(r, i, status)
<1>1. /\ r.attempts \in Seq(Attempts) /\ Len(r.attempts) \in Nat
      /\ DOMAIN r.attempts = 1 .. Len(r.attempts)
  BY RetryNumberType
<1>2. n = [status |-> r.status, state |-> r.state, pausedFrom |-> r.pausedFrom,
           turn |-> r.turn, attempts |-> new]
  BY RecordFields DEF AfterPronunciation
<1>3. \A j \in DOMAIN r.attempts :
         /\ new[j] \in Attempts
         /\ new[j].turn = r.attempts[j].turn
         /\ new[j].retry = r.attempts[j].retry
         /\ new[j].pronunciation = IF j = i THEN status ELSE r.attempts[j].pronunciation
  <2> TAKE j \in DOMAIN r.attempts
  <2>1. r.attempts[j] \in Attempts
    BY <1>1
  <2>2. new[j] = IF j = i THEN [r.attempts[j] EXCEPT !.pronunciation = status]
                 ELSE r.attempts[j]
    OBVIOUS
  <2> HIDE DEF new
  <2> QED
    BY <2>1, <2>2 DEF Attempts, PronunciationStatuses
<1>4. DOMAIN new = DOMAIN r.attempts
  OBVIOUS
<1>5. new \in [1 .. Len(r.attempts) -> Attempts]
  BY <1>1, <1>3
<1> HIDE DEF new, n
<1>6. new \in Seq(Attempts) /\ Len(new) = Len(r.attempts)
  BY <1>1, <1>5
<1>7. n \in Records
  BY <1>2, <1>6 DEF Records
<1>8. \A turn : AttemptsAt(n, turn) = AttemptsAt(r, turn)
  BY <1>2, <1>3, <1>4 DEF AttemptsAt
<1>9. RecordKept(n)
  BY <1>2, <1>8 DEF RecordKept, AheadUnread, RetriesLeft, StoppedForGood, InProgress, RetryNumber
<1> QED
  BY <1>1, <1>2, <1>3, <1>6, <1>7, <1>9 DEF n

-----------------------------------------------------------------------------
(***************************************************************************)
(* The invariant.  The stores agree, and while the revision has not moved  *)
(* since a thread read the row, what it is about to write follows from the *)
(* row as it is.                                                           *)
(***************************************************************************)
JobPoints     == {"job_read", "publish", "fail_read", "fail_save"}
AttemptPoints == {"replay", "audio", "probe", "commit"} \cup JobPoints
CarryPoints   == {"save", "audio", "probe", "commit", "fail_save"}
FailPoints    == {"publish", "fail_read", "fail_save"}

\* A key is always sent with its attempt_id, and an answer that announces an
\* evaluation means that there is audio.
ReplaysNamed ==
    \A i \in DOMAIN replays :
        /\ replays[i].attempt = AttemptOf[replays[i].key]
        /\ replays[i].answer.queued => replays[i].attempt \in audio

Kept == RecordKept(row.record) /\ TablesAgree /\ EvaluatedOnlyIfAsked /\ ReplaysNamed

\* The evaluation of attempt a was announced, and its audio is there.
Asked(a) ==
    /\ a \in audio
    /\ \E i \in DOMAIN replays : replays[i].attempt = a /\ replays[i].answer.queued

KnowsRequest(t) ==
    /\ request[t].op = "attempt" =>
          /\ request[t].key \in Keys
          /\ request[t].attempt = AttemptOf[request[t].key]
          /\ sent[request[t].key] # NoSubmission
    /\ request[t].op \in Results => request[t].attempt \in jobs
    /\ pc[t] \in AttemptPoints => request[t].op = "attempt"
    /\ pc[t] = "save" => request[t].op # "attempt"

ReadBefore(t) == pc[t] \in CarryPoints => work[t].rev <= revision

\* The line could be read when the row was.
SpeaksInTurn(t) ==
    pc[t] = "audio" =>
        /\ MaySpeak(work[t].next.record) /\ RecordKept(work[t].next.record)
        /\ work[t].rev = revision => work[t].next = row /\ Positions(request[t].attempt) = {}

\* The attempt that is to be committed is the present row's next one.
FollowsRow(t) ==
    /\ MaySpeak(row.record) /\ Positions(request[t].attempt) = {}
    /\ work[t].answer.retry = RetryNumber(row.record)
    /\ work[t].next =
         [record |-> AfterAttempt(row.record, sent[request[t].key].unclear,
                                  work[t].answer.queued),
          ids    |-> Append(row.ids, request[t].attempt)]

AttemptReady(t) ==
    pc[t] \in {"probe", "commit"} =>
        /\ work[t].answer.queued => request[t].attempt \in audio
        /\ work[t].rev = revision => FollowsRow(t)

\* What is to be saved is what the request does to the present row.
Evaluates(t, status) ==
    \E i \in Positions(request[t].attempt) :
        work[t].next = [row EXCEPT !.record = AfterPronunciation(row.record, i, status)]

FollowsControl(t) ==
    /\ request[t].op \in Controls /\ MayControl(row.record, request[t].op)
    /\ work[t].next = [row EXCEPT !.record = AfterControl(row.record, request[t].op)]

SaveReady(t) ==
    pc[t] = "save" /\ work[t].rev = revision =>
        \/ FollowsControl(t)
        \/ request[t].op = "confidence" /\ work[t].next = row
        \/ request[t].op \in Results /\ Evaluates(t, request[t].op)

FailureReady(t) ==
    /\ pc[t] \in FailPoints => Asked(request[t].attempt)
    /\ pc[t] = "fail_save" /\ work[t].rev = revision => Evaluates(t, "failed")

Carried(t) ==
    /\ KnowsRequest(t)
    /\ ReadBefore(t)
    /\ SpeaksInTurn(t)
    /\ AttemptReady(t)
    /\ SaveReady(t)
    /\ FailureReady(t)

IInv == TypeOK /\ Kept /\ \A t \in Threads : Carried(t)

-----------------------------------------------------------------------------
(***************************************************************************)
(* Types.                                                                  *)
(***************************************************************************)
LEMMA Defaults ==
    /\ NewRecord \in Records
    /\ NoAnswer \in Answers
    /\ NoWork \in Works
    /\ NoRequest \in Requests
    /\ Reply("none", NoAnswer) \in Replies
<1>1. NewRecord \in Records
  BY NumTurnsAssumption DEF NewRecord, Records, Statuses, States, Active, Turns
<1>2. NoAnswer \in Answers
  BY NumTurnsAssumption DEF NoAnswer, Answers, States, Turns, MaxRetries
<1>3. [record |-> NewRecord, ids |-> <<>>] \in Rows
  BY <1>1 DEF Rows
<1> QED
  BY <1>1, <1>2, <1>3 DEF NoWork, Works, NoRequest, Requests, Operations, Reply, Replies

LEMMA GotoType ==
    ASSUME TypeOK, NEW t \in Threads, NEW to \in Points, Goto(t, to), UNCHANGED db,
           work' \in [Threads -> Works]
    PROVE  TypeOK'
BY DEF TypeOK, Goto, db, outside, client

LEMMA FinishType ==
    ASSUME TypeOK, NEW t \in Threads, NEW status \in {"ok", "conflict", "error"},
           NEW answer \in Answers, NEW then \in Points, Finish(t, status, answer, then),
           row' \in Rows, revision' \in Nat, replays' \in Seq(Replays)
    PROVE  TypeOK'
<1>1. Reply(status, answer) \in Replies
  BY DEF Reply, Replies
<1> QED
  BY <1>1, Defaults DEF TypeOK, Finish, outside, client

LEMMA StoredAnswerType ==
    ASSUME TypeOK, NEW k, Stored(k)
    PROVE  StoredAnswer(k) \in Answers
<1> DEFINE i == CHOOSE j \in DOMAIN replays : replays[j].key = k
<1>1. i \in DOMAIN replays
  BY DEF Stored
<1>2. replays[i] \in Replays
  BY <1>1 DEF TypeOK
<1> QED
  BY <1>2 DEF StoredAnswer, Replays

\* The tables, as the steps below use them.
LEMMA TableFacts ==
    ASSUME TypeOK
    PROVE  /\ row \in Rows /\ row.record \in Records /\ row.ids \in Seq(AttemptIds)
           /\ row = [record |-> row.record, ids |-> row.ids]
           /\ Len(row.ids) \in Nat /\ DOMAIN row.ids = 1 .. Len(row.ids)
           /\ replays \in Seq(Replays) /\ Len(replays) \in Nat
           /\ DOMAIN replays = 1 .. Len(replays)
           /\ row.record.attempts \in Seq(Attempts) /\ Len(row.record.attempts) \in Nat
           /\ DOMAIN row.record.attempts = 1 .. Len(row.record.attempts)
BY RetryNumberType DEF TypeOK, Rows

-----------------------------------------------------------------------------
(***************************************************************************)
(* Steps that write nothing to the database.                               *)
(***************************************************************************)
LEMMA KeptWithoutWrites ==
    ASSUME Kept, UNCHANGED db, audio \subseteq audio',
           \A a \in jobs' : a \in jobs \/ Asked(a)
    PROVE  Kept'
<1>1. RecordKept(row.record)' /\ TablesAgree' /\ ReplaysNamed'
  BY DEF Kept, db, RecordKept, AheadUnread, RetriesLeft, StoppedForGood, AttemptsAt,
         RetryNumber, InProgress, TablesAgree, ReplaysNamed
<1>2. EvaluatedOnlyIfAsked'
  BY DEF Kept, db, EvaluatedOnlyIfAsked, Asked
<1> QED
  BY <1>1, <1>2 DEF Kept

\* A step of somebody else leaves what a thread carries as good as it was.
LEMMA OthersKeepCarried ==
    ASSUME TypeOK, NEW u \in Threads, Carried(u),
           pc'[u] = pc[u], request'[u] = request[u], work'[u] = work[u],
           \A k \in Keys : sent[k] # NoSubmission => sent'[k] = sent[k],
           audio \subseteq audio', jobs \subseteq jobs',
           UNCHANGED db \/ (revision' = revision + 1 /\ \A a : Asked(a) => Asked(a)')
    PROVE  Carried(u)'
<1>0. work[u].rev \in Nat /\ revision \in Nat
  BY DEF TypeOK, Works
<1>1. KnowsRequest(u)'
  BY DEF Carried, KnowsRequest
<1>2. ReadBefore(u)'
  BY <1>0 DEF Carried, ReadBefore, db
<1>3. \A a : Asked(a) => Asked(a)'
  BY DEF Asked, db
<1>4. CASE UNCHANGED db
  <2>1. SpeaksInTurn(u)'
    BY <1>4 DEF Carried, SpeaksInTurn, Positions, db, MaySpeak, InProgress, RecordKept, AheadUnread,
                RetriesLeft, StoppedForGood, RetryNumber, AttemptsAt
  <2>2. AttemptReady(u)'
    <3>1. pc[u] \in {"probe", "commit"} => sent'[request[u].key] = sent[request[u].key]
      BY DEF Carried, KnowsRequest, AttemptPoints
    <3> QED
      BY <1>4, <3>1 DEF Carried, AttemptReady, FollowsRow, Positions, db
  <2>3. SaveReady(u)'
    BY <1>4 DEF Carried, SaveReady, FollowsControl, Evaluates, Positions, db
  <2>4. FailureReady(u)'
    BY <1>3, <1>4 DEF Carried, FailureReady, Evaluates, Positions, db
  <2> QED
    BY <1>1, <1>2, <2>1, <2>2, <2>3, <2>4 DEF Carried
<1>5. CASE revision' = revision + 1
  <2>1. pc[u] \in CarryPoints => work'[u].rev # revision'
    BY <1>0, <1>5 DEF Carried, ReadBefore
  <2>2. {"audio", "save", "probe", "commit", "fail_save"} = CarryPoints
    BY DEF CarryPoints
  <2>3. SpeaksInTurn(u)'
    BY <2>1, <2>2 DEF Carried, SpeaksInTurn, MaySpeak, InProgress, RecordKept, AheadUnread,
                      RetriesLeft, StoppedForGood, RetryNumber, AttemptsAt
  <2>4. AttemptReady(u)' /\ SaveReady(u)'
    BY <2>1, <2>2 DEF Carried, AttemptReady, SaveReady
  <2>5. FailureReady(u)'
    BY <1>3, <2>1, <2>2 DEF Carried, FailureReady
  <2> QED
    BY <1>1, <1>2, <2>3, <2>4, <2>5 DEF Carried
<1> QED
  BY <1>4, <1>5

\* So a step of thread t needs only be looked at for t.
LEMMA ThreadStep ==
    ASSUME IInv, NEW t \in Threads, TypeOK', Kept', Carried(t)',
           \A u \in Threads \ {t} :
               pc'[u] = pc[u] /\ request'[u] = request[u] /\ work'[u] = work[u],
           \A k \in Keys : sent[k] # NoSubmission => sent'[k] = sent[k],
           audio \subseteq audio', jobs \subseteq jobs',
           UNCHANGED db \/ (revision' = revision + 1 /\ \A a : Asked(a) => Asked(a)')
    PROVE  IInv'
<1>1. ASSUME NEW u \in Threads, u # t PROVE Carried(u)'
  BY <1>1, OthersKeepCarried DEF IInv
<1> QED
  BY <1>1 DEF IInv

\* A thread at a point where it has read nothing yet carries nothing.
LEMMA NothingCarried ==
    ASSUME NEW u \in Threads, KnowsRequest(u)', pc'[u] \notin CarryPoints \cup FailPoints
    PROVE  Carried(u)'
<1>1. pc'[u] \notin {"audio", "probe", "commit", "save", "fail_save"}
  BY DEF CarryPoints
<1> QED
  BY <1>1 DEF Carried, ReadBefore, SpeaksInTurn, AttemptReady, SaveReady, FailureReady

\* The points a request can be left at.
LEMMA QuietPoints ==
    /\ {"idle", "job_read", "read", "replay"} \subseteq Points \ (CarryPoints \cup FailPoints)
    /\ "idle" \notin AttemptPoints /\ "read" \notin AttemptPoints /\ "save" \notin AttemptPoints
    /\ {"replay", "audio", "probe", "commit", "job_read", "publish", "fail_read", "fail_save"}
           = AttemptPoints
    /\ CarryPoints \cup FailPoints \cup AttemptPoints \subseteq Points
    /\ {"save", "audio", "probe", "commit"} \subseteq Points \ FailPoints
    /\ "job_read" \notin CarryPoints /\ FailPoints = {"publish", "fail_read", "fail_save"}
    /\ FailPoints \subseteq AttemptPoints
    /\ {"publish", "fail_read"} \cap CarryPoints = {}
BY DEF Points, CarryPoints, FailPoints, AttemptPoints, JobPoints

\* A request that is answered leaves nothing but its background task.
LEMMA AnsweredCarries ==
    ASSUME IInv, NEW t \in Threads, NEW status, NEW answer, NEW then \in {"idle", "job_read"},
           Finish(t, status, answer, then), then = "job_read" => request[t].op = "attempt"
    PROVE  /\ Carried(t)'
           /\ \A u \in Threads \ {t} :
                 pc'[u] = pc[u] /\ request'[u] = request[u] /\ work'[u] = work[u]
<1>1. pc'[t] = then /\ UNCHANGED <<request, sent, jobs>>
  BY DEF Finish, client, outside, IInv, TypeOK
<1>2. KnowsRequest(t)'
  BY <1>1, QuietPoints DEF IInv, Carried, KnowsRequest
<1>3. Carried(t)'
  BY <1>1, <1>2, NothingCarried, QuietPoints
<1> QED
  BY <1>3 DEF Finish, client, IInv, TypeOK

LEMMA FinishStep ==
    ASSUME IInv, NEW t \in Threads, NEW status \in {"ok", "conflict", "error"},
           NEW answer \in Answers, NEW then \in {"idle", "job_read"},
           Finish(t, status, answer, then), then = "job_read" => request[t].op = "attempt",
           UNCHANGED db
    PROVE  IInv'
<1>1. TypeOK'
  <2>1. row' \in Rows /\ revision' \in Nat /\ replays' \in Seq(Replays)
    BY DEF IInv, TypeOK, db
  <2> QED
    BY <2>1, FinishType, QuietPoints DEF IInv
<1>2. Kept'
  BY KeptWithoutWrites DEF IInv, Finish, outside
<1>3. /\ Carried(t)'
      /\ \A u \in Threads \ {t} :
            pc'[u] = pc[u] /\ request'[u] = request[u] /\ work'[u] = work[u]
  BY AnsweredCarries
<1> QED
  BY <1>1, <1>2, <1>3, ThreadStep DEF Finish, outside, client

\* A thread goes on to its next round trip.
LEMMA GotoStep ==
    ASSUME IInv, NEW t \in Threads, NEW to \in Points, Goto(t, to), UNCHANGED db,
           work' \in [Threads -> Works], \A u \in Threads \ {t} : work'[u] = work[u],
           to \in AttemptPoints => request[t].op = "attempt",
           to = "save" => request[t].op # "attempt",
           to \in FailPoints => Asked(request[t].attempt),
           to \in CarryPoints => work'[t].rev <= revision,
           to = "audio" => SpeaksInTurn(t)',
           to \in {"probe", "commit"} => AttemptReady(t)',
           to = "save" => SaveReady(t)',
           to = "fail_save" /\ work'[t].rev = revision => Evaluates(t, "failed")'
    PROVE  IInv'
<1>1. pc'[t] = to /\ UNCHANGED <<request, sent, jobs, audio, revision, replays>>
  BY DEF Goto, client, outside, IInv, TypeOK, db
<1>2. TypeOK' /\ Kept'
  BY GotoType, KeptWithoutWrites DEF IInv, Goto, outside
<1>3. Carried(t)'
  <2>1. KnowsRequest(t)'
    BY <1>1 DEF IInv, Carried, KnowsRequest
  <2>2. ReadBefore(t)'
    BY <1>1 DEF ReadBefore
  <2>3. SpeaksInTurn(t)' /\ AttemptReady(t)' /\ SaveReady(t)'
    BY <1>1 DEF SpeaksInTurn, AttemptReady, SaveReady
  <2>4. FailureReady(t)'
    BY <1>1 DEF FailureReady, Asked
  <2> QED
    BY <2>1, <2>2, <2>3, <2>4 DEF Carried
<1> QED
  BY <1>2, <1>3, ThreadStep DEF Goto, outside, client, IInv, TypeOK

LEMMA LookupReplayKeeps ==
    ASSUME IInv, NEW t \in Threads, LookupReplay(t)
    PROVE  IInv'
<1>1. request[t].op = "attempt"
  BY QuietPoints DEF LookupReplay, IInv, Carried, KnowsRequest
<1>2. CASE Stored(request[t].key) /\ Finish(t, "ok", StoredAnswer(request[t].key), "idle")
  BY <1>1, <1>2, FinishStep, StoredAnswerType DEF LookupReplay, IInv
<1>3. CASE Goto(t, "read") /\ UNCHANGED work
  BY <1>1, <1>3, GotoStep, QuietPoints DEF LookupReplay, IInv, TypeOK
<1> QED
  BY <1>2, <1>3 DEF LookupReplay

\* Reading the row leaves the thread with what it makes of the row as it is.
LEMMA ReadStep ==
    ASSUME IInv, NEW t \in Threads, NEW n \in Records, NEW to \in Points, GoSave(t, n, to)
    PROVE  /\ Goto(t, to) /\ UNCHANGED db
           /\ work' \in [Threads -> Works] /\ \A u \in Threads \ {t} : work'[u] = work[u]
           /\ work'[t].next = [row EXCEPT !.record = n]
           /\ work'[t].rev = revision /\ work'[t].rev <= revision
<1> DEFINE w == [work[t] EXCEPT !.next = [row EXCEPT !.record = n], !.rev = revision]
<1>1. revision \in Nat /\ work[t] \in Works /\ work \in [Threads -> Works]
  BY DEF IInv, TypeOK
<1>2. [row EXCEPT !.record = n] \in Rows
  BY TableFacts DEF IInv, Rows
<1>3. w \in Works /\ w.next = [row EXCEPT !.record = n] /\ w.rev = revision
  BY <1>1, <1>2 DEF Works
<1>4. work' = [work EXCEPT ![t] = w]
  BY <1>1 DEF GoSave
<1> HIDE DEF w
<1>5. work'[t] = w /\ (\A u \in Threads \ {t} : work'[u] = work[u])
  BY <1>1, <1>4
<1>6. work' \in [Threads -> Works]
  BY <1>1, <1>3, <1>4
<1>7. revision <= revision
  BY <1>1
<1> QED
  BY <1>3, <1>5, <1>6, <1>7 DEF GoSave

LEMMA ReadForControlKeeps ==
    ASSUME IInv, NEW t \in Threads, ReadForControl(t)
    PROVE  IInv'
<1> DEFINE op == request[t].op
           n  == AfterControl(row.record, op)
<1>1. op \in Controls /\ op # "attempt" /\ op \notin Results /\ op # "confidence"
  BY DEF ReadForControl, Controls, Results
<1>2. CASE MayControl(row.record, op) /\ GoSave(t, n, "save")
  <2>1. n \in Records
    BY <1>1, <1>2, AfterControlIsKept, TableFacts DEF IInv, Kept
  <2>2. /\ Goto(t, "save") /\ UNCHANGED db
        /\ work' \in [Threads -> Works] /\ \A u \in Threads \ {t} : work'[u] = work[u]
        /\ work'[t].next = [row EXCEPT !.record = n]
        /\ work'[t].rev = revision /\ work'[t].rev <= revision
    BY <1>2, <2>1, ReadStep, QuietPoints
  <2>3. SaveReady(t)'
    BY <1>1, <1>2, <2>2 DEF SaveReady, FollowsControl, Goto, client, db
  <2> QED
    BY <1>1, <2>2, <2>3, GotoStep, QuietPoints
<1>3. CASE UNCHANGED db /\ \E status \in {"ok", "conflict"} : Finish(t, status, NoAnswer, "idle")
  BY <1>3, FinishStep, Defaults
<1> QED
  BY <1>2, <1>3 DEF ReadForControl, Refuse

LEMMA ReadForConfidenceKeeps ==
    ASSUME IInv, NEW t \in Threads, ReadForConfidence(t)
    PROVE  IInv'
<1>1. row.record \in Records /\ [row EXCEPT !.record = row.record] = row
  BY TableFacts DEF IInv
<1>2. /\ Goto(t, "save") /\ UNCHANGED db
      /\ work' \in [Threads -> Works] /\ \A u \in Threads \ {t} : work'[u] = work[u]
      /\ work'[t].next = row
      /\ work'[t].rev = revision /\ work'[t].rev <= revision
  BY <1>1, ReadStep, QuietPoints DEF ReadForConfidence
<1>3. SaveReady(t)'
  BY <1>2 DEF SaveReady, ReadForConfidence, Goto, client, db
<1> QED
  BY <1>2, <1>3, GotoStep, QuietPoints DEF ReadForConfidence

\* What a result does to the row that was read.
LEMMA ReadForEvaluation ==
    ASSUME IInv, NEW t \in Threads, NEW status \in Results, NEW to \in Points,
           NEW i \in Positions(request[t].attempt),
           GoSave(t, AfterPronunciation(row.record, i, status), to)
    PROVE  /\ Goto(t, to) /\ UNCHANGED db
           /\ work' \in [Threads -> Works] /\ \A u \in Threads \ {t} : work'[u] = work[u]
           /\ work'[t].rev = revision /\ work'[t].rev <= revision
           /\ Evaluates(t, status)'
<1> DEFINE n == AfterPronunciation(row.record, i, status)
<1>1. i \in DOMAIN row.record.attempts
  BY TableFacts DEF IInv, Kept, TablesAgree, Positions
<1>2. n \in Records
  BY <1>1, AfterPronunciationIsKept, TableFacts DEF IInv, Kept, Results
<1>3. /\ Goto(t, to) /\ UNCHANGED db
      /\ work' \in [Threads -> Works] /\ \A u \in Threads \ {t} : work'[u] = work[u]
      /\ work'[t].next = [row EXCEPT !.record = n]
      /\ work'[t].rev = revision /\ work'[t].rev <= revision
  BY <1>2, ReadStep
<1>4. Evaluates(t, status)'
  BY <1>3 DEF Evaluates, Positions, Goto, client, db
<1> QED
  BY <1>3, <1>4

LEMMA ReadForResultKeeps ==
    ASSUME IInv, NEW t \in Threads, ReadForResult(t)
    PROVE  IInv'
<1>1. PICK op \in Results : op = request[t].op /\ op # "attempt"
  BY DEF ReadForResult, Results
<1>2. PICK i \in Positions(request[t].attempt) :
             GoSave(t, AfterPronunciation(row.record, i, op), "save")
  BY <1>1 DEF ReadForResult
<1>3. /\ Goto(t, "save") /\ UNCHANGED db
      /\ work' \in [Threads -> Works] /\ \A u \in Threads \ {t} : work'[u] = work[u]
      /\ work'[t].rev = revision /\ work'[t].rev <= revision
      /\ Evaluates(t, op)'
  BY <1>2, ReadForEvaluation, QuietPoints
<1>4. request'[t].op = op
  BY <1>1, <1>3 DEF Goto, client
<1>5. SaveReady(t)'
  BY <1>3, <1>4 DEF SaveReady, Evaluates
<1> QED
  BY <1>1, <1>3, <1>5, GotoStep, QuietPoints

LEMMA ReadForFailureKeeps ==
    ASSUME IInv, NEW t \in Threads, ReadForFailure(t)
    PROVE  IInv'
<1>1. "failed" \in Results /\ "fail_save" \in Points /\ pc[t] = "fail_read"
  BY DEF ReadForFailure, Results, Points
<1>2. /\ Goto(t, "fail_save") /\ UNCHANGED db
      /\ work' \in [Threads -> Works] /\ \A u \in Threads \ {t} : work'[u] = work[u]
      /\ work'[t].rev = revision /\ work'[t].rev <= revision
      /\ Evaluates(t, "failed")'
  BY <1>1, ReadForEvaluation DEF ReadForFailure
<1>3. request[t].op = "attempt" /\ Asked(request[t].attempt)
  BY <1>1, QuietPoints DEF IInv, Carried, KnowsRequest, FailureReady, FailPoints
<1> QED
  BY <1>1, <1>2, <1>3, GotoStep, QuietPoints

LEMMA ReadForAttemptKeeps ==
    ASSUME IInv, NEW t \in Threads, ReadForAttempt(t)
    PROVE  IInv'
<1>1. request[t].op = "attempt"
  BY DEF ReadForAttempt
<1>2. CASE Acceptable(t) /\ GoSave(t, row.record, "audio")
  <2>1. row.record \in Records /\ [row EXCEPT !.record = row.record] = row
    BY TableFacts DEF IInv
  <2>2. /\ Goto(t, "audio") /\ UNCHANGED db
        /\ work' \in [Threads -> Works] /\ \A u \in Threads \ {t} : work'[u] = work[u]
        /\ work'[t].next = row
        /\ work'[t].rev = revision /\ work'[t].rev <= revision
    BY <1>2, <2>1, ReadStep, QuietPoints
  <2>3. MaySpeak(row.record) /\ RecordKept(row.record) /\ Positions(request[t].attempt) = {}
    BY <1>2 DEF Acceptable, IInv, Kept
  <2>4. UNCHANGED <<row, revision, request>>
    BY <2>2 DEF db, Goto, client
  <2>5. SpeaksInTurn(t)'
    <3>1. (Positions(request[t].attempt) = {})'
      BY <2>3, <2>4 DEF Positions
    <3>2. MaySpeak(work[t].next.record)' /\ RecordKept(work[t].next.record)'
      BY <2>2, <2>3 DEF MaySpeak, InProgress, RecordKept, AheadUnread, RetriesLeft,
                        StoppedForGood, RetryNumber, AttemptsAt
    <3> QED
      BY <2>2, <2>4, <3>1, <3>2 DEF SpeaksInTurn
  <2> QED
    BY <1>1, <2>2, <2>5, GotoStep, QuietPoints
<1>3. CASE Refuse(t)
  BY <1>3, FinishStep, Defaults DEF Refuse
<1> QED
  BY <1>2, <1>3 DEF ReadForAttempt

LEMMA ReadForJobKeeps ==
    ASSUME IInv, NEW t \in Threads, ReadForJob(t)
    PROVE  IInv'
<1> DEFINE queued == \E i \in Positions(request[t].attempt) :
                        row.record.attempts[i].pronunciation = "queued"
<1>1. pc[t] = "job_read" /\ request[t].op = "attempt"
  BY QuietPoints DEF ReadForJob, IInv, Carried, KnowsRequest
<1>2. ASSUME queued PROVE Asked(request[t].attempt)
  <2>1. PICK i \in Positions(request[t].attempt) :
               row.record.attempts[i].pronunciation = "queued"
    BY <1>2
  <2>2. i \in DOMAIN replays /\ i \in DOMAIN row.record.attempts
        /\ row.ids[i] = request[t].attempt
    BY TableFacts DEF IInv, Kept, TablesAgree, Positions
  <2>3. replays[i].answer.queued /\ replays[i].attempt = request[t].attempt
    BY <2>1, <2>2 DEF IInv, Kept, TablesAgree, EvaluatedOnlyIfAsked
  <2> QED
    BY <2>2, <2>3 DEF Asked, IInv, Kept, ReplaysNamed
<1>3. CASE queued
  <2>1. Goto(t, "publish") /\ UNCHANGED <<db, work>>
    BY <1>3 DEF ReadForJob
  <2> QED
    BY <1>1, <1>2, <1>3, <2>1, GotoStep, QuietPoints DEF IInv, TypeOK
<1>4. CASE ~queued
  <2>1. Goto(t, "idle") /\ UNCHANGED <<db, work>>
    BY <1>4 DEF ReadForJob
  <2> QED
    BY <2>1, GotoStep, QuietPoints DEF IInv, TypeOK
<1> QED
  BY <1>3, <1>4

\* The attempt as it is worked out once it is known whether there is audio.
LEMMA ReadAudioKeeps ==
    ASSUME IInv, NEW t \in Threads, ReadAudio(t)
    PROVE  IInv'
<1> DEFINE queued == request[t].attempt \in audio
           key    == request[t].key
           last   == work[t].next.record
           n      == AfterAttempt(last, sent[key].unclear, queued)
           m      == [record |-> n, ids |-> Append(work[t].next.ids, request[t].attempt)]
           answer == [state |-> n.state, turn |-> n.turn, retry |-> RetryNumber(last),
                      queued |-> queued]
           w      == [work[t] EXCEPT !.next = m, !.answer = answer]
<1>1. pc[t] = "audio" /\ request[t].op = "attempt"
  BY QuietPoints DEF ReadAudio, IInv, Carried, KnowsRequest
<1>2. /\ request[t].op = "attempt" /\ key \in Keys /\ request[t].attempt = AttemptOf[key]
      /\ sent[key] # NoSubmission /\ sent[key] \in Submissions
  BY <1>1 DEF IInv, Carried, KnowsRequest, TypeOK
<1>3. request[t].attempt \in AttemptIds /\ sent[key].unclear \in BOOLEAN /\ queued \in BOOLEAN
  BY <1>2, GuidedSessionAssumption DEF Submissions
<1>4. /\ work[t] \in Works /\ work[t].next \in Rows /\ last \in Records
      /\ work[t].next.ids \in Seq(AttemptIds) /\ work[t].rev \in Nat
      /\ work[t].answer \in Answers
  BY DEF IInv, TypeOK, Works, Rows
<1>5. /\ MaySpeak(last) /\ RecordKept(last)
      /\ work[t].rev = revision => work[t].next = row /\ Positions(request[t].attempt) = {}
  BY <1>1 DEF IInv, Carried, SpeaksInTurn
<1>6. n \in Records
  BY <1>3, <1>4, <1>5, AfterAttemptIsKept
<1>7. RetryNumber(last) \in 0 .. MaxRetries
  BY <1>4, <1>5, RetryNumberType DEF RecordKept, RetriesLeft, MaySpeak, RetryNumber, MaxRetries
<1>8. m \in Rows /\ m.record = n /\ m.ids = Append(work[t].next.ids, request[t].attempt)
  <2>1. Append(work[t].next.ids, request[t].attempt) \in Seq(AttemptIds)
    BY <1>3, <1>4
  <2> QED
    BY <1>6, <2>1 DEF Rows
<1>9. answer \in Answers /\ answer.retry = RetryNumber(last) /\ answer.queued = queued
  <2>1. n.state \in States /\ n.turn \in Turns
    BY <1>6 DEF Records
  <2> QED
    BY <1>3, <1>7, <2>1 DEF Answers
<1>10. Goto(t, "probe") /\ UNCHANGED db
  BY DEF ReadAudio
<1>11. work' = [work EXCEPT ![t] = w]
  <2>1. work \in [Threads -> Works]
    BY DEF IInv, TypeOK
  <2> QED
    BY <2>1 DEF ReadAudio
<1> HIDE DEF n, m, answer
<1>12. w \in Works /\ w.next = m /\ w.answer = answer /\ w.rev = work[t].rev
  BY <1>4, <1>8, <1>9 DEF Works
<1> HIDE DEF w
<1>13. /\ work' \in [Threads -> Works] /\ work'[t] = w
       /\ \A u \in Threads \ {t} : work'[u] = work[u]
  <2>1. work \in [Threads -> Works]
    BY DEF IInv, TypeOK
  <2> QED
    BY <1>11, <1>12, <2>1
<1>14. UNCHANGED <<row, revision, request, audio, sent>>
  BY <1>10 DEF Goto, db, client, outside
<1>15. work'[t].rev <= revision
  BY <1>1, <1>12, <1>13, QuietPoints DEF IInv, Carried, ReadBefore, CarryPoints
<1>16. AttemptReady(t)'
  <2>1. work'[t].answer.queued => request'[t].attempt \in audio'
    BY <1>9, <1>12, <1>13, <1>14
  <2>2. ASSUME work'[t].rev = revision' PROVE FollowsRow(t)'
    <3>1. work[t].next = row /\ Positions(request[t].attempt) = {} /\ last = row.record
      BY <1>5, <1>12, <1>13, <1>14, <2>2
    <3>2. MaySpeak(row.record)' /\ (Positions(request[t].attempt) = {})'
      BY <1>5, <1>14, <3>1 DEF Positions
    <3>3. work'[t].answer.retry = RetryNumber(row.record) /\ work'[t].answer.queued = queued
      BY <1>9, <1>12, <1>13, <3>1
    <3>4. n = AfterAttempt(row.record, sent[key].unclear, queued)
      BY <3>1 DEF n
    <3>5. work'[t].next = [record |-> n, ids |-> Append(row.ids, request[t].attempt)]
      BY <1>12, <1>13, <3>1 DEF m
    <3> QED
      BY <1>14, <3>2, <3>3, <3>4, <3>5 DEF FollowsRow
  <2> QED
    BY <2>1, <2>2 DEF AttemptReady
<1> QED
  BY <1>2, <1>10, <1>13, <1>15, <1>16, GotoStep, QuietPoints

LEMMA ProbeKeyKeeps ==
    ASSUME IInv, NEW t \in Threads, ProbeKey(t)
    PROVE  IInv'
<1> DEFINE answer == work[t].answer
<1>1. pc[t] = "probe" /\ request[t].op = "attempt"
  BY QuietPoints DEF ProbeKey, IInv, Carried, KnowsRequest
<1>2. answer \in Answers /\ work \in [Threads -> Works] /\ AfterReply(answer) \in {"idle", "job_read"}
  BY DEF IInv, TypeOK, Works, AfterReply
<1>3. CASE Finish(t, "ok", answer, AfterReply(answer)) /\ UNCHANGED db
  BY <1>1, <1>2, <1>3, FinishStep
<1>4. CASE Goto(t, "commit") /\ UNCHANGED <<work, db>>
  <2>1. AttemptReady(t) /\ work[t].rev <= revision
    BY <1>1, QuietPoints DEF IInv, Carried, ReadBefore, CarryPoints
  <2>2. AttemptReady(t)'
    <3>1. UNCHANGED <<row, revision, request, audio, sent, work>>
      BY <1>4 DEF Goto, db, client, outside
    <3>2. FollowsRow(t) => FollowsRow(t)'
      BY <3>1 DEF FollowsRow, Positions
    <3> QED
      BY <1>1, <2>1, <3>1, <3>2 DEF AttemptReady
  <2> QED
    BY <1>1, <1>2, <1>4, <2>1, <2>2, GotoStep, QuietPoints
<1> QED
  BY <1>3, <1>4 DEF ProbeKey

\* A step that touches no work in hand: the rest only grows.
LEMMA QuietStep ==
    ASSUME IInv, NEW t \in Threads, UNCHANGED <<db, audio, work, crashes>>,
           TypeOK', KnowsRequest(t)', pc'[t] \notin CarryPoints,
           pc'[t] \in FailPoints => Asked(request'[t].attempt),
           \A u \in Threads \ {t} : pc'[u] = pc[u] /\ request'[u] = request[u],
           \A k \in Keys : sent[k] # NoSubmission => sent'[k] = sent[k],
           jobs \subseteq jobs', \A a \in jobs' : a \in jobs \/ Asked(a)
    PROVE  IInv'
<1>1. Kept'
  BY KeptWithoutWrites DEF IInv
<1>2. Carried(t)'
  <2>1. pc'[t] \notin {"audio", "probe", "commit", "save", "fail_save"}
    BY DEF CarryPoints
  <2>2. ReadBefore(t)' /\ SpeaksInTurn(t)' /\ AttemptReady(t)' /\ SaveReady(t)'
    BY <2>1 DEF ReadBefore, SpeaksInTurn, AttemptReady, SaveReady
  <2>3. FailureReady(t)'
    BY <2>1 DEF FailureReady, Asked, db
  <2> QED
    BY <2>2, <2>3 DEF Carried
<1> QED
  BY <1>1, <1>2, ThreadStep

LEMMA PublishKeeps ==
    ASSUME IInv, NEW t \in Threads, Publish(t)
    PROVE  IInv'
<1>1. PICK failed \in BOOLEAN :
             /\ jobs' = jobs \cup {request[t].attempt} \/ jobs' = jobs
             /\ pc' = [pc EXCEPT ![t] = IF failed THEN "fail_read" ELSE "idle"]
  BY DEF Publish
<1>2. pc[t] = "publish" /\ request[t].op = "attempt" /\ Asked(request[t].attempt)
  BY QuietPoints DEF Publish, IInv, Carried, KnowsRequest, FailureReady
<1>3. request[t].attempt \in AttemptIds
  BY <1>2 DEF Asked, IInv, TypeOK
<1>4. pc'[t] \in {"fail_read", "idle"} /\ \A u \in Threads \ {t} : pc'[u] = pc[u]
  BY <1>1 DEF IInv, TypeOK
<1>5. UNCHANGED <<db, audio, work, reply, client>>
  BY DEF Publish
<1>6. TypeOK'
  BY <1>1, <1>3, <1>5 DEF IInv, TypeOK, db, client, Points
<1>7. KnowsRequest(t)'
  BY <1>1, <1>2, <1>4, <1>5, QuietPoints DEF IInv, Carried, KnowsRequest, client, Results
<1> QED
  BY <1>1, <1>2, <1>4, <1>5, <1>6, <1>7, QuietStep, QuietPoints DEF client

LEMMA UploadAudioKeeps ==
    ASSUME IInv, NEW a \in AttemptIds, UploadAudio(a)
    PROVE  IInv'
<1>1. TypeOK'
  BY DEF IInv, TypeOK, UploadAudio, db, client
<1>2. Kept'
  BY KeptWithoutWrites DEF IInv, UploadAudio
<1>3. ASSUME NEW u \in Threads PROVE Carried(u)'
  BY <1>3, OthersKeepCarried DEF IInv, UploadAudio, client
<1> QED
  BY <1>1, <1>2, <1>3 DEF IInv

LEMMA CrashKeeps ==
    ASSUME IInv, NEW t \in Threads, Crash(t)
    PROVE  IInv'
<1>1. /\ UNCHANGED <<db, outside, reply, request, sent, requests>>
      /\ pc' = [pc EXCEPT ![t] = "idle"] /\ work' = [work EXCEPT ![t] = NoWork]
  BY DEF Crash
<1>2. TypeOK'
  <2>1. crashes' \in 0 .. MaxCrashes
    BY GuidedSessionAssumption DEF IInv, TypeOK, Crash
  <2> QED
    BY <1>1, <2>1, Defaults DEF IInv, TypeOK, db, outside, Points
<1>3. Kept'
  BY <1>1, KeptWithoutWrites DEF IInv, outside
<1>4. pc'[t] = "idle" /\ \A u \in Threads \ {t} : pc'[u] = pc[u] /\ work'[u] = work[u]
  BY <1>1 DEF IInv, TypeOK
<1>5. KnowsRequest(t)'
  BY <1>1, <1>4, QuietPoints DEF IInv, Carried, KnowsRequest, outside
<1>6. Carried(t)'
  BY <1>4, <1>5, NothingCarried, QuietPoints
<1> QED
  BY <1>1, <1>2, <1>3, <1>4, <1>6, ThreadStep DEF outside

\* A request arrives: the thread knows what it is about and has read nothing.
LEMMA ArriveKeeps ==
    ASSUME IInv, NEW t \in Threads, NEW op \in Operations, NEW k \in Keys \cup {NoKey},
           NEW a \in AttemptIds \cup {NoKey}, NEW first \in {"replay", "read"},
           Arrive(t, op, k, a, first),
           sent' \in [Keys -> Submissions \cup {NoSubmission}],
           \A key \in Keys : sent[key] # NoSubmission => sent'[key] = sent[key],
           first = "replay" => op = "attempt",
           op = "attempt" => k \in Keys /\ a = AttemptOf[k] /\ sent'[k] # NoSubmission,
           op \in Results => a \in jobs
    PROVE  IInv'
<1> DEFINE new == [op |-> op, key |-> k, attempt |-> a]
<1>1. /\ UNCHANGED <<db, outside, work, crashes>>
      /\ pc' = [pc EXCEPT ![t] = first] /\ request' = [request EXCEPT ![t] = new]
      /\ reply' = [reply EXCEPT ![t] = Reply("none", NoAnswer)]
  BY DEF Arrive
<1>2. new \in Requests /\ new.op = op /\ new.key = k /\ new.attempt = a
  BY DEF Requests
<1> HIDE DEF new
<1>3. TypeOK'
  <2>1. requests' \in 0 .. MaxRequests
    BY GuidedSessionAssumption DEF IInv, TypeOK, Arrive
  <2>2. first \in Points
    BY QuietPoints
  <2> QED
    BY <1>1, <1>2, <2>1, <2>2, Defaults DEF IInv, TypeOK, db, outside
<1>4. /\ pc'[t] = first /\ request'[t] = new
      /\ \A u \in Threads \ {t} : pc'[u] = pc[u] /\ request'[u] = request[u]
  BY <1>1 DEF IInv, TypeOK
<1>5. KnowsRequest(t)'
  BY <1>1, <1>2, <1>4, QuietPoints DEF KnowsRequest, outside
<1> QED
  BY <1>1, <1>3, <1>4, <1>5, QuietStep, QuietPoints DEF outside

LEMMA SubmitAttemptKeeps ==
    ASSUME IInv, NEW t \in Threads, SubmitAttempt(t)
    PROVE  IInv'
<1>1. PICK k \in Keys :
          /\ Arrive(t, "attempt", k, AttemptOf[k], "replay")
          /\ \/ /\ sent[k] = NoSubmission
                /\ \E turn \in 1 .. row.record.turn, unclear \in BOOLEAN :
                      sent' = [sent EXCEPT ![k] = [turn |-> turn, unclear |-> unclear]]
             \/ /\ sent[k] # NoSubmission
                /\ UNCHANGED sent
  BY DEF SubmitAttempt
<1>2. "attempt" \in Operations /\ "attempt" \notin Results /\ AttemptOf[k] \in AttemptIds
  BY GuidedSessionAssumption DEF Operations, Results
<1>3. sent \in [Keys -> Submissions \cup {NoSubmission}]
  BY DEF IInv, TypeOK
<1>4. /\ sent' \in [Keys -> Submissions \cup {NoSubmission}] /\ sent'[k] # NoSubmission
      /\ \A key \in Keys : sent[key] # NoSubmission => sent'[key] = sent[key]
  <2>1. CASE sent[k] # NoSubmission /\ UNCHANGED sent
    BY <1>3, <2>1
  <2>2. CASE sent[k] = NoSubmission
    <3>1. PICK turn \in 1 .. row.record.turn, unclear \in BOOLEAN :
                 sent' = [sent EXCEPT ![k] = [turn |-> turn, unclear |-> unclear]]
      BY <1>1, <2>2
    <3>2. row.record.turn \in 1 .. NumTurns /\ NumTurns \in Nat
      BY TableFacts, NumTurnsAssumption DEF IInv, Records, Turns
    <3>3. turn \in Turns
      BY <3>2 DEF Turns
    <3>4. [turn |-> turn, unclear |-> unclear] \in Submissions
      BY <3>3 DEF Submissions
    <3> QED
      BY <1>3, <2>2, <3>1, <3>4, GuidedSessionAssumption
  <2> QED
    BY <1>1, <2>1, <2>2
<1> QED
  BY <1>1, <1>2, <1>4, ArriveKeeps

LEMMA RequestControlKeeps ==
    ASSUME IInv, NEW t \in Threads, RequestControl(t)
    PROVE  IInv'
<1>1. PICK op \in Controls \cup {"confidence"} :
             Arrive(t, op, NoKey, NoKey, "read") /\ UNCHANGED sent
  BY DEF RequestControl
<1>2. op \in Operations /\ op # "attempt" /\ op \notin Results
  BY DEF Operations, Controls, Results
<1> QED
  BY <1>1, <1>2, ArriveKeeps DEF IInv, TypeOK

LEMMA CallbackKeeps ==
    ASSUME IInv, NEW t \in Threads, Callback(t)
    PROVE  IInv'
<1>1. PICK op \in Results, a \in jobs : Arrive(t, op, NoKey, a, "read") /\ UNCHANGED sent
  BY DEF Callback
<1>2. op \in Operations /\ op # "attempt" /\ a \in AttemptIds
  BY DEF Operations, Results, IInv, TypeOK
<1> QED
  BY <1>1, <1>2, ArriveKeeps DEF IInv, TypeOK

-----------------------------------------------------------------------------
(***************************************************************************)
(* Steps that write the row.                                               *)
(***************************************************************************)
\* What a control, a confidence or a result puts in the row's place: a record
\* with the same attempts, whose evaluations go on at most.
Amends(n) ==
    /\ n \in Records /\ RecordKept(n)
    /\ Len(n.attempts) = Len(row.record.attempts)
    /\ \A i \in 1 .. Len(row.record.attempts) :
          /\ n.attempts[i].retry = row.record.attempts[i].retry
          /\ n.attempts[i].pronunciation = "not_requested"
                <=> row.record.attempts[i].pronunciation = "not_requested"

LEMMA EvaluatedAmends ==
    ASSUME IInv, NEW a, Asked(a), NEW i \in Positions(a), NEW status \in Results
    PROVE  /\ i \in DOMAIN row.record.attempts
           /\ row.record.attempts[i].pronunciation # "not_requested"
           /\ Amends(AfterPronunciation(row.record, i, status))
<1> DEFINE n == AfterPronunciation(row.record, i, status)
<1>1. row.record \in Records /\ RecordKept(row.record) /\ TablesAgree /\ EvaluatedOnlyIfAsked
  BY TableFacts DEF IInv, Kept
<1>2. /\ i \in DOMAIN row.record.attempts /\ i \in DOMAIN replays /\ row.ids[i] = a
      /\ i \in 1 .. Len(row.record.attempts)
  BY <1>1, TableFacts DEF IInv, TablesAgree, Positions
<1>3. row.record.attempts[i].pronunciation # "not_requested"
  <2>1. PICK j \in DOMAIN replays : replays[j].attempt = a /\ replays[j].answer.queued
    BY DEF Asked
  <2>2. i = j
    BY <1>1, <1>2, <2>1 DEF TablesAgree
  <2> QED
    BY <1>1, <1>2, <2>1, <2>2 DEF EvaluatedOnlyIfAsked
<1>4. status \in {"completed", "failed"} /\ status # "not_requested"
  BY DEF Results
<1>5. /\ n \in Records /\ RecordKept(n)
      /\ Len(n.attempts) = Len(row.record.attempts)
      /\ \A j \in 1 .. Len(row.record.attempts) :
            /\ n.attempts[j].retry = row.record.attempts[j].retry
            /\ n.attempts[j].pronunciation =
                  IF j = i THEN status ELSE row.record.attempts[j].pronunciation
  BY <1>1, <1>2, <1>4, AfterPronunciationIsKept
<1> HIDE DEF n
<1>6. Amends(n)
  BY <1>3, <1>4, <1>5 DEF Amends
<1> QED
  BY <1>2, <1>3, <1>6 DEF n

LEMMA AmendedIsKept ==
    ASSUME IInv, NEW n, Amends(n), row' = [row EXCEPT !.record = n],
           UNCHANGED <<replays, audio, jobs>>
    PROVE  Kept' /\ row' \in Rows
<1>1. row' \in Rows /\ row'.record = n /\ row'.ids = row.ids
  BY TableFacts DEF IInv, Rows, Amends
<1>2. n.attempts \in Seq(Attempts) /\ DOMAIN n.attempts = DOMAIN row.record.attempts
      /\ DOMAIN row.record.attempts = 1 .. Len(row.record.attempts)
      /\ DOMAIN replays = DOMAIN row.record.attempts
  BY RetryNumberType, TableFacts DEF Amends, IInv, Kept, TablesAgree
<1>3. RecordKept(row.record)'
  BY <1>1 DEF Amends, RecordKept, AheadUnread, RetriesLeft, StoppedForGood, InProgress,
              RetryNumber, AttemptsAt
<1>4. TablesAgree'
  BY <1>1, <1>2 DEF Amends, IInv, Kept, TablesAgree
<1>5. EvaluatedOnlyIfAsked'
  BY <1>1, <1>2 DEF Amends, IInv, Kept, EvaluatedOnlyIfAsked
<1>6. ReplaysNamed'
  BY DEF IInv, Kept, ReplaysNamed
<1> QED
  BY <1>1, <1>3, <1>4, <1>5, <1>6 DEF Kept

\* What a save puts in the row's place when the revision has not moved.
LEMMA SavedAmends ==
    ASSUME IInv, NEW t \in Threads, pc[t] = "save", work[t].rev = revision
    PROVE  \E n : Amends(n) /\ work[t].next = [row EXCEPT !.record = n]
<1>1. row.record \in Records /\ RecordKept(row.record)
  BY TableFacts DEF IInv, Kept
<1>2. SaveReady(t) /\ KnowsRequest(t)
  BY DEF IInv, Carried
<1>3. CASE FollowsControl(t)
  <2>1. Amends(AfterControl(row.record, request[t].op))
    BY <1>1, <1>3, AfterControlIsKept DEF FollowsControl, Amends
  <2> QED
    BY <1>3, <2>1 DEF FollowsControl
<1>4. CASE work[t].next = row
  <2>1. Amends(row.record) /\ row = [row EXCEPT !.record = row.record]
    BY <1>1, TableFacts DEF IInv, Amends
  <2> QED
    BY <1>4, <2>1
<1>5. CASE request[t].op \in Results /\ Evaluates(t, request[t].op)
  <2>1. Asked(request[t].attempt)
    BY <1>2, <1>5 DEF KnowsRequest, IInv, Kept, EvaluatedOnlyIfAsked, Asked
  <2>2. PICK i \in Positions(request[t].attempt) :
           work[t].next = [row EXCEPT !.record =
                             AfterPronunciation(row.record, i, request[t].op)]
    BY <1>5 DEF Evaluates
  <2>3. Amends(AfterPronunciation(row.record, i, request[t].op))
    BY <1>5, <2>1, EvaluatedAmends
  <2> QED
    BY <2>2, <2>3
<1> QED
  BY <1>2, <1>3, <1>4, <1>5 DEF SaveReady

LEMMA SaveKeeps ==
    ASSUME IInv, NEW t \in Threads, Save(t)
    PROVE  IInv'
<1>1. CASE revision # work[t].rev /\ Finish(t, "error", NoAnswer, "idle") /\ UNCHANGED db
  BY <1>1, FinishStep, Defaults
<1>2. CASE /\ revision = work[t].rev
           /\ row' = work[t].next /\ revision' = revision + 1
           /\ Finish(t, "ok", NoAnswer, "idle")
           /\ UNCHANGED replays
  <2>1. PICK n : Amends(n) /\ row' = [row EXCEPT !.record = n]
    BY <1>2, SavedAmends DEF Save
  <2>2. UNCHANGED <<replays, audio, jobs, request, sent>>
    BY <1>2 DEF Finish, outside, client
  <2>3. Kept' /\ row' \in Rows
    BY <2>1, <2>2, AmendedIsKept
  <2>4. TypeOK'
    <3>1. revision' \in Nat /\ replays' \in Seq(Replays)
      BY <1>2 DEF IInv, TypeOK
    <3> QED
      BY <1>2, <2>3, <3>1, FinishType, Defaults, QuietPoints DEF IInv
  <2>5. /\ Carried(t)'
        /\ \A u \in Threads \ {t} :
              pc'[u] = pc[u] /\ request'[u] = request[u] /\ work'[u] = work[u]
    BY <1>2, AnsweredCarries
  <2>6. \A a : Asked(a) => Asked(a)'
    BY <2>2 DEF Asked
  <2> QED
    BY <1>2, <2>2, <2>3, <2>4, <2>5, <2>6, ThreadStep
<1> QED
  BY <1>1, <1>2 DEF Save

LEMMA SaveFailureKeeps ==
    ASSUME IInv, NEW t \in Threads, SaveFailure(t)
    PROVE  IInv'
<1>1. /\ pc[t] = "fail_save" /\ Goto(t, "idle") /\ work' = [work EXCEPT ![t] = NoWork]
      /\ UNCHANGED <<replays, audio, jobs, request, sent, reply, requests, crashes>>
  BY DEF SaveFailure, Goto, outside, client, db
<1>2. /\ pc'[t] = "idle"
      /\ \A u \in Threads \ {t} :
            pc'[u] = pc[u] /\ request'[u] = request[u] /\ work'[u] = work[u]
  BY <1>1 DEF Goto, IInv, TypeOK
<1>3. KnowsRequest(t)'
  BY <1>1, <1>2, QuietPoints DEF IInv, Carried, KnowsRequest
<1>4. Carried(t)'
  BY <1>2, <1>3, NothingCarried, QuietPoints
<1>5. row' \in Rows /\ revision' \in Nat => TypeOK'
  BY <1>1, Defaults DEF Goto, IInv, TypeOK, Points
<1>6. \A a : Asked(a) => Asked(a)'
  BY <1>1 DEF Asked
<1>7. CASE UNCHANGED db
  <2>1. TypeOK' /\ Kept'
    BY <1>1, <1>5, <1>7, KeptWithoutWrites DEF db, IInv, TypeOK
  <2> QED
    BY <1>1, <1>2, <1>4, <1>7, <2>1, ThreadStep
<1>8. CASE revision = work[t].rev /\ row' = work[t].next /\ revision' = revision + 1
  <2>1. Asked(request[t].attempt) /\ Evaluates(t, "failed")
    BY <1>1, <1>8, QuietPoints DEF IInv, Carried, FailureReady
  <2>2. PICK i \in Positions(request[t].attempt) :
           work[t].next = [row EXCEPT !.record = AfterPronunciation(row.record, i, "failed")]
    BY <2>1 DEF Evaluates
  <2>3. Amends(AfterPronunciation(row.record, i, "failed"))
    BY <2>1, EvaluatedAmends DEF Results
  <2>4. Kept' /\ row' \in Rows
    BY <1>1, <1>8, <2>2, <2>3, AmendedIsKept
  <2>5. TypeOK'
    BY <1>5, <1>8, <2>4 DEF IInv, TypeOK
  <2> QED
    BY <1>1, <1>2, <1>4, <1>6, <1>8, <2>4, <2>5, ThreadStep
<1> QED
  BY <1>7, <1>8 DEF SaveFailure

\* One more attempt: the record, its ids and the replay table grow together.
LEMMA CommittedIsKept ==
    ASSUME IInv, NEW t \in Threads, pc[t] = "commit", work[t].rev = revision, Insertable(t),
           row' = work[t].next,
           replays' = Append(replays, [key     |-> request[t].key,
                                       attempt |-> request[t].attempt,
                                       answer  |-> work[t].answer]),
           UNCHANGED <<audio, jobs>>
    PROVE  /\ Kept' /\ row' \in Rows /\ replays' \in Seq(Replays)
           /\ \A a : Asked(a) => Asked(a)'
<1> DEFINE new    == [key |-> request[t].key, attempt |-> request[t].attempt,
                      answer |-> work[t].answer]
           queued == work[t].answer.queued
           r      == row.record
           n      == AfterAttempt(r, sent[request[t].key].unclear, queued)
           len    == Len(replays)
<1>1. /\ request[t].key \in Keys /\ request[t].attempt = AttemptOf[request[t].key]
      /\ sent[request[t].key] \in Submissions
      /\ queued => request[t].attempt \in audio
      /\ FollowsRow(t)
  <2>1. KnowsRequest(t) /\ AttemptReady(t)
    BY DEF IInv, Carried
  <2> QED
    BY <2>1, QuietPoints DEF KnowsRequest, AttemptReady, IInv, TypeOK
<1>2. request[t].attempt \in AttemptIds /\ sent[request[t].key].unclear \in BOOLEAN
      /\ work[t].answer \in Answers /\ queued \in BOOLEAN /\ work[t].next \in Rows
  BY <1>1, GuidedSessionAssumption DEF Submissions, IInv, TypeOK, Works, Answers
<1>3. /\ r \in Records /\ RecordKept(r) /\ MaySpeak(r) /\ TablesAgree /\ EvaluatedOnlyIfAsked
      /\ ReplaysNamed
  BY <1>1, TableFacts DEF IInv, Kept, FollowsRow
<1>4. n \in Records /\ RecordKept(n) /\ AddsOne(r, queued, n.attempts)
  BY <1>2, <1>3, AfterAttemptIsKept
<1>5. row' = [record |-> n, ids |-> Append(row.ids, request[t].attempt)]
  BY <1>1 DEF FollowsRow
<1>6. work[t].answer.retry = RetryNumber(r)
  BY <1>1 DEF FollowsRow
<1> HIDE DEF n
<1>7. row'.record = n /\ row'.ids = Append(row.ids, request[t].attempt) /\ row' \in Rows
  BY <1>2, <1>5
<1>8. /\ len \in Nat /\ Len(row.ids) = len /\ Len(r.attempts) = len
      /\ DOMAIN replays = 1 .. len /\ DOMAIN row.ids = 1 .. len /\ DOMAIN r.attempts = 1 .. len
  BY <1>3, TableFacts DEF IInv, TablesAgree
<1>9. /\ new \in Replays /\ replays \in Seq(Replays)
      /\ new.key = request[t].key /\ new.attempt = request[t].attempt
      /\ new.answer = work[t].answer
  BY <1>1, <1>2, TableFacts DEF IInv, Replays
<1> HIDE DEF new
<1>10. /\ replays' \in Seq(Replays) /\ Len(replays') = len + 1
       /\ \A i \in 1 .. len : replays'[i] = replays[i]
       /\ replays'[len + 1] = new
       /\ DOMAIN replays' = 1 .. (len + 1)
  <2>1. replays' = Append(replays, new)
    BY DEF new
  <2> QED
    BY <1>9, <2>1, AppendProperties
<1>11. /\ Len(row'.ids) = len + 1
       /\ \A i \in 1 .. len : row'.ids[i] = row.ids[i]
       /\ row'.ids[len + 1] = request[t].attempt
  BY <1>2, <1>7, <1>8, TableFacts, AppendProperties DEF IInv
<1>12. /\ Len(n.attempts) = len + 1 /\ DOMAIN n.attempts = 1 .. (len + 1)
       /\ \A i \in 1 .. len : /\ n.attempts[i].retry = r.attempts[i].retry
                              /\ n.attempts[i].pronunciation = r.attempts[i].pronunciation
       /\ n.attempts[len + 1].retry = RetryNumber(r)
       /\ n.attempts[len + 1].pronunciation = IF queued THEN "queued" ELSE "not_requested"
  BY <1>4, <1>8 DEF AddsOne
<1>13. 1 .. (len + 1) = (1 .. len) \cup {len + 1} /\ len + 1 \notin 1 .. len
  BY <1>8
<1> HIDE DEF len, r, queued
<1>14. TablesAgree'
  <2>1. Len(row'.ids) = Len(row'.record.attempts) /\ Len(replays') = Len(row'.ids)
    BY <1>7, <1>10, <1>11, <1>12
  <2>2. \A i \in 1 .. (len + 1) :
           /\ replays'[i].attempt = row'.ids[i]
           /\ replays'[i].answer.retry = row'.record.attempts[i].retry
    <3>1. \A i \in 1 .. len :
             /\ replays'[i].attempt = row'.ids[i]
             /\ replays'[i].answer.retry = row'.record.attempts[i].retry
      <4> TAKE i \in 1 .. len
      <4>1. replays[i].attempt = row.ids[i] /\ replays[i].answer.retry = r.attempts[i].retry
        BY <1>3, <1>8 DEF TablesAgree, r
      <4> QED
        BY <1>7, <1>10, <1>11, <1>12, <4>1
    <3>2. /\ replays'[len + 1].attempt = row'.ids[len + 1]
          /\ replays'[len + 1].answer.retry = row'.record.attempts[len + 1].retry
      BY <1>6, <1>7, <1>9, <1>10, <1>11, <1>12
    <3> QED
      BY <1>13, <3>1, <3>2
  <2>3. \A i, j \in 1 .. (len + 1) :
           replays'[i].key = replays'[j].key \/ replays'[i].attempt = replays'[j].attempt
              => i = j
    <3>1. \A i, j \in 1 .. len :
             replays'[i].key = replays'[j].key \/ replays'[i].attempt = replays'[j].attempt
                => i = j
      BY <1>3, <1>8, <1>10 DEF TablesAgree
    <3>2. \A i \in 1 .. len : /\ replays'[i].key # replays'[len + 1].key
                              /\ replays'[i].attempt # replays'[len + 1].attempt
      BY <1>8, <1>9, <1>10 DEF Insertable
    <3> QED
      BY <1>13, <3>1, <3>2
  <2> QED
    BY <1>10, <2>1, <2>2, <2>3 DEF TablesAgree
<1>15. \A a : Asked(a) => Asked(a)'
  BY <1>8, <1>10, <1>13 DEF Asked
<1>16. EvaluatedOnlyIfAsked'
  <2>1. jobs' \subseteq audio' /\ \A a \in jobs' : Asked(a)'
    BY <1>3, <1>15 DEF EvaluatedOnlyIfAsked, Asked
  <2>2. \A i \in 1 .. (len + 1) :
           row'.record.attempts[i].pronunciation # "not_requested" <=> replays'[i].answer.queued
    <3>1. \A i \in 1 .. len :
             row'.record.attempts[i].pronunciation # "not_requested" <=> replays'[i].answer.queued
      <4> TAKE i \in 1 .. len
      <4>1. r.attempts[i].pronunciation # "not_requested" <=> replays[i].answer.queued
        BY <1>3, <1>8 DEF EvaluatedOnlyIfAsked, r
      <4>2. replays'[i] = replays[i]
        BY <1>10
      <4> QED
        BY <1>7, <1>12, <4>1, <4>2
    <3>2. row'.record.attempts[len + 1].pronunciation # "not_requested"
             <=> replays'[len + 1].answer.queued
      BY <1>7, <1>9, <1>10, <1>12 DEF queued
    <3> QED
      BY <1>13, <3>1, <3>2
  <2> QED
    BY <1>7, <1>12, <2>1, <2>2 DEF EvaluatedOnlyIfAsked, Asked
<1>17. ReplaysNamed'
  BY <1>1, <1>3, <1>8, <1>9, <1>10, <1>13 DEF ReplaysNamed, queued
<1>18. RecordKept(row.record)'
  BY <1>4, <1>7 DEF RecordKept, AheadUnread, RetriesLeft, StoppedForGood, InProgress,
                    RetryNumber, AttemptsAt
<1> QED
  BY <1>7, <1>10, <1>14, <1>15, <1>16, <1>17, <1>18 DEF Kept

LEMMA CommitKeeps ==
    ASSUME IInv, NEW t \in Threads, Commit(t)
    PROVE  IInv'
<1> DEFINE answer == work[t].answer
<1>1. pc[t] = "commit" /\ request[t].op = "attempt" /\ answer \in Answers
  BY QuietPoints DEF Commit, IInv, Carried, KnowsRequest, TypeOK, Works
<1>2. AfterReply(answer) \in {"idle", "job_read"}
  BY DEF AfterReply
<1>3. CASE Finish(t, "error", NoAnswer, "idle") /\ UNCHANGED db
  BY <1>3, FinishStep, Defaults
<1>4. CASE /\ revision = work[t].rev /\ Insertable(t)
           /\ row' = work[t].next /\ revision' = revision + 1
           /\ replays' = Append(replays, [key     |-> request[t].key,
                                          attempt |-> request[t].attempt,
                                          answer  |-> answer])
           /\ Finish(t, "ok", answer, AfterReply(answer))
  <2>1. UNCHANGED <<audio, jobs, request, sent>>
    BY <1>4 DEF Finish, outside, client
  <2>2. /\ Kept' /\ row' \in Rows /\ replays' \in Seq(Replays)
        /\ \A a : Asked(a) => Asked(a)'
    BY <1>1, <1>4, <2>1, CommittedIsKept
  <2>3. TypeOK'
    <3>1. revision' \in Nat
      BY <1>4 DEF IInv, TypeOK
    <3> QED
      BY <1>1, <1>2, <1>4, <2>2, <3>1, FinishType, QuietPoints DEF IInv
  <2>4. /\ Carried(t)'
        /\ \A u \in Threads \ {t} :
              pc'[u] = pc[u] /\ request'[u] = request[u] /\ work'[u] = work[u]
    BY <1>1, <1>2, <1>4, AnsweredCarries
  <2> QED
    BY <1>4, <2>1, <2>2, <2>3, <2>4, ThreadStep
<1> QED
  BY <1>3, <1>4 DEF Commit

-----------------------------------------------------------------------------
(***************************************************************************)
(* All steps together.                                                     *)
(***************************************************************************)
LEMMA InitKept == Init => IInv
<1> SUFFICES ASSUME Init PROVE IInv
  OBVIOUS
<1>1. TypeOK
  <2>1. /\ [record |-> NewRecord, ids |-> <<>>] \in Rows
        /\ "idle" \in Points /\ NoSubmission \in Submissions \cup {NoSubmission}
    BY Defaults DEF Rows, Points
  <2> QED
    BY <2>1, Defaults, GuidedSessionAssumption DEF Init, TypeOK
<1>2. /\ row.record = NewRecord /\ row.ids = <<>> /\ row.record.attempts = <<>>
      /\ replays = <<>> /\ jobs = {}
  BY DEF Init, NewRecord
<1>3. RecordKept(row.record)
  <2>1. \A turn : AttemptsAt(row.record, turn) = {}
    BY <1>2 DEF AttemptsAt
  <2>2. RetryNumber(row.record) = 0
    BY <2>1, FS_EmptySet DEF RetryNumber
  <2> QED
    BY <1>2, <2>1, <2>2
       DEF RecordKept, AheadUnread, RetriesLeft, StoppedForGood, NewRecord, MaxRetries
<1>4. TablesAgree /\ EvaluatedOnlyIfAsked /\ ReplaysNamed
  BY <1>1, <1>2 DEF TablesAgree, EvaluatedOnlyIfAsked, ReplaysNamed, TypeOK
<1>5. ASSUME NEW t \in Threads PROVE Carried(t)
  <2>1. pc[t] = "idle" /\ request[t].op = "confidence"
    BY DEF Init, NoRequest
  <2> QED
    BY <2>1 DEF Carried, KnowsRequest, ReadBefore, SpeaksInTurn, AttemptReady, SaveReady,
                FailureReady, AttemptPoints, JobPoints, CarryPoints, FailPoints, Results
<1> QED
  BY <1>1, <1>3, <1>4, <1>5 DEF IInv, Kept

LEMMA StutterKeeps ==
    ASSUME IInv, UNCHANGED vars
    PROVE  IInv'
<1>1. TypeOK'
  BY DEF IInv, TypeOK, vars, db, outside, client
<1>2. Kept'
  BY KeptWithoutWrites DEF IInv, vars, outside
<1>3. ASSUME NEW u \in Threads PROVE Carried(u)'
  BY <1>3, OthersKeepCarried DEF IInv, vars, outside, client
<1> QED
  BY <1>1, <1>2, <1>3 DEF IInv

LEMMA NextKeeps == IInv /\ [Next]_vars => IInv'
<1> SUFFICES ASSUME IInv, [Next]_vars PROVE IInv'
  OBVIOUS
<1>1. CASE \E a \in AttemptIds : UploadAudio(a)
  BY <1>1, UploadAudioKeeps
<1>2. ASSUME NEW t \in Threads,
             SubmitAttempt(t) \/ RequestControl(t) \/ Callback(t) \/ Crash(t)
      PROVE  IInv'
  BY <1>2, SubmitAttemptKeeps, RequestControlKeeps, CallbackKeeps, CrashKeeps
<1>3. ASSUME NEW t \in Threads, Step(t)
      PROVE  IInv'
  BY <1>3, ReadForControlKeeps, ReadForConfidenceKeeps, ReadForResultKeeps, SaveKeeps,
     LookupReplayKeeps, ReadForAttemptKeeps, ReadAudioKeeps, ProbeKeyKeeps, CommitKeeps,
     ReadForJobKeeps, PublishKeeps, ReadForFailureKeeps, SaveFailureKeeps DEF Step
<1>4. CASE UNCHANGED vars
  BY <1>4, StutterKeeps
<1> QED
  BY <1>1, <1>2, <1>3, <1>4 DEF Next

\* Everything above, of every state.
THEOREM SessionInvariant == Spec => []IInv
<1> QED
  BY InitKept, NextKeeps, PTL DEF Spec

\* Whoever still holds the current revision has seen every attempt there is, so
\* its attempt_id and its idempotency key are new.
LEMMA CurrentIsUnique ==
    ASSUME IInv
    PROVE  InsertIsUnique
<1> SUFFICES ASSUME NEW t \in Threads, pc[t] = "commit", revision = work[t].rev,
                    NEW i \in DOMAIN replays
             PROVE  replays[i].key # request[t].key /\ replays[i].attempt # request[t].attempt
  BY DEF InsertIsUnique, Insertable
<1>1. FollowsRow(t) /\ request[t].attempt = AttemptOf[request[t].key]
  BY QuietPoints DEF IInv, Carried, AttemptReady, KnowsRequest
<1>2. i \in DOMAIN row.ids /\ replays[i].attempt = row.ids[i]
  BY TableFacts DEF IInv, Kept, TablesAgree
<1>3. replays[i].attempt # request[t].attempt
  BY <1>1, <1>2 DEF FollowsRow, Positions
<1>4. replays[i].attempt = AttemptOf[replays[i].key]
  BY DEF IInv, Kept, ReplaysNamed
<1> QED
  BY <1>1, <1>3, <1>4

\* The record, the replay table, the kept audio and the jobs agree in every
\* state, whatever threads, retries, callbacks and deaths come together.
THEOREM SessionStoresAgree == Spec => []StoresAgree
<1>1. IInv => StoresAgree
  BY CurrentIsUnique DEF IInv, Kept, StoresAgree
<1> QED
  BY <1>1, SessionInvariant, PTL

-----------------------------------------------------------------------------
(***************************************************************************)
(* What a step does to the record: one call of GuidedLifecycle, or nothing.*)
(***************************************************************************)
Controlled(op) == MayControl(row.record, op) /\ row'.record = AfterControl(row.record, op)

Spoken ==
    /\ MaySpeak(row.record)
    /\ \E unclear, queued \in BOOLEAN : row'.record = AfterAttempt(row.record, unclear, queued)

Evaluated ==
    \E i \in DOMAIN row.record.attempts, status \in Results :
        /\ row.record.attempts[i].pronunciation # "not_requested"
        /\ row'.record = AfterPronunciation(row.record, i, status)

OneCall == (\E op \in Controls : Controlled(op)) \/ Spoken \/ Evaluated \/ UNCHANGED row

LEMMA SaveIsOneCall ==
    ASSUME IInv, NEW t \in Threads, Save(t)
    PROVE  /\ OneCall
           /\ request[t].op = "stop" /\ revision' # revision => row'.record.status = "stopped"
<1>1. CASE UNCHANGED db
  BY <1>1 DEF OneCall, db
<1>2. CASE /\ pc[t] = "save" /\ revision = work[t].rev /\ row' = work[t].next
  <2>1. SaveReady(t) /\ KnowsRequest(t) /\ row.record \in Records /\ RecordKept(row.record)
    BY TableFacts DEF IInv, Carried, Kept
  <2>2. CASE FollowsControl(t)
    <3>1. row'.record = AfterControl(row.record, request[t].op)
      BY <1>2, <2>2, TableFacts DEF FollowsControl, IInv
    <3>2. Controlled(request[t].op) /\ request[t].op \in Controls
      BY <2>2, <3>1 DEF Controlled, FollowsControl
    <3>3. request[t].op = "stop" => row'.record.status = "stopped"
      BY <2>1, <2>2, <3>1, AfterControlIsKept DEF FollowsControl
    <3> QED
      BY <3>2, <3>3 DEF OneCall
  <2>3. CASE request[t].op = "confidence" /\ work[t].next = row
    BY <1>2, <2>3 DEF OneCall
  <2>4. CASE request[t].op \in Results /\ Evaluates(t, request[t].op)
    <3>1. Asked(request[t].attempt)
      BY <2>1, <2>4 DEF KnowsRequest, IInv, Kept, EvaluatedOnlyIfAsked, Asked
    <3>2. PICK i \in Positions(request[t].attempt) :
             work[t].next = [row EXCEPT !.record =
                               AfterPronunciation(row.record, i, request[t].op)]
      BY <2>4 DEF Evaluates
    <3>3. row'.record = AfterPronunciation(row.record, i, request[t].op)
      BY <1>2, <3>2, TableFacts DEF IInv
    <3>4. Evaluated
      BY <2>4, <3>1, <3>3, EvaluatedAmends DEF Evaluated
    <3> QED
      BY <2>4, <3>4 DEF OneCall, Results
  <2> QED
    BY <1>2, <2>1, <2>2, <2>3, <2>4 DEF SaveReady
<1> QED
  BY <1>1, <1>2 DEF Save

LEMMA SaveFailureIsOneCall ==
    ASSUME IInv, NEW t \in Threads, SaveFailure(t)
    PROVE  OneCall
<1>1. CASE UNCHANGED db
  BY <1>1 DEF OneCall, db
<1>2. CASE /\ pc[t] = "fail_save" /\ revision = work[t].rev /\ row' = work[t].next
  <2>1. Asked(request[t].attempt) /\ Evaluates(t, "failed")
    BY <1>2, QuietPoints DEF IInv, Carried, FailureReady
  <2>2. PICK i \in Positions(request[t].attempt) :
           work[t].next = [row EXCEPT !.record = AfterPronunciation(row.record, i, "failed")]
    BY <2>1 DEF Evaluates
  <2>3. row'.record = AfterPronunciation(row.record, i, "failed") /\ "failed" \in Results
    BY <1>2, <2>2, TableFacts DEF IInv, Results
  <2>4. Evaluated
    BY <2>1, <2>3, EvaluatedAmends DEF Evaluated
  <2> QED
    BY <2>4 DEF OneCall
<1> QED
  BY <1>1, <1>2 DEF SaveFailure

LEMMA CommitIsOneCall ==
    ASSUME IInv, NEW t \in Threads, Commit(t)
    PROVE  OneCall
<1>1. CASE UNCHANGED db
  BY <1>1 DEF OneCall, db
<1>2. CASE /\ pc[t] = "commit" /\ revision = work[t].rev /\ row' = work[t].next
  <2>1. FollowsRow(t) /\ sent[request[t].key] \in Submissions /\ work[t].answer \in Answers
    BY <1>2, QuietPoints DEF IInv, Carried, AttemptReady, KnowsRequest, TypeOK, Works
  <2>2. sent[request[t].key].unclear \in BOOLEAN /\ work[t].answer.queued \in BOOLEAN
    BY <2>1 DEF Submissions, Answers
  <2>3. row'.record = AfterAttempt(row.record, sent[request[t].key].unclear,
                                   work[t].answer.queued)
    BY <1>2, <2>1 DEF FollowsRow
  <2>4. Spoken
    BY <2>1, <2>2, <2>3 DEF Spoken, FollowsRow
  <2> QED
    BY <2>4 DEF OneCall
<1> QED
  BY <1>1, <1>2 DEF Commit

LEMMA StepIsOneCall ==
    ASSUME IInv, [Next]_vars
    PROVE  OneCall
<1>1. ASSUME NEW t \in Threads, Save(t) \/ SaveFailure(t) \/ Commit(t)
      PROVE  OneCall
  BY <1>1, SaveIsOneCall, SaveFailureIsOneCall, CommitIsOneCall
<1>2. ASSUME NEW t \in Threads, SubmitAttempt(t) \/ RequestControl(t) \/ Callback(t) \/ Crash(t)
      PROVE  UNCHANGED row
  BY <1>2 DEF SubmitAttempt, RequestControl, Callback, Crash, Arrive, db
<1>3. ASSUME NEW t \in Threads, ReadForControl(t) \/ ReadForConfidence(t) \/ ReadForResult(t)
                                \/ LookupReplay(t) \/ ReadForAttempt(t) \/ ReadAudio(t)
      PROVE  UNCHANGED row
  BY <1>3 DEF ReadForControl, ReadForConfidence, ReadForResult, LookupReplay, ReadForAttempt,
              ReadAudio, GoSave, Refuse, db
<1>4. ASSUME NEW t \in Threads, ProbeKey(t) \/ ReadForJob(t) \/ Publish(t) \/ ReadForFailure(t)
      PROVE  UNCHANGED row
  BY <1>4 DEF ProbeKey, ReadForJob, Publish, ReadForFailure, GoSave, db
<1>5. CASE UNCHANGED vars \/ \E a \in AttemptIds : UploadAudio(a)
  BY <1>5 DEF OneCall, UploadAudio, vars, db
<1> QED
  BY <1>1, <1>2, <1>3, <1>4, <1>5 DEF Next, Step, OneCall

\* The rules as GuidedLifecycle has them are the ones above.
LEMMA SameRules ==
    ASSUME NEW r
    PROVE  /\ Lifecycle!NewRecord = NewRecord
           /\ Lifecycle!Controls = Controls
           /\ \A op : /\ Lifecycle!MayControl(r, op) <=> MayControl(r, op)
                      /\ Lifecycle!AfterControl(r, op) = AfterControl(r, op)
           /\ Lifecycle!MaySpeak(r) <=> MaySpeak(r)
           /\ \A unclear, queued :
                 Lifecycle!AfterAttempt(r, unclear, queued) = AfterAttempt(r, unclear, queued)
           /\ \A i, status :
                 Lifecycle!AfterPronunciation(r, i, status) = AfterPronunciation(r, i, status)
<1>1. Lifecycle!NewRecord = NewRecord /\ Lifecycle!Controls = Controls
  BY DEF Lifecycle!NewRecord, NewRecord, Lifecycle!Controls, Controls
<1>2. Lifecycle!InProgress(r) <=> InProgress(r)
  BY DEF Lifecycle!InProgress, InProgress
<1>3. Lifecycle!Active = Active /\ Lifecycle!MaxRetries = MaxRetries
  BY DEF Lifecycle!Active, Active, Lifecycle!MaxRetries, MaxRetries
<1>4. Lifecycle!MaySpeak(r) <=> MaySpeak(r)
  BY <1>2 DEF Lifecycle!MaySpeak, MaySpeak
<1>5. ASSUME NEW op PROVE Lifecycle!MayControl(r, op) <=> MayControl(r, op)
  BY <1>2, <1>3 DEF Lifecycle!MayControl, MayControl, Lifecycle!MayContinue, MayContinue,
                    Lifecycle!MayPause, MayPause
<1>6. ASSUME NEW s PROVE Lifecycle!FinishTurn(s) = FinishTurn(s)
  BY DEF Lifecycle!FinishTurn, FinishTurn
<1>7. ASSUME NEW op PROVE Lifecycle!AfterControl(r, op) = AfterControl(r, op)
  <2>1. /\ Lifecycle!Pause(r) = Pause(r) /\ Lifecycle!Resume(r) = Resume(r)
        /\ Lifecycle!Stop(r) = Stop(r)
    BY <1>3 DEF Lifecycle!Pause, Pause, Lifecycle!Resume, Resume, Lifecycle!Stop, Stop
  <2> QED
    BY <1>6, <2>1 DEF Lifecycle!AfterControl, AfterControl
<1>8. Lifecycle!RetryNumber(r) = RetryNumber(r)
  <2>1. Lifecycle!AttemptsAt(r, r.turn) = AttemptsAt(r, r.turn)
    BY DEF Lifecycle!AttemptsAt, AttemptsAt
  <2> QED
    BY <2>1, Zenon DEF Lifecycle!RetryNumber, RetryNumber, Lifecycle!Cardinality, Cardinality
<1>9. ASSUME NEW unclear, NEW queued
      PROVE  Lifecycle!AfterAttempt(r, unclear, queued) = AfterAttempt(r, unclear, queued)
  <2>1. Lifecycle!AddAttempt(r, queued) = AddAttempt(r, queued)
    BY <1>8 DEF Lifecycle!AddAttempt, AddAttempt
  <2>2. Lifecycle!RetryRecommended(r, unclear) <=> RetryRecommended(r, unclear)
    BY <1>3, <1>8 DEF Lifecycle!RetryRecommended, RetryRecommended
  <2> QED
    BY <1>6, <2>1, <2>2 DEF Lifecycle!AfterAttempt, AfterAttempt
<1>10. ASSUME NEW i, NEW status
       PROVE  Lifecycle!AfterPronunciation(r, i, status) = AfterPronunciation(r, i, status)
  BY DEF Lifecycle!AfterPronunciation, AfterPronunciation
<1> QED
  BY <1>1, <1>4, <1>5, <1>7, <1>9, <1>10

\* Although it reads in one transaction and writes in another, without a lock,
\* the service amounts to calls that take effect one after the other.
THEOREM SessionRefinesLifecycle == Spec => RefinesLifecycle
<1>1. Init => Lifecycle!Init
  BY SameRules DEF Init, Lifecycle!Init
<1>2. IInv /\ [Next]_vars => [Lifecycle!Next]_(Lifecycle!vars)
  <2> SUFFICES ASSUME IInv, [Next]_vars PROVE [Lifecycle!Next]_(Lifecycle!vars)
    OBVIOUS
  <2>1. OneCall
    BY StepIsOneCall
  <2>2. ASSUME NEW op \in Controls, Controlled(op) PROVE Lifecycle!Next
    BY <2>2, SameRules DEF Controlled, Lifecycle!Next, Lifecycle!Control
  <2>3. CASE Spoken
    BY <2>3, SameRules DEF Spoken, Lifecycle!Next, Lifecycle!Attempt
  <2>4. CASE Evaluated
    BY <2>4, SameRules DEF Evaluated, Results, Lifecycle!Next, Lifecycle!Pronunciation
  <2>5. CASE UNCHANGED row
    BY <2>5 DEF Lifecycle!vars
  <2> QED
    BY <2>1, <2>2, <2>3, <2>4, <2>5 DEF OneCall
<1> QED
  BY <1>1, <1>2, SessionInvariant, PTL DEF Spec, RefinesLifecycle, Lifecycle!Spec

-----------------------------------------------------------------------------
(***************************************************************************)
(* What was answered 200 stays true.                                       *)
(***************************************************************************)
Promise(t) ==
    reply[t].status = "ok" =>
        /\ request[t].op = "attempt" => Stored(request[t].key)
        /\ request[t].op = "stop" => row.record.status = "stopped"

LEMMA PromisesOfThreads == PromisesKept <=> \A t \in Threads : Promise(t)
BY DEF PromisesKept, AcceptedIsStored, StopIsFinal, Promise

\* Nothing is ever taken from the replay table, and nothing reopens a session.
LEMMA NothingTakenBack ==
    ASSUME IInv, [Next]_vars
    PROVE  /\ \A k : Stored(k) => Stored(k)'
           /\ row.record.status = "stopped" => row'.record.status = "stopped"
<1>1. ASSUME NEW k, Stored(k) PROVE Stored(k)'
  <2>1. replays \in Seq(Replays) /\ DOMAIN replays = 1 .. Len(replays) /\ Len(replays) \in Nat
    BY TableFacts DEF IInv
  <2>2. CASE UNCHANGED replays
    BY <1>1, <2>2 DEF Stored
  <2>3. ASSUME NEW t \in Threads, Commit(t), replays' # replays
        PROVE  \E new \in Replays : replays' = Append(replays, new)
    <3>1. pc[t] = "commit" /\ KnowsRequest(t) /\ work[t] \in Works
      BY <2>3 DEF Commit, IInv, Carried, TypeOK
    <3>2. request[t].key \in Keys /\ request[t].attempt \in AttemptIds /\ work[t].answer \in Answers
      BY <3>1, QuietPoints, GuidedSessionAssumption DEF KnowsRequest, Works
    <3>3. [key |-> request[t].key, attempt |-> request[t].attempt, answer |-> work[t].answer]
             \in Replays
      BY <3>2 DEF Replays
    <3> QED
      BY <2>3, <3>3 DEF Commit, db
  <2>4. ASSUME NEW new \in Replays, replays' = Append(replays, new) PROVE Stored(k)'
    <3>1. /\ DOMAIN replays' = 1 .. (Len(replays) + 1)
          /\ \A i \in 1 .. Len(replays) : replays'[i] = replays[i]
      BY <2>1, <2>4, AppendProperties
    <3>2. 1 .. Len(replays) \subseteq 1 .. (Len(replays) + 1)
      BY <2>1
    <3> QED
      BY <1>1, <2>1, <3>1, <3>2 DEF Stored
  <2>5. ASSUME NEW t \in Threads, Step(t), ~Commit(t) PROVE UNCHANGED replays
    BY <2>5 DEF Step, ReadForControl, ReadForConfidence, ReadForResult, Save, LookupReplay,
                ReadForAttempt, ReadAudio, ProbeKey, ReadForJob, Publish, ReadForFailure,
                SaveFailure, GoSave, Refuse, db
  <2>6. ASSUME NEW t \in Threads, SubmitAttempt(t) \/ RequestControl(t) \/ Callback(t) \/ Crash(t)
        PROVE  UNCHANGED replays
    BY <2>6 DEF SubmitAttempt, RequestControl, Callback, Crash, Arrive, db
  <2>7. CASE UNCHANGED vars \/ \E a \in AttemptIds : UploadAudio(a)
    BY <2>2, <2>7 DEF UploadAudio, vars, db
  <2> QED
    BY <2>2, <2>3, <2>4, <2>5, <2>6, <2>7 DEF Next
<1>2. ASSUME row.record.status = "stopped" PROVE row'.record.status = "stopped"
  <2>1. row.record \in Records /\ RecordKept(row.record) /\ OneCall
    BY TableFacts, StepIsOneCall DEF IInv, Kept
  <2>2. \A op \in Controls : ~Controlled(op)
    BY <1>2, <2>1, AfterControlIsKept DEF Controlled
  <2>3. ~Spoken
    BY <1>2 DEF Spoken, MaySpeak, InProgress
  <2>4. ASSUME Evaluated PROVE row'.record.status = "stopped"
    <3>1. PICK i \in DOMAIN row.record.attempts, status \in {"completed", "failed"} :
                  row'.record = AfterPronunciation(row.record, i, status)
      BY <2>4 DEF Evaluated, Results
    <3> QED
      BY <1>2, <2>1, <3>1, AfterPronunciationIsKept
  <2> QED
    BY <1>2, <2>1, <2>2, <2>3, <2>4 DEF OneCall
<1> QED
  BY <1>1, <1>2

LEMMA OthersKeepPromise ==
    ASSUME IInv, [Next]_vars, NEW u \in Threads, Promise(u),
           request'[u] = request[u], reply'[u] = reply[u]
    PROVE  Promise(u)'
BY NothingTakenBack DEF Promise

\* The last thing a request does is to answer.
LEMMA AnswerKeepsPromise ==
    ASSUME IInv, [Next]_vars, NEW t \in Threads, NEW status, NEW answer, NEW then,
           Finish(t, status, answer, then), \A u \in Threads : Promise(u),
           status = "ok" =>
               /\ request[t].op = "attempt" => Stored(request[t].key)'
               /\ request[t].op = "stop" => row'.record.status = "stopped"
    PROVE  \A u \in Threads : Promise(u)'
<1>1. UNCHANGED request /\ reply' = [reply EXCEPT ![t] = Reply(status, answer)]
  BY DEF Finish, client
<1>2. reply'[t] = Reply(status, answer) /\ \A u \in Threads \ {t} : reply'[u] = reply[u]
  BY <1>1 DEF IInv, TypeOK
<1>3. Promise(t)'
  <2>1. reply'[t].status = status
    BY <1>2 DEF Reply
  <2> QED
    BY <1>1, <2>1 DEF Promise, Stored
<1> QED
  BY <1>1, <1>2, <1>3, OthersKeepPromise

LEMMA StepKeepsPromises ==
    ASSUME IInv, [Next]_vars, \A u \in Threads : Promise(u)
    PROVE  \A u \in Threads : Promise(u)'
<1>1. CASE UNCHANGED <<request, reply>>
  BY <1>1, OthersKeepPromise
<1>2. ASSUME NEW t \in Threads, NEW op, NEW k, NEW a, NEW first, Arrive(t, op, k, a, first)
      PROVE  \A u \in Threads : Promise(u)'
  <2>1. reply'[t].status = "none"
    BY <1>2 DEF Arrive, Reply, IInv, TypeOK
  <2>2. \A u \in Threads \ {t} : request'[u] = request[u] /\ reply'[u] = reply[u]
    BY <1>2 DEF Arrive, IInv, TypeOK
  <2>3. Promise(t)'
    BY <2>1 DEF Promise
  <2> QED
    BY <2>2, <2>3, OthersKeepPromise
<1>3. ASSUME NEW t \in Threads, NEW status \in {"conflict", "error"},
             Finish(t, status, NoAnswer, "idle")
      PROVE  \A u \in Threads : Promise(u)'
  BY <1>3, AnswerKeepsPromise
<1>4. ASSUME NEW t \in Threads, ReadForControl(t), Finish(t, "ok", NoAnswer, "idle"),
             AlreadyDone(row.record, request[t].op)
      PROVE  \A u \in Threads : Promise(u)'
  <2>1. request[t].op # "attempt" /\ request[t].op # "stop"
    BY <1>4 DEF AlreadyDone
  <2> QED
    BY <1>4, <2>1, AnswerKeepsPromise
<1>5. ASSUME NEW t \in Threads, Save(t), Finish(t, "ok", NoAnswer, "idle"),
             revision' = revision + 1
      PROVE  \A u \in Threads : Promise(u)'
  <2>1. request[t].op # "attempt" /\ revision' # revision
    BY <1>5 DEF Save, IInv, Carried, KnowsRequest, TypeOK
  <2>2. request[t].op = "stop" => row'.record.status = "stopped"
    BY <1>5, <2>1, SaveIsOneCall
  <2> QED
    BY <1>5, <2>1, <2>2, AnswerKeepsPromise
<1>6. ASSUME NEW t \in Threads, NEW answer, NEW then, Finish(t, "ok", answer, then),
             pc[t] \in {"replay", "probe", "commit"}, Stored(request[t].key)'
      PROVE  \A u \in Threads : Promise(u)'
  <2>1. request[t].op = "attempt"
    BY <1>6, QuietPoints DEF IInv, Carried, KnowsRequest
  <2> QED
    BY <1>6, <2>1, AnswerKeepsPromise
<1>7. ASSUME NEW t \in Threads, LookupReplay(t) \/ ProbeKey(t)
      PROVE  \A u \in Threads : Promise(u)'
  <2>1. Stored(request[t].key) => Stored(request[t].key)'
    BY <1>7 DEF LookupReplay, ProbeKey, Goto, Finish, client, db, Stored
  <2> QED
    BY <1>1, <1>6, <1>7, <2>1 DEF LookupReplay, ProbeKey, Goto, client
<1>8. ASSUME NEW t \in Threads, Commit(t)
      PROVE  \A u \in Threads : Promise(u)'
  <2>1. CASE Finish(t, "error", NoAnswer, "idle")
    BY <1>3, <2>1
  <2>2. CASE /\ work[t].rev = revision /\ Insertable(t) /\ row' = work[t].next
             /\ replays' = Append(replays, [key     |-> request[t].key,
                                            attempt |-> request[t].attempt,
                                            answer  |-> work[t].answer])
             /\ Finish(t, "ok", work[t].answer, AfterReply(work[t].answer))
    <3>1. pc[t] = "commit" /\ UNCHANGED <<audio, jobs, request>>
      BY <1>8, <2>2 DEF Commit, Finish, outside, client
    <3>2. replays \in Seq(Replays) /\ replays' \in Seq(Replays) /\ Len(replays) \in Nat
      BY <2>2, <3>1, CommittedIsKept, TableFacts DEF IInv
    <3>3. Len(replays) + 1 \in DOMAIN replays'
          /\ replays'[Len(replays) + 1].key = request[t].key
      BY <2>2, <3>2
    <3>4. Stored(request[t].key)'
      BY <3>1, <3>3 DEF Stored
    <3> QED
      BY <1>6, <2>2, <3>1, <3>4
  <2> QED
    BY <1>8, <2>1, <2>2 DEF Commit
<1>9. ASSUME NEW t \in Threads, ReadForControl(t) \/ Save(t) \/ ReadForAttempt(t)
      PROVE  \A u \in Threads : Promise(u)'
  BY <1>1, <1>3, <1>4, <1>5, <1>9
     DEF ReadForControl, Save, ReadForAttempt, GoSave, Goto, Refuse, client
<1>10. ASSUME NEW t \in Threads, SubmitAttempt(t) \/ RequestControl(t) \/ Callback(t)
       PROVE  \A u \in Threads : Promise(u)'
  BY <1>2, <1>10 DEF SubmitAttempt, RequestControl, Callback
<1>11. ASSUME NEW t \in Threads,
              \/ ReadForConfidence(t) \/ ReadForResult(t) \/ ReadAudio(t) \/ ReadForJob(t)
              \/ Publish(t) \/ ReadForFailure(t) \/ SaveFailure(t) \/ Crash(t)
       PROVE  UNCHANGED <<request, reply>>
  BY <1>11 DEF ReadForConfidence, ReadForResult, ReadAudio, ReadForJob, Publish, ReadForFailure,
               SaveFailure, Crash, GoSave, Goto, client
<1>12. CASE UNCHANGED vars \/ \E a \in AttemptIds : UploadAudio(a)
  BY <1>1, <1>12 DEF UploadAudio, vars, client
<1> QED
  BY <1>1, <1>7, <1>8, <1>9, <1>10, <1>11, <1>12 DEF Next, Step

\* An accepted attempt is stored and a stop that was answered is final, in every
\* state: whoever was answered 200 can rely on it.
THEOREM SessionKeepsPromises == Spec => []PromisesKept
<1>1. Init => PromisesKept
  <2> SUFFICES ASSUME Init PROVE \A t \in Threads : Promise(t)
    BY PromisesOfThreads
  <2>1. \A t \in Threads : reply[t] = Reply("none", NoAnswer)
    BY DEF Init
  <2>2. Reply("none", NoAnswer).status = "none"
    BY DEF Reply
  <2> QED
    BY <2>1, <2>2 DEF Promise
<1>2. IInv /\ PromisesKept /\ [Next]_vars => PromisesKept'
  <2>1. (\A t \in Threads : Promise(t)') => PromisesKept'
    BY DEF PromisesKept, AcceptedIsStored, StopIsFinal, Promise
  <2> QED
    BY <2>1, PromisesOfThreads, StepKeepsPromises
<1> QED
  BY <1>1, <1>2, SessionInvariant, PTL DEF Spec
=============================================================================
