----------------------- MODULE AssessmentServiceProofs -----------------------
(***************************************************************************)
(* Proofs about AssessmentService for any threads, processes, keys and     *)
(* bounds, whether or not the lock table is atomic.  Only the last section, *)
(* on what a lock adds to the revision, has a condition: that the threads  *)
(* which work at the same time work under the same lock (OneLock).         *)
(***************************************************************************)
EXTENDS AssessmentService, SequenceTheorems, TLAPS

-----------------------------------------------------------------------------
(***************************************************************************)
(* What one answer makes of a record.                                      *)
(***************************************************************************)
LEMMA CompleteType ==
    ASSUME NEW r \in Records, NEW first \in Levels \cup {NoLevel}, NEW why \in Reasons
    PROVE  Complete(r, first, why) \in Records
BY DEF Complete, Records

LEMMA PassStageType ==
    ASSUME NEW r \in Records
    PROVE  PassStage(r).record \in Records
<1> DEFINE confirmed == [r EXCEPT !.highest = r.level]
<1>1. confirmed \in Records
  BY DEF Records
<1>2. CASE r.level = TopLevel
  <2>1. PassStage(r).record = Complete(confirmed, NoLevel, "ceiling_reached")
    BY <1>2 DEF PassStage, Outcome
  <2> QED
    BY <1>1, <2>1, CompleteType DEF Reasons
<1>3. CASE r.level # TopLevel
  <2>1. r.level \in Levels /\ r.level + 1 \in Levels
    BY <1>3, NumLevelsAssumption DEF Records, Levels, TopLevel
  <2>2. PassStage(r).record = [confirmed EXCEPT !.level = r.level + 1, !.kind = "main"]
    BY <1>3, <1>1 DEF PassStage, Outcome, Records
  <2> QED
    BY <1>1, <2>1, <2>2 DEF Records, Kinds
<1> QED
  BY <1>2, <1>3

LEMMA FailStageType ==
    ASSUME NEW r \in Records
    PROVE  FailStage(r).record \in Records
<1>1. FailStage(r).record = Complete(r, r.level, "first_unconfirmed_level_reached")
  BY DEF FailStage, Outcome
<1> QED
  BY <1>1, CompleteType DEF Records, Reasons

\* What Advance returns is a record of the right type and a name for it: the
\* ladder is not left at the top, and the counters stay natural numbers.
LEMMA AdvanceType ==
    ASSUME NEW r \in Records, NEW log, NEW d, NEW outcome \in Advance(r, log, d)
    PROVE  outcome.record \in Records /\ outcome.stage \in Stages
<1> DEFINE Typed(o) == o.record \in Records /\ o.stage \in Stages
<1>0. CountInvalid(r) \in Records /\ r.level \in Levels
  BY DEF CountInvalid, Records
<1>1. Typed(PassStage(r)) /\ Typed(FailStage(r))
  <2>1. PassStage(r).stage \in Stages /\ FailStage(r).stage \in Stages
    BY DEF PassStage, FailStage, Outcome, Stages
  <2> QED
    BY <2>1, PassStageType, FailStageType
<1>2. Typed(AskFollowUp(r))
  BY DEF AskFollowUp, Outcome, Records, Kinds, Stages
<1>3. Typed(HandleCalibration(r, log, d))
  <2>1. [r EXCEPT !.kind = "main"] \in Records
    BY DEF Records, Kinds
  <2>2. Complete(CountInvalid(r), NoLevel, "audio_unusable") \in Records
    BY <1>0, CompleteType DEF Reasons
  <2> QED
    BY <1>0, <2>1, <2>2 DEF HandleCalibration, Outcome, Stages
<1>4. Typed(InvalidRepeatOrStop(r, log))
  <2>1. Complete(CountInvalid(r), r.level, "audio_unusable") \in Records
    BY <1>0, CompleteType DEF Reasons
  <2> QED
    BY <1>0, <2>1 DEF InvalidRepeatOrStop, Outcome, Stages
<1>5. Typed(RequestBoundaryVerification(r))
  <2>1. CASE r.level \in r.verified
    BY <1>1, <2>1 DEF RequestBoundaryVerification
  <2>2. CASE r.level \notin r.verified
    <3>1. r.verified \cup {r.level} \in SUBSET Levels /\ r.tieBreakers + 1 \in Nat
      BY DEF Records
    <3>2. [r EXCEPT !.kind = "tie_breaker", !.tieBreakers = @ + 1,
                    !.verified = @ \cup {r.level}] \in Records
      BY <3>1 DEF Records, Kinds
    <3> QED
      BY <2>2, <3>2 DEF RequestBoundaryVerification, Outcome, Stages
  <2> QED
    BY <2>1, <2>2
<1>6. \A o \in JudgeStage(r, log, d) : o = PassStage(r) \/ o = RequestBoundaryVerification(r)
  BY DEF JudgeStage
<1>7. \/ outcome \in JudgeStage(r, log, d)
      \/ outcome \in {HandleCalibration(r, log, d), InvalidRepeatOrStop(r, log), AskFollowUp(r),
                      PassStage(r), FailStage(r)}
  <2>0. r.kind \in Kinds
    BY DEF Records
  <2>1. CASE r.kind = "calibration"
    BY <2>1 DEF Advance
  <2>2. CASE r.kind # "calibration" /\ ~Valid(d)
    BY <2>2 DEF Advance
  <2>3. CASE r.kind = "main" /\ Valid(d)
    BY <2>3 DEF Advance
  <2>4. CASE r.kind = "follow_up" /\ Valid(d)
    BY <2>4 DEF Advance
  <2>5. CASE r.kind = "tie_breaker" /\ Valid(d)
    BY <2>5 DEF Advance
  <2> QED
    BY <2>0, <2>1, <2>2, <2>3, <2>4, <2>5 DEF Kinds
<1> HIDE DEF Typed
<1>8. Typed(outcome)
  BY <1>1, <1>2, <1>3, <1>4, <1>5, <1>6, <1>7
<1> QED
  BY <1>8 DEF Typed

-----------------------------------------------------------------------------
(***************************************************************************)
(* Type correctness.                                                       *)
(***************************************************************************)
LEMMA Defaults ==
    /\ NewRecord \in Records
    /\ NoResult \in Results
    /\ NoWork \in Works
    /\ Reply("none", NoResult) \in Replies
<1>1. NewRecord \in Records
  BY NumLevelsAssumption DEF NewRecord, Records, Levels, NoLevel, Kinds, Reasons
<1>2. CurrentPrompt(NewRecord) \in Prompts
  BY <1>1 DEF CurrentPrompt, Prompts, Records
<1>3. NoResult \in Results
  BY <1>2 DEF NoResult, Results
<1>4. NoWork \in Works
  BY <1>1, <1>3 DEF NoWork, Works
<1> QED
  BY <1>1, <1>3, <1>4 DEF Reply, Replies, Statuses

LEMMA PromptType ==
    ASSUME NEW r \in Records
    PROVE  CurrentPrompt(r) \in Prompts
BY DEF CurrentPrompt, Prompts, Records

LEMMA StoredResultType ==
    ASSUME TypeOK, NEW k, Stored(k)
    PROVE  StoredResult(k) \in Results
<1> DEFINE i == CHOOSE j \in DOMAIN responses : responses[j].key = k
<1>1. i \in DOMAIN responses
  BY DEF Stored
<1>2. responses[i] \in StoredResponses
  BY <1>1 DEF TypeOK
<1> QED
  BY <1>2 DEF StoredResult, StoredResponses

LEMMA GotoType ==
    ASSUME TypeOK, NEW t \in Threads, NEW to \in Points, Goto(t, to)
    PROVE  /\ pc' \in [Threads -> Points]
           /\ UNCHANGED <<key, reply, sent, requests, crashes>>
BY DEF TypeOK, Goto, client

LEMMA FinishType ==
    ASSUME TypeOK, NEW t \in Threads, NEW status \in Statuses, NEW result \in Results,
           Finish(t, status, result)
    PROVE  /\ pc' \in [Threads -> Points]
           /\ reply' \in [Threads -> Replies]
           /\ holder' \in [Threads -> Threads \cup {NoThread}]
           /\ lock' \in [Threads -> Threads \cup {NoThread}]
           /\ work' \in [Threads -> Works]
           /\ UNCHANGED <<lockOf, key, sent, requests, crashes>>
<1>1. Reply(status, result) \in Replies
  BY DEF Reply, Replies
<1>2. "idle" \in Points
  BY DEF Points
<1> QED
  BY <1>1, <1>2, Defaults DEF TypeOK, Finish, client

LEMMA InitType == Init => TypeOK
<1> SUFFICES ASSUME Init PROVE TypeOK
  OBVIOUS
<1>1. "idle" \in Points
  BY DEF Points
<1>2. responses \in Seq(StoredResponses)
  BY DEF Init
<1> QED
  BY <1>1, <1>2, Defaults, ServiceAssumption DEF Init, TypeOK

LEMMA ArriveType ==
    ASSUME TypeOK, NEW t \in Threads, NEW k \in Keys \cup {NoKey}, NEW first \in Points,
           Arrive(t, k, first), sent' \in [Keys -> Submissions \cup {NoSubmission}]
    PROVE  TypeOK'
<1>1. requests' \in 0 .. MaxRequests
  BY ServiceAssumption DEF TypeOK, Arrive
<1> QED
  BY <1>1, Defaults DEF TypeOK, Arrive, db, locking

LEMMA IssuedPromptsType ==
    ASSUME TypeOK
    PROVE  IssuedPrompts \subseteq Prompts
<1>1. \A i \in DOMAIN responses : responses[i] \in StoredResponses
  BY DEF TypeOK
<1>2. CurrentPrompt(record) \in Prompts
  BY PromptType DEF TypeOK
<1> QED
  BY <1>1, <1>2 DEF IssuedPrompts, StoredResponses

LEMMA SubmitType ==
    ASSUME TypeOK, NEW t \in Threads, Submit(t)
    PROVE  TypeOK'
<1>1. PICK k \in Keys :
         /\ Arrive(t, k, "replay")
         /\ \/ \E prompt \in IssuedPrompts, audible \in BOOLEAN :
                  sent' = [sent EXCEPT ![k] = [prompt |-> prompt, audible |-> audible]]
            \/ UNCHANGED sent
  BY DEF Submit
<1>2. IssuedPrompts \subseteq Prompts
  BY IssuedPromptsType
<1>3. sent' \in [Keys -> Submissions \cup {NoSubmission}]
  BY <1>1, <1>2 DEF TypeOK, Submissions
<1>4. "replay" \in Points
  BY DEF Points, SubmitPoints
<1> QED
  BY <1>1, <1>3, <1>4, ArriveType
-----------------------------------------------------------------------------
(***************************************************************************)
(* What a thread carries between two round trips.  TypeOK alone is not     *)
(* inductive: Commit stores what the thread has read, scored and computed  *)
(* earlier, so the invariant says what that can be.  The revision ties it  *)
(* to the row: while nobody has committed since the read, the record that  *)
(* was read is the row, and the record to be written follows from it.      *)
(***************************************************************************)
ScoredPoints    == {"advance", "probe", "commit"}
ComputedPoints  == {"probe", "commit"}
JudgingPoints   == {"score", "save_failure"} \cup ScoredPoints
CarryingPoints  == {"cancel_save"} \cup JudgingPoints
KeyedPoints     == {"replay", "check_id", "replay_locked", "check_id_locked", "read",
                    "resolve"} \cup JudgingPoints

\* Every key in use has a submission, which stays.
KeyIsSent(t) == key[t] # NoKey => sent[key[t]] # NoSubmission

\* Only cancel requests have no key.
KeyIsThere(t) == pc[t] \in KeyedPoints => key[t] # NoKey

\* The record that was read was open, and is the row unless its revision is old.
ReadIsFresh(t) ==
    pc[t] \in CarryingPoints =>
        /\ InProgress(work[t].rec)
        /\ work[t].rev <= revision
        /\ work[t].rev = revision => work[t].rec = record

\* The submission answers the prompt of the record that was read.
AnswersPrompt(t) ==
    pc[t] \in JudgingPoints => sent[key[t]].prompt = CurrentPrompt(work[t].rec)

\* The decision is one the evaluator can give for this submission.
IsJudged(t) ==
    pc[t] \in ScoredPoints =>
        work[t].decision \in Observations(work[t].rec, sent[key[t]].audible)

\* The next record is an outcome of the ladder, on the log as it is unless the
\* revision is old.
IsComputed(t) ==
    pc[t] \in ComputedPoints /\ work[t].rev = revision =>
        \E outcome \in Advance(work[t].rec, Log, work[t].decision) :
            work[t].next = outcome.record

\* An outage is recorded only within the bound, and never for an audio check.
MayRecordOutage(t) ==
    pc[t] = "save_failure" =>
        work[t].rec.kind # "calibration" /\ work[t].rec.evalFailures < MaxEvaluatorFailures

Carried(t) ==
    /\ KeyIsSent(t)
    /\ KeyIsThere(t)
    /\ ReadIsFresh(t)
    /\ AnswersPrompt(t)
    /\ IsJudged(t)
    /\ IsComputed(t)
    /\ MayRecordOutage(t)

IInv == TypeOK /\ \A t \in Threads : Carried(t)

\* A step of somebody else leaves what a thread carries as good as it was.
LEMMA OthersKeepCarried ==
    ASSUME TypeOK, NEW u \in Threads, Carried(u),
           pc'[u] = pc[u], key'[u] = key[u], work'[u] = work[u],
           key[u] # NoKey => sent'[key[u]] = sent[key[u]],
           UNCHANGED db \/ revision' = revision + 1
    PROVE  Carried(u)'
<1>0. work[u].rev \in Nat /\ revision \in Nat
  BY DEF TypeOK, Works
<1>1. KeyIsSent(u)' /\ KeyIsThere(u)'
  BY DEF Carried, KeyIsSent, KeyIsThere
<1>2. ReadIsFresh(u)'
  <2>1. CASE UNCHANGED db
    BY <2>1 DEF Carried, ReadIsFresh, db
  <2>2. CASE revision' = revision + 1
    BY <2>2, <1>0 DEF Carried, ReadIsFresh
  <2> QED
    BY <2>1, <2>2
<1>3. AnswersPrompt(u)' /\ IsJudged(u)'
  <2>1. pc[u] \in JudgingPoints \/ pc[u] \in ScoredPoints => sent'[key[u]] = sent[key[u]]
    BY DEF Carried, KeyIsThere, KeyedPoints, JudgingPoints
  <2> QED
    BY <2>1 DEF Carried, AnswersPrompt, IsJudged
<1>4. IsComputed(u)'
  <2>1. CASE UNCHANGED db
    <3>1. Log' = Log /\ revision' = revision
      BY <2>1 DEF Log, db
    <3> QED
      BY <3>1 DEF Carried, IsComputed
  <2>2. CASE revision' = revision + 1
    <3>1. pc[u] \in ComputedPoints => work[u].rev <= revision
      BY DEF Carried, ReadIsFresh, CarryingPoints, JudgingPoints, ScoredPoints, ComputedPoints
    <3>2. pc'[u] \in ComputedPoints => work'[u].rev # revision'
      BY <3>1, <2>2, <1>0
    <3> QED
      BY <3>2 DEF IsComputed
  <2> QED
    BY <2>1, <2>2
<1>5. MayRecordOutage(u)'
  BY DEF Carried, MayRecordOutage
<1> QED
  BY <1>1, <1>2, <1>3, <1>4, <1>5 DEF Carried

\* A thread at a point where it has read nothing yet carries nothing.
LEMMA NothingCarried ==
    ASSUME NEW u \in Threads, KeyIsSent(u)', KeyIsThere(u)', pc'[u] \notin CarryingPoints
    PROVE  Carried(u)'
<1>1. /\ pc'[u] \notin JudgingPoints /\ pc'[u] \notin ScoredPoints
      /\ pc'[u] \notin ComputedPoints /\ pc'[u] # "save_failure"
  BY DEF CarryingPoints, JudgingPoints, ScoredPoints, ComputedPoints
<1> QED
  BY <1>1 DEF Carried, ReadIsFresh, AnswersPrompt, IsJudged, IsComputed, MayRecordOutage

\* So a step of thread t needs only be looked at for t.
LEMMA ThreadStep ==
    ASSUME IInv, NEW t \in Threads, TypeOK', Carried(t)',
           \A u \in Threads \ {t} : pc'[u] = pc[u] /\ key'[u] = key[u] /\ work'[u] = work[u],
           \A k \in Keys : sent[k] # NoSubmission => sent'[k] = sent[k],
           UNCHANGED db \/ revision' = revision + 1
    PROVE  IInv'
<1>1. ASSUME NEW u \in Threads, u # t PROVE Carried(u)'
  <2>1. key[u] # NoKey => key[u] \in Keys /\ sent[key[u]] # NoSubmission
    BY DEF IInv, TypeOK, Carried, KeyIsSent
  <2>2. key[u] # NoKey => sent'[key[u]] = sent[key[u]]
    BY <2>1
  <2> QED
    BY <1>1, <2>2, OthersKeepCarried DEF IInv
<1> QED
  BY <1>1 DEF IInv

\* The steps that answer the request and leave the database alone.
LEMMA FinishStep ==
    ASSUME IInv, NEW t \in Threads, NEW status \in Statuses, NEW result \in Results,
           Finish(t, status, result), UNCHANGED db
    PROVE  IInv'
<1>1. TypeOK'
  BY FinishType DEF IInv, TypeOK, db
<1>2. Carried(t)'
  <2>1. pc'[t] = "idle" /\ UNCHANGED <<key, sent>>
    BY DEF IInv, TypeOK, Finish, client
  <2>2. "idle" \notin CarryingPoints /\ "idle" \notin KeyedPoints
    BY DEF CarryingPoints, JudgingPoints, ScoredPoints, KeyedPoints
  <2>3. KeyIsSent(t)' /\ KeyIsThere(t)'
    BY <2>1, <2>2 DEF IInv, Carried, KeyIsSent, KeyIsThere
  <2> QED
    BY <2>1, <2>2, <2>3, NothingCarried
<1> QED
  BY <1>1, <1>2, ThreadStep DEF Finish, client, IInv, TypeOK

\* The steps that go on without having read the record.
LEMMA GotoStep ==
    ASSUME IInv, NEW t \in Threads, NEW to \in Points \ CarryingPoints,
           Goto(t, to), to \in KeyedPoints => key[t] # NoKey, UNCHANGED <<db, work>>,
           lockOf' \in [Processes -> Threads \cup {NoThread}],
           holder' \in [Threads -> Threads \cup {NoThread}],
           lock' \in [Threads -> Threads \cup {NoThread}]
    PROVE  IInv'
<1>1. TypeOK'
  BY GotoType DEF IInv, TypeOK, db
<1>2. Carried(t)'
  <2>1. pc'[t] = to /\ UNCHANGED <<key, sent>>
    BY DEF IInv, TypeOK, Goto, client
  <2>2. KeyIsSent(t)' /\ KeyIsThere(t)'
    BY <2>1 DEF IInv, Carried, KeyIsSent, KeyIsThere
  <2> QED
    BY <2>1, <2>2, NothingCarried
<1> QED
  BY <1>1, <1>2, ThreadStep DEF Goto, client, IInv, TypeOK

\* The steps that go on with something in hand.
LEMMA CarryStep ==
    ASSUME IInv, NEW t \in Threads, NEW to \in Points, NEW w \in Works,
           Goto(t, to), work' = [work EXCEPT ![t] = w], Carried(t)', UNCHANGED <<db, locking>>
    PROVE  IInv'
<1>1. TypeOK'
  BY GotoType DEF IInv, TypeOK, db, locking
<1> QED
  BY <1>1, ThreadStep DEF Goto, client, IInv, TypeOK

LEMMA LookupReplayKeeps ==
    ASSUME IInv, NEW t \in Threads, NEW at \in KeyedPoints, NEW missing \in Points \ CarryingPoints,
           LookupReplay(t, at, missing)
    PROVE  IInv'
<1>1. CASE Stored(key[t]) /\ Finish(t, "ok", StoredResult(key[t]))
  <2>1. StoredResult(key[t]) \in Results
    BY <1>1, StoredResultType DEF IInv
  <2> QED
    BY <1>1, <2>1, FinishStep DEF LookupReplay, Statuses
<1>2. CASE Goto(t, missing) /\ UNCHANGED <<locking, work>>
  <2>1. key[t] # NoKey
    BY DEF IInv, Carried, KeyIsThere, LookupReplay
  <2> QED
    BY <1>2, <2>1, GotoStep DEF LookupReplay, locking, IInv, TypeOK
<1> QED
  BY <1>1, <1>2 DEF LookupReplay

LEMMA CheckResponseIdKeeps ==
    ASSUME IInv, NEW t \in Threads, NEW at \in KeyedPoints, NEW fresh \in Points \ CarryingPoints,
           CheckResponseId(t, at, fresh)
    PROVE  IInv'
<1>1. CASE Finish(t, "conflict", NoResult)
  BY <1>1, FinishStep, Defaults DEF CheckResponseId, Statuses
<1>2. CASE Goto(t, fresh) /\ UNCHANGED <<locking, work>>
  <2>1. key[t] # NoKey
    BY DEF IInv, Carried, KeyIsThere, CheckResponseId
  <2> QED
    BY <1>2, <2>1, GotoStep DEF CheckResponseId, locking, IInv, TypeOK
<1> QED
  BY <1>1, <1>2 DEF CheckResponseId

\* None of the points on the way to the lock carries anything.
LEMMA QuietPoints ==
    {"idle", "replay", "check_id", "find_lock", "make_lock", "acquire", "replay_locked",
     "check_id_locked", "read", "resolve", "cancel_read"} \subseteq Points \ CarryingPoints
BY DEF Points, SubmitPoints, SharedPoints, LockPoints, CarryingPoints, JudgingPoints, ScoredPoints

LEMMA FindLockKeeps ==
    ASSUME IInv, NEW t \in Threads, FindLock(t)
    PROVE  IInv'
<1>1. lock' \in [Threads -> Threads \cup {NoThread}]
  BY ServiceAssumption DEF FindLock, IInv, TypeOK
<1>2. "acquire" \notin KeyedPoints /\ "make_lock" \notin KeyedPoints
  BY DEF KeyedPoints, JudgingPoints, ScoredPoints
<1> QED
  BY <1>1, <1>2, GotoStep, QuietPoints DEF FindLock, IInv, TypeOK

LEMMA MakeLockKeeps ==
    ASSUME IInv, NEW t \in Threads, MakeLock(t)
    PROVE  IInv'
<1> DEFINE p == ProcessOf[t]
           l == IF AtomicLocks /\ lockOf[p] # NoThread THEN lockOf[p] ELSE t
<1>1. p \in Processes /\ lockOf[p] \in Threads \cup {NoThread}
  BY ServiceAssumption DEF IInv, TypeOK
<1>2. l \in Threads
  BY <1>1
<1>3. lock' = [lock EXCEPT ![t] = l]
  BY DEF MakeLock
<1>4. lock' \in [Threads -> Threads \cup {NoThread}] /\ lock'[t] = l
  BY <1>2, <1>3 DEF IInv, TypeOK
<1>5. lockOf' \in [Processes -> Threads \cup {NoThread}]
  BY <1>1, <1>2, <1>4 DEF MakeLock, IInv, TypeOK
<1>6. "acquire" \notin KeyedPoints
  BY DEF KeyedPoints, JudgingPoints, ScoredPoints
<1> QED
  BY <1>4, <1>5, <1>6, GotoStep, QuietPoints DEF MakeLock, IInv, TypeOK

LEMMA AcquireKeeps ==
    ASSUME IInv, NEW t \in Threads, Acquire(t)
    PROVE  IInv'
<1>1. holder' \in [Threads -> Threads \cup {NoThread}]
  BY DEF Acquire, IInv, TypeOK
<1>2. "cancel_read" \notin KeyedPoints
  BY DEF KeyedPoints, JudgingPoints, ScoredPoints
<1>3. CASE key[t] = NoKey
  BY <1>1, <1>2, <1>3, GotoStep, QuietPoints DEF Acquire, IInv, TypeOK
<1>4. CASE key[t] # NoKey
  BY <1>1, <1>4, GotoStep, QuietPoints DEF Acquire, IInv, TypeOK
<1> QED
  BY <1>3, <1>4

\* Reading the row leaves the thread with the row as it is.
LEMMA ReadStep ==
    ASSUME IInv, NEW t \in Threads, NEW to \in {"score", "cancel_save"},
           work' = [work EXCEPT ![t].rec = record, ![t].rev = revision],
           Goto(t, to), UNCHANGED <<db, locking>>, InProgress(record),
           to = "score" => key[t] # NoKey /\ sent[key[t]].prompt = CurrentPrompt(record)
    PROVE  IInv'
<1> DEFINE w == [work[t] EXCEPT !.rec = record, !.rev = revision]
<1>1. w \in Works /\ w.rec = record /\ w.rev = revision
  BY DEF IInv, TypeOK, Works
<1>2. work' = [work EXCEPT ![t] = w]
  BY DEF IInv, TypeOK
<1>3. to \in Points /\ to \notin ScoredPoints /\ to \notin ComputedPoints /\ to # "save_failure"
  BY DEF Points, LockPoints, ScoredPoints, ComputedPoints
<1>4. pc'[t] = to /\ work'[t] = w /\ UNCHANGED <<key, sent, record, revision>>
  BY <1>2 DEF IInv, TypeOK, Goto, client, db
<1>5. to \in KeyedPoints => to = "score"
  BY DEF KeyedPoints, JudgingPoints, ScoredPoints
<1>6. KeyIsSent(t)' /\ KeyIsThere(t)'
  BY <1>4, <1>5 DEF IInv, Carried, KeyIsSent, KeyIsThere
<1>7. ReadIsFresh(t)'
  <2>1. revision <= revision
    BY DEF IInv, TypeOK
  <2> QED
    BY <1>1, <1>4, <2>1 DEF ReadIsFresh
<1>8. AnswersPrompt(t)'
  <2>1. to \in JudgingPoints => to = "score"
    BY DEF JudgingPoints, ScoredPoints
  <2> QED
    BY <1>1, <1>4, <2>1 DEF AnswersPrompt
<1>9. Carried(t)'
  BY <1>3, <1>4, <1>6, <1>7, <1>8 DEF Carried, IsJudged, IsComputed, MayRecordOutage
<1> HIDE DEF w
<1> QED
  BY <1>1, <1>2, <1>3, <1>9, CarryStep

LEMMA ReadRecordKeeps ==
    ASSUME IInv, NEW t \in Threads, ReadRecord(t)
    PROVE  IInv'
<1>1. key[t] # NoKey
  BY DEF IInv, Carried, KeyIsThere, KeyedPoints, ReadRecord
<1>2. CASE InProgress(record) /\ sent[key[t]].prompt = CurrentPrompt(record)
  BY <1>1, <1>2, ReadStep DEF ReadRecord
<1>3. CASE ~(InProgress(record) /\ sent[key[t]].prompt = CurrentPrompt(record))
  BY <1>3, FinishStep, Defaults DEF ReadRecord, Statuses
<1> QED
  BY <1>2, <1>3

LEMMA CancelReadKeeps ==
    ASSUME IInv, NEW t \in Threads, CancelRead(t)
    PROVE  IInv'
<1>1. CASE InProgress(record)
  BY <1>1, ReadStep DEF CancelRead
<1>2. CASE ~InProgress(record)
  BY <1>2, FinishStep, Defaults DEF CancelRead, Statuses
<1> QED
  BY <1>1, <1>2

\* The evaluator's decisions are decisions.
LEMMA ObservationsType ==
    ASSUME NEW r, NEW audible \in BOOLEAN
    PROVE  Observations(r, audible) \subseteq Decisions
<1>1. CASE ~audible
  BY <1>1 DEF Observations, Decisions
<1>2. CASE audible /\ r.kind = "calibration"
  BY <1>2 DEF Observations, Decisions
<1>3. CASE audible /\ r.kind # "calibration"
  BY <1>3 DEF Observations, Decisions
<1> QED
  BY <1>1, <1>2, <1>3

\* What is known of a thread that has read a record for its submission.
LEMMA InHand ==
    ASSUME IInv, NEW t \in Threads, pc[t] \in JudgingPoints
    PROVE  /\ key[t] \in Keys
           /\ sent[key[t]] \in Submissions
           /\ work[t] \in Works
           /\ InProgress(work[t].rec)
           /\ work[t].rev <= revision
           /\ work[t].rev = revision => work[t].rec = record
           /\ sent[key[t]].prompt = CurrentPrompt(work[t].rec)
<1>1. key[t] # NoKey
  BY DEF IInv, Carried, KeyIsThere, KeyedPoints
<1>2. key[t] \in Keys /\ sent[key[t]] \in Submissions
  BY <1>1 DEF IInv, TypeOK, Carried, KeyIsSent
<1>3. work[t] \in Works
  BY DEF IInv, TypeOK
<1> QED
  BY <1>2, <1>3 DEF IInv, Carried, ReadIsFresh, CarryingPoints, AnswersPrompt

\* A step that goes on with the record that was read, and with more to say.
LEMMA JudgeStep ==
    ASSUME IInv, NEW t \in Threads, pc[t] \in JudgingPoints,
           NEW to \in JudgingPoints, NEW w \in Works,
           Goto(t, to), work' = [work EXCEPT ![t] = w], UNCHANGED <<db, locking>>,
           w.rec = work[t].rec, w.rev = work[t].rev,
           to \in ScoredPoints => w.decision \in Observations(w.rec, sent[key[t]].audible),
           to \in ComputedPoints /\ w.rev = revision =>
               \E outcome \in Advance(w.rec, Log, w.decision) : w.next = outcome.record,
           to = "save_failure" =>
               w.rec.kind # "calibration" /\ w.rec.evalFailures < MaxEvaluatorFailures
    PROVE  IInv'
<1>1. to \in Points
  BY DEF Points, LockPoints, JudgingPoints, ScoredPoints
<1>2. /\ pc'[t] = to /\ work'[t] = w /\ UNCHANGED <<key, sent, record, revision>>
      /\ Log' = Log
  BY DEF IInv, TypeOK, Goto, client, db, Log
<1>3. KeyIsSent(t)' /\ KeyIsThere(t)'
  BY <1>2, InHand DEF IInv, Carried, KeyIsSent, KeyIsThere, KeyedPoints
<1>4. ReadIsFresh(t)' /\ AnswersPrompt(t)'
  BY <1>2, InHand DEF ReadIsFresh, AnswersPrompt
<1>5. IsJudged(t)' /\ IsComputed(t)' /\ MayRecordOutage(t)'
  BY <1>2 DEF IsJudged, IsComputed, MayRecordOutage
<1> QED
  BY <1>1, <1>3, <1>4, <1>5, CarryStep DEF Carried

LEMMA ScoreKeeps ==
    ASSUME IInv, NEW t \in Threads, Score(t)
    PROVE  IInv'
<1>1. pc[t] \in JudgingPoints
  BY DEF Score, JudgingPoints
<1>2. work[t] \in Works /\ sent[key[t]].audible \in BOOLEAN
  BY <1>1, InHand DEF Submissions
<1>3. /\ "advance" \in ScoredPoints /\ "advance" \in JudgingPoints
      /\ "advance" \notin ComputedPoints
      /\ "save_failure" \in JudgingPoints /\ "save_failure" \notin ScoredPoints
      /\ "save_failure" \notin ComputedPoints
  BY DEF JudgingPoints, ScoredPoints, ComputedPoints
<1>4. ASSUME NEW decision \in Observations(work[t].rec, sent[key[t]].audible),
             work' = [work EXCEPT ![t].decision = decision],
             Goto(t, "advance"), UNCHANGED <<db, locking>>
      PROVE  IInv'
  <2> DEFINE w == [work[t] EXCEPT !.decision = decision]
  <2>1. decision \in Decisions
    BY <1>2, ObservationsType
  <2>2. /\ w \in Works /\ w.rec = work[t].rec /\ w.rev = work[t].rev
        /\ w.decision = decision
    BY <1>2, <2>1 DEF Works
  <2>3. work' = [work EXCEPT ![t] = w]
    BY <1>4 DEF IInv, TypeOK
  <2> HIDE DEF w
  <2> QED
    BY <1>1, <1>3, <1>4, <2>2, <2>3, JudgeStep
<1>5. ASSUME work[t].rec.kind # "calibration",
             work[t].rec.evalFailures < MaxEvaluatorFailures,
             Goto(t, "save_failure"), UNCHANGED <<work, db, locking>>
      PROVE  IInv'
  <2>1. work' = [work EXCEPT ![t] = work[t]]
    BY <1>5 DEF IInv, TypeOK
  <2> QED
    BY <1>1, <1>2, <1>3, <1>5, <2>1, JudgeStep
<1> QED
  BY <1>4, <1>5 DEF Score

LEMMA AdvanceRecordKeeps ==
    ASSUME IInv, NEW t \in Threads, AdvanceRecord(t)
    PROVE  IInv'
<1>1. /\ pc[t] \in JudgingPoints /\ pc[t] \in ScoredPoints
      /\ "probe" \in JudgingPoints /\ "probe" \in ScoredPoints
  BY DEF AdvanceRecord, JudgingPoints, ScoredPoints
<1>2. work[t] \in Works /\ sent[key[t]].audible \in BOOLEAN
  BY <1>1, InHand DEF Submissions
<1>3. work[t].decision \in Observations(work[t].rec, sent[key[t]].audible)
  BY <1>1 DEF IInv, Carried, IsJudged
<1>4. work[t].rec \in Records /\ work[t].decision \in Decisions
  BY <1>2, <1>3, ObservationsType DEF Works
<1>5. PICK outcome \in Advance(work[t].rec, Log, work[t].decision) :
        work' = [work EXCEPT
                   ![t].next = outcome.record,
                   ![t].result = [decision |-> work[t].decision,
                                  stage    |-> outcome.stage,
                                  prompt   |-> CurrentPrompt(outcome.record),
                                  answered |-> Len(responses) + 1]]
  BY DEF AdvanceRecord
<1> DEFINE result == [decision |-> work[t].decision,
                      stage    |-> outcome.stage,
                      prompt   |-> CurrentPrompt(outcome.record),
                      answered |-> Len(responses) + 1]
           w == [work[t] EXCEPT !.next = outcome.record, !.result = result]
<1>6. outcome.record \in Records /\ outcome.stage \in Stages
  BY <1>4, AdvanceType
<1>7. result \in Results
  <2>1. CurrentPrompt(outcome.record) \in Prompts
    BY <1>6, PromptType
  <2>2. Len(responses) + 1 \in Nat
    BY DEF IInv, TypeOK
  <2> QED
    BY <1>4, <1>6, <2>1, <2>2 DEF Results
<1>8. /\ w \in Works /\ w.rec = work[t].rec /\ w.rev = work[t].rev
      /\ w.decision = work[t].decision /\ w.next = outcome.record
  <2> HIDE DEF result
  <2> QED
    BY <1>2, <1>6, <1>7 DEF Works
<1>9. work' = [work EXCEPT ![t] = w]
  BY <1>5 DEF IInv, TypeOK
<1> HIDE DEF w
<1> QED
  BY <1>1, <1>3, <1>8, <1>9, JudgeStep DEF AdvanceRecord

LEMMA ProbeKeyKeeps ==
    ASSUME IInv, NEW t \in Threads, ProbeKey(t)
    PROVE  IInv'
<1>1. /\ pc[t] \in JudgingPoints /\ pc[t] \in ScoredPoints /\ pc[t] \in ComputedPoints
      /\ "commit" \in JudgingPoints
  BY DEF ProbeKey, JudgingPoints, ScoredPoints, ComputedPoints
<1>2. work[t] \in Works /\ work[t].result \in Results
  BY <1>1, InHand DEF Works
<1>3. CASE Stored(key[t]) /\ Finish(t, "ok", work[t].result)
  BY <1>2, <1>3, FinishStep DEF ProbeKey, Statuses
<1>4. CASE Goto(t, "commit") /\ UNCHANGED <<locking, work>>
  <2>1. work' = [work EXCEPT ![t] = work[t]]
    BY <1>4 DEF IInv, TypeOK
  <2>2. /\ work[t].decision \in Observations(work[t].rec, sent[key[t]].audible)
        /\ work[t].rev = revision =>
             \E outcome \in Advance(work[t].rec, Log, work[t].decision) :
                work[t].next = outcome.record
    BY <1>1 DEF IInv, Carried, IsJudged, IsComputed
  <2> QED
    BY <1>1, <1>2, <1>4, <2>1, <2>2, JudgeStep DEF ProbeKey
<1> QED
  BY <1>3, <1>4 DEF ProbeKey

LEMMA ResolveKeeps ==
    ASSUME IInv, NEW t \in Threads, Resolve(t)
    PROVE  IInv'
<1>1. CASE Stored(key[t]) /\ Finish(t, "ok", StoredResult(key[t]))
  <2>1. StoredResult(key[t]) \in Results
    BY <1>1, StoredResultType DEF IInv
  <2> QED
    BY <1>1, <2>1, FinishStep DEF Resolve, Statuses
<1>2. CASE Finish(t, "conflict", NoResult)
  BY <1>2, FinishStep, Defaults DEF Resolve, Statuses
<1> QED
  BY <1>1, <1>2 DEF Resolve

\* The steps that write the row answer their request in the same step.
LEMMA WriteStep ==
    ASSUME IInv, NEW t \in Threads, NEW status \in Statuses, NEW result \in Results,
           Finish(t, status, result), revision' = revision + 1,
           record' \in Records, responses' \in Seq(StoredResponses)
    PROVE  IInv'
<1>1. TypeOK'
  BY FinishType DEF IInv, TypeOK
<1>2. Carried(t)'
  <2>1. pc'[t] = "idle" /\ UNCHANGED <<key, sent>>
    BY DEF IInv, TypeOK, Finish, client
  <2>2. "idle" \notin CarryingPoints /\ "idle" \notin KeyedPoints
    BY DEF CarryingPoints, JudgingPoints, ScoredPoints, KeyedPoints
  <2>3. KeyIsSent(t)' /\ KeyIsThere(t)'
    BY <2>1, <2>2 DEF IInv, Carried, KeyIsSent, KeyIsThere
  <2> QED
    BY <2>1, <2>2, <2>3, NothingCarried
<1> QED
  BY <1>1, <1>2, ThreadStep DEF Finish, client, IInv, TypeOK

\* The response a thread has ready for the table.
Ready(t) ==
    [key      |-> key[t],
     response |-> ResponseOf[key[t]],
     prompt   |-> sent[key[t]].prompt,
     decision |-> work[t].decision,
     result   |-> work[t].result]

LEMMA ReadyType ==
    ASSUME IInv, NEW t \in Threads, pc[t] = "commit"
    PROVE  Ready(t) \in StoredResponses /\ work[t].result \in Results /\ work[t].next \in Records
<1>1. pc[t] \in JudgingPoints /\ pc[t] \in ScoredPoints
  BY DEF JudgingPoints, ScoredPoints
<1>2. /\ key[t] \in Keys /\ sent[key[t]] \in Submissions /\ work[t] \in Works
  BY <1>1, InHand
<1>3. work[t].decision \in Decisions
  BY <1>1, <1>2, ObservationsType DEF IInv, Carried, IsJudged, Submissions
<1>4. work[t].result \in Results /\ work[t].next \in Records
  BY <1>2 DEF Works
<1>5. sent[key[t]].prompt \in Prompts
  BY <1>2 DEF Submissions
<1> QED
  BY <1>2, <1>3, <1>4, <1>5 DEF Ready, StoredResponses

LEMMA CommitKeeps ==
    ASSUME IInv, NEW t \in Threads, Commit(t)
    PROVE  IInv'
<1>0. pc[t] = "commit"
  BY DEF Commit
<1>1. CASE /\ record' = work[t].next /\ revision' = revision + 1
           /\ responses' = Append(responses, Ready(t))
           /\ Finish(t, "ok", work[t].result)
  <2>1. Ready(t) \in StoredResponses /\ work[t].result \in Results /\ work[t].next \in Records
    BY <1>0, ReadyType
  <2>2. responses' \in Seq(StoredResponses)
    BY <1>1, <2>1 DEF IInv, TypeOK
  <2> QED
    BY <1>1, <2>1, <2>2, WriteStep DEF Statuses
<1>2. CASE Finish(t, "error", NoResult) /\ UNCHANGED db
  BY <1>2, FinishStep, Defaults DEF Statuses
<1>3. CASE Goto(t, "resolve") /\ UNCHANGED <<db, locking, work>>
  <2>1. key[t] # NoKey
    BY <1>0 DEF IInv, Carried, KeyIsThere, KeyedPoints, JudgingPoints, ScoredPoints
  <2> QED
    BY <1>3, <2>1, GotoStep, QuietPoints DEF locking, IInv, TypeOK
<1> QED
  BY <1>1, <1>2, <1>3 DEF Commit, Ready

LEMMA SaveRecordKeeps ==
    ASSUME IInv, NEW t \in Threads, NEW changed \in Records, NEW status \in Statuses,
           SaveRecord(t, changed, status)
    PROVE  IInv'
<1>1. CASE /\ record' = changed /\ revision' = revision + 1
           /\ Finish(t, status, NoResult) /\ UNCHANGED responses
  BY <1>1, WriteStep, Defaults DEF IInv, TypeOK
<1>2. CASE Finish(t, "error", NoResult) /\ UNCHANGED db
  BY <1>2, FinishStep, Defaults DEF Statuses
<1> QED
  BY <1>1, <1>2 DEF SaveRecord

LEMMA SaveFailureKeeps ==
    ASSUME IInv, NEW t \in Threads, SaveFailure(t)
    PROVE  IInv'
<1>1. work[t].rec \in Records
  BY DEF IInv, TypeOK, Works
<1>2. [work[t].rec EXCEPT !.evalFailures = @ + 1] \in Records
  BY <1>1 DEF Records
<1> QED
  BY <1>2, SaveRecordKeeps DEF SaveFailure, Statuses

LEMMA CancelSaveKeeps ==
    ASSUME IInv, NEW t \in Threads, CancelSave(t)
    PROVE  IInv'
<1>1. work[t].rec \in Records
  BY DEF IInv, TypeOK, Works
<1>2. [work[t].rec EXCEPT !.status = "cancelled", !.reason = "cancelled"] \in Records
  BY <1>1 DEF Records, Reasons
<1> QED
  BY <1>2, SaveRecordKeeps DEF CancelSave, Statuses

\* A request begins: the thread has a key with a submission, and nothing else.
LEMMA ArriveKeeps ==
    ASSUME IInv, NEW t \in Threads, NEW k \in Keys \cup {NoKey}, NEW first \in {"replay", "find_lock"},
           Arrive(t, k, first), sent' \in [Keys -> Submissions \cup {NoSubmission}],
           k = NoKey <=> first = "find_lock",
           k # NoKey => sent'[k] # NoSubmission,
           \A k2 \in Keys : sent[k2] # NoSubmission => sent'[k2] = sent[k2]
    PROVE  IInv'
<1>1. first \in Points /\ first \notin CarryingPoints /\ "find_lock" \notin KeyedPoints
  BY QuietPoints DEF KeyedPoints, JudgingPoints, ScoredPoints
<1>2. TypeOK'
  BY <1>1, ArriveType DEF IInv
<1>3. pc'[t] = first /\ key'[t] = k
  BY DEF IInv, TypeOK, Arrive
<1>4. KeyIsSent(t)' /\ KeyIsThere(t)'
  BY <1>1, <1>3 DEF KeyIsSent, KeyIsThere
<1>5. Carried(t)'
  BY <1>1, <1>3, <1>4, NothingCarried
<1> QED
  BY <1>2, <1>5, ThreadStep DEF Arrive, IInv, TypeOK

LEMMA SubmitKeeps ==
    ASSUME IInv, NEW t \in Threads, Submit(t)
    PROVE  IInv'
<1>1. PICK k \in Keys :
         /\ Arrive(t, k, "replay")
         /\ \/ /\ sent[k] = NoSubmission
               /\ \E prompt \in IssuedPrompts, audible \in BOOLEAN :
                     sent' = [sent EXCEPT ![k] = [prompt |-> prompt, audible |-> audible]]
            \/ sent[k] # NoSubmission /\ UNCHANGED sent
  BY DEF Submit
<1>2. sent' \in [Keys -> Submissions \cup {NoSubmission}]
  BY SubmitType DEF IInv, TypeOK
<1>3. /\ sent'[k] # NoSubmission
      /\ \A k2 \in Keys : sent[k2] # NoSubmission => sent'[k2] = sent[k2]
  <2>1. CASE sent[k] # NoSubmission /\ UNCHANGED sent
    BY <2>1
  <2>2. ASSUME NEW prompt \in IssuedPrompts, NEW audible \in BOOLEAN, sent[k] = NoSubmission,
               sent' = [sent EXCEPT ![k] = [prompt |-> prompt, audible |-> audible]]
        PROVE  /\ sent'[k] # NoSubmission
               /\ \A k2 \in Keys : sent[k2] # NoSubmission => sent'[k2] = sent[k2]
    <3>1. [prompt |-> prompt, audible |-> audible] \in Submissions
      BY IssuedPromptsType, <2>2 DEF Submissions, IInv
    <3> QED
      BY <3>1, <2>2, ServiceAssumption DEF IInv, TypeOK
  <2> QED
    BY <1>1, <2>1, <2>2
<1> QED
  BY <1>1, <1>2, <1>3, ArriveKeeps, ServiceAssumption

LEMMA RequestCancelKeeps ==
    ASSUME IInv, NEW t \in Threads, RequestCancel(t)
    PROVE  IInv'
BY ArriveKeeps DEF RequestCancel, IInv, TypeOK

\* A dead process leaves its threads idle, the others as they were.
LEMMA CrashKeeps ==
    ASSUME IInv, NEW p \in Processes, Crash(p)
    PROVE  IInv'
<1> DEFINE dead(t) == ProcessOf[t] = p
<1>1. /\ lockOf' \in [Processes -> Threads \cup {NoThread}]
      /\ holder' \in [Threads -> Threads \cup {NoThread}]
      /\ lock' \in [Threads -> Threads \cup {NoThread}]
      /\ work' \in [Threads -> Works]
      /\ reply' \in [Threads -> Replies]
  BY Defaults DEF Crash, IInv, TypeOK
<1>2. pc' \in [Threads -> Points]
  BY QuietPoints DEF Crash, IInv, TypeOK
<1>3. crashes' \in 0 .. MaxCrashes
  BY ServiceAssumption DEF Crash, IInv, TypeOK
<1>4. UNCHANGED <<db, key, sent, requests>>
  BY DEF Crash
<1>5. TypeOK'
  BY <1>1, <1>2, <1>3, <1>4 DEF IInv, TypeOK, db
<1>6. ASSUME NEW u \in Threads PROVE Carried(u)'
  <2>1. CASE dead(u)
    <3>1. pc'[u] = "idle"
      BY <2>1 DEF Crash
    <3>2. "idle" \notin CarryingPoints /\ "idle" \notin KeyedPoints
      BY DEF CarryingPoints, JudgingPoints, ScoredPoints, KeyedPoints
    <3>3. KeyIsSent(u)' /\ KeyIsThere(u)'
      BY <1>4, <3>1, <3>2 DEF IInv, Carried, KeyIsSent, KeyIsThere
    <3> QED
      BY <3>1, <3>2, <3>3, NothingCarried
  <2>2. CASE ~dead(u)
    <3>1. pc'[u] = pc[u] /\ work'[u] = work[u]
      BY <2>2 DEF Crash
    <3> QED
      BY <1>4, <3>1, OthersKeepCarried DEF IInv
  <2> QED
    BY <2>1, <2>2
<1> QED
  BY <1>5, <1>6 DEF IInv

LEMMA StutterKeeps ==
    ASSUME IInv, UNCHANGED vars
    PROVE  IInv'
<1>1. TypeOK'
  BY DEF IInv, TypeOK, vars, db, locking, client
<1>2. \A u \in Threads : Carried(u)'
  BY OthersKeepCarried DEF IInv, vars, db, locking, client
<1> QED
  BY <1>1, <1>2 DEF IInv

LEMMA InitCarried == Init => IInv
<1> SUFFICES ASSUME Init PROVE IInv
  OBVIOUS
<1>1. ASSUME NEW t \in Threads PROVE Carried(t)
  <2>1. pc[t] = "idle" /\ key[t] = NoKey
    BY DEF Init
  <2>2. /\ "idle" \notin CarryingPoints /\ "idle" \notin KeyedPoints
        /\ "idle" \notin JudgingPoints /\ "idle" \notin ScoredPoints
        /\ "idle" \notin ComputedPoints
    BY DEF CarryingPoints, JudgingPoints, ScoredPoints, KeyedPoints, ComputedPoints
  <2> QED
    BY <2>1, <2>2 DEF Carried, KeyIsSent, KeyIsThere, ReadIsFresh, AnswersPrompt, IsJudged,
                      IsComputed, MayRecordOutage
<1> QED
  BY <1>1, InitType DEF IInv

LEMMA StepKeeps ==
    ASSUME IInv, NEW t \in Threads, Step(t)
    PROVE  IInv'
<1>1. /\ {"replay", "check_id", "replay_locked", "check_id_locked"} \subseteq KeyedPoints
      /\ {"check_id", "find_lock", "check_id_locked", "read"} \subseteq Points \ CarryingPoints
  BY QuietPoints DEF KeyedPoints
<1>2. \/ LookupReplay(t, "replay", "check_id") \/ LookupReplay(t, "replay_locked", "check_id_locked")
      => IInv'
  BY <1>1, LookupReplayKeeps
<1>3. \/ CheckResponseId(t, "check_id", "find_lock") \/ CheckResponseId(t, "check_id_locked", "read")
      => IInv'
  BY <1>1, CheckResponseIdKeeps
<1> QED
  BY <1>2, <1>3, FindLockKeeps, MakeLockKeeps, AcquireKeeps, ReadRecordKeeps, ScoreKeeps,
     AdvanceRecordKeeps, ProbeKeyKeeps, CommitKeeps, ResolveKeeps, SaveFailureKeeps,
     CancelReadKeeps, CancelSaveKeeps DEF Step

\* The invariant behind everything that follows.
THEOREM WorkIsSound == Spec => []IInv
<1>1. IInv /\ [Next]_vars => IInv'
  BY SubmitKeeps, RequestCancelKeeps, StepKeeps, CrashKeeps, StutterKeeps DEF Next
<1> QED
  BY InitCarried, <1>1, PTL DEF Spec

\* Whatever the interleaving of requests, retries and process deaths, the
\* database, the lock tables and what threads carry keep their shape; above
\* all, what is stored is a decision about a submission under its key.
THEOREM ServiceTypeCorrect == Spec => []TypeOK
<1>1. IInv => TypeOK
  BY DEF IInv
<1> QED
  BY WorkIsSound, <1>1, PTL

-----------------------------------------------------------------------------
(***************************************************************************)
(* The service implements Assessment.  The abstract specification comes in *)
(* under its own names, so its operators are first seen to be the ladder's *)
(* own; the log of decisions then grows by Commit alone.                   *)
(***************************************************************************)
LEMMA SameData ==
    /\ OneAtATime!NewRecord = NewRecord
    /\ \A r : OneAtATime!InProgress(r) = InProgress(r)
    /\ \A r : OneAtATime!CurrentPrompt(r) = CurrentPrompt(r)
    /\ \A r, audible : OneAtATime!Observations(r, audible) = Observations(r, audible)
BY DEF OneAtATime!NewRecord, NewRecord, OneAtATime!NoLevel, NoLevel,
       OneAtATime!InProgress, InProgress, OneAtATime!CurrentPrompt, CurrentPrompt,
       OneAtATime!Observations, Observations, OneAtATime!Scored, Scored

LEMMA SameLadder ==
    ASSUME NEW r, NEW log, NEW d
    PROVE  OneAtATime!Advance(r, log, d) = Advance(r, log, d)
BY DEF OneAtATime!Advance, Advance, OneAtATime!Valid, Valid,
       OneAtATime!HandleCalibration, HandleCalibration,
       OneAtATime!InvalidRepeatOrStop, InvalidRepeatOrStop, OneAtATime!AskFollowUp, AskFollowUp,
       OneAtATime!JudgeStage, JudgeStage, OneAtATime!StageDecisions, StageDecisions,
       OneAtATime!MainDecision, MainDecision, OneAtATime!InvalidAt, InvalidAt,
       OneAtATime!RequestBoundaryVerification, RequestBoundaryVerification,
       OneAtATime!PassStage, PassStage, OneAtATime!FailStage, FailStage,
       OneAtATime!TieBreakerPassed, TieBreakerPassed, OneAtATime!CountInvalid, CountInvalid,
       OneAtATime!CurrentPrompt, CurrentPrompt, OneAtATime!Complete, Complete,
       OneAtATime!Outcome, Outcome, OneAtATime!TopLevel, TopLevel, OneAtATime!NoLevel, NoLevel

\* The part of a stored response that the ladder reads.
Judged(stored) == [prompt |-> stored.prompt, decision |-> stored.decision]

LEMMA LogAppend ==
    ASSUME TypeOK, NEW stored \in StoredResponses, responses' = Append(responses, stored)
    PROVE  Log' = Append(Log, Judged(stored))
<1>1. \A s \in StoredResponses : Judged(s) \in Answers
  BY DEF StoredResponses, Judged, Answers
<1>2. /\ Len(responses) \in Nat /\ DOMAIN responses = 1 .. Len(responses)
      /\ \A i \in DOMAIN responses : responses[i] \in StoredResponses
  BY DEF TypeOK
<1>3. /\ DOMAIN responses' = 1 .. Len(responses) + 1
      /\ \A i \in 1 .. Len(responses) : responses'[i] = responses[i]
      /\ responses'[Len(responses) + 1] = stored
  BY <1>2 DEF TypeOK
<1>4. Log = [i \in 1 .. Len(responses) |-> Judged(responses[i])]
  BY <1>2 DEF Log, Judged
<1>5. Log' = [i \in 1 .. Len(responses) + 1 |-> Judged(responses'[i])]
  BY <1>3 DEF Log, Judged
<1>6. Log \in Seq(Answers) /\ Len(Log) = Len(responses)
  <2> HIDE DEF Judged
  <2> QED
    BY <1>1, <1>2, <1>4
<1>7. /\ Log' \in Seq(Answers) /\ Len(Log') = Len(Log) + 1
      /\ \A i \in 1 .. Len(Log) : Log'[i] = Log[i]
      /\ Log'[Len(Log) + 1] = Judged(stored)
  <2>1. \A i \in 1 .. Len(responses) + 1 : Judged(responses'[i]) \in Answers
    <3>1. \A i \in 1 .. Len(responses) + 1 : responses'[i] \in StoredResponses
      BY <1>2, <1>3
    <3> QED
      BY <3>1, <1>1
  <2>2. Log' \in Seq(Answers) /\ Len(Log') = Len(responses) + 1
    <3> HIDE DEF Judged
    <3> QED
      BY <1>2, <1>5, <2>1
  <2>3. \A i \in 1 .. Len(responses) : Log'[i] = Log[i]
    <3> HIDE DEF Judged
    <3> QED
      BY <1>2, <1>3, <1>4, <1>5
  <2>4. Log'[Len(responses) + 1] = Judged(stored)
    <3> HIDE DEF Judged
    <3> QED
      BY <1>2, <1>3, <1>5
  <2> QED
    BY <1>6, <2>2, <2>3, <2>4
<1> DEFINE grown == Append(Log, Judged(stored))
<1>8. /\ grown \in Seq(Answers) /\ Len(grown) = Len(Log) + 1
      /\ \A i \in 1 .. Len(Log) : grown[i] = Log[i]
      /\ grown[Len(Log) + 1] = Judged(stored)
  BY <1>1, <1>6, AppendProperties
<1>9. \A i \in 1 .. Len(grown) : grown[i] = Log'[i]
  <2> HIDE DEF grown
  <2> QED
    BY <1>6, <1>7, <1>8
<1> HIDE DEF grown
<1> QED
  BY <1>6, <1>7, <1>8, <1>9, SeqEqual DEF grown

LEMMA InitRefines == Init => OneAtATime!Init
<1> SUFFICES ASSUME Init PROVE OneAtATime!Init
  OBVIOUS
<1>1. responses = <<>> /\ TypeOK
  BY InitType DEF Init
<1>2. Log \in Seq(Answers) /\ Len(Log) = 0
  <2>1. DOMAIN responses = 1 .. 0
    BY <1>1
  <2>2. Log = [i \in 1 .. 0 |-> Judged(responses[i])]
    BY <2>1 DEF Log, Judged
  <2> QED
    BY <2>2
<1>3. Log = <<>>
  BY <1>2, EmptySeq
<1> QED
  BY <1>3, SameData DEF Init, OneAtATime!Init

\* What leaves the database alone is a stutter of the assessment.
LEMMA QuietSteps ==
    ASSUME UNCHANGED db
    PROVE  UNCHANGED OneAtATime!vars
BY DEF db, Log, OneAtATime!vars

\* A commit that is accepted is an answer, judged as the evaluator might judge
\* it now and moving the ladder from where it stands now.
LEMMA CommitRefines ==
    ASSUME IInv, NEW t \in Threads, Commit(t)
    PROVE  [OneAtATime!Next]_(OneAtATime!vars)
<1>0. pc[t] \in JudgingPoints /\ pc[t] \in ScoredPoints /\ pc[t] \in ComputedPoints
  BY DEF Commit, JudgingPoints, ScoredPoints, ComputedPoints
<1>1. ASSUME revision = work[t].rev, record' = work[t].next,
             responses' = Append(responses, Ready(t))
      PROVE  OneAtATime!Answer
  <2>1. /\ sent[key[t]] \in Submissions /\ work[t].rec = record
        /\ InProgress(record) /\ sent[key[t]].prompt = CurrentPrompt(record)
    BY <1>0, <1>1, InHand
  <2>2. work[t].decision \in Observations(record, sent[key[t]].audible)
    BY <1>0, <2>1 DEF IInv, Carried, IsJudged
  <2>3. PICK outcome \in Advance(record, Log, work[t].decision) : work[t].next = outcome.record
    BY <1>0, <1>1, <2>1 DEF IInv, Carried, IsComputed
  <2>4. Ready(t) \in StoredResponses
    BY ReadyType DEF Commit
  <2>5. Log' = Append(Log, Judged(Ready(t)))
    BY <1>1, <2>4, LogAppend DEF IInv
  <2>6. Judged(Ready(t)) = [prompt |-> CurrentPrompt(record), decision |-> work[t].decision]
    BY <2>1 DEF Judged, Ready
  <2>7. OneAtATime!InProgress(record)
    BY <2>1, SameData
  <2>8. sent[key[t]].audible \in BOOLEAN
    BY <2>1 DEF Submissions
  <2>9. work[t].decision \in OneAtATime!Observations(record, sent[key[t]].audible)
    BY <2>2, SameData
  <2>10. outcome \in OneAtATime!Advance(record, Log, work[t].decision)
    BY <2>3, SameLadder
  <2>11. Log' = Append(Log, [prompt   |-> OneAtATime!CurrentPrompt(record),
                             decision |-> work[t].decision])
    BY <2>5, <2>6, SameData
  <2> QED
    BY <1>1, <2>3, <2>7, <2>8, <2>9, <2>10, <2>11 DEF OneAtATime!Answer
<1>2. CASE UNCHANGED db
  BY <1>2, QuietSteps
<1> QED
  BY <1>1, <1>2 DEF Commit, Ready, OneAtATime!Next

\* Recording an outage that was read to be within the bound.
LEMMA SaveFailureRefines ==
    ASSUME IInv, NEW t \in Threads, SaveFailure(t)
    PROVE  [OneAtATime!Next]_(OneAtATime!vars)
<1>0. pc[t] \in JudgingPoints /\ pc[t] = "save_failure"
  BY DEF SaveFailure, JudgingPoints
<1>1. ASSUME revision = work[t].rev, UNCHANGED responses,
             record' = [work[t].rec EXCEPT !.evalFailures = @ + 1]
      PROVE  OneAtATime!EvaluatorUnavailable
  <2>1. work[t].rec = record /\ InProgress(record)
    BY <1>0, <1>1, InHand
  <2>2. record.kind # "calibration" /\ record.evalFailures < MaxEvaluatorFailures
    BY <1>0, <2>1 DEF IInv, Carried, MayRecordOutage
  <2>3. Log' = Log
    BY <1>1 DEF Log
  <2> QED
    BY <1>1, <2>1, <2>2, <2>3, SameData DEF OneAtATime!EvaluatorUnavailable
<1>2. CASE UNCHANGED db
  BY <1>2, QuietSteps
<1> QED
  BY <1>1, <1>2 DEF SaveFailure, SaveRecord, OneAtATime!Next

\* Cancelling what was read to be open.
LEMMA CancelSaveRefines ==
    ASSUME IInv, NEW t \in Threads, CancelSave(t)
    PROVE  [OneAtATime!Next]_(OneAtATime!vars)
<1>1. ASSUME revision = work[t].rev, UNCHANGED responses,
             record' = [work[t].rec EXCEPT !.status = "cancelled", !.reason = "cancelled"]
      PROVE  OneAtATime!Cancel
  <2>1. pc[t] \in CarryingPoints
    BY DEF CancelSave, CarryingPoints
  <2>2. work[t].rec = record /\ InProgress(record)
    BY <1>1, <2>1 DEF IInv, Carried, ReadIsFresh
  <2>3. Log' = Log
    BY <1>1 DEF Log
  <2> QED
    BY <1>1, <2>2, <2>3, SameData DEF OneAtATime!Cancel
<1>2. CASE UNCHANGED db
  BY <1>2, QuietSteps
<1> QED
  BY <1>1, <1>2 DEF CancelSave, SaveRecord, OneAtATime!Next

LEMMA StepRefines ==
    ASSUME IInv, NEW t \in Threads, Step(t)
    PROVE  [OneAtATime!Next]_(OneAtATime!vars)
<1>1. CASE Commit(t) \/ SaveFailure(t) \/ CancelSave(t)
  BY <1>1, CommitRefines, SaveFailureRefines, CancelSaveRefines
<1>2. CASE ~(Commit(t) \/ SaveFailure(t) \/ CancelSave(t))
  <2>1. UNCHANGED db
    BY <1>2 DEF Step, LookupReplay, CheckResponseId, FindLock, MakeLock, Acquire, ReadRecord,
                Score, AdvanceRecord, ProbeKey, Resolve, CancelRead
  <2> QED
    BY <2>1, QuietSteps
<1> QED
  BY <1>1, <1>2

\* Threads, copies of submissions, optimistic commits and process deaths
\* amount to answers taken one at a time: every step of the service is a step
\* of Assessment, or none.
THEOREM ServiceRefinesAssessment == Spec => RefinesAssessment
<1>1. ASSUME IInv, [Next]_vars
      PROVE  [OneAtATime!Next]_(OneAtATime!vars)
  <2>1. CASE \E t \in Threads : Submit(t) \/ RequestCancel(t)
    <3>1. UNCHANGED db
      BY <2>1 DEF Submit, RequestCancel, Arrive
    <3> QED
      BY <3>1, QuietSteps
  <2>2. CASE \E t \in Threads : Step(t)
    BY <1>1, <2>2, StepRefines
  <2>3. CASE \E p \in Processes : Crash(p)
    <3>1. UNCHANGED db
      BY <2>3 DEF Crash
    <3> QED
      BY <3>1, QuietSteps
  <2>4. CASE UNCHANGED vars
    BY <2>4, QuietSteps DEF vars
  <2> QED
    BY <1>1, <2>1, <2>2, <2>3, <2>4 DEF Next
<1> QED
  BY WorkIsSound, InitRefines, <1>1, PTL DEF Spec, RefinesAssessment, OneAtATime!Spec

-----------------------------------------------------------------------------
(***************************************************************************)
(* What a reply promises.                                                  *)
(***************************************************************************)
\* Only the holder of the current revision of an open record writes it.
LEMMA ClosedStaysClosed ==
    ASSUME IInv, [Next]_vars, ~InProgress(record)
    PROVE  UNCHANGED <<record, responses>>
<1>1. ASSUME NEW t \in Threads, pc[t] \in CarryingPoints
      PROVE  revision # work[t].rev
  BY <1>1 DEF IInv, Carried, ReadIsFresh
<1>2. ASSUME NEW t \in Threads, Step(t)
      PROVE  UNCHANGED <<record, responses>>
  <2>1. CASE Commit(t)
    <3>1. pc[t] \in CarryingPoints
      BY <2>1 DEF Commit, CarryingPoints, JudgingPoints, ScoredPoints
    <3> QED
      BY <1>1, <2>1, <3>1 DEF Commit, db
  <2>2. CASE SaveFailure(t)
    <3>1. pc[t] \in CarryingPoints
      BY <2>2 DEF SaveFailure, CarryingPoints, JudgingPoints
    <3> QED
      BY <1>1, <2>2, <3>1 DEF SaveFailure, SaveRecord, db
  <2>3. CASE CancelSave(t)
    <3>1. pc[t] \in CarryingPoints
      BY <2>3 DEF CancelSave, CarryingPoints
    <3> QED
      BY <1>1, <2>3, <3>1 DEF CancelSave, SaveRecord, db
  <2>4. CASE ~(Commit(t) \/ SaveFailure(t) \/ CancelSave(t))
    BY <1>2, <2>4 DEF Step, LookupReplay, CheckResponseId, FindLock, MakeLock, Acquire, ReadRecord,
                      Score, AdvanceRecord, ProbeKey, Resolve, CancelRead, db
  <2> QED
    BY <2>1, <2>2, <2>3, <2>4
<1>3. CASE \E t \in Threads : Submit(t) \/ RequestCancel(t)
  BY <1>3 DEF Submit, RequestCancel, Arrive, db
<1>4. CASE \E p \in Processes : Crash(p)
  BY <1>4 DEF Crash, db
<1>5. CASE UNCHANGED vars
  BY <1>5 DEF vars, db
<1> QED
  BY <1>2, <1>3, <1>4, <1>5 DEF Next

\* A reply that promises something is given where the promise holds.
LEMMA NewReplies ==
    ASSUME IInv, [Next]_vars, NEW t \in Threads
    PROVE  \/ reply'[t] = reply[t] /\ key'[t] = key[t]
           \/ reply'[t].status \notin {"ok", "cancelled"}
           \/ reply'[t].status = "ok" /\ key'[t] = key[t] /\ Stored(key[t]) /\ UNCHANGED db
           \/ /\ reply'[t].status = "ok" /\ key'[t] = key[t]
              /\ responses' = Append(responses, Ready(t)) /\ pc[t] = "commit"
           \/ reply'[t].status = "cancelled" /\ ~InProgress(record')
<1> DEFINE Promise ==
           \/ reply'[t] = reply[t] /\ key'[t] = key[t]
           \/ reply'[t].status \notin {"ok", "cancelled"}
           \/ reply'[t].status = "ok" /\ key'[t] = key[t] /\ Stored(key[t]) /\ UNCHANGED db
           \/ /\ reply'[t].status = "ok" /\ key'[t] = key[t]
              /\ responses' = Append(responses, Ready(t)) /\ pc[t] = "commit"
           \/ reply'[t].status = "cancelled" /\ ~InProgress(record')
<1>0. reply \in [Threads -> Replies] /\ key \in [Threads -> Keys \cup {NoKey}]
      /\ work \in [Threads -> Works]
  BY DEF IInv, TypeOK
<1>1. ASSUME NEW u \in Threads, NEW to, Goto(u, to) PROVE Promise
  BY <1>1 DEF Goto
<1>2. ASSUME NEW u \in Threads, NEW status, NEW result, Finish(u, status, result),
             status = "ok" => \/ Stored(key[u]) /\ UNCHANGED db
                              \/ responses' = Append(responses, Ready(u)) /\ pc[u] = "commit",
             status = "cancelled" => ~InProgress(record')
      PROVE  Promise
  <2>1. key' = key /\ reply' = [reply EXCEPT ![u] = Reply(status, result)]
    BY <1>2 DEF Finish
  <2>2. CASE u # t
    BY <1>0, <2>1, <2>2
  <2>3. CASE u = t
    <3>1. reply'[t].status = status
      BY <1>0, <2>1, <2>3 DEF Reply
    <3> QED
      BY <1>2, <2>1, <2>3, <3>1
  <2> QED
    BY <2>2, <2>3
<1>3. ASSUME NEW u \in Threads, Submit(u) \/ RequestCancel(u) PROVE Promise
  <2>1. PICK k, first : Arrive(u, k, first)
    BY <1>3 DEF Submit, RequestCancel
  <2>2. CASE u # t
    BY <1>0, <2>1, <2>2 DEF Arrive
  <2>3. CASE u = t
    <3>1. reply'[t].status = "none"
      BY <1>0, <2>1, <2>3 DEF Arrive, Reply
    <3> QED
      BY <3>1
  <2> QED
    BY <2>2, <2>3
<1>4. ASSUME NEW u \in Threads, Step(u) PROVE Promise
  <2> HIDE DEF Promise
  <2>1. CASE LookupReplay(u, "replay", "check_id") \/ LookupReplay(u, "replay_locked", "check_id_locked")
    BY <1>1, <1>2, <2>1 DEF LookupReplay
  <2>2. CASE \/ CheckResponseId(u, "check_id", "find_lock")
             \/ CheckResponseId(u, "check_id_locked", "read")
    BY <1>1, <1>2, <2>2 DEF CheckResponseId
  <2>3. CASE FindLock(u) \/ MakeLock(u) \/ Acquire(u)
    BY <1>1, <2>3 DEF FindLock, MakeLock, Acquire
  <2>4. CASE ReadRecord(u)
    BY <1>1, <1>2, <2>4 DEF ReadRecord
  <2>5. CASE Score(u) \/ AdvanceRecord(u)
    BY <1>1, <2>5 DEF Score, AdvanceRecord
  <2>6. CASE ProbeKey(u)
    BY <1>1, <1>2, <2>6 DEF ProbeKey
  <2>7. CASE Commit(u)
    BY <1>1, <1>2, <2>7 DEF Commit, Ready
  <2>8. CASE Resolve(u)
    BY <1>1, <1>2, <2>8 DEF Resolve
  <2>9. CASE SaveFailure(u)
    BY <1>2, <2>9 DEF SaveFailure, SaveRecord
  <2>10. CASE CancelRead(u)
    BY <1>1, <1>2, <2>10 DEF CancelRead, db
  <2>11. CASE CancelSave(u)
    <3> DEFINE changed == [work[u].rec EXCEPT !.status = "cancelled", !.reason = "cancelled"]
    <3>1. ~InProgress(changed)
      BY <1>0 DEF Works, Records, InProgress
    <3> HIDE DEF changed
    <3>2. SaveRecord(u, changed, "cancelled")
      BY <2>11 DEF CancelSave, changed
    <3> QED
      BY <1>2, <3>1, <3>2 DEF SaveRecord
  <2> QED
    BY <1>4, <2>1, <2>2, <2>3, <2>4, <2>5, <2>6, <2>7, <2>8, <2>9, <2>10, <2>11 DEF Step
<1>5. ASSUME NEW p \in Processes, Crash(p) PROVE Promise
  <2>1. key' = key /\ (reply'[t] = reply[t] \/ reply'[t] = Reply("none", NoResult))
    BY <1>5 DEF Crash
  <2> QED
    BY <2>1 DEF Reply
<1>6. CASE UNCHANGED vars
  BY <1>6 DEF vars
<1> QED
  BY <1>3, <1>4, <1>5, <1>6 DEF Next

\* The table of responses only grows, by what a commit has ready.
LEMMA TableGrows ==
    ASSUME IInv, [Next]_vars
    PROVE  \/ responses' = responses
           \/ \E t \in Threads : pc[t] = "commit" /\ responses' = Append(responses, Ready(t))
<1>1. ASSUME NEW t \in Threads, Step(t)
      PROVE  \/ responses' = responses
             \/ pc[t] = "commit" /\ responses' = Append(responses, Ready(t))
  <2>1. CASE Commit(t)
    BY <2>1 DEF Commit, Ready, db
  <2>2. CASE SaveFailure(t) \/ CancelSave(t)
    BY <2>2 DEF SaveFailure, CancelSave, SaveRecord, db
  <2>3. CASE ~(Commit(t) \/ SaveFailure(t) \/ CancelSave(t))
    BY <1>1, <2>3 DEF Step, LookupReplay, CheckResponseId, FindLock, MakeLock, Acquire, ReadRecord,
                      Score, AdvanceRecord, ProbeKey, Resolve, CancelRead, db
  <2> QED
    BY <2>1, <2>2, <2>3
<1>2. CASE \E t \in Threads : Submit(t) \/ RequestCancel(t)
  BY <1>2 DEF Submit, RequestCancel, Arrive, db
<1>3. CASE \E p \in Processes : Crash(p)
  BY <1>3 DEF Crash, db
<1>4. CASE UNCHANGED vars
  BY <1>4 DEF vars, db
<1> QED
  BY <1>1, <1>2, <1>3, <1>4 DEF Next

LEMMA AppendedResponse ==
    ASSUME IInv, NEW t \in Threads, pc[t] = "commit", responses' = Append(responses, Ready(t))
    PROVE  \A k : k = key[t] \/ Stored(k) => Stored(k)'
<1>1. responses \in Seq(StoredResponses) /\ Ready(t) \in StoredResponses
  BY ReadyType DEF IInv, TypeOK
<1>2. /\ DOMAIN responses = 1 .. Len(responses) /\ Len(responses) \in Nat
      /\ DOMAIN responses' = 1 .. Len(responses) + 1
      /\ \A i \in 1 .. Len(responses) : responses'[i] = responses[i]
      /\ responses'[Len(responses) + 1] = Ready(t)
  BY <1>1
<1>3. DOMAIN responses \subseteq DOMAIN responses' /\ Len(responses) + 1 \in DOMAIN responses'
  BY <1>2
<1>4. Ready(t).key = key[t]
  BY DEF Ready
<1> QED
  BY <1>2, <1>3, <1>4 DEF Stored

\* A cancel that was answered 204 leaves an assessment that is over, and nothing
\* that was under way, in this process or another, changes one that is over: it is
\* not reopened, not completed after a cancel, and no answer is added to it.
THEOREM CancelIsFinal == Spec => []CancelledIsOver /\ EndedIsFinal
<1>1. Init => CancelledIsOver
  BY DEF Init, CancelledIsOver, Reply
<1>2. ASSUME IInv, [Next]_vars, CancelledIsOver
      PROVE  CancelledIsOver'
  <2>1. ASSUME NEW t \in Threads, reply'[t].status = "cancelled"
        PROVE  ~InProgress(record')
    <3>1. CASE reply'[t] = reply[t]
      BY <1>2, <2>1, <3>1, ClosedStaysClosed DEF CancelledIsOver
    <3> QED
      BY <1>2, <2>1, <3>1, NewReplies
  <2> QED
    BY <2>1 DEF CancelledIsOver, InProgress
<1>3. ASSUME IInv, [Next]_vars
      PROVE  [~InProgress(record) => UNCHANGED <<record, responses>>]_vars
  BY <1>3, ClosedStaysClosed
<1> QED
  BY WorkIsSound, <1>1, <1>2, <1>3, PTL DEF Spec, EndedIsFinal

\* A learner who was told that an answer was accepted finds it stored, however
\* the request got there: first, as a copy, or after a lost commit.
THEOREM AcceptedAnswersAreStored == Spec => []AcceptedIsStored
<1>1. Init => AcceptedIsStored
  BY DEF Init, AcceptedIsStored, Reply
<1>2. ASSUME IInv, [Next]_vars, AcceptedIsStored
      PROVE  AcceptedIsStored'
  <2>1. ASSUME NEW k, Stored(k) PROVE Stored(k)'
    <3>1. CASE responses' = responses
      BY <2>1, <3>1 DEF Stored
    <3> QED
      BY <1>2, <2>1, <3>1, TableGrows, AppendedResponse
  <2>2. ASSUME NEW t \in Threads, reply'[t].status = "ok",
               NEW k, k = key'[t]
        PROVE  Stored(k)'
    <3>1. CASE reply'[t] = reply[t] /\ key'[t] = key[t]
      <4>1. Stored(k)
        BY <1>2, <2>2, <3>1 DEF AcceptedIsStored
      <4> QED
        BY <4>1, <2>1
    <3>2. CASE key'[t] = key[t] /\ Stored(key[t])
      <4>1. Stored(k)
        BY <2>2, <3>2
      <4> QED
        BY <4>1, <2>1
    <3>3. CASE /\ key'[t] = key[t] /\ responses' = Append(responses, Ready(t))
               /\ pc[t] = "commit"
      BY <1>2, <2>2, <3>3, AppendedResponse
    <3> QED
      BY <1>2, <2>2, <3>1, <3>2, <3>3, NewReplies
  <2> QED
    BY <2>2 DEF AcceptedIsStored, Stored
<1> QED
  BY WorkIsSound, <1>1, <1>2, PTL DEF Spec

\* What the replies of submit_response and cancel told the learner stays true.
THEOREM RepliesAreTrue == Spec => RepliesHold
<1> QED
  BY AcceptedAnswersAreStored, CancelIsFinal DEF RepliesHold

-----------------------------------------------------------------------------
(***************************************************************************)
(* What is stored is what the assessment did.  A result is computed by     *)
(* AdvanceRecord from reads made before the commit; while the revision has *)
(* not moved on it still describes the present log and the next record.    *)
(***************************************************************************)
ResultReady(t) ==
    pc[t] \in ComputedPoints /\ work[t].rev = revision =>
        /\ work[t].result.decision = work[t].decision
        /\ work[t].result.prompt = CurrentPrompt(work[t].next)
        /\ work[t].result.answered = Len(responses) + 1

ResultInv == ResultsMatchLog /\ \A t \in Threads : ResultReady(t)

\* A thread has a computed record because it had one, or has just computed it.
LEMMA ComesToCompute ==
    ASSUME TypeOK, [Next]_vars, NEW u \in Threads, pc'[u] \in ComputedPoints
    PROVE  \/ pc[u] \in ComputedPoints /\ work'[u] = work[u]
           \/ AdvanceRecord(u)
<1>0. /\ pc \in [Threads -> Points] /\ work \in [Threads -> Works]
      /\ "idle" \notin ComputedPoints
  BY DEF TypeOK, ComputedPoints
<1>1. ASSUME NEW t \in Threads, NEW to, to \notin ComputedPoints, pc' = [pc EXCEPT ![t] = to],
             \A v \in Threads : v # t => work'[v] = work[v]
      PROVE  pc[u] \in ComputedPoints /\ work'[u] = work[u]
  BY <1>0, <1>1
<1>2. ASSUME NEW t \in Threads, NEW status, NEW result, Finish(t, status, result)
      PROVE  pc[u] \in ComputedPoints /\ work'[u] = work[u]
  BY <1>0, <1>1, <1>2 DEF Finish
<1>3. ASSUME NEW t \in Threads, NEW to, to \notin ComputedPoints, Goto(t, to),
             \A v \in Threads : v # t => work'[v] = work[v]
      PROVE  pc[u] \in ComputedPoints /\ work'[u] = work[u]
  BY <1>1, <1>3 DEF Goto
<1>4. {"check_id", "check_id_locked", "find_lock", "read", "acquire", "make_lock", "cancel_read",
       "replay", "replay_locked", "score", "advance", "save_failure", "resolve", "cancel_save"}
         \cap ComputedPoints = {}
  BY DEF ComputedPoints
<1>5. ASSUME NEW t \in Threads, Submit(t) \/ RequestCancel(t)
      PROVE  pc[u] \in ComputedPoints /\ work'[u] = work[u]
  <2>1. \E first \in {"replay", "find_lock"} : pc' = [pc EXCEPT ![t] = first] /\ UNCHANGED work
    BY <1>5 DEF Submit, RequestCancel, Arrive
  <2> QED
    BY <2>1, <1>1, <1>4
<1>6. ASSUME NEW t \in Threads, Step(t)
      PROVE  (pc[u] \in ComputedPoints /\ work'[u] = work[u]) \/ AdvanceRecord(u)
  <2>1. CASE LookupReplay(t, "replay", "check_id") \/ LookupReplay(t, "replay_locked", "check_id_locked")
    BY <1>2, <1>3, <1>4, <2>1 DEF LookupReplay
  <2>2. CASE \/ CheckResponseId(t, "check_id", "find_lock")
             \/ CheckResponseId(t, "check_id_locked", "read")
    BY <1>2, <1>3, <1>4, <2>2 DEF CheckResponseId
  <2>3. CASE FindLock(t) \/ MakeLock(t) \/ Acquire(t)
    BY <1>3, <1>4, <2>3 DEF FindLock, MakeLock, Acquire
  <2>4. CASE ReadRecord(t) \/ CancelRead(t)
    BY <1>0, <1>2, <1>3, <1>4, <2>4 DEF ReadRecord, CancelRead
  <2>5. CASE Score(t)
    BY <1>0, <1>3, <1>4, <2>5 DEF Score
  <2>6. CASE AdvanceRecord(t)
    BY <1>0, <2>6 DEF AdvanceRecord, Goto
  <2>7. CASE ProbeKey(t)
    BY <1>0, <1>2, <2>7 DEF ProbeKey, Goto, ComputedPoints
  <2>8. CASE Commit(t)
    BY <1>2, <1>3, <1>4, <2>8 DEF Commit
  <2>9. CASE Resolve(t)
    BY <1>2, <2>9 DEF Resolve
  <2>10. CASE SaveFailure(t) \/ CancelSave(t)
    BY <1>2, <2>10 DEF SaveFailure, CancelSave, SaveRecord
  <2> QED
    BY <1>6, <2>1, <2>2, <2>3, <2>4, <2>5, <2>6, <2>7, <2>8, <2>9, <2>10 DEF Step
<1>7. ASSUME NEW p \in Processes, Crash(p)
      PROVE  pc[u] \in ComputedPoints /\ work'[u] = work[u]
  BY <1>0, <1>7 DEF Crash
<1>8. CASE UNCHANGED vars
  BY <1>8 DEF vars
<1> QED
  BY <1>5, <1>6, <1>7, <1>8 DEF Next

\* The database moves by a commit that follows from the present row, or the row
\* alone moves and keeps its prompt.
LEMMA DatabaseMoves ==
    ASSUME IInv, [Next]_vars
    PROVE  \/ UNCHANGED db
           \/ /\ revision' = revision + 1
              /\ \/ UNCHANGED responses /\ CurrentPrompt(record') = CurrentPrompt(record)
                 \/ \E t \in Threads :
                       /\ pc[t] = "commit" /\ work[t].rev = revision
                       /\ record' = work[t].next
                       /\ responses' = Append(responses, Ready(t))
<1>1. ASSUME NEW t \in Threads, Commit(t)
      PROVE  \/ UNCHANGED db
             \/ /\ revision' = revision + 1 /\ pc[t] = "commit" /\ work[t].rev = revision
                /\ record' = work[t].next /\ responses' = Append(responses, Ready(t))
  BY <1>1 DEF Commit, Ready
<1>2. ASSUME NEW t \in Threads, SaveFailure(t) \/ CancelSave(t)
      PROVE  \/ UNCHANGED db
             \/ /\ revision' = revision + 1 /\ UNCHANGED responses
                /\ CurrentPrompt(record') = CurrentPrompt(record)
  <2>1. pc[t] \in CarryingPoints
    BY <1>2 DEF SaveFailure, CancelSave, CarryingPoints, JudgingPoints
  <2>2. work[t].rev = revision => work[t].rec = record
    BY <2>1 DEF IInv, Carried, ReadIsFresh
  <2>3. record \in Records
    BY DEF IInv, TypeOK
  <2>4. PICK changed :
          /\ changed = [work[t].rec EXCEPT !.evalFailures = @ + 1]
             \/ changed = [work[t].rec EXCEPT !.status = "cancelled", !.reason = "cancelled"]
          /\ \/ UNCHANGED db
             \/ /\ work[t].rev = revision /\ record' = changed
                /\ revision' = revision + 1 /\ UNCHANGED responses
    BY <1>2 DEF SaveFailure, CancelSave, SaveRecord
  <2>5. work[t].rev = revision => changed.level = record.level /\ changed.kind = record.kind
    <3>1. ASSUME NEW r \in Records, changed = [r EXCEPT !.evalFailures = @ + 1]
          PROVE  changed.level = r.level /\ changed.kind = r.kind
      BY <3>1 DEF Records
    <3>2. ASSUME NEW r \in Records,
                 changed = [r EXCEPT !.status = "cancelled", !.reason = "cancelled"]
          PROVE  changed.level = r.level /\ changed.kind = r.kind
      BY <3>2 DEF Records
    <3> QED
      BY <2>2, <2>3, <2>4, <3>1, <3>2
  <2> QED
    BY <2>4, <2>5 DEF CurrentPrompt
<1>3. ASSUME NEW t \in Threads, Step(t), ~(Commit(t) \/ SaveFailure(t) \/ CancelSave(t))
      PROVE  UNCHANGED db
  BY <1>3 DEF Step, LookupReplay, CheckResponseId, FindLock, MakeLock, Acquire, ReadRecord,
              Score, AdvanceRecord, ProbeKey, Resolve, CancelRead
<1>4. CASE \E t \in Threads : Submit(t) \/ RequestCancel(t)
  BY <1>4 DEF Submit, RequestCancel, Arrive
<1>5. CASE \E p \in Processes : Crash(p)
  BY <1>5 DEF Crash
<1>6. CASE UNCHANGED vars
  BY <1>6 DEF vars
<1> QED
  BY <1>1, <1>2, <1>3, <1>4, <1>5, <1>6 DEF Next

LEMMA ResultReadyKept ==
    ASSUME IInv, [Next]_vars, NEW u \in Threads, ResultReady(u)
    PROVE  ResultReady(u)'
<1> SUFFICES ASSUME pc'[u] \in ComputedPoints, work'[u].rev = revision'
             PROVE  /\ work'[u].result.decision = work'[u].decision
                    /\ work'[u].result.prompt = CurrentPrompt(work'[u].next)
                    /\ work'[u].result.answered = Len(responses') + 1
  BY DEF ResultReady, CurrentPrompt
<1>0. work \in [Threads -> Works] /\ revision \in Nat /\ work[u].rev \in Nat
  BY DEF IInv, TypeOK, Works
<1>1. CASE pc[u] \in ComputedPoints /\ work'[u] = work[u]
  <2>1. work[u].rev <= revision
    BY <1>1 DEF IInv, Carried, ReadIsFresh, CarryingPoints, JudgingPoints, ScoredPoints, ComputedPoints
  <2>2. revision' # revision + 1
    BY <1>0, <1>1, <2>1
  <2>3. UNCHANGED db
    BY <2>2, DatabaseMoves
  <2> QED
    BY <1>1, <2>3 DEF ResultReady, db
<1>2. CASE AdvanceRecord(u)
  <2>1. PICK outcome \in Advance(work[u].rec, Log, work[u].decision) :
          work' = [work EXCEPT
                     ![u].next = outcome.record,
                     ![u].result = [decision |-> work[u].decision,
                                    stage    |-> outcome.stage,
                                    prompt   |-> CurrentPrompt(outcome.record),
                                    answered |-> Len(responses) + 1]]
    BY <1>2 DEF AdvanceRecord
  <2>2. /\ work'[u].result = [decision |-> work[u].decision,
                              stage    |-> outcome.stage,
                              prompt   |-> CurrentPrompt(outcome.record),
                              answered |-> Len(responses) + 1]
        /\ work'[u].next = outcome.record /\ work'[u].decision = work[u].decision
    BY <1>0, <2>1 DEF Works
  <2>3. responses' = responses
    BY <1>2 DEF AdvanceRecord, db
  <2> QED
    BY <2>2, <2>3
<1> QED
  BY <1>1, <1>2, ComesToCompute DEF IInv

LEMMA ResultsMatchLogKept ==
    ASSUME IInv, [Next]_vars, ResultInv
    PROVE  ResultsMatchLog'
<1>0. /\ responses \in Seq(StoredResponses) /\ Len(responses) \in Nat
      /\ DOMAIN responses = 1 .. Len(responses)
  BY DEF IInv, TypeOK
<1>1. CASE UNCHANGED db
  BY <1>1 DEF ResultInv, ResultsMatchLog, db, CurrentPrompt
<1>2. CASE UNCHANGED responses /\ CurrentPrompt(record') = CurrentPrompt(record)
  BY <1>2 DEF ResultInv, ResultsMatchLog, CurrentPrompt
<1>3. ASSUME NEW t \in Threads, pc[t] = "commit", work[t].rev = revision,
             record' = work[t].next, responses' = Append(responses, Ready(t))
      PROVE  ResultsMatchLog'
  <2>1. /\ Ready(t).result.decision = Ready(t).decision
        /\ Ready(t).result.prompt = CurrentPrompt(record')
        /\ Ready(t).result.answered = Len(responses) + 1
    BY <1>3 DEF ResultInv, ResultReady, ComputedPoints, Ready
  <2>2. Ready(t).prompt = CurrentPrompt(record)
    <3>1. pc[t] \in JudgingPoints
      BY <1>3 DEF JudgingPoints, ScoredPoints
    <3> QED
      BY <1>3, <3>1, InHand DEF Ready
  <2>3. /\ Len(responses') = Len(responses) + 1 /\ DOMAIN responses' = 1 .. Len(responses) + 1
        /\ \A i \in 1 .. Len(responses) : responses'[i] = responses[i]
        /\ responses'[Len(responses) + 1] = Ready(t)
    BY <1>0, <1>3, ReadyType
  <2> DEFINE Right(i) ==
                 /\ responses'[i].result.answered = i
                 /\ responses'[i].result.decision = responses'[i].decision
                 /\ responses'[i].result.prompt =
                       IF i < Len(responses) + 1 THEN responses'[i + 1].prompt
                       ELSE CurrentPrompt(record')
  <2>4. ASSUME NEW i \in 1 .. Len(responses) + 1
        PROVE  Right(i)
    <3>1. CASE i = Len(responses) + 1
      BY <1>0, <2>1, <2>3, <3>1
    <3>2. CASE i = Len(responses)
      BY <1>0, <2>2, <2>3, <3>2 DEF ResultInv, ResultsMatchLog
    <3>3. CASE i < Len(responses)
      <4>1. i \in 1 .. Len(responses) /\ i + 1 \in 1 .. Len(responses)
        BY <1>0, <3>3
      <4> QED
        BY <1>0, <2>3, <3>3, <4>1 DEF ResultInv, ResultsMatchLog
    <3>4. i = Len(responses) + 1 \/ i = Len(responses) \/ i < Len(responses)
      <4>1. ASSUME NEW n \in Nat, i \in 1 .. n + 1
            PROVE  i = n + 1 \/ i = n \/ i < n
        BY <4>1
      <4> QED
        BY <1>0, <4>1
    <3> HIDE DEF Right
    <3> QED
      BY <3>1, <3>2, <3>3, <3>4
  <2> QED
    BY <2>3, <2>4 DEF ResultsMatchLog, CurrentPrompt
<1> QED
  BY <1>1, <1>2, <1>3, DatabaseMoves

\* What was stored is what the assessment did, in any number of processes: the
\* n-th stored result counts n answers, has the decision that is stored with
\* it, and names the prompt of the answer that follows.
THEOREM StoredResultsMatchLog == Spec => []ResultsMatchLog
<1>1. Init => ResultInv
  BY DEF Init, ResultInv, ResultsMatchLog, ResultReady, ComputedPoints
<1>2. IInv /\ [Next]_vars /\ ResultInv => ResultInv'
  BY ResultReadyKept, ResultsMatchLogKept DEF ResultInv
<1>3. ResultInv => ResultsMatchLog
  BY DEF ResultInv
<1> QED
  BY WorkIsSound, <1>1, <1>2, <1>3, PTL DEF Spec

-----------------------------------------------------------------------------
(***************************************************************************)
(* What a lock adds.  As long as no two threads work under two locks,      *)
(* whoever is between two round trips inside its lock is alone there: the  *)
(* revision it read is still the present one and the key it looked up is   *)
(* still missing.  The threads may be of any processes, which may die, and *)
(* locks may be made twice, if those who use them do not overlap.          *)
(***************************************************************************)
OneLock ==
    \A s, t \in Threads : pc[s] \in LockPoints /\ pc[t] \in LockPoints => lock[s] = lock[t]

LookedUpPoints == {"check_id_locked", "read"} \cup JudgingPoints
CheckedPoints  == {"read"} \cup JudgingPoints

\* A lock dies with the process of the thread that made it, and a thread has
\* found one of its own process.
OwnLock(t) ==
    pc[t] \in {"acquire"} \cup LockPoints =>
        lock[t] \in Threads /\ ProcessOf[lock[t]] = ProcessOf[t]

TableLocks ==
    \A p \in Processes : lockOf[p] # NoThread => ProcessOf[lockOf[p]] = p

\* A thread inside the lock holds it, and nothing moved since it looked.
HoldsLock(t)  == pc[t] \in LockPoints => holder[lock[t]] = t
ReadsLast(t)  == pc[t] \in CarryingPoints => work[t].rev = revision
NoConflict(t) == pc[t] # "resolve"
KeyIsNew(t)   == pc[t] \in LookedUpPoints => ~Stored(key[t])
IdIsNew(t)    == pc[t] \in CheckedPoints => ~IdUsed(key[t])

Inside(t) ==
    /\ OwnLock(t)
    /\ HoldsLock(t)
    /\ ReadsLast(t)
    /\ NoConflict(t)
    /\ KeyIsNew(t)
    /\ IdIsNew(t)

KeysUnique ==
    \A i, j \in DOMAIN responses : responses[i].key = responses[j].key => i = j

Exclusive == KeysUnique /\ TableLocks /\ \A t \in Threads : Inside(t)

LEMMA InsidePoints ==
    /\ CarryingPoints \subseteq LockPoints
    /\ LookedUpPoints \subseteq LockPoints
    /\ CheckedPoints \subseteq LookedUpPoints
    /\ JudgingPoints \subseteq CarryingPoints
    /\ "resolve" \in LockPoints
    /\ "idle" \notin {"acquire", "resolve"} \cup LockPoints
BY DEF CarryingPoints, LookedUpPoints, CheckedPoints, JudgingPoints, ScoredPoints, LockPoints

\* Two threads are never inside at the same time.
LEMMA OneInside ==
    ASSUME OneLock, Exclusive, NEW t \in Threads, NEW u \in Threads,
           pc[t] \in LockPoints, pc[u] \in LockPoints
    PROVE  t = u
<1>1. lock[t] = lock[u]
  BY DEF OneLock
<1> QED
  BY <1>1 DEF Exclusive, Inside, HoldsLock

\* A thread elsewhere, or one that answers its request, needs no lock.
LEMMA Outside ==
    ASSUME NEW u \in Threads, pc'[u] \notin {"acquire"} \cup LockPoints
    PROVE  Inside(u)'
BY InsidePoints
   DEF Inside, OwnLock, HoldsLock, ReadsLast, NoConflict, KeyIsNew, IdIsNew

\* A step of another thread leaves a thread inside as it was: only a thread that
\* is inside writes, and then nobody else is.
LEMMA OthersStayInside ==
    ASSUME IInv, OneLock, Exclusive, NEW t \in Threads, NEW u \in Threads, t # u,
           pc'[u] = pc[u], key'[u] = key[u], work'[u] = work[u], lock'[u] = lock[u],
           \A l \in Threads : holder[l] = u => holder'[l] = u,
           UNCHANGED db \/ pc[t] \in LockPoints
    PROVE  Inside(u)'
<1>1. CASE pc[u] \notin {"acquire"} \cup LockPoints
  BY <1>1, Outside
<1>2. CASE pc[u] = "acquire"
  <2>1. OwnLock(u)'
    BY <1>2 DEF Exclusive, Inside, OwnLock
  <2>2. "acquire" \notin LockPoints
    BY DEF LockPoints
  <2> QED
    BY <1>2, <2>1, <2>2, InsidePoints
       DEF Inside, HoldsLock, ReadsLast, NoConflict, KeyIsNew, IdIsNew
<1>3. CASE pc[u] \in LockPoints
  <2>1. UNCHANGED <<record, revision, responses>>
    BY <1>3, OneInside DEF db
  <2>2. /\ lock[u] \in Threads /\ ProcessOf[lock[u]] = ProcessOf[u]
        /\ holder[lock[u]] = u
    BY <1>3 DEF Exclusive, Inside, OwnLock, HoldsLock
  <2>3. OwnLock(u)' /\ HoldsLock(u)'
    BY <2>2 DEF OwnLock, HoldsLock
  <2>4. ReadsLast(u)' /\ NoConflict(u)' /\ KeyIsNew(u)' /\ IdIsNew(u)'
    BY <2>1 DEF Exclusive, Inside, ReadsLast, NoConflict, KeyIsNew, IdIsNew, Stored, IdUsed
  <2> QED
    BY <2>3, <2>4 DEF Inside
<1> QED
  BY <1>1, <1>2, <1>3

\* So a step of thread t needs only be looked at for t.
LEMMA StaysExclusive ==
    ASSUME IInv, OneLock, Exclusive, NEW t \in Threads, Inside(t)', KeysUnique', TableLocks',
           \A u \in Threads \ {t} : /\ pc'[u] = pc[u] /\ key'[u] = key[u]
                                    /\ work'[u] = work[u] /\ lock'[u] = lock[u],
           \A u \in Threads \ {t}, l \in Threads : holder[l] = u => holder'[l] = u,
           UNCHANGED db \/ pc[t] \in LockPoints
    PROVE  Exclusive'
<1>1. ASSUME NEW u \in Threads, u # t PROVE Inside(u)'
  BY <1>1, OthersStayInside
<1> QED
  BY <1>1 DEF Exclusive

LEMMA SameTable ==
    ASSUME Exclusive, lockOf' = lockOf
    PROVE  TableLocks'
BY DEF Exclusive, TableLocks

\* A thread that answers its request leaves the lock.
LEMMA LeaveStep ==
    ASSUME IInv, OneLock, Exclusive, NEW t \in Threads, NEW status, NEW result,
           Finish(t, status, result), KeysUnique', UNCHANGED db \/ pc[t] \in LockPoints
    PROVE  Exclusive'
<1>1. pc'[t] = "idle"
  BY DEF Finish, IInv, TypeOK
<1>2. Inside(t)'
  BY <1>1, Outside, InsidePoints
<1>3. \A u \in Threads \ {t} : /\ pc'[u] = pc[u] /\ key'[u] = key[u]
                               /\ work'[u] = work[u] /\ lock'[u] = lock[u]
  BY DEF Finish, IInv, TypeOK
<1>4. \A u \in Threads \ {t}, l \in Threads : holder[l] = u => holder'[l] = u
  BY DEF Finish
<1> QED
  BY <1>2, <1>3, <1>4, StaysExclusive, SameTable DEF Finish

\* A thread goes on inside the lock, or outside it, with the locks as they are.
LEMMA GoOnStep ==
    ASSUME IInv, OneLock, Exclusive, NEW t \in Threads, NEW to,
           Goto(t, to), UNCHANGED <<db, locking>>, Inside(t)',
           \A u \in Threads \ {t} : work'[u] = work[u]
    PROVE  Exclusive'
<1>1. KeysUnique'
  BY DEF Exclusive, KeysUnique, db
<1>2. \A u \in Threads \ {t} : /\ pc'[u] = pc[u] /\ key'[u] = key[u]
                               /\ work'[u] = work[u] /\ lock'[u] = lock[u]
  BY DEF Goto, locking, IInv, TypeOK
<1> QED
  BY <1>1, <1>2, StaysExclusive, SameTable DEF locking

LEMMA SameKeys ==
    ASSUME Exclusive, UNCHANGED db
    PROVE  KeysUnique'
BY DEF Exclusive, KeysUnique, db

LEMMA LookupReplayOutside ==
    ASSUME IInv, OneLock, Exclusive, NEW t \in Threads, LookupReplay(t, "replay", "check_id")
    PROVE  Exclusive'
<1>1. ASSUME Goto(t, "check_id") PROVE Inside(t)'
  <2>1. pc'[t] = "check_id"
    BY <1>1 DEF Goto, IInv, TypeOK
  <2> QED
    BY <2>1, Outside DEF LockPoints
<1> QED
  BY <1>1, LeaveStep, GoOnStep, SameKeys DEF LookupReplay

LEMMA CheckResponseIdOutside ==
    ASSUME IInv, OneLock, Exclusive, NEW t \in Threads,
           CheckResponseId(t, "check_id", "find_lock")
    PROVE  Exclusive'
<1>1. ASSUME Goto(t, "find_lock") PROVE Inside(t)'
  <2>1. pc'[t] = "find_lock"
    BY <1>1 DEF Goto, IInv, TypeOK
  <2> QED
    BY <2>1, Outside DEF LockPoints
<1> QED
  BY <1>1, LeaveStep, GoOnStep, SameKeys DEF CheckResponseId

\* The lock a thread finds or makes is one of its process.
LEMMA FindLockOwn ==
    ASSUME IInv, OneLock, Exclusive, NEW t \in Threads, FindLock(t)
    PROVE  Exclusive'
<1>0. ProcessOf[t] \in Processes /\ lockOf[ProcessOf[t]] \in Threads \cup {NoThread}
  BY ServiceAssumption DEF IInv, TypeOK
<1>1. Inside(t)'
  <2>1. CASE pc'[t] = "make_lock"
    BY <2>1, Outside DEF LockPoints
  <2>2. CASE pc'[t] = "acquire" /\ lockOf[ProcessOf[t]] # NoThread
             /\ lock' = [lock EXCEPT ![t] = lockOf[ProcessOf[t]]]
    <3>1. lock'[t] \in Threads /\ ProcessOf[lock'[t]] = ProcessOf[t]
      BY <1>0, <2>2 DEF FindLock, IInv, TypeOK, Exclusive, TableLocks
    <3>2. "acquire" \notin LockPoints
      BY DEF LockPoints
    <3> QED
      BY <2>2, <3>1, <3>2, InsidePoints
         DEF Inside, OwnLock, HoldsLock, ReadsLast, NoConflict, KeyIsNew, IdIsNew
  <2> QED
    BY <2>1, <2>2 DEF FindLock, Goto, IInv, TypeOK
<1>2. \A u \in Threads \ {t} : /\ pc'[u] = pc[u] /\ key'[u] = key[u]
                               /\ work'[u] = work[u] /\ lock'[u] = lock[u]
  BY DEF FindLock, Goto, IInv, TypeOK
<1> QED
  BY <1>1, <1>2, StaysExclusive, SameKeys, SameTable DEF FindLock

LEMMA MakeLockOwn ==
    ASSUME IInv, OneLock, Exclusive, NEW t \in Threads, MakeLock(t)
    PROVE  Exclusive'
<1> DEFINE p == ProcessOf[t]
           l == IF AtomicLocks /\ lockOf[p] # NoThread THEN lockOf[p] ELSE t
<1>0. /\ p \in Processes /\ lockOf[p] \in Threads \cup {NoThread} /\ l \in Threads
      /\ ProcessOf[l] = p
  BY ServiceAssumption DEF IInv, TypeOK, Exclusive, TableLocks
<1>1. /\ lock' = [lock EXCEPT ![t] = l] /\ lockOf' = [lockOf EXCEPT ![p] = lock'[t]]
      /\ pc' = [pc EXCEPT ![t] = "acquire"]
  BY DEF MakeLock, Goto
<1> HIDE DEF l
<1>2. pc'[t] = "acquire" /\ lock'[t] = l
      /\ \A q \in Processes : lockOf'[q] = IF q = p THEN l ELSE lockOf[q]
  BY <1>0, <1>1 DEF IInv, TypeOK
<1>3. Inside(t)'
  <2>1. "acquire" \notin LockPoints
    BY DEF LockPoints
  <2> QED
    BY <1>0, <1>2, <2>1, InsidePoints
       DEF Inside, OwnLock, HoldsLock, ReadsLast, NoConflict, KeyIsNew, IdIsNew
<1>4. \A u \in Threads \ {t} : /\ pc'[u] = pc[u] /\ key'[u] = key[u]
                               /\ work'[u] = work[u] /\ lock'[u] = lock[u]
  BY <1>1 DEF MakeLock, Goto, IInv, TypeOK
<1>5. TableLocks'
  BY <1>0, <1>2 DEF Exclusive, TableLocks
<1> QED
  BY <1>3, <1>4, <1>5, StaysExclusive, SameKeys DEF MakeLock

LEMMA AcquireHolds ==
    ASSUME IInv, OneLock, Exclusive, NEW t \in Threads, Acquire(t)
    PROVE  Exclusive'
<1>0. /\ lock[t] \in Threads /\ ProcessOf[lock[t]] = ProcessOf[t]
      /\ holder[lock[t]] = NoThread
  BY DEF Acquire, Exclusive, Inside, OwnLock
<1>1. /\ pc'[t] \in {"cancel_read", "replay_locked"} /\ holder'[lock[t]] = t
      /\ lock'[t] = lock[t] /\ lockOf' = lockOf
  BY <1>0 DEF Acquire, Goto, IInv, TypeOK
<1>2. Inside(t)'
  <2>1. pc'[t] \notin CarryingPoints \cup LookedUpPoints \cup CheckedPoints \cup {"resolve"}
    BY <1>1 DEF CarryingPoints, LookedUpPoints, CheckedPoints, JudgingPoints, ScoredPoints
  <2> QED
    BY <1>0, <1>1, <2>1
       DEF Inside, OwnLock, HoldsLock, ReadsLast, NoConflict, KeyIsNew, IdIsNew
<1>3. \A u \in Threads \ {t} : /\ pc'[u] = pc[u] /\ key'[u] = key[u]
                               /\ work'[u] = work[u] /\ lock'[u] = lock[u]
  BY DEF Acquire, Goto, IInv, TypeOK
<1>4. \A u \in Threads \ {t}, l \in Threads : holder[l] = u => holder'[l] = u
  BY <1>0, ServiceAssumption DEF Acquire, IInv, TypeOK
<1> QED
  BY <1>2, <1>3, <1>4, StaysExclusive, SameKeys, SameTable DEF Acquire

\* A thread inside goes from one round trip to the next.
LEMMA InsideStep ==
    ASSUME IInv, OneLock, Exclusive, NEW t \in Threads, NEW to \in LockPoints \ {"resolve"},
           pc[t] \in LockPoints, Goto(t, to), UNCHANGED <<db, locking>>,
           \A u \in Threads \ {t} : work'[u] = work[u],
           to \in CarryingPoints => work'[t].rev = revision,
           to \in LookedUpPoints => ~Stored(key[t]),
           to \in CheckedPoints => ~IdUsed(key[t])
    PROVE  Exclusive'
<1>1. pc'[t] = to /\ UNCHANGED <<key, responses, revision, lock, holder, lockOf>>
  BY DEF Goto, db, locking, IInv, TypeOK
<1>2. OwnLock(t)' /\ HoldsLock(t)' /\ NoConflict(t)'
  BY <1>1 DEF Exclusive, Inside, OwnLock, HoldsLock, NoConflict
<1>3. ReadsLast(t)' /\ KeyIsNew(t)' /\ IdIsNew(t)'
  BY <1>1 DEF ReadsLast, KeyIsNew, IdIsNew, Stored, IdUsed
<1> QED
  BY <1>2, <1>3, GoOnStep DEF Inside

\* What a thread inside knows.
LEMMA Known ==
    ASSUME Exclusive, NEW t \in Threads
    PROVE  /\ pc[t] # "resolve"
           /\ pc[t] \in CarryingPoints => work[t].rev = revision
           /\ pc[t] \in LookedUpPoints => ~Stored(key[t])
           /\ pc[t] \in CheckedPoints => ~IdUsed(key[t])
BY DEF Exclusive, Inside, ReadsLast, NoConflict, KeyIsNew, IdIsNew

LEMMA LookupReplayInside ==
    ASSUME IInv, OneLock, Exclusive, NEW t \in Threads,
           LookupReplay(t, "replay_locked", "check_id_locked")
    PROVE  Exclusive'
<1>1. /\ {"replay_locked", "check_id_locked"} \subseteq LockPoints \ {"resolve"}
      /\ "check_id_locked" \notin CarryingPoints \cup CheckedPoints
  BY DEF LockPoints, CarryingPoints, CheckedPoints, JudgingPoints, ScoredPoints
<1> QED
  BY <1>1, LeaveStep, InsideStep, SameKeys DEF LookupReplay

LEMMA CheckResponseIdInside ==
    ASSUME IInv, OneLock, Exclusive, NEW t \in Threads,
           CheckResponseId(t, "check_id_locked", "read")
    PROVE  Exclusive'
<1>1. /\ {"check_id_locked", "read"} \subseteq LockPoints \ {"resolve"}
      /\ "check_id_locked" \in LookedUpPoints /\ "read" \notin CarryingPoints
  BY DEF LockPoints, CarryingPoints, LookedUpPoints, JudgingPoints, ScoredPoints
<1> QED
  BY <1>1, LeaveStep, InsideStep, SameKeys, Known DEF CheckResponseId

\* The judging and checking points, for the steps between them.
LEMMA JudgingFacts ==
    /\ {"read"} \cup JudgingPoints \subseteq
           (LockPoints \ {"resolve"}) \cap LookedUpPoints \cap CheckedPoints
    /\ {"score", "advance", "probe", "commit", "save_failure"} = JudgingPoints
    /\ {"cancel_read", "cancel_save"} \subseteq LockPoints \ ({"resolve"} \cup LookedUpPoints \cup CheckedPoints)
    /\ "cancel_save" \in CarryingPoints /\ JudgingPoints \subseteq CarryingPoints
BY DEF LockPoints, CarryingPoints, LookedUpPoints, CheckedPoints, JudgingPoints, ScoredPoints

LEMMA ReadRecordInside ==
    ASSUME IInv, OneLock, Exclusive, NEW t \in Threads, ReadRecord(t)
    PROVE  Exclusive'
<1>1. CASE Finish(t, "conflict", NoResult) /\ UNCHANGED db
  BY <1>1, LeaveStep, SameKeys
<1>2. CASE /\ work' = [work EXCEPT ![t].rec = record, ![t].rev = revision]
           /\ Goto(t, "score") /\ UNCHANGED <<db, locking>>
  <2>1. work'[t].rev = revision /\ \A u \in Threads \ {t} : work'[u] = work[u]
    BY <1>2 DEF IInv, TypeOK, Works
  <2> QED
    BY <1>2, <2>1, InsideStep, Known, JudgingFacts DEF ReadRecord
<1> QED
  BY <1>1, <1>2 DEF ReadRecord

LEMMA JudgingInside ==
    ASSUME IInv, OneLock, Exclusive, NEW t \in Threads,
           Score(t) \/ AdvanceRecord(t) \/ ProbeKey(t)
    PROVE  Exclusive'
<1>0. pc[t] \in JudgingPoints /\ work \in [Threads -> Works]
  BY JudgingFacts DEF Score, AdvanceRecord, ProbeKey, IInv, TypeOK
<1>1. CASE ProbeKey(t) /\ Finish(t, "ok", work[t].result)
  BY <1>1, LeaveStep, SameKeys DEF ProbeKey
<1>2. CASE \E to \in JudgingPoints :
             /\ Goto(t, to) /\ UNCHANGED <<db, locking>>
             /\ \/ UNCHANGED work
                \/ \E decision : work' = [work EXCEPT ![t].decision = decision]
                \/ \E next, result :
                      work' = [work EXCEPT ![t].next = next, ![t].result = result]
  <2>1. work'[t].rev = work[t].rev /\ \A u \in Threads \ {t} : work'[u] = work[u]
    BY <1>0, <1>2 DEF Works
  <2> QED
    BY <1>0, <1>2, <2>1, InsideStep, Known, JudgingFacts
<1> QED
  BY <1>1, <1>2, JudgingFacts DEF Score, AdvanceRecord, ProbeKey

\* A commit adds the key that was missing.
LEMMA CommitInside ==
    ASSUME IInv, OneLock, Exclusive, NEW t \in Threads, Commit(t)
    PROVE  Exclusive'
<1>1. pc[t] = "commit" /\ pc[t] \in LockPoints /\ pc[t] \in CarryingPoints
  BY JudgingFacts DEF Commit
<1>2. work[t].rev = revision
  BY <1>1, Known
<1>3. CASE Finish(t, "error", NoResult) /\ UNCHANGED db
  BY <1>3, LeaveStep, SameKeys
<1>4. CASE /\ ~Stored(key[t]) /\ Finish(t, "ok", work[t].result)
           /\ responses' = Append(responses, Ready(t))
  <2>1. /\ DOMAIN responses = 1 .. Len(responses) /\ Len(responses) \in Nat
        /\ DOMAIN responses' = 1 .. Len(responses) + 1
        /\ \A i \in 1 .. Len(responses) : responses'[i] = responses[i]
        /\ responses'[Len(responses) + 1] = Ready(t)
    BY <1>1, <1>4, ReadyType DEF IInv, TypeOK
  <2>2. Ready(t).key = key[t]
    BY DEF Ready
  <2>3. \A i \in 1 .. Len(responses) : responses[i].key # key[t]
    BY <1>4, <2>1 DEF Stored
  <2>4. \A i, j \in 1 .. Len(responses) : responses[i].key = responses[j].key => i = j
    BY <2>1 DEF Exclusive, KeysUnique
  <2>5. \A i \in 1 .. Len(responses) + 1 : i \in 1 .. Len(responses) \/ i = Len(responses) + 1
    <3>1. \A n \in Nat : \A i \in 1 .. n + 1 : i \in 1 .. n \/ i = n + 1
      OBVIOUS
    <3> QED
      BY <2>1, <3>1
  <2>6. KeysUnique'
    BY <2>1, <2>2, <2>3, <2>4, <2>5 DEF KeysUnique
  <2> QED
    BY <1>1, <1>4, <2>6, LeaveStep
<1> QED
  BY <1>2, <1>3, <1>4 DEF Commit, Ready

LEMMA SavingInside ==
    ASSUME IInv, OneLock, Exclusive, NEW t \in Threads, SaveFailure(t) \/ CancelSave(t)
    PROVE  Exclusive'
<1>1. pc[t] \in LockPoints
  BY JudgingFacts DEF SaveFailure, CancelSave
<1>2. PICK status : Finish(t, status, NoResult) /\ responses' = responses
  BY DEF SaveFailure, CancelSave, SaveRecord, db
<1>3. KeysUnique'
  BY <1>2 DEF Exclusive, KeysUnique
<1> QED
  BY <1>1, <1>2, <1>3, LeaveStep

LEMMA CancelReadInside ==
    ASSUME IInv, OneLock, Exclusive, NEW t \in Threads, CancelRead(t)
    PROVE  Exclusive'
<1>1. CASE Finish(t, "cancelled", NoResult) /\ UNCHANGED db
  BY <1>1, LeaveStep, SameKeys
<1>2. CASE /\ work' = [work EXCEPT ![t].rec = record, ![t].rev = revision]
           /\ Goto(t, "cancel_save") /\ UNCHANGED <<db, locking>>
  <2>1. work'[t].rev = revision /\ \A u \in Threads \ {t} : work'[u] = work[u]
    BY <1>2 DEF IInv, TypeOK, Works
  <2> QED
    BY <1>2, <2>1, InsideStep, JudgingFacts DEF CancelRead
<1> QED
  BY <1>1, <1>2 DEF CancelRead

LEMMA ArriveOutside ==
    ASSUME IInv, OneLock, Exclusive, NEW t \in Threads, Submit(t) \/ RequestCancel(t)
    PROVE  Exclusive'
<1>1. PICK k, first : Arrive(t, k, first) /\ first \in {"replay", "find_lock"}
  BY DEF Submit, RequestCancel
<1>2. pc'[t] \in {"replay", "find_lock"}
  BY <1>1 DEF Arrive, IInv, TypeOK
<1>3. Inside(t)'
  BY <1>2, Outside DEF LockPoints
<1>4. \A u \in Threads \ {t} : /\ pc'[u] = pc[u] /\ key'[u] = key[u]
                               /\ work'[u] = work[u] /\ lock'[u] = lock[u]
  BY <1>1 DEF Arrive, locking, IInv, TypeOK
<1> QED
  BY <1>1, <1>3, <1>4, StaysExclusive, SameKeys, SameTable DEF Arrive, locking

\* The process dies with all its threads, and with their locks.
LEMMA CrashFrees ==
    ASSUME IInv, OneLock, Exclusive, NEW p \in Processes, Crash(p)
    PROVE  Exclusive'
<1>1. KeysUnique'
  BY SameKeys DEF Crash
<1>2. TableLocks'
  <2>1. \A q \in Processes : lockOf'[q] = IF q = p THEN NoThread ELSE lockOf[q]
    BY DEF Crash, IInv, TypeOK
  <2> QED
    BY <2>1 DEF Exclusive, TableLocks
<1>3. ASSUME NEW u \in Threads PROVE Inside(u)'
  <2>1. CASE ProcessOf[u] = p
    <3>1. pc'[u] = "idle"
      BY <2>1 DEF Crash
    <3> QED
      BY <3>1, Outside, InsidePoints
  <2>2. CASE ProcessOf[u] # p
    <3>1. pc'[u] = pc[u] /\ work'[u] = work[u] /\ lock'[u] = lock[u] /\ key' = key
          /\ UNCHANGED db
      BY <2>2 DEF Crash
    <3>2. \A l \in Threads : ProcessOf[l] # p => holder'[l] = holder[l]
      BY DEF Crash
    <3>3. OwnLock(u)' /\ HoldsLock(u)'
      <4>1. pc[u] \in LockPoints => lock[u] \in Threads /\ ProcessOf[lock[u]] # p
        BY <2>2 DEF Exclusive, Inside, OwnLock
      <4> QED
        BY <3>1, <3>2, <4>1 DEF Exclusive, Inside, OwnLock, HoldsLock
    <3>4. ReadsLast(u)' /\ NoConflict(u)' /\ KeyIsNew(u)' /\ IdIsNew(u)'
      BY <3>1 DEF Exclusive, Inside, ReadsLast, NoConflict, KeyIsNew, IdIsNew, Stored, IdUsed, db
    <3> QED
      BY <3>3, <3>4 DEF Inside
  <2> QED
    BY <2>1, <2>2
<1> QED
  BY <1>1, <1>2, <1>3 DEF Exclusive

LEMMA ExclusiveKept ==
    ASSUME IInv, OneLock, Exclusive, [Next]_vars
    PROVE  Exclusive'
<1>1. ASSUME NEW t \in Threads, Step(t) PROVE Exclusive'
  <2>1. ~Resolve(t)
    BY Known DEF Resolve
  <2> QED
    BY <1>1, <2>1, LookupReplayOutside, CheckResponseIdOutside, FindLockOwn, MakeLockOwn,
       AcquireHolds, LookupReplayInside, CheckResponseIdInside, ReadRecordInside, JudgingInside,
       CommitInside, SavingInside, CancelReadInside DEF Step
<1>2. CASE UNCHANGED vars
  BY <1>2 DEF vars, db, locking, Exclusive, KeysUnique, TableLocks, Inside, OwnLock, HoldsLock, ReadsLast,
              NoConflict, KeyIsNew, IdIsNew, Stored, IdUsed
<1> QED
  BY <1>1, <1>2, ArriveOutside, CrashFrees DEF Next

LEMMA StartsExclusive == Init => Exclusive
<1> SUFFICES ASSUME Init PROVE Exclusive
  OBVIOUS
<1>1. \A t \in Threads : pc[t] = "idle"
  BY DEF Init
<1>2. "idle" \notin CarryingPoints \cup LookedUpPoints \cup CheckedPoints
  BY InsidePoints
<1>3. KeysUnique /\ TableLocks
  BY DEF Init, KeysUnique, TableLocks
<1> QED
  BY <1>1, <1>2, <1>3, InsidePoints
     DEF Exclusive, Inside, OwnLock, HoldsLock, ReadsLast, NoConflict, KeyIsNew, IdIsNew

\* What a table answers for a key; while every key is there once, it is the
\* result that was stored with it.
ResultIn(table, k) ==
    LET i == CHOOSE j \in DOMAIN table : table[j].key = k
    IN  table[i].result

LEMMA TheStoredResult ==
    ASSUME NEW table, NEW i \in DOMAIN table,
           \A m, n \in DOMAIN table : table[m].key = table[n].key => m = n
    PROVE  ResultIn(table, table[i].key) = table[i].result
<1> DEFINE j == CHOOSE n \in DOMAIN table : table[n].key = table[i].key
<1>1. j \in DOMAIN table /\ table[j].key = table[i].key
  OBVIOUS
<1>2. j = i
  BY <1>1
<1> QED
  BY <1>2 DEF ResultIn

\* The replies under the lock: no server errors, and an accepted answer is
\* given the stored result.
LEMMA LockedReplies ==
    ASSUME IInv, OneLock, Exclusive, [Next]_vars, NEW t \in Threads
    PROVE  \/ reply'[t] = reply[t] /\ key'[t] = key[t]
           \/ reply'[t].status \notin {"ok", "error"}
           \/ /\ key'[t] = key[t] /\ reply'[t].result = StoredResult(key[t])
              /\ Stored(key[t]) /\ UNCHANGED db /\ reply'[t].status = "ok"
           \/ /\ key'[t] = key[t] /\ reply'[t].result = Ready(t).result /\ pc[t] = "commit"
              /\ responses' = Append(responses, Ready(t)) /\ reply'[t].status = "ok"
<1> DEFINE Promise ==
           \/ reply'[t] = reply[t] /\ key'[t] = key[t]
           \/ reply'[t].status \notin {"ok", "error"}
           \/ /\ key'[t] = key[t] /\ reply'[t].result = StoredResult(key[t])
              /\ Stored(key[t]) /\ UNCHANGED db /\ reply'[t].status = "ok"
           \/ /\ key'[t] = key[t] /\ reply'[t].result = Ready(t).result /\ pc[t] = "commit"
              /\ responses' = Append(responses, Ready(t)) /\ reply'[t].status = "ok"
<1>0. reply \in [Threads -> Replies]
  BY DEF IInv, TypeOK
<1>1. ASSUME NEW u \in Threads, NEW to, Goto(u, to) PROVE Promise
  BY <1>1 DEF Goto
<1>2. ASSUME NEW u \in Threads, NEW status, NEW result, Finish(u, status, result),
             status # "error",
             status = "ok" =>
                 \/ Stored(key[u]) /\ UNCHANGED db /\ result = StoredResult(key[u])
                 \/ /\ responses' = Append(responses, Ready(u)) /\ pc[u] = "commit"
                    /\ result = Ready(u).result
      PROVE  Promise
  <2>1. key' = key /\ reply' = [reply EXCEPT ![u] = Reply(status, result)]
    BY <1>2 DEF Finish
  <2>2. CASE u # t
    BY <1>0, <2>1, <2>2
  <2>3. CASE u = t
    <3>1. reply'[t].status = status /\ reply'[t].result = result
      BY <1>0, <2>1, <2>3 DEF Reply
    <3> QED
      BY <1>2, <2>1, <2>3, <3>1
  <2> QED
    BY <2>2, <2>3
<1>3. ASSUME NEW u \in Threads, Submit(u) \/ RequestCancel(u) PROVE Promise
  <2>1. PICK k, first : Arrive(u, k, first)
    BY <1>3 DEF Submit, RequestCancel
  <2>2. CASE u # t
    BY <1>0, <2>1, <2>2 DEF Arrive
  <2>3. CASE u = t
    <3>1. reply'[t].status = "none"
      BY <1>0, <2>1, <2>3 DEF Arrive, Reply
    <3> QED
      BY <3>1
  <2> QED
    BY <2>2, <2>3
<1>4. ASSUME NEW u \in Threads, Step(u) PROVE Promise
  <2> HIDE DEF Promise
  <2>1. CASE LookupReplay(u, "replay", "check_id") \/ LookupReplay(u, "replay_locked", "check_id_locked")
    BY <1>1, <1>2, <2>1 DEF LookupReplay
  <2>2. CASE \/ CheckResponseId(u, "check_id", "find_lock")
             \/ CheckResponseId(u, "check_id_locked", "read")
    BY <1>1, <1>2, <2>2 DEF CheckResponseId
  <2>3. CASE FindLock(u) \/ MakeLock(u) \/ Acquire(u)
    BY <1>1, <2>3 DEF FindLock, MakeLock, Acquire
  <2>4. CASE ReadRecord(u)
    BY <1>1, <1>2, <2>4 DEF ReadRecord
  <2>5. CASE Score(u) \/ AdvanceRecord(u)
    BY <1>1, <2>5 DEF Score, AdvanceRecord
  <2>6. CASE ProbeKey(u)
    <3>1. pc[u] = "probe" /\ pc[u] \in LookedUpPoints
      BY <2>6, JudgingFacts DEF ProbeKey
    <3> QED
      BY <1>1, <2>6, <3>1, Known DEF ProbeKey
  <2>7. CASE Commit(u)
    <3>1. pc[u] = "commit" /\ pc[u] \in LookedUpPoints \cap CheckedPoints \cap CarryingPoints
      BY <2>7, JudgingFacts DEF Commit
    <3>2. work[u].rev = revision /\ ~Stored(key[u]) /\ ~IdUsed(key[u])
      BY <3>1, Known
    <3>3. /\ responses' = Append(responses, Ready(u))
          /\ Finish(u, "ok", Ready(u).result)
      BY <2>7, <3>2 DEF Commit, Ready
    <3> QED
      BY <1>2, <3>1, <3>3
  <2>8. ~Resolve(u)
    BY Known DEF Resolve
  <2>9. CASE SaveFailure(u)
    <3>1. pc[u] \in CarryingPoints
      BY <2>9, JudgingFacts DEF SaveFailure
    <3> QED
      BY <1>2, <2>9, <3>1, Known DEF SaveFailure, SaveRecord
  <2>10. CASE CancelRead(u)
    BY <1>1, <1>2, <2>10 DEF CancelRead
  <2>11. CASE CancelSave(u)
    <3>1. pc[u] \in CarryingPoints
      BY <2>11, JudgingFacts DEF CancelSave
    <3> QED
      BY <1>2, <2>11, <3>1, Known DEF CancelSave, SaveRecord
  <2> QED
    BY <1>4, <2>1, <2>2, <2>3, <2>4, <2>5, <2>6, <2>7, <2>8, <2>9, <2>10, <2>11 DEF Step
<1>5. ASSUME NEW p \in Processes, Crash(p) PROVE Promise
  <2>1. CASE ProcessOf[t] = p
    <3>1. reply'[t] = Reply("none", NoResult)
      BY <1>5, <2>1 DEF Crash
    <3> QED
      BY <3>1 DEF Reply
  <2>2. CASE ProcessOf[t] # p
    BY <1>5, <2>2 DEF Crash
  <2> QED
    BY <2>1, <2>2
<1>6. CASE UNCHANGED vars
  BY <1>6 DEF vars
<1> QED
  BY <1>3, <1>4, <1>5, <1>6 DEF Next

LEMMA LockProtectsKept ==
    ASSUME IInv, OneLock, Exclusive, Exclusive', [Next]_vars, AcceptedIsStored, LockProtects
    PROVE  LockProtects'
<1>0. responses \in Seq(StoredResponses) /\ KeysUnique /\ KeysUnique'
  BY DEF IInv, TypeOK, Exclusive
<1>1. ASSUME NEW t \in Threads PROVE pc'[t] # "resolve" /\ reply'[t].status # "error"
  <2>1. pc'[t] # "resolve"
    BY DEF Exclusive, Inside, NoConflict
  <2> QED
    BY <2>1, LockedReplies DEF LockProtects, LockPreventsConflicts
<1>2. ASSUME NEW u \in Threads, pc[u] = "commit", responses' = Append(responses, Ready(u))
      PROVE  /\ ResultIn(responses', key[u]) = Ready(u).result
             /\ \A k : Stored(k) => ResultIn(responses', k) = ResultIn(responses, k)
  <2>1. /\ DOMAIN responses = 1 .. Len(responses) /\ Len(responses) \in Nat
        /\ DOMAIN responses' = 1 .. Len(responses) + 1
        /\ \A i \in 1 .. Len(responses) : responses'[i] = responses[i]
        /\ responses'[Len(responses) + 1] = Ready(u)
    BY <1>0, <1>2, ReadyType
  <2>2. /\ Len(responses) + 1 \in DOMAIN responses'
        /\ DOMAIN responses \subseteq DOMAIN responses'
    BY <2>1
  <2>3. /\ \A i \in DOMAIN responses' :
              ResultIn(responses', responses'[i].key) = responses'[i].result
        /\ \A i \in DOMAIN responses :
              ResultIn(responses, responses[i].key) = responses[i].result
    BY <1>0, TheStoredResult DEF KeysUnique
  <2>4. ResultIn(responses', key[u]) = Ready(u).result
    BY <2>1, <2>2, <2>3 DEF Ready
  <2>5. ASSUME NEW k, Stored(k) PROVE ResultIn(responses', k) = ResultIn(responses, k)
    <3>1. PICK i \in DOMAIN responses : responses[i].key = k
      BY <2>5 DEF Stored
    <3> QED
      BY <2>1, <2>2, <2>3, <3>1
  <2> QED
    BY <2>4, <2>5
<1>3. ASSUME NEW t \in Threads, NEW k, k = key'[t], reply'[t].status = "ok"
      PROVE  reply'[t].result = ResultIn(responses', k)
  <2>1. ASSUME Stored(k) PROVE ResultIn(responses', k) = ResultIn(responses, k)
    <3>1. CASE UNCHANGED responses
      BY <3>1
    <3> QED
      BY <1>2, <2>1, <3>1, TableGrows
  <2>2. CASE reply'[t] = reply[t] /\ key'[t] = key[t]
    <3>1. Stored(k) /\ reply[t].result = StoredResult(k)
      BY <1>3, <2>2 DEF AcceptedIsStored, LockProtects, OneResultPerKey
    <3> QED
      BY <2>1, <2>2, <3>1 DEF StoredResult, ResultIn
  <2>3. CASE key'[t] = key[t] /\ reply'[t].result = StoredResult(key[t]) /\ Stored(key[t])
    BY <1>3, <2>1, <2>3 DEF StoredResult, ResultIn
  <2>4. CASE /\ key'[t] = key[t] /\ reply'[t].result = Ready(t).result /\ pc[t] = "commit"
             /\ responses' = Append(responses, Ready(t))
    BY <1>2, <1>3, <2>4
  <2> QED
    BY <1>3, <2>2, <2>3, <2>4, LockedReplies
<1>4. OneResultPerKey'
  BY <1>3 DEF OneResultPerKey, StoredResult, ResultIn
<1> QED
  BY <1>1, <1>4 DEF LockProtects, LockPreventsConflicts

\* While the threads that are inside at the same time are under the same lock,
\* no request of this assessment is ever answered with a server error, no commit
\* is lost to another thread, and every accepted copy of a submission is given
\* the result stored for it.
THEOREM LockKeepsPromises == Spec /\ []OneLock => []LockProtects
<1>1. Init => Exclusive /\ LockProtects
  <2>1. Init => LockProtects
    BY DEF Init, LockProtects, OneResultPerKey, LockPreventsConflicts, Reply
  <2> QED
    BY <2>1, StartsExclusive
<1>2. IInv /\ OneLock /\ AcceptedIsStored /\ [Next]_vars /\ Exclusive /\ LockProtects
         => (Exclusive /\ LockProtects)'
  BY ExclusiveKept, LockProtectsKept
<1> QED
  BY WorkIsSound, AcceptedAnswersAreStored, <1>1, <1>2, PTL DEF Spec

(***************************************************************************)
(* One way to get there: a single process, whose table makes one lock.     *)
(***************************************************************************)
OneProcess == AtomicLocks = TRUE /\ \A s, t \in Threads : ProcessOf[s] = ProcessOf[t]

\* The lock a thread has found is the one in the table.
SharesLock(t) ==
    pc[t] \in {"acquire"} \cup LockPoints =>
        lock[t] # NoThread /\ lock[t] = lockOf[ProcessOf[t]]

LEMMA LockStaysShared ==
    ASSUME IInv, OneProcess, \A u \in Threads : SharesLock(u), [Next]_vars
    PROVE  \A u \in Threads : SharesLock(u)'
<1>0. /\ lock \in [Threads -> Threads \cup {NoThread}]
      /\ pc \in [Threads -> Points] /\ lockOf \in [Processes -> Threads \cup {NoThread}]
      /\ \A t \in Threads : ProcessOf[t] \in Processes
      /\ NoThread \notin Threads
  BY ServiceAssumption DEF IInv, TypeOK
<1>1. ASSUME NEW t \in Threads, UNCHANGED <<lockOf, lock>>, NEW to, pc' = [pc EXCEPT ![t] = to],
             to \in {"acquire"} \cup LockPoints => pc[t] \in {"acquire"} \cup LockPoints
      PROVE  \A u \in Threads : SharesLock(u)'
  BY <1>0, <1>1 DEF SharesLock
<1>2. ASSUME NEW t \in Threads, NEW status, NEW result, Finish(t, status, result)
      PROVE  \A u \in Threads : SharesLock(u)'
  <2>1. \A u \in Threads : u # t => pc'[u] = pc[u] /\ lock'[u] = lock[u]
    BY <1>0, <1>2 DEF Finish
  <2>2. pc'[t] = "idle" /\ lockOf' = lockOf
    BY <1>0, <1>2 DEF Finish
  <2> QED
    BY <2>1, <2>2, InsidePoints DEF SharesLock
<1>3. ASSUME NEW t \in Threads, FindLock(t) \/ MakeLock(t)
      PROVE  \A u \in Threads : SharesLock(u)'
  <2> DEFINE p == ProcessOf[t]
  <2>1. CASE /\ lockOf[p] # NoThread /\ lockOf' = lockOf
             /\ lock' = [lock EXCEPT ![t] = lockOf[p]] /\ pc' = [pc EXCEPT ![t] = "acquire"]
    BY <1>0, <2>1 DEF SharesLock
  <2>2. CASE UNCHANGED <<lockOf, lock>> /\ pc' = [pc EXCEPT ![t] = "make_lock"]
    BY <1>1, <2>2 DEF LockPoints
  <2>3. CASE /\ lockOf[p] = NoThread /\ lockOf' = [lockOf EXCEPT ![p] = t]
             /\ lock' = [lock EXCEPT ![t] = t] /\ pc' = [pc EXCEPT ![t] = "acquire"]
    <3>1. \A u \in Threads : pc[u] \notin {"acquire"} \cup LockPoints
      BY <2>3 DEF SharesLock, OneProcess
    <3> QED
      BY <1>0, <2>3, <3>1 DEF SharesLock
  <2>4. CASE /\ lockOf[p] # NoThread /\ lockOf' = [lockOf EXCEPT ![p] = lockOf[p]]
             /\ lock' = [lock EXCEPT ![t] = lockOf[p]] /\ pc' = [pc EXCEPT ![t] = "acquire"]
    <3>1. lockOf' = lockOf
      BY <1>0, <2>4
    <3> QED
      BY <2>1, <2>4, <3>1
  <2>5. CASE FindLock(t)
    BY <2>1, <2>2, <2>5 DEF FindLock, Goto
  <2>6. CASE MakeLock(t)
    <3>1. lock'[t] = IF lockOf[p] # NoThread THEN lockOf[p] ELSE t
      BY <1>0, <2>6 DEF MakeLock, OneProcess
    <3> QED
      BY <2>3, <2>4, <2>6, <3>1 DEF MakeLock, OneProcess, Goto
  <2> QED
    BY <1>3, <2>5, <2>6
<1>4. ASSUME NEW t \in Threads, Step(t)
      PROVE  \A u \in Threads : SharesLock(u)'
  <2>1. CASE /\ UNCHANGED locking /\ pc[t] \in LockPoints
             /\ \E to \in LockPoints : pc' = [pc EXCEPT ![t] = to]
    BY <1>1, <2>1 DEF locking
  <2>2. CASE /\ UNCHANGED locking
             /\ pc' = [pc EXCEPT ![t] = "check_id"] \/ pc' = [pc EXCEPT ![t] = "find_lock"]
    BY <1>1, <2>2 DEF locking, LockPoints
  <2>3. CASE Acquire(t)
    BY <1>1, <2>3 DEF Acquire, Goto
  <2>4. CASE \/ LookupReplay(t, "replay", "check_id") \/ CheckResponseId(t, "check_id", "find_lock")
    BY <1>2, <2>2, <2>4 DEF LookupReplay, CheckResponseId, Goto
  <2>5. CASE \/ LookupReplay(t, "replay_locked", "check_id_locked")
             \/ CheckResponseId(t, "check_id_locked", "read")
    BY <1>2, <2>1, <2>5 DEF LookupReplay, CheckResponseId, Goto, LockPoints
  <2>6. CASE ReadRecord(t) \/ CancelRead(t) \/ ProbeKey(t) \/ Resolve(t)
    BY <1>2, <2>1, <2>6 DEF ReadRecord, CancelRead, ProbeKey, Resolve, Goto, LockPoints, locking
  <2>7. CASE Score(t) \/ AdvanceRecord(t)
    BY <2>1, <2>7 DEF Score, AdvanceRecord, Goto, LockPoints
  <2>8. CASE Commit(t)
    BY <1>2, <2>1, <2>8 DEF Commit, Goto, LockPoints
  <2>9. CASE SaveFailure(t) \/ CancelSave(t)
    BY <1>2, <2>9 DEF SaveFailure, CancelSave, SaveRecord
  <2> QED
    BY <1>3, <1>4, <2>3, <2>4, <2>5, <2>6, <2>7, <2>8, <2>9 DEF Step
<1>5. ASSUME NEW t \in Threads, Submit(t) \/ RequestCancel(t)
      PROVE  \A u \in Threads : SharesLock(u)'
  <2>1. PICK k, first : Arrive(t, k, first) /\ first \in {"replay", "find_lock"}
    BY <1>5 DEF Submit, RequestCancel
  <2>2. first \notin {"acquire"} \cup LockPoints
    BY <2>1 DEF LockPoints
  <2> QED
    BY <1>1, <2>1, <2>2 DEF Arrive, locking
<1>6. ASSUME NEW p \in Processes, Crash(p)
      PROVE  \A u \in Threads : SharesLock(u)'
  <2>1. ASSUME NEW u \in Threads, ProcessOf[u] = p PROVE SharesLock(u)'
    <3>1. pc'[u] = "idle"
      BY <1>6, <2>1 DEF Crash
    <3> QED
      BY <3>1, InsidePoints DEF SharesLock
  <2>2. ASSUME NEW u \in Threads, ProcessOf[u] # p PROVE SharesLock(u)'
    BY <1>0, <1>6, <2>2 DEF Crash, SharesLock
  <2> QED
    BY <2>1, <2>2
<1>7. CASE UNCHANGED vars
  BY <1>7 DEF vars, locking, SharesLock
<1> QED
  BY <1>4, <1>5, <1>6, <1>7 DEF Next

LEMMA OneProcessHasOneLock ==
    ASSUME OneProcess
    PROVE  Spec => []OneLock
<1>1. Init => \A u \in Threads : SharesLock(u)
  BY InsidePoints DEF Init, SharesLock
<1>2. IInv /\ [Next]_vars /\ (\A u \in Threads : SharesLock(u)) => (\A u \in Threads : SharesLock(u))'
  BY OneProcess, LockStaysShared
<1>3. (\A u \in Threads : SharesLock(u)) => OneLock
  BY OneProcess DEF OneProcess, OneLock, SharesLock
<1> QED
  BY WorkIsSound, <1>1, <1>2, <1>3, PTL DEF Spec
=============================================================================
