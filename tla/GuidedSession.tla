---------------------------- MODULE GuidedSession ----------------------------
(***************************************************************************)
(* GuidedConversationService and SQLRepository at the grain of one         *)
(* database round trip: request threads of any number of API processes     *)
(* work on one guided session.  There is no lock; every write compares the *)
(* revision it has read, and a conflict is not handled (500).  Attempts    *)
(* carry an idempotency key and are sent again; an accepted attempt with   *)
(* kept audio is then published to the pronunciation service by the same   *)
(* thread, whose results come back as requests.  Threads may die.          *)
(***************************************************************************)
EXTENDS GuidedRules

CONSTANTS
    Threads,            \* request threads of all API processes
    Keys,               \* idempotency keys of attempts
    NoKey,              \* the "key" of the other requests
    AttemptIds,         \* attempt_id values
    AttemptOf,          \* the attempt_id sent under a key
    NoSubmission,       \* a key not yet used
    MaxRequests,        \* bound on requests received
    MaxCrashes          \* bound on threads that die

\* What is sent under a key: the turn it answers, and whether the reading is
\* unclear.
Submissions == [turn : Turns, unclear : BOOLEAN]

ASSUME GuidedSessionAssumption ==
    /\ AttemptOf \in [Keys -> AttemptIds]
    /\ NoKey \notin Keys
    /\ NoSubmission \notin Submissions
    /\ MaxRequests \in Nat
    /\ MaxCrashes \in Nat

VARIABLES
    row, revision,      \* guided_sessions: record_json (with the attempt ids) and revision
    replays,            \* guided_attempt_replays, in commit order
    audio,              \* guided_audio_assets: the attempts whose audio was kept
    jobs,               \* the attempts the pronunciation service has been asked about
    pc,                 \* per thread: the next round trip
    request,            \* per thread: what it handles
    work,               \* per thread: what it read and what it made of it
    reply,              \* per thread: the last HTTP response it sent
    sent,               \* per key: the submission sent under it
    requests, crashes   \* bounded counters

db      == <<row, revision, replays>>
outside == <<audio, jobs>>
client  == <<request, sent, requests, crashes>>
vars    == <<db, outside, pc, work, reply, client>>

-----------------------------------------------------------------------------
(***************************************************************************)
(* Data.                                                                   *)
(***************************************************************************)
Results    == {"completed", "failed"}
Operations == Controls \cup Results \cup {"attempt", "confidence"}
Requests   == [op : Operations, key : Keys \cup {NoKey}, attempt : AttemptIds \cup {NoKey}]
NoRequest  == [op |-> "confidence", key |-> NoKey, attempt |-> NoKey]

\* The stored record: ids[i] is the attempt_id of record.attempts[i].
Rows == [record : Records, ids : Seq(AttemptIds)]

\* What an attempt is answered with: where the session now is, the number of
\* the retry, and whether the pronunciation is going to be evaluated.
Answers  == [state : States, turn : Turns, retry : 0 .. MaxRetries, queued : BOOLEAN]
NoAnswer == [state |-> "stopped", turn |-> 1, retry |-> 0, queued |-> FALSE]
Replays  == [key : Keys, attempt : AttemptIds, answer : Answers]

Works  == [next : Rows, rev : Nat, answer : Answers]
NoWork == [next |-> [record |-> NewRecord, ids |-> <<>>], rev |-> 0, answer |-> NoAnswer]

\* 200 or 204, 409, 500; "none" while a request is being handled.
Replies == [status : {"none", "ok", "conflict", "error"}, answer : Answers]
Reply(status, answer) == [status |-> status, answer |-> answer]

Stored(k)       == \E i \in DOMAIN replays : replays[i].key = k
StoredAnswer(k) ==
    LET i == CHOOSE j \in DOMAIN replays : replays[j].key = k
    IN  replays[i].answer

\* The positions of an attempt in the record that was read.
Positions(a) == {i \in DOMAIN row.ids : row.ids[i] = a}

Init ==
    /\ row = [record |-> NewRecord, ids |-> <<>>]
    /\ revision = 0
    /\ replays = <<>>
    /\ audio = {}
    /\ jobs = {}
    /\ pc = [t \in Threads |-> "idle"]
    /\ request = [t \in Threads |-> NoRequest]
    /\ work = [t \in Threads |-> NoWork]
    /\ reply = [t \in Threads |-> Reply("none", NoAnswer)]
    /\ sent = [k \in Keys |-> NoSubmission]
    /\ requests = 0
    /\ crashes = 0

Goto(t, to) ==
    /\ pc' = [pc EXCEPT ![t] = to]
    /\ UNCHANGED <<outside, reply, client>>

\* Thread t answers its request; a queued attempt then goes to the
\* pronunciation service in a background task.
Finish(t, status, answer, then) ==
    /\ pc' = [pc EXCEPT ![t] = then]
    /\ reply' = [reply EXCEPT ![t] = Reply(status, answer)]
    /\ work' = [work EXCEPT ![t] = NoWork]
    /\ UNCHANGED <<outside, client>>

Refuse(t) == Finish(t, "conflict", NoAnswer, "idle") /\ UNCHANGED db

-----------------------------------------------------------------------------
(***************************************************************************)
(* Requests.                                                               *)
(***************************************************************************)
Arrive(t, op, k, a, first) ==
    /\ pc[t] = "idle"
    /\ requests < MaxRequests
    /\ requests' = requests + 1
    /\ pc' = [pc EXCEPT ![t] = first]
    /\ request' = [request EXCEPT ![t] = [op |-> op, key |-> k, attempt |-> a]]
    /\ reply' = [reply EXCEPT ![t] = Reply("none", NoAnswer)]
    /\ UNCHANGED <<db, outside, work, crashes>>

\* upload_original_audio of a session with recording consent, at any time, in
\* whatever state the session is; nothing ties it to the attempt's request.
UploadAudio(a) ==
    /\ audio' = audio \cup {a}
    /\ UNCHANGED <<db, jobs, pc, work, reply, client>>

\* A new attempt at a turn the client was shown, or one sent again.
SubmitAttempt(t) ==
    \E k \in Keys :
        /\ Arrive(t, "attempt", k, AttemptOf[k], "replay")
        /\ \/ /\ sent[k] = NoSubmission
              /\ \E turn \in 1 .. row.record.turn, unclear \in BOOLEAN :
                    sent' = [sent EXCEPT ![k] = [turn |-> turn, unclear |-> unclear]]
           \/ /\ sent[k] # NoSubmission
              /\ UNCHANGED sent

RequestControl(t) ==
    \E op \in Controls \cup {"confidence"} :
        /\ Arrive(t, op, NoKey, NoKey, "read")
        /\ UNCHANGED sent

\* The pronunciation service reports, possibly more than once.
Callback(t) ==
    \E op \in Results, a \in jobs :
        /\ Arrive(t, op, NoKey, a, "read")
        /\ UNCHANGED sent

-----------------------------------------------------------------------------
(***************************************************************************)
(* Controls, confidence and pronunciation results: read, then save.        *)
(***************************************************************************)
\* Thread t goes on to save what it makes of the row.
GoSave(t, record, to) ==
    /\ work' = [work EXCEPT ![t].next = [row EXCEPT !.record = record], ![t].rev = revision]
    /\ Goto(t, to)
    /\ UNCHANGED db

ReadForControl(t) ==
    LET op == request[t].op
        r  == row.record
    IN
    /\ pc[t] = "read" /\ op \in Controls
    /\ \/ MayControl(r, op) /\ GoSave(t, AfterControl(r, op), "save")
       \/ AlreadyDone(r, op) /\ Finish(t, "ok", NoAnswer, "idle") /\ UNCHANGED db
       \/ ~MayControl(r, op) /\ ~AlreadyDone(r, op) /\ Refuse(t)

\* update_confidence, in any state; the value itself is left out.
ReadForConfidence(t) ==
    /\ pc[t] = "read" /\ request[t].op = "confidence"
    /\ GoSave(t, row.record, "save")

\* A job always names a stored attempt (EvaluatedOnlyIfAsked), so that the
\* refusal of an unknown one is left out.
ReadForResult(t) ==
    /\ pc[t] = "read" /\ request[t].op \in Results
    /\ \E i \in Positions(request[t].attempt) :
          GoSave(t, AfterPronunciation(row.record, i, request[t].op), "save")

\* Mutant: the UPDATE does not compare the revision.
SaveBlindly(t) ==
    /\ pc[t] = "save"
    /\ row' = work[t].next
    /\ revision' = revision + 1
    /\ Finish(t, "ok", NoAnswer, "idle")
    /\ UNCHANGED replays

\* save_guided_record; its ConcurrencyConflict has no handler.
Save(t) ==
    /\ pc[t] = "save"
    /\ \/ /\ revision = work[t].rev
          /\ row' = work[t].next
          /\ revision' = revision + 1
          /\ Finish(t, "ok", NoAnswer, "idle")
          /\ UNCHANGED replays
       \/ /\ revision # work[t].rev
          /\ Finish(t, "error", NoAnswer, "idle")
          /\ UNCHANGED db

-----------------------------------------------------------------------------
(***************************************************************************)
(* Attempts.                                                               *)
(***************************************************************************)
LookupReplay(t) ==
    /\ pc[t] = "replay"
    /\ \/ Stored(request[t].key) /\ Finish(t, "ok", StoredAnswer(request[t].key), "idle")
       \/ ~Stored(request[t].key) /\ Goto(t, "read") /\ UNCHANGED work
    /\ UNCHANGED db

\* Mutant: a second attempt under a used attempt_id is not noticed.
AcceptableTwice(t) ==
    MaySpeak(row.record) /\ sent[request[t].key].turn = row.record.turn

Acceptable(t) ==
    /\ MaySpeak(row.record)
    /\ sent[request[t].key].turn = row.record.turn
    /\ Positions(request[t].attempt) = {}

ReadForAttempt(t) ==
    /\ pc[t] = "read" /\ request[t].op = "attempt"
    /\ \/ Acceptable(t) /\ GoSave(t, row.record, "audio")
       \/ ~Acceptable(t) /\ Refuse(t)

\* get_guided_audio, and the attempt is worked out.
ReadAudio(t) ==
    LET queued == request[t].attempt \in audio
        last   == work[t].next.record
        next   == AfterAttempt(last, sent[request[t].key].unclear, queued)
    IN
    /\ pc[t] = "audio"
    /\ work' = [work EXCEPT
          ![t].next   = [record |-> next, ids |-> Append(@.ids, request[t].attempt)],
          ![t].answer = [state |-> next.state, turn |-> next.turn,
                         retry |-> RetryNumber(last), queued |-> queued]]
    /\ Goto(t, "probe")
    /\ UNCHANGED db

\* The background task follows an answer that says "queued".
AfterReply(answer) == IF answer.queued THEN "job_read" ELSE "idle"

\* save_guided_transition's SELECT: when the key is there it returns without a
\* word, and submit_attempt answers with what it has computed itself.
ProbeKey(t) ==
    LET answer == work[t].answer IN
    /\ pc[t] = "probe"
    /\ \/ Stored(request[t].key) /\ Finish(t, "ok", answer, AfterReply(answer))
       \/ ~Stored(request[t].key) /\ Goto(t, "commit") /\ UNCHANGED work
    /\ UNCHANGED db

\* The replay row meets two unique keys: attempt_id and idempotency_key.
Insertable(t) ==
    \A i \in DOMAIN replays :
        replays[i].key # request[t].key /\ replays[i].attempt # request[t].attempt

\* Mutant: a conflict is swallowed and answered like a success.
CommitOrPretend(t) ==
    LET answer == work[t].answer IN
    /\ pc[t] = "commit"
    /\ Finish(t, "ok", answer, AfterReply(answer))
    /\ IF revision = work[t].rev
       THEN /\ row' = work[t].next
            /\ revision' = revision + 1
            /\ replays' = Append(replays, [key     |-> request[t].key,
                                           attempt |-> request[t].attempt,
                                           answer  |-> answer])
       ELSE UNCHANGED db

\* save_guided_transition's UPDATE ... WHERE revision and INSERT, in one transaction.
Commit(t) ==
    LET answer == work[t].answer IN
    /\ pc[t] = "commit"
    /\ \/ /\ revision = work[t].rev /\ Insertable(t)
          /\ row' = work[t].next
          /\ revision' = revision + 1
          /\ replays' = Append(replays, [key     |-> request[t].key,
                                         attempt |-> request[t].attempt,
                                         answer  |-> answer])
          /\ Finish(t, "ok", answer, AfterReply(answer))
       \/ /\ revision # work[t].rev \/ ~Insertable(t)
          /\ Finish(t, "error", NoAnswer, "idle")
          /\ UNCHANGED db

-----------------------------------------------------------------------------
(***************************************************************************)
(* _publish_pronunciation, in the background of an answered attempt.       *)
(***************************************************************************)
ReadForJob(t) ==
    LET queued == \E i \in Positions(request[t].attempt) :
                     row.record.attempts[i].pronunciation = "queued"
    IN
    /\ pc[t] = "job_read"
    /\ Goto(t, IF queued THEN "publish" ELSE "idle")
    /\ UNCHANGED <<db, work>>

\* The service takes the job; or it does not; or it does and the call times out.
Publish(t) ==
    /\ pc[t] = "publish"
    /\ \E taken, failed \in BOOLEAN :
          /\ taken \/ failed
          /\ jobs' = IF taken THEN jobs \cup {request[t].attempt} ELSE jobs
          /\ pc' = [pc EXCEPT ![t] = IF failed THEN "fail_read" ELSE "idle"]
    /\ UNCHANGED <<db, audio, work, reply, client>>

\* mark_pronunciation_failed: like a callback, but nobody hears of a conflict.
ReadForFailure(t) ==
    /\ pc[t] = "fail_read"
    /\ \E i \in Positions(request[t].attempt) :
          GoSave(t, AfterPronunciation(row.record, i, "failed"), "fail_save")

SaveFailure(t) ==
    /\ pc[t] = "fail_save"
    /\ \/ /\ revision = work[t].rev
          /\ row' = work[t].next
          /\ revision' = revision + 1
          /\ UNCHANGED replays
       \/ /\ revision # work[t].rev
          /\ UNCHANGED db
    /\ work' = [work EXCEPT ![t] = NoWork]
    /\ Goto(t, "idle")

-----------------------------------------------------------------------------
\* A thread dies with its process, without a reply.
Crash(t) ==
    /\ crashes < MaxCrashes
    /\ pc[t] # "idle"
    /\ crashes' = crashes + 1
    /\ pc' = [pc EXCEPT ![t] = "idle"]
    /\ work' = [work EXCEPT ![t] = NoWork]
    /\ UNCHANGED <<db, outside, reply, request, sent, requests>>

\* One step of a request that is being handled.
Step(t) ==
    \/ ReadForControl(t)
    \/ ReadForConfidence(t)
    \/ ReadForResult(t)
    \/ Save(t)
    \/ LookupReplay(t)
    \/ ReadForAttempt(t)
    \/ ReadAudio(t)
    \/ ProbeKey(t)
    \/ Commit(t)
    \/ ReadForJob(t)
    \/ Publish(t)
    \/ ReadForFailure(t)
    \/ SaveFailure(t)

Next ==
    \/ \E a \in AttemptIds : UploadAudio(a)
    \/ \E t \in Threads :
          \/ SubmitAttempt(t) \/ RequestControl(t) \/ Callback(t)
          \/ Step(t)
          \/ Crash(t)

Spec == Init /\ [][Next]_vars

-----------------------------------------------------------------------------
(***************************************************************************)
(* Properties.                                                             *)
(***************************************************************************)
Points == {"idle", "replay", "read", "audio", "save", "probe", "commit",
           "job_read", "publish", "fail_read", "fail_save"}

TypeOK ==
    /\ row \in Rows
    /\ revision \in Nat
    /\ replays \in Seq(Replays)
    /\ audio \subseteq AttemptIds
    /\ jobs \subseteq AttemptIds
    /\ pc \in [Threads -> Points]
    /\ request \in [Threads -> Requests]
    /\ work \in [Threads -> Works]
    /\ reply \in [Threads -> Replies]
    /\ sent \in [Keys -> Submissions \cup {NoSubmission}]
    /\ requests \in 0 .. MaxRequests
    /\ crashes \in 0 .. MaxCrashes

\* Every call takes effect at once, although it reads in one transaction,
\* writes in another, and nothing but the revision keeps others out.
Lifecycle == INSTANCE GuidedLifecycle WITH record <- row.record
RefinesLifecycle == Lifecycle!Spec

\* The record and the replay table are written by different statements, and
\* the record also by calls that know nothing of the table: they never lose
\* an attempt, and what the learner was told of an attempt is what is kept.
TablesAgree ==
    /\ Len(row.ids) = Len(row.record.attempts)
    /\ Len(replays) = Len(row.ids)
    /\ \A i \in DOMAIN replays :
          /\ replays[i].attempt = row.ids[i]
          /\ replays[i].answer.retry = row.record.attempts[i].retry
    /\ \A i, j \in DOMAIN replays :
          replays[i].key = replays[j].key \/ replays[i].attempt = replays[j].attempt => i = j

\* The INSERT never meets its unique keys: whoever still has the current
\* revision has seen every attempt there is, so no attempt is answered with a
\* database error once its revision was found to be current.
InsertIsUnique ==
    \A t \in Threads : pc[t] = "commit" /\ revision = work[t].rev => Insertable(t)

\* A learner told that an attempt was accepted can rely on it being stored.
AcceptedIsStored ==
    \A t \in Threads :
        request[t].op = "attempt" /\ reply[t].status = "ok" => Stored(request[t].key)

\* Once a stop was answered 200 the session is over, whatever attempt or
\* control was under way.
StopIsFinal ==
    \A t \in Threads :
        request[t].op = "stop" /\ reply[t].status = "ok" => row.record.status = "stopped"

\* Only audio that was kept is evaluated: a job or a result always belongs to
\* an attempt that had audio and whose answer announced it.
EvaluatedOnlyIfAsked ==
    /\ jobs \subseteq audio
    /\ \A a \in jobs : \E i \in DOMAIN replays : replays[i].attempt = a /\ replays[i].answer.queued
    /\ \A i \in DOMAIN row.record.attempts :
          row.record.attempts[i].pronunciation # "not_requested" <=> replays[i].answer.queued

\* The four places an attempt leaves traces in (record, replay table, audio and
\* jobs) agree although each is written by a statement of its own.
StoresAgree == TypeOK /\ TablesAgree /\ InsertIsUnique /\ EvaluatedOnlyIfAsked

\* Whoever was answered 200 can rely on it.
PromisesKept == AcceptedIsStored /\ StopIsFinal
=============================================================================
