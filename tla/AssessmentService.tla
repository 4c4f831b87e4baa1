-------------------------- MODULE AssessmentService --------------------------
(***************************************************************************)
(* AssessmentService and SQLRepository at the grain of one database round  *)
(* trip or lock operation: request threads of several API processes work   *)
(* on one assessment.  A process guards an assessment with a lock from a   *)
(* defaultdict; between processes only the revision column orders writers. *)
(* Clients send a submission again under its idempotency key whenever they *)
(* like, also while an earlier copy is still being handled, and processes  *)
(* may die.                                                                *)
(***************************************************************************)
EXTENDS AssessmentRules

CONSTANTS
    Threads,                \* request threads of all API processes
    Processes,              \* API processes (web containers)
    ProcessOf,              \* the process a thread belongs to
    NoThread,
    Keys,                   \* idempotency keys the clients use
    NoKey,                  \* the "key" of a cancel request
    ResponseOf,             \* the response_id sent under a key
    NoSubmission,           \* a key not yet used
    AtomicLocks,            \* does the interpreter create a missing lock atomically?
    MaxEvaluatorFailures,   \* bound on recorded evaluator outages
    MaxRequests,            \* bound on requests received
    MaxCrashes              \* bound on process deaths

\* What a client sends under a key: the prompt it answers, and whether the
\* recording passes the validity gate.
Submissions == [prompt : Prompts, audible : BOOLEAN]

ASSUME ServiceAssumption ==
    /\ ProcessOf \in [Threads -> Processes]
    /\ NoThread \notin Threads
    /\ NoKey \notin Keys
    /\ NoSubmission \notin Submissions
    /\ AtomicLocks \in BOOLEAN
    /\ MaxEvaluatorFailures \in Nat
    /\ MaxRequests \in Nat
    /\ MaxCrashes \in Nat

VARIABLES
    record, revision,   \* the assessments row: record_json and revision
    responses,          \* the responses table, in commit order
    lockOf,             \* per process: the lock in the defaultdict, if any
    holder,             \* per lock, named by its creating thread: who holds it
    pc,                 \* per thread: the next round trip
    key,                \* per thread: the key of its request
    lock,               \* per thread: the lock it looked up
    work,               \* per thread: the record it read and what it made of it
    reply,              \* per thread: the last HTTP response it sent
    sent,               \* per key: the submission clients send under it
    requests, crashes   \* bounded counters

db      == <<record, revision, responses>>
locking == <<lockOf, holder, lock>>
client  == <<sent, requests, crashes>>
vars    == <<db, locking, pc, key, work, reply, client>>

-----------------------------------------------------------------------------
(***************************************************************************)
(* Data.                                                                   *)
(***************************************************************************)
Results ==
    [decision : Decisions \cup {"none"}, stage : Stages \cup {"none"},
     prompt : Prompts, answered : Nat]
NoResult ==
    [decision |-> "none", stage |-> "none", prompt |-> CurrentPrompt(NewRecord), answered |-> 0]

\* 200, 409, 503, 500 and 204; "none" while a request is being handled.
Statuses == {"none", "ok", "conflict", "unavailable", "error", "cancelled"}
Replies  == [status : Statuses, result : Results]
Reply(status, result) == [status |-> status, result |-> result]

StoredResponses ==
    [key : Keys, response : {ResponseOf[k] : k \in Keys},
     prompt : Prompts, decision : Decisions, result : Results]

\* What a thread carries from one round trip to the next.
Works ==
    [rec : Records, rev : Nat, decision : Decisions \cup {"none"},
     next : Records, result : Results]
NoWork ==
    [rec |-> NewRecord, rev |-> 0, decision |-> "none", next |-> NewRecord,
     result |-> NoResult]

Stored(k)      == \E i \in DOMAIN responses : responses[i].key = k
StoredResult(k) ==
    LET i == CHOOSE j \in DOMAIN responses : responses[j].key = k
    IN  responses[i].result
IdUsed(k)      == \E i \in DOMAIN responses : responses[i].response = ResponseOf[k]

\* The log the ladder reads: list_responses.
Log == [i \in DOMAIN responses |-> [prompt   |-> responses[i].prompt,
                                    decision |-> responses[i].decision]]

IssuedPrompts ==
    {CurrentPrompt(record)} \cup {responses[i].prompt : i \in DOMAIN responses}

Init ==
    /\ record = NewRecord
    /\ revision = 0
    /\ responses = <<>>
    /\ lockOf = [p \in Processes |-> NoThread]
    /\ holder = [t \in Threads |-> NoThread]
    /\ pc = [t \in Threads |-> "idle"]
    /\ key = [t \in Threads |-> NoKey]
    /\ lock = [t \in Threads |-> NoThread]
    /\ work = [t \in Threads |-> NoWork]
    /\ reply = [t \in Threads |-> Reply("none", NoResult)]
    /\ sent = [k \in Keys |-> NoSubmission]
    /\ requests = 0
    /\ crashes = 0

\* Thread t goes on to another round trip.
Goto(t, to) ==
    /\ pc' = [pc EXCEPT ![t] = to]
    /\ UNCHANGED <<key, reply, client>>

\* Mutant: the lock is kept when the request is answered.
FinishHoldingLock(t, status, result) ==
    /\ pc' = [pc EXCEPT ![t] = "idle"]
    /\ reply' = [reply EXCEPT ![t] = Reply(status, result)]
    /\ lock' = [lock EXCEPT ![t] = NoThread]
    /\ work' = [work EXCEPT ![t] = NoWork]
    /\ UNCHANGED <<lockOf, holder, key, client>>

\* Thread t answers its request, leaving the lock's with block if it is in it.
Finish(t, status, result) ==
    /\ pc' = [pc EXCEPT ![t] = "idle"]
    /\ reply' = [reply EXCEPT ![t] = Reply(status, result)]
    /\ holder' = [l \in Threads |-> IF holder[l] = t THEN NoThread ELSE holder[l]]
    /\ lock' = [lock EXCEPT ![t] = NoThread]
    /\ work' = [work EXCEPT ![t] = NoWork]
    /\ UNCHANGED <<lockOf, key, client>>

-----------------------------------------------------------------------------
(***************************************************************************)
(* Requests.                                                               *)
(***************************************************************************)
Arrive(t, k, first) ==
    /\ pc[t] = "idle"
    /\ requests < MaxRequests
    /\ requests' = requests + 1
    /\ pc' = [pc EXCEPT ![t] = first]
    /\ key' = [key EXCEPT ![t] = k]
    /\ reply' = [reply EXCEPT ![t] = Reply("none", NoResult)]
    /\ UNCHANGED <<db, locking, work, crashes>>

\* A new submission for a prompt the client was given, or one sent again.
Submit(t) ==
    \E k \in Keys :
        /\ Arrive(t, k, "replay")
        /\ \/ /\ sent[k] = NoSubmission
              /\ \E prompt \in IssuedPrompts, audible \in BOOLEAN :
                    sent' = [sent EXCEPT ![k] = [prompt |-> prompt, audible |-> audible]]
           \/ /\ sent[k] # NoSubmission
              /\ UNCHANGED sent

\* Mutant: cancel does not take the lock.
RequestCancelUnlocked(t) ==
    /\ Arrive(t, NoKey, "cancel_read")
    /\ UNCHANGED sent

RequestCancel(t) ==
    /\ Arrive(t, NoKey, "find_lock")
    /\ UNCHANGED sent

\* submit_response before the lock: the replay lookup, then the id lookup.
LookupReplay(t, at, missing) ==
    /\ pc[t] = at
    /\ \/ Stored(key[t]) /\ Finish(t, "ok", StoredResult(key[t]))
       \/ ~Stored(key[t]) /\ Goto(t, missing) /\ UNCHANGED <<locking, work>>
    /\ UNCHANGED db

CheckResponseId(t, at, fresh) ==
    /\ pc[t] = at
    /\ \/ IdUsed(key[t]) /\ Finish(t, "conflict", NoResult)
       \/ ~IdUsed(key[t]) /\ Goto(t, fresh) /\ UNCHANGED <<locking, work>>
    /\ UNCHANGED db

(***************************************************************************)
(* self._locks[assessment_id]: a missing entry is made by calling RLock(), *)
(* a Python function, and then stored.  If the interpreter switches        *)
(* threads in between, two threads make and use locks of their own.        *)
(***************************************************************************)
FindLock(t) ==
    LET mine == lockOf[ProcessOf[t]] IN
    /\ pc[t] = "find_lock"
    /\ \/ /\ mine # NoThread
          /\ lock' = [lock EXCEPT ![t] = mine]
          /\ Goto(t, "acquire")
       \/ /\ mine = NoThread
          /\ Goto(t, "make_lock")
          /\ UNCHANGED lock
    /\ UNCHANGED <<db, lockOf, holder, work>>

MakeLock(t) ==
    LET p == ProcessOf[t] IN
    /\ pc[t] = "make_lock"
    /\ lock' = [lock EXCEPT ![t] = IF AtomicLocks /\ lockOf[p] # NoThread
                                   THEN lockOf[p] ELSE t]
    /\ lockOf' = [lockOf EXCEPT ![p] = lock'[t]]
    /\ Goto(t, "acquire")
    /\ UNCHANGED <<db, holder, work>>

\* Mutant: the replay and id lookups are not repeated inside the lock.
AcquireAndRead(t) ==
    /\ pc[t] = "acquire"
    /\ holder[lock[t]] = NoThread
    /\ holder' = [holder EXCEPT ![lock[t]] = t]
    /\ Goto(t, IF key[t] = NoKey THEN "cancel_read" ELSE "read")
    /\ UNCHANGED <<db, lockOf, lock, work>>

Acquire(t) ==
    /\ pc[t] = "acquire"
    /\ holder[lock[t]] = NoThread
    /\ holder' = [holder EXCEPT ![lock[t]] = t]
    /\ Goto(t, IF key[t] = NoKey THEN "cancel_read" ELSE "replay_locked")
    /\ UNCHANGED <<db, lockOf, lock, work>>

-----------------------------------------------------------------------------
(***************************************************************************)
(* submit_response inside the lock.                                        *)
(***************************************************************************)
ReadRecord(t) ==
    LET acceptable == /\ InProgress(record)
                      /\ sent[key[t]].prompt = CurrentPrompt(record)
    IN
    /\ pc[t] = "read"
    /\ \/ /\ acceptable
          /\ work' = [work EXCEPT ![t].rec = record, ![t].rev = revision]
          /\ Goto(t, "score")
          /\ UNCHANGED locking
       \/ /\ ~acceptable
          /\ Finish(t, "conflict", NoResult)
    /\ UNCHANGED db

\* Mutant: an audio check that went well is stored without a decision.
ScoreWithoutDecision(t) ==
    /\ pc[t] = "score"
    /\ work[t].rec.kind = "calibration" /\ sent[key[t]].audible
    /\ Goto(t, "advance")
    /\ UNCHANGED <<db, locking, work>>

\* The validity gate, then the evaluator, which may be unavailable.
Score(t) ==
    /\ pc[t] = "score"
    /\ \/ \E decision \in Observations(work[t].rec, sent[key[t]].audible) :
             /\ work' = [work EXCEPT ![t].decision = decision]
             /\ Goto(t, "advance")
       \/ /\ work[t].rec.kind # "calibration" /\ sent[key[t]].audible
          /\ work[t].rec.evalFailures < MaxEvaluatorFailures
          /\ Goto(t, "save_failure")
          /\ UNCHANGED work
    /\ UNCHANGED <<db, locking>>

\* _handle_calibration or _advance_scored_response, with the log read now.
\* The refusal of a follow-up that finds no main answer is dead code (see
\* FollowUpHasMain); a thread that met it would stand still here, and
\* EveryRequestAnswered would say so.
AdvanceRecord(t) ==
    /\ pc[t] = "advance"
    /\ \E outcome \in Advance(work[t].rec, Log, work[t].decision) :
          work' = [work EXCEPT
                     ![t].next = outcome.record,
                     ![t].result = [decision |-> work[t].decision,
                                    stage    |-> outcome.stage,
                                    prompt   |-> CurrentPrompt(outcome.record),
                                    answered |-> Len(responses) + 1]]
    /\ Goto(t, "probe")
    /\ UNCHANGED <<db, locking>>

\* save_transition's SELECT: when the key is there it returns without a word,
\* and submit_response answers with the result it has just computed.
ProbeKey(t) ==
    /\ pc[t] = "probe"
    /\ \/ Stored(key[t]) /\ Finish(t, "ok", work[t].result)
       \/ ~Stored(key[t]) /\ Goto(t, "commit") /\ UNCHANGED <<locking, work>>
    /\ UNCHANGED db

\* Mutant: the UPDATE does not compare the revision.
CommitBlindly(t) ==
    /\ pc[t] = "commit"
    /\ ~Stored(key[t]) /\ ~IdUsed(key[t])
    /\ record' = work[t].next
    /\ revision' = revision + 1
    /\ responses' = Append(responses,
                           [key      |-> key[t],
                            response |-> ResponseOf[key[t]],
                            prompt   |-> sent[key[t]].prompt,
                            decision |-> work[t].decision,
                            result   |-> work[t].result])
    /\ Finish(t, "ok", work[t].result)

\* save_transition's UPDATE ... WHERE revision and INSERT, in one transaction.
\* The INSERT meets two unique keys; their violation is an unhandled error.
Commit(t) ==
    LET current == revision = work[t].rev
        unique  == ~Stored(key[t]) /\ ~IdUsed(key[t])
    IN
    /\ pc[t] = "commit"
    /\ \/ /\ current /\ unique
          /\ record' = work[t].next
          /\ revision' = revision + 1
          /\ responses' = Append(responses,
                                 [key      |-> key[t],
                                  response |-> ResponseOf[key[t]],
                                  prompt   |-> sent[key[t]].prompt,
                                  decision |-> work[t].decision,
                                  result   |-> work[t].result])
          /\ Finish(t, "ok", work[t].result)
       \/ /\ current /\ ~unique
          /\ Finish(t, "error", NoResult)
          /\ UNCHANGED db
       \/ /\ ~current
          /\ Goto(t, "resolve")
          /\ UNCHANGED <<db, locking, work>>

\* Mutant: every conflict is taken for a copy of the same submission.
ResolveAsReplay(t) ==
    /\ pc[t] = "resolve"
    /\ Finish(t, "ok", work[t].result)
    /\ UNCHANGED db

\* After a ConcurrencyConflict: someone else may have stored this very key.
Resolve(t) ==
    /\ pc[t] = "resolve"
    /\ \/ Stored(key[t]) /\ Finish(t, "ok", StoredResult(key[t]))
       \/ ~Stored(key[t]) /\ Finish(t, "conflict", NoResult)
    /\ UNCHANGED db

\* Mutant: the last writer wins.
SaveRecordBlindly(t, changed, status) ==
    /\ record' = changed
    /\ revision' = revision + 1
    /\ Finish(t, status, NoResult)
    /\ UNCHANGED responses

\* save_record with a change of the record that was read: an UPDATE guarded by
\* its revision, whose ConcurrencyConflict the callers do not catch.
SaveRecord(t, changed, status) ==
    \/ /\ revision = work[t].rev
       /\ record' = changed
       /\ revision' = revision + 1
       /\ Finish(t, status, NoResult)
       /\ UNCHANGED responses
    \/ /\ revision # work[t].rev
       /\ Finish(t, "error", NoResult)
       /\ UNCHANGED db

SaveFailure(t) ==
    /\ pc[t] = "save_failure"
    /\ SaveRecord(t, [work[t].rec EXCEPT !.evalFailures = @ + 1], "unavailable")

-----------------------------------------------------------------------------
(***************************************************************************)
(* cancel.                                                                 *)
(***************************************************************************)
CancelRead(t) ==
    /\ pc[t] = "cancel_read"
    /\ \/ /\ ~InProgress(record)
          /\ Finish(t, "cancelled", NoResult)
       \/ /\ InProgress(record)
          /\ work' = [work EXCEPT ![t].rec = record, ![t].rev = revision]
          /\ Goto(t, "cancel_save")
          /\ UNCHANGED locking
    /\ UNCHANGED db

CancelSave(t) ==
    /\ pc[t] = "cancel_save"
    /\ SaveRecord(t, [work[t].rec EXCEPT !.status = "cancelled", !.reason = "cancelled"],
                  "cancelled")

-----------------------------------------------------------------------------
\* A process dies: its threads vanish without a reply, its locks with them.
Crash(p) ==
    LET dead == {t \in Threads : ProcessOf[t] = p}
        Reset(f, v) == [t \in Threads |-> IF t \in dead THEN v ELSE f[t]]
    IN
    /\ crashes < MaxCrashes
    /\ crashes' = crashes + 1
    /\ lockOf' = [lockOf EXCEPT ![p] = NoThread]
    /\ holder' = Reset(holder, NoThread)
    /\ lock' = Reset(lock, NoThread)
    /\ pc' = Reset(pc, "idle")
    /\ work' = Reset(work, NoWork)
    /\ reply' = Reset(reply, Reply("none", NoResult))
    /\ UNCHANGED <<db, key, sent, requests>>

\* One step of a request that is being handled.
Step(t) ==
    \/ LookupReplay(t, "replay", "check_id")
    \/ CheckResponseId(t, "check_id", "find_lock")
    \/ FindLock(t)
    \/ MakeLock(t)
    \/ Acquire(t)
    \/ LookupReplay(t, "replay_locked", "check_id_locked")
    \/ CheckResponseId(t, "check_id_locked", "read")
    \/ ReadRecord(t)
    \/ Score(t)
    \/ AdvanceRecord(t)
    \/ ProbeKey(t)
    \/ Commit(t)
    \/ Resolve(t)
    \/ SaveFailure(t)
    \/ CancelRead(t)
    \/ CancelSave(t)

Next ==
    \/ \E t \in Threads : Submit(t) \/ RequestCancel(t) \/ Step(t)
    \/ \E p \in Processes : Crash(p)

Spec == Init /\ [][Next]_vars

\* A running thread is scheduled again; nothing is assumed of clients.
FairSpec == Spec /\ \A t \in Threads : WF_vars(Step(t))

-----------------------------------------------------------------------------
(***************************************************************************)
(* Properties.                                                             *)
(***************************************************************************)
LockPoints   == {"replay_locked", "check_id_locked", "read", "score", "advance",
                 "probe", "commit", "resolve", "save_failure",
                 "cancel_read", "cancel_save"}
SubmitPoints == {"replay", "check_id"}
SharedPoints == {"find_lock", "make_lock", "acquire"}
Points       == {"idle"} \cup SubmitPoints \cup SharedPoints \cup LockPoints

TypeOK ==
    /\ record \in Records
    /\ revision \in Nat
    /\ responses \in Seq(StoredResponses)
    /\ lockOf \in [Processes -> Threads \cup {NoThread}]
    /\ holder \in [Threads -> Threads \cup {NoThread}]
    /\ pc \in [Threads -> Points]
    /\ key \in [Threads -> Keys \cup {NoKey}]
    /\ lock \in [Threads -> Threads \cup {NoThread}]
    /\ work \in [Threads -> Works]
    /\ reply \in [Threads -> Replies]
    /\ sent \in [Keys -> Submissions \cup {NoSubmission}]
    /\ requests \in 0 .. MaxRequests
    /\ crashes \in 0 .. MaxCrashes

\* Threads, retries, crashes and several processes amount to answers taken
\* one at a time: the row and the table move as in Assessment.
OneAtATime == INSTANCE Assessment WITH answers <- Log
RefinesAssessment == OneAtATime!Spec

\* A learner told that an answer was accepted can rely on it being stored.
AcceptedIsStored ==
    \A t \in Threads : reply[t].status = "ok" => Stored(key[t])

\* One key, one result: every accepted copy of a submission is answered with
\* the result that is stored for it.
OneResultPerKey ==
    \A t \in Threads :
        reply[t].status = "ok" /\ Stored(key[t]) =>
            reply[t].result = StoredResult(key[t])

\* What was stored is what the assessment did: the n-th stored result counts
\* n answers, and the last one names the prompt that is now expected, although
\* both were computed from reads made before the commit.
ResultsMatchLog ==
    /\ \A i \in DOMAIN responses :
          /\ responses[i].result.answered = i
          /\ responses[i].result.decision = responses[i].decision
    /\ \A i \in DOMAIN responses :
          responses[i].result.prompt =
              IF i < Len(responses) THEN responses[i + 1].prompt ELSE CurrentPrompt(record)

\* A cancel request that was answered 204 leaves an assessment that is over,
\* cancelled now or already completed.
CancelledIsOver ==
    \A t \in Threads : reply[t].status = "cancelled" => ~InProgress(record)

\* An assessment that is over stays as it is, whatever answers, outages and
\* cancels are still under way: nothing reopens it, a cancelled one is not
\* completed, a completed one not cancelled, and no answer is added.
EndedIsFinal == [][~InProgress(record) => UNCHANGED <<record, responses>>]_vars

\* What a reply told the learner stays true while the row and the table move.
RepliesHold == []AcceptedIsStored /\ []CancelledIsOver /\ EndedIsFinal

\* Where all threads work under one lock, which takes one process and a lock
\* table that makes one lock, revision conflicts are impossible, so neither a
\* cancel nor an outage is ever answered with a server error.
LockPreventsConflicts ==
    \A t \in Threads : pc[t] # "resolve" /\ reply[t].status # "error"

\* What one lock adds to the revision check.
LockProtects == OneResultPerKey /\ LockPreventsConflicts

\* Every request is answered or dies with its process.
EveryRequestAnswered ==
    \A t \in Threads : pc[t] # "idle" ~> pc[t] = "idle"
=============================================================================
