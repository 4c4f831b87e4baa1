# Formal model of the conversation AI service

TLA+ modules, TLC configurations and TLAPS proofs about the Python service under
`src/`. The models follow the code. Where a document or comment promises something
the code does not do, *Disagreements with the documents* says so; for one of them the
promise is a property and a run shows how it fails.

## The system

One FastAPI application serves the team API (`/api/v1/*`) and the tutor API
(`/v1/*`) over one database (Postgres, SQLite in tests); `modal_app.py` runs up
to ten containers of it, and synchronous endpoints run in a thread pool. Two
LiveKit workers (the tutor and the level assessor) talk to it over HTTP.

| Component | State | Operations | What is hard |
|---|---|---|---|
| Oral assessment ladder (`oral_assessment/service.py`, `branching_engine.py`, `item_bank.py`) | the assessment record; the stored responses | create, answer, evaluator outage, cancel, result | long legal sequences; boundary at the ceiling; placement must rest on evidence |
| Assessment request handling (`service.py`, `repository.py`, `api.py`) | row with a revision, `responses` table with two unique keys, per-process lock table | submit_response, cancel, replay | threads, processes, retries in flight, reads before a slow evaluator call and commits after it, crashes |
| Scoring and result profile (`scoring_engine.py`, `result_aggregator.py`) | none | score, judge a stage, confidence | floating-point thresholds |
| Evaluator clients (`rubric_evaluator.py`) | none | generate with bounded retries | retry budget |
| Rate limiter (`middleware.py`) | deque of times per key | allow | window boundary |
| Guided conversation service (`guided_conversation/service.py`) | session record with a revision, attempt replays | attempt, continue, retry, pause, resume, stop, confidence, report | no lock: the revision alone orders writers; conflicts are not handled |
| Guided runtime (`app/realtime/guided_conversation.py`) | the controller's view of the session | commands, transcript turns | lost replies, non-idempotent controls |
| Pronunciation of guided sessions (`guided_conversation/api.py`, `pronunciation.py`) | status of an attempt | queue, callback, mark failed | callbacks racing attempts; published although the call timed out |
| Assessment client (`app/services/assessment_client.py`) | circuit breaker | request, retry once | threshold and reset |
| Assessment voice agent (`app/realtime/assessment_agent.py`, `assessment_turns.py`) | pending fragments, deferred payload, recorder | turns, control intents, retry | cancelled generations, claims after a quiet window |
| Conversation orchestration (`conversation_ai/orchestration.py`) | session row, LiveKit room and dispatch | start | crash between the dispatch and the commit |
| Worker persistence (`conversation_ai/agent/persistence.py`) | scheduled writes, two sequences | record, flush, reconcile, finalize | order of writes, unique sequences |
| Fluency (`services/fluency/*`, `app/realtime/conversation_fluency.py`) | word timings in the worker; observations | collect, submit, observe, aggregate | one task per turn, tries that overlap; check-then-insert of the mode |

What makes each component correct: the *ladder* reports only levels it has
evidence for and ends; the *request handling* is equivalent to answers taken one
at a time, one result per idempotency key; *scoring* passes a level on its evidence alone and never turns two failures
into a pass; the *guided service* keeps a lifecycle and one result per attempt;
the *runtime* never wedges after an error it calls recoverable; the *voice assessor* loses
nothing that was said and counts nothing twice; *orchestration* dispatches one agent
per session; *persistence* finalizes whatever was recorded; *fluency* answers with what
is stored and never mixes modes.

## Modules

| Module | Models |
|---|---|
| `AssessmentRules` | pure operators on the record and the log: what one answer does (`_handle_calibration`, `_advance_scored_response`, `_pass_stage`, ...), the progress estimate, the reported placement |
| `Assessment` | the abstract specification: answers one at a time, outages, cancellation; properties of the ladder |
| `AssessmentService` | threads, locks, database round trips, retries and crashes around one assessment; refines `Assessment` |
| `AssessmentProofs` | TLAPS: every answer is one of seven moves; proofs about `Assessment` |
| `AssessmentServiceProofs` | TLAPS: `AssessmentService`, its refinement of `Assessment` among them |
| `GuidedRules` | pure operators on the guided session record: what a control, an attempt, a pronunciation result makes of it |
| `GuidedLifecycle` | the abstract specification of a guided session: calls one at a time; properties of the session |
| `GuidedSession` | request threads without a lock, the revision, attempt replays, audio uploads, the background publish and callbacks; refines `GuidedLifecycle` |
| `GuidedRuntime` | the voice worker of one guided session: its stale copy of the record, concurrent calls with one retry, the speech queue, the recorder, closing the room; extends `GuidedLifecycle` |
| `GuidedProofs` | TLAPS: `GuidedLifecycle`, and `GuidedRuntime` on top of it |
| `GuidedSessionProofs` | TLAPS: `GuidedSession` and its refinement of `GuidedLifecycle` |
| `ConversationStart` | requests of several replicas to start one session: the row and its lock, LiveKit's room and dispatches, the worker's claim, DELETE |
| `ConversationJobs` | extends `ConversationStart` by what the worker of a job writes: turns in tasks of their own, flush, reconciliation, the end of the row, the death of a process |
| `ConversationProofs` | TLAPS: `ConversationStart` and `ConversationJobs` |
| `AssessmentClient` | the worker's HTTP client: two tries, threads that outlive their caller, the circuit breaker, and the service reduced to what an answer tells the client |
| `AssessmentAgent` | extends `AssessmentClient` by the voice agent: fragments, the quiet window, claims, saved answers, recovery, cancelled replies |
| `AssessmentAgentProofs` | TLAPS: `AssessmentAgent` with its client |
| `RubricEvaluator` | one call of `evaluate` by each provider: attempts, waits the provider asks for, malformed answers, outages |
| `StageScoring` | pure operators: scores to decisions, two answers to a verdict |
| `StageEvaluation` | the judgement of a level on top of both, and against `AssessmentRules` |
| `StageEvaluationProofs` | TLAPS: the evaluator's budget and the verdicts |
| `RateLimiter` | the sliding window of one key |
| `FluencyScoring` | pure operators: which turns count, when there is a score, the level of an index |
| `FluencyTurns` | the tracker's tasks, their tries and the endpoint query by query, behind the limiter |
| `FluencyTurnsProofs` | TLAPS: the limiter, the tracker and the answers of the endpoint |
| `MC...` | constants for TLC |

**Correspondence.** A record field of the model is the field of
`AssessmentRecord` of the same meaning (`level` is `current_level_index`, `kind`
is `current_prompt_kind`, `highest` is `highest_confirmed_level`, `verified` is
`boundary_verification_levels`, ...). The prompt and item ids are functions of
level and kind: `form_seed` is fixed, so `select_normal` returns one item per
level, and a level's boundary item comes from `select_tie_breaker`. Scores and
transcripts are abstracted to the `ResponseDecision` they lead to; `StageDecisions`
gives every verdict `decide_stage_evidence` can reach for two decisions (a failed
half can be rescued by the average unless both halves failed, because a failure
with relevant, achieved, understandable speech scores below 2.4 or has a task
achievement of at most 1). `AssessmentService` has one action per database round
trip or lock operation: `LookupReplay` and `CheckResponseId` (twice, as in the
code), `FindLock`, `MakeLock`, `Acquire`, `ReadRecord`, `Score`, `AdvanceRecord`
(which reads the log *after* the evaluator call), `ProbeKey` and `Commit`
(`save_transition`: the SELECT is one step, UPDATE and INSERT, which become visible
together, another), `Resolve` (after a `ConcurrencyConflict`), `SaveFailure`, `CancelRead`
and `CancelSave`.

A guided record of the model has the fields of `GuidedSessionRecord`: `turn` is
`current_turn_index + 1`, `pausedFrom` is `paused_from_state`, and an attempt keeps its
line, `selected`, its retry number and its pronunciation status (`NOT_CONFIGURED`, which
nothing leaves, is one with `NOT_REQUESTED`). `GuidedSession` has a thread read the row
(`ReadForControl`, `ReadForConfidence`, `ReadForResult`, `ReadForAttempt`), look up the
audio (`ReadAudio`) and write (`Save` is `save_guided_record`; `ProbeKey` and `Commit` are
`save_guided_transition`); the background task that follows an answer saying "queued" is
`ReadForJob`, `Publish`, `ReadForFailure`, `SaveFailure`. The session has recording consent and
a configured pronunciation service; without them an attempt is one whose audio was not kept.

`GuidedRuntime` keeps `record` at the service and `view`, the controller's `view`, in the worker.
`calls` has one entry per task that may be waiting: the turn handler (`Voice`), data commands, prompt
tasks. A call is `Serve` (it takes effect, by the rules of `GuidedRules`) and then `Answered`, or
`Fails` or `LosesAnswer`, after which the client tries once more or gives up (`Broken`). `Handle` is
what each task does with its answer. `HearLine` and `Uploaded` are the two halves of
`handle_user_turn` around the upload; `Silence`, `Say`, `Played` the rest of `apply_command` at its awaits;
`Listening` is the state-change callback. `SpeechEnds`, `Interrupted`, `Resumed`, `StartSpeaking`,
`StopSpeaking` and `TurnCompleted` are LiveKit's part, as the options of the session at
`guided_conversation.py:444` have it: what `session.say` says is `firm`, the replies to a turn are
not, the closing line among them. A learner who talks for 0.4 s makes such a reply pause
(`Interrupted`, which calls the same callback as its end); it goes on when no turn follows
(`Resumed`), and a turn cuts it off. `farewell` says what became of the closing line. `Rejoin` is a new job in a new room; a
call under way then either took effect before or never does.

`ConversationStart` has one action per database round trip or LiveKit call of
`start_session`: `Read`, `Insert`, `Lock` (the `SELECT ... FOR UPDATE`), `List`, `EnsureRoom`,
`ListAgain`, `Create`, `Commit`; any of them may fail, a `create` also after LiveKit made the
dispatch. A job is LiveKit's: it is assigned, runs the worker's `claim`, and may be handed to a
fresh process. `Die` is the death of a process, or a claim that raises: before the claim the job is "lost", after it "crashed". `ConversationJobs` numbers items by the order in which they were spoken, which is
the order of `session.history`; `pending` are the write tasks that have not committed. It assumes
that Postgres locks rows for `FOR UPDATE` and that LiveKit either created a dispatch or did not.

`AssessmentAgent` follows `llm_node` call by call. A reply is idle, in its quiet window, or waits
for a call (`submit`, `result`, `state`); `calls` are the threads of `asyncio.to_thread`, which go on when a
reply is cancelled. What an answer is made of is a set of turn numbers, so that losing or doubling
speech can be seen. LiveKit cancels the old reply before it begins the next, except that one in
its quiet window may notice late (`waiters`).

`RubricEvaluator` counts elapsed seconds; the provider answers within the timeout with anything
in `Outputs`, malformed or not. The OpenAI SDK is modelled as the code makes it (`timeout`, `max_retries`): it retries by itself
(`SdkRetries`) and obeys delays up to `SdkWait`, which is 60 s in the SDK. Scores are integers: weighted scores in twentieths,
times of speech in tenths of a second. A turn of `FluencyTurns` names the utterance its words are from; its
words, the transcript's length and the index come from `Spoken`. The endpoint is one action per
query: `Arrive` (limiter, validation), `Look`, `Check` (the mode), `SaveLook`, `Insert`, `List`.

Each property's comment says which code behaviour it is about; a property that is a
conjunction of named parts has a comment at every part.
Definitions whose comment starts with *Mutant* are plausible bugs used to confirm
that each property can fail; they are not part of a specification.

## Runs

| Run | Instance | Shows |
|---|---|---|
| `assessment` | 2 levels, 1 outage; unbounded answers (the ladder itself bounds them) | every property of the ladder, with termination |
| `service_one_process` | 2 threads, 1 process, 3 keys (two share a response id), 3 requests, 1 outage, 1 crash | `LockProtects`: one result per key and no conflict under one lock; every request is answered |
| `service_two_processes` | 2 threads in 2 processes, 3 keys, 4 requests, 1 outage, 1 crash | refinement of `Assessment`; stored results agree with the log; what a reply said (stored, cancelled) stays true, and an assessment that is over is never changed |
| `guided_lifecycle` | 2 lines; unbounded calls (retries bound the attempts) | the order of lines, retries, pauses, the end |
| `guided_session` | 2 threads, 3 keys (two share an attempt id), 2 lines, 4 requests, 1 crash | record and replay table in step; accepted attempts stored; stop final; only kept audio evaluated; refinement of `GuidedLifecycle` |
| `guided_runtime` | 2 lines, 1 button task, 1 prompt task, 1 lost answer | a reading counts once, on the line that was shown; the worker never takes a running session for an ended one; refinement of `GuidedLifecycle` |
| `guided_voice` | 2 lines, no buttons, 2 failed calls, 1 rejoin, patient learner, consent | the closing line is said or talked over before the room closes, the room closes, trying again works |
| `conversation` | 2 start requests, 2 jobs, 2 contracts, 2 turns; 1 fault, 1 DELETE, 1 re-run | one agent per room; a started session is claimed, or its claim failed; turns in order, a completed session has its history; a finished conversation is finished in the table |
| `assessor` | 2 prompts, 3 turns of which one is refused by the schema; 3 faults, 1 refusal, 1 cancelled reply, the assessment may be cancelled; breaker opens at 1 failure | what was said is neither lost nor counted twice; the microphone comes back; a saved answer is scored, unless the assessment went on without it |
| `assessor_saved` | as `assessor`, 1 fault, no refusal, no cancel | *violation*: the finding |
| `stage_evaluation` | 4 providers, 2 retries, 6 s of waits, 4 s timeout, delays of up to 8 s obeyed by the SDK, 1 outage; marks on both sides of every bound | the evaluator answers within its budget; a level is passed exactly on averaged evidence; better marks never hurt; verdicts are those `Assessment` allows |
| `fluency` | 2 turns, 1 other caller, 1 try nobody waits for, window of 2 requests | words count once; answers are what is stored, of one mode, fair; no window sees more than the limit |

**Bounds.** Two levels give a level below and the ceiling, so passing up, the
boundary item at both and stopping at both occur; levels between behave like the
first. In the service runs one level is enough: the interleavings concern the
commit of one answer against another, and a repeat of an unusable answer (the one case in which
a prompt is current again after a commit) needs no second level. Two threads make every
race of a check with a commit; three keys with a shared response id reach both
unique-key violations; four requests allow a submission, its retry and two others.
In the guided runs two lines are needed: a stale record may be one of another line; up to
three attempts at a line exhaust the retries;
four requests allow making the prompt visible, an attempt, its copy and one more call.
In `guided_runtime` one button at a time is enough for its call to overtake, or be overtaken by, that
of a spoken turn and that of a prompt; one lost answer leaves the second try of a call
that took effect, two lost answers a call given up although it did. `MaxSpeech` keeps the learner
from pressing a button while a speech waits.
In `conversation` two requests, two jobs and two contracts are the least in which a request finds the
dispatch of the other, a job meets a row that another one claimed, or metadata differ; two turns
can be committed out of order; one fault is enough for a
write to be lost, a dispatch to be forgotten or a process to die, each at any point. In `assessor` three turns
make an answer of two fragments and another answer; three faults make both tries of a request
fail and one more later. `Threshold` is 3 in the code: with 1 the breaker
opens within the faults allowed, and every count below it is a state that the closed breaker already has. The
evaluator's settings are small numbers in the proportions of the defaults (15 s, 60 s of waits): the retry
loop is cut off by each of its bounds in turn; 8 s is the least `SdkWait` the SDK's own backoff allows. Outputs of a provider are picked around the bounds
3, 2 and 1 of single marks and 2.8 and 2.4 of weighted ones. In `fluency` `Window` and
`Limit` are small so that requests fall on both ends of a window; `Earlier` gives the session
enough stored turns for one more to make a score.

`MaxEvaluatorFailures`, `MaxRequests`, `MaxCrashes`, `MaxFailures`, `MaxLost`, `MaxRejoins`, `MaxSpeech`, `MaxFaults`, `MaxDeletes`, `MaxReruns`, `MaxItems`, `MaxTurns`, `MaxRefusals`, `MaxInterrupts`, `MaxTime`, `MaxOthers` and `MaxTimeouts` bound otherwise endless counters
and stand in the guards of the actions they bound. The proofs need none of these.

**Lock creation.** `defaultdict(threading.RLock)` calls a Python function for a
missing key, so two first requests may each make a lock. `AtomicLocks = FALSE`
models this; the two-process run uses it. `service_one_process` shows what
the lock gives when it exists (`AtomicLocks = TRUE`): with `FALSE` both parts of
`LockProtects` fail, as they do between two processes.

**Fairness.** `RoomCloses` and `TryAgainWorks` assume that calls under way are served and answered, that speeches end or go on after a cough (`false_interruption_timeout`), and a learner who keeps reading the line (strongly fair, as a turn waits for the one before) once the page shows it and nothing is said (`Patient`): one who reads while the prompt is on its way may see its late answer reopen an ended session in the view. Coughs and interruptions stay free. `AssessmentEnds` assumes a learner who keeps answering
(`WF(Answer)`): it says the ladder has no endless path, not that learners stay.
`EveryRequestAnswered` assumes weak fairness of each thread's next step: the
operating system schedules threads, and a thread waiting for a lock competes with
finitely many others because requests are bounded. Nothing is assumed of clients, and crashes
are not fair. `SessionEnds` assumes, like `AssessmentEnds`, a learner who reads whenever
the prompt keeps becoming visible, a worker that shows it and a pause that is ended: it says
that no number of unclear readings keeps a learner at a line. `JobIsFinished` and `StartedIsClaimed` assume
that requests and workers that are alive go on, that conversations end, and that Postgres grants a row lock in
the order it was asked for (strong fairness of `Lock`, as the lock is free and taken in turns); faults are never promised.
`SavedIsScored` assumes that threads and replies go on, that the breaker's reset time passes, and a learner who says
"continue" when told to. `StageEvaluation` and `FluencyTurns` state no fairness: their properties are about what
may not happen.

## Proofs

Every safety property that a passing run checks (invariants, action properties and the three refinements) is a
theorem here, for every value of the constants that their assumptions allow; each proof has the inductive invariant it
needs, called `IInv` unless named otherwise. The assumptions say that sizes and bounds are naturals, that a size is not 0 where
the code has at least one, and that names of different kinds differ. Two theorems have a further condition (`FarewellIsSaid`, `LockKeepsPromises`), which is said below.

**`AssessmentProofs`** (any number of levels and recorded outages). `TypeOK`, `LadderSound`, `AnswersSound`, `EstimateHonest`, and
each part of the conjunctions by itself. Lemma `AdvanceMoves` reduces every accepted answer to one of seven moves
(repeat, stop for audio, start, ask follow-up, pass, ask boundary item, refuse). The
invariant joins the properties with three facts none of them
implies: no reason is recorded while the assessment runs (`NoReasonYet`), the
current level's boundary item has not been used before it is asked
(`BoundaryAhead`, which is why a weak pair never reaches `_fail_stage` directly), and the log
lies behind the current prompt in ladder order (`AnswersBehind`, from which no prompt is
judged twice). Each lemma `Answer...` preserves one conjunct. `LadderIsFinite` bounds the number of answers by what the
announced maximum leaves (`AnswersLeft`): a heard answer uses one up, and an unusable one may be repeated once.

**`AssessmentServiceProofs`** (any threads, processes, keys and response ids, with or
without atomic lock creation). `TypeOK`, `RepliesHold`, `ResultsMatchLog` and `RefinesAssessment`. The
invariant says what a thread carries between two round trips (`Carried`): the
record it read was open and is still the row unless the revision has moved on; its
decision is one the evaluator can give for its submission; and the next record it
has computed is an outcome of the ladder *on the present log* unless the revision
has moved on. `TypeOK` alone is not inductive, since `Commit` stores what earlier
round trips computed; `ResultInv` adds that a result already computed belongs to the log it will be appended to. The lock does not
occur in these arguments: the revision check is
what makes the service equivalent to one answer at a time, in one process or in
several. Steps that leave the database alone map to stutters, `Commit` to `Answer`,
`SaveFailure` to `EvaluatorUnavailable` and `CancelSave` to `Cancel`. What the lock adds is `LockProtects`, proved by
`LockKeepsPromises` from the condition `[]OneLock`: threads that are inside at the same time are under the same lock. The condition is
about behaviours, not about the deployment: it leaves open how many processes there are and whether locks are made twice, as long as their users do not
overlap. The code does not guarantee it (`service.py:69`, up to ten containers), and where it fails the property does. A single process whose table makes one
lock has it (`OneProcessHasOneLock`), which is the instance `service_one_process` checks. The invariant is
mutual exclusion of the threads that read, score and commit (`Exclusive`), and that what one of them has looked up is still so (`Inside`).

**`GuidedProofs`**, the session (any number of lines). `TypeOK`, `RecordSound`, `StepsSound`. The conjunction of the five
invariants is inductive and no single one is: that a line is retried at most twice needs that
the counters describe the current line (`FieldsAgree`), and that the last attempt of a line is
the selected one needs that later lines have none yet (`LinesInOrder`). Every call is one of three
moves: a control (`Moved`), an attempt (`Attempted`), a pronunciation result (`Evaluated`); each conjunct
is preserved by each move. `SessionIsFinite` counts the attempts of the lines before the current one (`AttemptsCounted`).

**`GuidedProofs`**, the worker (any buttons, prompts and bounds). `RefinesLifecycle`, `WorkerAgrees`, and through the refinement `RecordSound` again. The
argument for `WorkerAgrees` is that a session which has ended stays so, hence every reply that says so is true for ever, however late it is
read or repeated (`RepliesAreTrue`); with it `RuntimeIInv` says who may make an attempt (`Roles`) and that a reading is counted
exactly while its call is under way and stored (`OneReading`). `FarewellIsSaid` proves `ClosingLineSaid` from `Commands = {}`: with a button on
the page it is false (see below). There the call that completed the session is the turn's (`FarewellDue`), one thing is said at a time
and nothing while a turn is handled (`SilentTurn`), and so the closing line is the next to be said (`FarewellNext`): what closes the
room is its end, or the learner over it.

**`GuidedSessionProofs`** (any threads, keys and attempt ids). `StoresAgree`, `PromisesKept`, `RefinesLifecycle`. As in the
assessment, `Carried` says of each thread what it has in hand, as long as the revision has not moved: the next row is what its request makes
of the present one. `Kept` ties the record to the replay table, the kept audio and the jobs. A `Commit` never meets a unique key when its revision is current
(`CurrentIsUnique`), because an attempt id is in the row exactly when it is in the table.

**`ConversationProofs`** (any requests, jobs, contracts, turns, faults). `TypeOK`, `OneDispatch`, `HistoryKept`, and `FinishedIsFinal`
(the safety part of `RowSettles`). One half of the invariant is about starting: the row is held exactly between the lock and the commit (`RowHeld`), and
whoever is alive is the only dispatch there is (`OneAgent`). The other is about the log: reconciliation has stored what it
has passed (`Repaired`), and without a second process or a DELETE a turn's number is that of its item, in the table and in every waiting task (`InStep`).

**`AssessmentAgentProofs`** (any prompts, turns, faults and interrupts, any breaker threshold). `TypeOK`, `SpokenCounts`, `ListensWhenIdle`. The invariant says
that an idempotency key stands for one answer wherever it is: in a call, put aside, in the reply or stored (`Keyed`); what each outcome of a call says
about its answer, true whenever it arrives (`Meant`: "next" only if the prompt has passed or the answer was unusable); and where the parts of
an answer are while a reply is generated (`Kept`). That nothing of an open prompt is forgotten (`HeardIsKept`) follows from these at each step.

**`StageEvaluationProofs`** (any retries, waits, timeouts, delays and marks). `TypeOK`, `AnsweredWithinBudget`, `VerdictSound`, `BetterNeverHurts`. `Spent` bounds
the seconds used so far by the attempts begun and the waits taken, and the waits by what the Gemini client or the OpenAI SDK grants. The two properties of verdicts rest on lemmas about
scores: averages pass what both halves pass, a failed half that is rescued is not hopeless, and a higher mark never lowers an average.

**`FluencyTurnsProofs`** (any turns, callers, limit and window). `TypeOK`, `WindowHolds`, `WordsCountOnce`, `AnswersHold`. The deque is the end of the list
of all admissions and what it lacks is older than the window (`EndsInEvents`); the utterance whose timings are held was sent by nobody (`TimingsFresh`);
rows are never changed, so what a thread found is still there (`ThreadsSound`). That a session's score lies between those of its turns
needs lemmas on weighted sums and rounding; `LevelsAgree` shows that the two sets of thresholds for a level agree on all integers.

**Only model-checked**: liveness, which is beyond the prover: `AssessmentEnds`, `EveryRequestAnswered`, `SessionEnds`, `RoomCloses`, `TryAgainWorks`,
`StartedIsClaimed`, `SavedIsScored` and the part `JobIsFinished` of `RowSettles`. The first and the third have a proved safety half: no ladder and no session
can go on for ever, as `LadderIsFinite` and `SessionIsFinite` bound their answers by a number known from the start.
The provers cannot induct over data, and none of the proofs' modules has a `RECURSIVE` operator; where a proof needs
the least of a set of numbers, or the sum over a set, it argues with a minimal counterexample (`NatLessThanWellFounded`).
A refinement is a theorem about the abstract specification's formula. In `GuidedProofs` what holds of every session is then carried over
by a theorem; for `AssessmentService` and `GuidedSession`, which refer to the abstract module by INSTANCE, this last step is not
machine-checked, because the prover does not use theorems of an instance.

## Disagreements with the documents

*A saved answer may stay in the way for ever* (run `assessor_saved`). The retry of a saved answer treats every HTTP error
alike, a 409 among them, and while a payload is saved every other answer is turned away (`assessment_agent.py:414` and `:427`);
`docs/tutor/operations/spoken_assessment_troubleshooting.md:137` promises that a 409 triggers recovery. TLC finds how the prompt can move on
under a saved answer: a reply is cancelled while its request is under way, the next words are submitted and deferred,
and then the first request succeeds. `SavedIsScored` shows that this is the only way out of being scored.

The following were met in the models and have no run of their own:

- `docs/tutor/api/backend_integration.md:18` says retries are safe. `submit_response` reads the replay and then the response id
  before it takes the lock (`service.py:229`): if the first copy commits in between, the retry gets 409 although its answer is stored.
- `docs/tutor/assessment/branching_rules_v0.2.md:31` reports Pre-A1 only when evidence fails A1; `result_aggregator.py:219` also does
  for an assessment cancelled before any answer.
- `docs/tutor/guided_conversations/guided_mode_v0_2.md:61` promises the closing line. Only `stop` waits for it to be played (`guided_conversation.py:430`); `continue`
  at the last line, or any button just after the last line was accepted, closes the room first. Without buttons the room outlasts the line only if the learner keeps quiet: the line is an ordinary reply of `llm_node`, and
  0.4 s of his voice, a cough too, interrupt it (`:447`) and let `:471` close the room at once, where `:122` of the same page has
  it closed after the line finishes. `ClosingLineSaid` says that nothing else comes between (`farewell` is "said" or "cut").
- `guided_conversation.py:260` answers "try the same line again". When the answer to a stored attempt is lost twice, the view stays on the
  old line and each new try is refused. After failed calls that lose no answer it does work (`TryAgainWorks`).
- `docs/tutor/guided_conversations/guided_mode_v0_2.md:140` promises a recording with consent. The recorder is started once per turn (`guided_conversation.py:186`), so speech that
  begins during an upload is not recorded.
- `docs/tutor/assessment/assessment_reliability_review_v0.2.md:86` says the client's timeout exceeds the evaluator's full retry budget. By the
  defaults one answer by Gemini may take two rounds of four tries of 15 s and 60 s of waits, 240 s, against 90 s in the client.
  `EVALUATOR_MAX_RETRY_WAIT_SECONDS` does not reach the OpenAI SDK, which obeys a `Retry-After` of up to 60 s before each of its
  three retries: 480 s. `AnsweredWithinBudget` gives both bounds.
- `docs/tutor/api/backend_integration.md:256` forbids a second response id for one spoken answer; the fragments of a cancelled reply are submitted again under a new key. The
  service's refusal of an answer to a prompt that has passed keeps them from counting twice (`SpokenOnce`).

One result per key needs the common lock: with `service_two_processes`' constants TLC finds two
accepted copies of one submission with different results, since the loser of the race finds the key in
`save_transition`, which returns without a word. `RoomCloses` needs a room without buttons: with one
(`Commands = {c1}`) a reply that is overtaken by the one that ended the session reopens it in the view.
Two first turns of a fluency session in two modes may both be stored, as the mode is checked before the insert; then
no score is given any more (`OneModePerScore`), every later request is answered 409 or 500. A DELETE
followed by a start may attach the new session to the dispatch of a job that is over, and a worker that
claims late recreates a deleted row; `StartedIsClaimed` excuses deletions. It also excuses the claim that fails:
`worker.py:108` awaits `persistence.start` outside the `try` block, so after a database error there, or a death before it, nobody
writes the row any more. It stays "starting", and each later start is answered "connected", as the dispatch is recorded, until
a DELETE or until LiveKit hands the job to another process.

## Plan

Proofs: the safety halves of `StartedIsClaimed` and `SavedIsScored` (a start that is not claimed has a job on its way; a saved answer
that is not scored can still be tried); that the service as `AssessmentClient` reduces it is one that `Assessment` allows; that the view
of `GuidedRuntime` is behind the record only if an answer was lost or a call is under way.

Models, in this order: the read endpoints, item bank versions and audit rows around `AssessmentService`; the publish and
callback of an assessment's pronunciation diagnostics; the confidence of a result.

## Not modelled

- The result profile's confidence: HIGH needs six observations and levels on both sides, beyond the ladder sizes
  TLC enumerates; levels reported are in `Assessment`.
- The read-only endpoints, views and reports, audit rows, the events of conversations (written, never read), `delete_subject`.
- In the assessor: the recorder and word timings, and `STORE_ALL_ASSESSMENT_AUDIO`, which is off by default (with
  it on, a reply cancelled during an upload leaves the microphone off).
- In fluency: the four subscores and the features only they read (an eligible turn has any index), and the
  circuit breaker of its client. The limiter is one key's: it is called on the event loop, one request at a time.
- Errors of an evaluator's SDK that are not API errors are treated by the code as malformed output and modelled so.
- Audio capture and synthesis, prompt texts, model calls, metrics, response formatting, token
  signing, database migrations and configuration: pure I/O, formatting or third-party code.

`PROJECT.json` lists every component with its status.
