----------------------------- MODULE GuidedRuntime -----------------------------
(***************************************************************************)
(* app/realtime/guided_conversation.py: the voice worker of one guided     *)
(* session.  It keeps a copy of the session (view) that every reply of the *)
(* service overwrites, and runs at once a task for what the learner says,  *)
(* tasks for the buttons of the page (data commands), and tasks that tell  *)
(* the service that a line has been said (prompts).  Each waits for an     *)
(* HTTP call made in a thread; calls overtake each other, fail, or take    *)
(* effect and lose their answer, and the client tries each twice.          *)
(*                                                                         *)
(* The service is GuidedLifecycle: a call takes effect in one step, which  *)
(* GuidedSession justifies.  The connection breaks before the effect       *)
(* (MaxFailures; also a 5xx answer, or an open circuit breaker) or after   *)
(* it (MaxLost).  LiveKit, as far as the worker relies on it: speeches are *)
(* said in the order they were asked for; the agent is "listening" after   *)
(* each, and as soon as the learner talks over it; a turn is not handed    *)
(* over while a speech that may not be interrupted is said, and cuts off   *)
(* one that may be; and not before the turn before it is done with.        *)
(***************************************************************************)
EXTENDS GuidedLifecycle

CONSTANTS
    Commands,       \* data commands under way at once, at most
    Prompts,        \* mark_prompt_available tasks at once, at most
    Consent,        \* recording_consent of the session
    Patient,        \* the learner reads a line only when nothing is said and no prompt is on its way
    Voice,          \* on_user_turn_completed: one at a time
    MaxFailures,    \* calls that fail and leave no effect
    MaxLost,        \* calls that take effect and whose answer is lost
    MaxRejoins,     \* times the room is lost and another job takes it up
    MaxSpeech       \* speeches waiting: bound on replays

ASSUME RuntimeAssumption ==
    /\ {Consent, Patient} \subseteq BOOLEAN
    /\ Commands \cap Prompts = {} /\ Voice \notin Commands \cup Prompts
    /\ {MaxFailures, MaxLost, MaxRejoins, MaxSpeech} \subseteq Nat

Callers == Commands \cup Prompts \cup {Voice}
MaxTries == 2                                  \* retry_idempotently

VARIABLES
    view,           \* controller.view: what the last reply said of the session (record)
    calls,          \* what each task is doing
    pending,        \* _pending_spoken_reply
    speech,         \* speeches asked of LiveKit and not finished
    room,           \* "open", or "closed" by close_guided_session
    talking,        \* the learner is speaking, as voice activity detection has it
    started,        \* _turn_started_ms is set
    recording,      \* the recorder's _active
    faults,         \* failures, lost answers and rejoins so far
    troubled,       \* the learner was told to try again and has not been heard since
    farewell,       \* the closing line: "due", "said" to its end, or "cut" by the learner
    counted         \* attempts the service stored for the line last read

audio == <<talking, started, recording>>
runtimeVars == <<record, view, calls, pending, speech, room, audio, faults, troubled,
           farewell, counted>>

-----------------------------------------------------------------------------
(***************************************************************************)
(* Views, replies, tasks.                                                  *)
(***************************************************************************)
Views   == [state : States, turn : 0 .. NumTurns]
Spoken  == {"none", "text", "closing"}
Replies == [ok : BOOLEAN, view : Views, spoken : Spoken]

\* _view; 0 stands for no current_turn.
ViewOf(r) == [state |-> r.state, turn |-> IF InProgress(r) THEN r.turn ELSE 0]

Terminal == view.state \in {"completed", "stopped"}
Paused   == view.state = "paused"

NoView  == [state |-> "stopped", turn |-> 0]
Failure == [ok |-> FALSE, view |-> NoView, spoken |-> "text"]

\* What the service has the worker say once the call has led to record r.
SpokenAfter(r, call) ==
    IF r.state = "completed" THEN "closing"
    ELSE IF \/ call \in {"pause", "prompt_ready"}
            \/ call = "resume" /\ r.state # "assistant_speaking"
    THEN "none" ELSE "text"

Reply(r, call) == [ok |-> TRUE, view |-> ViewOf(r), spoken |-> SpokenAfter(r, call)]

\* stored: the reply kept under the attempt's idempotency key, Failure if none.
Idle == [phase |-> "idle", call |-> "none", turn |-> 0, audio |-> FALSE, tries |-> 0,
         reply |-> Failure, stored |-> Failure]

Sent(call) == [Idle EXCEPT !.phase = "sent", !.call = call, !.tries = 1]

Tasks == [phase : {"idle", "uploading", "sent", "served", "speak", "say", "playing"},
          call  : Controls \cup {"none", "attempt", "replay"},
          turn  : 0 .. NumTurns,
          audio : BOOLEAN,
          tries : 0 .. MaxTries,
          reply : Replies,
          stored : Replies]

\* An item of the speech queue: which task waits for it, whether it is the closing
\* line, whether the learner may not interrupt it, and whether he is doing so.
Items == [by : Callers, closing : BOOLEAN, firm : BOOLEAN, paused : BOOLEAN]
Item(c, spoken, firm) ==
    [by |-> c, closing |-> spoken = "closing", firm |-> firm, paused |-> FALSE]

RuntimeTypeOK ==
    /\ record \in Records
    /\ view \in Views
    /\ calls \in [Callers -> Tasks]
    /\ pending \in Spoken
    /\ speech \in Seq(Items)
    /\ room \in {"open", "closed"}
    /\ {talking, started, recording, troubled} \subseteq BOOLEAN
    /\ farewell \in {"due", "said", "cut"}
    /\ faults \in [failures : 0 .. MaxFailures, lost : 0 .. MaxLost, rejoins : 0 .. MaxRejoins]
    /\ counted \in Nat


-----------------------------------------------------------------------------
(***************************************************************************)
(* Starting, in a new room or in one that takes over (initialize).         *)
(***************************************************************************)
Opening(v) ==
    IF v.state \in Active THEN <<Item(Voice, "text", TRUE)>> ELSE <<>>

RuntimeInit ==
    /\ record = NewRecord
    /\ view = ViewOf(NewRecord)
    /\ calls = [c \in Callers |-> Idle]
    /\ pending = "none"
    /\ speech = Opening(view)
    /\ room = "open"
    /\ talking = FALSE /\ started = FALSE /\ recording = FALSE
    /\ faults = [failures |-> 0, lost |-> 0, rejoins |-> 0]
    /\ troubled = FALSE /\ farewell = "due"
    /\ counted = 0

\* The room is lost and the learner comes back: a new job reads the session.
Rejoin ==
    /\ room = "open" /\ faults.rejoins < MaxRejoins
    /\ faults' = [faults EXCEPT !.rejoins = @ + 1]
    /\ view' = ViewOf(record)
    /\ calls' = [c \in Callers |-> Idle]
    /\ pending' = "none" /\ speech' = Opening(ViewOf(record))
    /\ room' = IF InProgress(record) THEN "open" ELSE "closed"
    /\ talking' = FALSE /\ started' = FALSE /\ recording' = FALSE
    /\ troubled' = FALSE
    /\ counted' = 0
    /\ farewell' = IF InProgress(record) THEN "due" ELSE "said"     \* in the room before
    /\ UNCHANGED record

-----------------------------------------------------------------------------
(***************************************************************************)
(* The end of a speech, and of the room.                                   *)
(***************************************************************************)
\* Mutant: that the session is over is noticed only by the commands.
ListeningForPrompts(tasks) ==
    /\ UNCHANGED room
    /\ \/ /\ view.state = "assistant_speaking"
          /\ \E p \in Prompts : /\ tasks[p].phase = "idle"
                                /\ calls' = [tasks EXCEPT ![p] = Sent("prompt_ready")]
       \/ view.state # "assistant_speaking" /\ calls' = tasks

\* on_agent_state_changed, from speaking to listening, with the task it
\* starts: close_guided_session (nothing happens in a closed room, and what
\* was being said is cut off) or mark_prompt_available.
Listening(tasks) ==
    \/ Terminal /\ room' = "closed" /\ calls' = tasks
    \/ /\ view.state = "assistant_speaking" /\ UNCHANGED room
       /\ \E p \in Prompts : /\ tasks[p].phase = "idle"
                             /\ calls' = [tasks EXCEPT ![p] = Sent("prompt_ready")]
    \/ /\ ~Terminal /\ view.state # "assistant_speaking"
       /\ calls' = tasks /\ UNCHANGED room

\* Nothing is being said.
Silent == speech # <<>> => Head(speech).paused

\* The speech that is being said leaves the queue.
Leaves(how) ==
    /\ speech' = Tail(speech)
    /\ farewell' = IF Head(speech).closing THEN how ELSE farewell

SpeechEnds ==
    /\ room = "open" /\ ~Silent
    /\ Leaves("said")
    /\ Listening(calls)
    /\ UNCHANGED <<record, view, pending, audio, faults, troubled, counted>>

\* The learner talks over it.  The replies to a turn may be interrupted, the
\* closing line among them, what session.say says may not.
Interrupted ==
    /\ room = "open" /\ (Consent => talking)
    /\ ~Silent /\ ~Head(speech).firm
    /\ speech' = [speech EXCEPT ![1].paused = TRUE]
    /\ farewell' = IF Head(speech).closing THEN "cut" ELSE farewell
    /\ Listening(calls)
    /\ UNCHANGED <<record, view, pending, audio, faults, troubled, counted>>

\* It was a cough: after false_interruption_timeout the speech goes on.
Resumed ==
    /\ room = "open" /\ ~(Consent /\ talking)
    /\ speech # <<>> /\ Silent
    /\ speech' = [speech EXCEPT ![1].paused = FALSE]
    /\ UNCHANGED <<record, view, calls, pending, room, audio, faults, troubled, farewell,
                   counted>>

-----------------------------------------------------------------------------
(***************************************************************************)
(* The learner.                                                            *)
(***************************************************************************)
\* mark_user_speaking.  The page switches the microphone off during a pause.
\* Without consent nothing is uploaded, and nothing here makes a difference.
StartSpeaking ==
    /\ Consent /\ room = "open" /\ ~talking /\ ~Paused
    /\ talking' = TRUE
    /\ IF Terminal \/ started
       THEN UNCHANGED <<started, recording>>
       ELSE started' = TRUE /\ recording' = TRUE
    /\ UNCHANGED <<record, view, calls, pending, speech, room, faults, troubled,
                   farewell, counted>>

\* A cough: voice activity and no words, so that no turn is handed over.
StopSpeaking ==
    /\ room = "open" /\ talking
    /\ talking' = FALSE
    /\ UNCHANGED <<record, view, calls, pending, speech, room, started, recording, faults,
                   troubled, farewell, counted>>

\* LiveKit hands over a turn, after which the tasks are as given.
TurnCompleted(tasks) ==
    /\ room = "open" /\ (Consent => talking) /\ calls[Voice].phase = "idle"
    /\ talking' = FALSE
    /\ \/ speech = <<>> /\ calls' = tasks /\ UNCHANGED <<speech, room, farewell>>
       \/ /\ speech # <<>> /\ ~Head(speech).firm
          /\ Leaves("cut")
          /\ IF Silent THEN calls' = tasks /\ UNCHANGED room ELSE Listening(tasks)
    /\ UNCHANGED <<record, view, faults, troubled>>

\* handle_user_turn in a session that is over or paused: the reply is empty.
HearNothing ==
    /\ TurnCompleted(calls)
    /\ Terminal \/ Paused
    /\ started' = FALSE
    /\ UNCHANGED <<pending, recording, counted>>

\* The learner says "try again" or "continue" instead of pressing the button.
HearDecision(command) ==
    /\ view.state = "awaiting_retry_decision"
    /\ TurnCompleted([calls EXCEPT ![Voice] = Sent(command)])
    /\ UNCHANGED <<pending, started, recording, counted>>

\* The line is taken to be the one on the screen; its audio is uploaded first.
Reading == [Idle EXCEPT !.phase = "uploading", !.call = "attempt",
                        !.turn = view.turn, !.audio = recording]

HearLine ==
    /\ ~Terminal /\ ~Paused
    /\ Patient => Silent
    /\ Patient => \A p \in Prompts : calls[p].phase = "idle"
    /\ TurnCompleted([calls EXCEPT ![Voice] = Reading])
    /\ recording' = FALSE
    /\ UNCHANGED <<pending, started, counted>>

\* The upload is over, successful or not: its failure is only logged.
Uploaded ==
    /\ room = "open" /\ calls[Voice].phase = "uploading"
    /\ started' = FALSE
    /\ \/ /\ calls' = [calls EXCEPT ![Voice].phase = "sent", ![Voice].tries = 1]
          /\ UNCHANGED faults
       \/ /\ faults.failures < MaxFailures
          /\ faults' = [faults EXCEPT !.failures = @ + 1]
          /\ calls' = [calls EXCEPT ![Voice].phase = "sent", ![Voice].tries = 1,
                                    ![Voice].audio = FALSE]
    /\ UNCHANGED <<record, view, pending, speech, room, talking, recording, troubled,
                   farewell, counted>>

-----------------------------------------------------------------------------
(***************************************************************************)
(* Calls to the service.                                                   *)
(***************************************************************************)
\* Mutant: the line in the payload is not compared.
MayStoreAnyLine(task) == MaySpeak(record)

\* Mutant: the line may be read before the prompt is shown.
MayStoreEarly(task) == InProgress(record) /\ task.turn = record.turn

MayStore(task) == MaySpeak(record) /\ task.turn = record.turn

Serve(c) ==
    LET task == calls[c]
        Answer(reply) == calls' = [calls EXCEPT ![c].phase = "served", ![c].reply = reply]
    IN
    /\ task.phase = "sent"
    /\ \/ /\ task.call \in Controls /\ MayControl(record, task.call)
          /\ record' = AfterControl(record, task.call)
          /\ Answer(Reply(record', task.call))
          /\ UNCHANGED counted
       \/ /\ task.call \in Controls /\ AlreadyDone(record, task.call)
          /\ Answer(Reply(record, task.call))
          /\ UNCHANGED <<record, counted>>
       \/ /\ task.call = "attempt" /\ task.stored.ok
          /\ Answer(task.stored)
          /\ UNCHANGED <<record, counted>>
       \/ /\ task.call = "attempt" /\ ~task.stored.ok
          /\ MayStore(task)
          /\ \E unclear \in BOOLEAN : record' = AfterAttempt(record, unclear, task.audio)
          /\ LET reply == Reply(record', "attempt") IN
             calls' = [calls EXCEPT ![c].phase = "served", ![c].reply = reply,
                                    ![c].stored = reply]
          /\ counted' = counted + 1
       \/ /\ \/ /\ task.call \in Controls
                /\ ~MayControl(record, task.call) /\ ~AlreadyDone(record, task.call)
             \/ /\ task.call = "attempt" /\ ~task.stored.ok
                /\ ~MayStore(task)
          /\ Answer(Failure)
          /\ UNCHANGED <<record, counted>>
    /\ UNCHANGED <<view, pending, speech, room, audio, faults, troubled, farewell>>

\* _pending_spoken_reply is written by commands as well, although they say
\* their reply themselves.  It is read only after a turn, and every turn writes it.
Follow(c, spoken) ==
    /\ pending' = IF c = Voice \/ (c \in Commands /\ calls[Voice].phase = "speak")
                  THEN spoken ELSE pending
    /\ calls' = [calls EXCEPT ![c] =
                    IF c \in Prompts THEN Idle
                    ELSE IF c = Voice THEN [Idle EXCEPT !.phase = "speak"]
                    ELSE [Idle EXCEPT !.phase = "speak", !.call = calls[c].call,
                                      !.reply.spoken = spoken]]

\* Mutant: the worker takes a stop and a shown prompt for granted.
HandleOptimistically(c, reply) ==
    /\ view' = IF reply.ok THEN reply.view
               ELSE IF calls[c].call = "stop" THEN NoView
               ELSE IF c \in Prompts THEN [view EXCEPT !.state = "user_prompt_visible"] ELSE view
    /\ Follow(c, reply.spoken)
    /\ counted' = IF c = Voice THEN 0 ELSE counted
    /\ troubled' = IF c = Voice /\ (reply.ok \/ calls[c].call = "attempt")
                   THEN ~reply.ok ELSE troubled
    /\ UNCHANGED <<record, speech, room, audio, farewell>>

\* What the task does with an answer: handle_command, the end of
\* handle_user_turn, mark_prompt_available.
Handle(c, reply) ==
    /\ view' = IF reply.ok THEN reply.view ELSE view
    /\ Follow(c, reply.spoken)
    /\ counted' = IF c = Voice THEN 0 ELSE counted
    /\ troubled' = IF c = Voice /\ (reply.ok \/ calls[c].call = "attempt")
                   THEN ~reply.ok ELSE troubled
    /\ UNCHANGED <<record, speech, room, audio, farewell>>

Answered(c) ==
    /\ room = "open" /\ calls[c].phase = "served"
    /\ Handle(c, calls[c].reply)
    /\ UNCHANGED faults

\* Mutant: the second try is made under a key of its own.
BrokenFreshKey(c) ==
    \/ /\ calls[c].tries < MaxTries
       /\ calls' = [calls EXCEPT ![c].phase = "sent", ![c].tries = @ + 1,
                                 ![c].reply = Failure, ![c].stored = Failure]
       /\ UNCHANGED <<record, view, pending, speech, room, audio, troubled, farewell, counted>>
    \/ calls[c].tries = MaxTries /\ Handle(c, Failure)

\* The client tries once more and then gives up.
Broken(c) ==
    \/ /\ calls[c].tries < MaxTries
       /\ calls' = [calls EXCEPT ![c].phase = "sent", ![c].tries = @ + 1,
                                 ![c].reply = Failure]
       /\ UNCHANGED <<record, view, pending, speech, room, audio, troubled, farewell, counted>>
    \/ calls[c].tries = MaxTries /\ Handle(c, Failure)

Fails(c) ==
    /\ room = "open" /\ calls[c].phase = "sent" /\ faults.failures < MaxFailures
    /\ faults' = [faults EXCEPT !.failures = @ + 1]
    /\ Broken(c)

LosesAnswer(c) ==
    /\ room = "open" /\ calls[c].phase = "served" /\ faults.lost < MaxLost
    /\ faults' = [faults EXCEPT !.lost = @ + 1]
    /\ Broken(c)

-----------------------------------------------------------------------------
(***************************************************************************)
(* What follows an answer.                                                 *)
(***************************************************************************)
\* Mutant: the room is closed as soon as the session is over.
SayReplyAndClose ==
    /\ room = "open" /\ calls[Voice].phase = "speak"
    /\ speech' = IF pending = "none" THEN speech ELSE Append(speech, Item(Voice, pending, FALSE))
    /\ pending' = "none"
    /\ room' = IF Terminal THEN "closed" ELSE room
    /\ calls' = [calls EXCEPT ![Voice] = Idle]
    /\ UNCHANGED <<record, view, audio, faults, troubled, farewell, counted>>

\* llm_node: the reply to a turn is whatever is pending by now.
SayReply ==
    /\ room = "open" /\ calls[Voice].phase = "speak"
    /\ speech' = IF pending = "none" THEN speech ELSE Append(speech, Item(Voice, pending, FALSE))
    /\ pending' = "none"
    /\ calls' = [calls EXCEPT ![Voice] = Idle]
    /\ UNCHANGED <<record, view, room, audio, faults, troubled, farewell, counted>>

\* A data command.  Replays need no call.
Command(c, command) ==
    /\ room = "open" /\ calls[c].phase = "idle" /\ Len(speech) < MaxSpeech
    /\ calls' = [calls EXCEPT ![c] = Sent(command)]
    /\ UNCHANGED <<record, view, pending, speech, room, audio, faults, troubled,
                   farewell, counted>>

Replay(c) ==
    /\ room = "open" /\ calls[c].phase = "idle" /\ Len(speech) < MaxSpeech
    /\ calls' = [calls EXCEPT ![c] =
                    [Idle EXCEPT !.phase = "speak", !.call = "replay",
                                 !.reply.spoken = IF Terminal \/ Paused THEN "none" ELSE "text"]]
    /\ UNCHANGED <<record, view, pending, speech, room, audio, faults, troubled,
                   farewell, counted>>

\* apply_command silences a pause, successful or not, before anything else.
Silence(c) ==
    LET tasks == [calls EXCEPT ![c].phase = "say"] IN
    /\ room = "open" /\ calls[c].phase = "speak" /\ calls[c].call = "pause"
    /\ speech' = <<>> /\ recording' = FALSE
    /\ IF Silent THEN calls' = tasks /\ UNCHANGED room ELSE Listening(tasks)
    /\ UNCHANGED <<record, view, pending, talking, started, faults, troubled, farewell,
                   counted>>

\* Only a stop waits for its own speech.
Waiter(c) == IF calls[c].call = "stop" THEN c ELSE Voice

\* The rest of apply_command, up to the wait for a stop to be said.
Say(c) ==
    LET spoken == calls[c].reply.spoken IN
    /\ room = "open"
    /\ calls[c].phase = "say" \/ (calls[c].phase = "speak" /\ calls[c].call # "pause")
    /\ speech' = IF spoken = "none" THEN speech ELSE Append(speech, Item(Waiter(c), spoken, TRUE))
    /\ IF calls[c].call = "stop"
       THEN /\ calls' = [calls EXCEPT ![c] = [Idle EXCEPT !.phase = "playing"]]
            /\ UNCHANGED room
       ELSE /\ calls' = [calls EXCEPT ![c] = Idle]
            /\ room' = IF Terminal THEN "closed" ELSE room
    /\ UNCHANGED <<record, view, pending, audio, faults, troubled, farewell, counted>>

\* wait_for_playout returns.
Played(c) ==
    /\ room = "open" /\ calls[c].phase = "playing"
    /\ \A i \in DOMAIN speech : speech[i].by # c
    /\ calls' = [calls EXCEPT ![c] = Idle]
    /\ room' = IF Terminal THEN "closed" ELSE room
    /\ UNCHANGED <<record, view, pending, speech, audio, faults, troubled, farewell, counted>>

-----------------------------------------------------------------------------
(***************************************************************************)
(* Specification.                                                          *)
(***************************************************************************)
Service(c) == Serve(c) \/ Answered(c)

Apply(c) == Silence(c) \/ Say(c) \/ Played(c)

RuntimeNext ==
    \/ StartSpeaking \/ StopSpeaking
    \/ HearNothing \/ HearLine \/ (\E command \in {"retry", "continue"} : HearDecision(command))
    \/ Uploaded \/ SayReply \/ SpeechEnds \/ Interrupted \/ Resumed \/ Rejoin
    \/ \E c \in Callers : Service(c) \/ Fails(c) \/ LosesAnswer(c)
    \/ \E c \in Commands :
          \/ \E command \in Controls \ {"prompt_ready"} : Command(c, command)
          \/ Replay(c) \/ Apply(c)

RuntimeSpec == RuntimeInit /\ [][RuntimeNext]_runtimeVars

\* Calls are answered and speeches end; and the learner keeps reading the line.
RuntimeFairSpec ==
    /\ RuntimeSpec
    /\ WF_runtimeVars(Uploaded) /\ WF_runtimeVars(SayReply) /\ WF_runtimeVars(SpeechEnds)
    /\ WF_runtimeVars(Resumed)
    /\ \A c \in Callers : WF_runtimeVars(Serve(c)) /\ WF_runtimeVars(Answered(c))
    /\ \A c \in Commands : WF_runtimeVars(Apply(c))
    /\ WF_runtimeVars(StartSpeaking) /\ SF_runtimeVars(HearLine)

-----------------------------------------------------------------------------
(***************************************************************************)
(* Properties.                                                             *)
(***************************************************************************)
\* A room is only closed on a session that has ended, and guided.session_closed
\* gives the true reason: whatever the order in which replies arrive, fail and
\* get lost, an ended session in the view is one at the service.
ClosedOnlyAtEnd ==
    /\ Terminal => record.state = view.state
    /\ room = "closed" => Terminal

\* guided_mode_v0_2.md: "Attempt POSTs are idempotent."  One reading of a line
\* is at most one attempt of the session, on the line that was on the screen
\* when it was read, however often the call is repeated and whatever button
\* is pressed while the audio is being uploaded.
ReadingCountsOnce ==
    /\ counted <= 1
    /\ calls[Voice].stored.ok =>
          record.attempts[Len(record.attempts)].turn = calls[Voice].turn

\* The worker and the service agree on what matters to the learner, however late
\* or lost the answers are: which lines count, and that the session is over.
WorkerAgrees == RuntimeTypeOK /\ ReadingCountsOnce /\ ClosedOnlyAtEnd

\* Every effect of the worker on the session is one the session allows.
RefinesLifecycle == Spec

\* guided_mode_v0_2.md: after "the fixed closing line finishes, the worker
\* publishes guided.session_closed".  The room of a completed session is not
\* closed before its closing line was said, or before the learner talked over
\* it: an interruption is enough for the worker to close the room at once.
ClosingLineSaid ==
    room = "closed" /\ record.status = "completed" => farewell # "due"

\* The same page: it then "disconnects from the room": a session that has
\* ended does not leave its learner in a room that listens.
RoomCloses == ~InProgress(record) ~> room = "closed"

\* handle_user_turn: "Please wait a moment and try the same line again",
\* "recoverable": True.  A learner who is told so and does so is heard.
TryAgainWorks == troubled ~> ~troubled
=============================================================================
