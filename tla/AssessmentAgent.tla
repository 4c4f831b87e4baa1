---------------------------- MODULE AssessmentAgent ----------------------------
(***************************************************************************)
(* LevelAssessmentAgent, the voice adapter of an assessment: what the      *)
(* learner says arrives in turns, the turns of one answer are collected    *)
(* until the learner is quiet, the answer is submitted under one key, and  *)
(* an answer that could not be judged is kept until "continue".  LiveKit   *)
(* generates one reply at a time and cancels it (at whatever it waits for) *)
(* when the learner speaks; a reply in its quiet window may be cancelled   *)
(* late, which is what the generations of PendingResponse are for.  LiveKit*)
(* asks for the reply to a turn once, so that seen_turn_ids and            *)
(* claimed_generation never decide; STORE_ALL_ASSESSMENT_AUDIO is off, its *)
(* default, so that stop_and_upload waits for nothing.                     *)
(***************************************************************************)
EXTENDS AssessmentClient, Sequences

CONSTANT MaxInterrupts      \* bound on replies that are cancelled

ASSUME AgentAssumption == MaxInterrupts \in Nat

VARIABLES
    current, completed, deferred, input,    \* fields of the agent
    pending,        \* PendingResponse: prompt, fragments, generation
    reply,          \* the reply being generated (llm_node)
    waiters,        \* replies in their quiet window that are cancelled late
    heard,          \* per turn: the prompt it was an answer to, 0 for a control
    interrupts

agentVars == <<current, completed, deferred, input, pending, reply, waiters, heard, interrupts>>
vars      == <<clientVars, agentVars>>

\* A reply is idle, in its quiet window, or waits for a call; via says how it
\* got to the call, which decides what an error of it means.
Ats     == {"idle", "window"} \cup Kinds
Vias    == {"fresh", "retry", "gone", "stale", "refused"}
Replies == [at : Ats, via : Vias, payload : Payloads, generation : Nat]

Idle     == [at |-> "idle", via |-> "fresh", payload |-> NoPayload, generation |-> 0]
Nothing  == [prompt |-> 0, said |-> {}, generation |-> 0]

\* PendingResponse.reset
Cleared == [Nothing EXCEPT !.generation = pending.generation + 1]

Init ==
    /\ ClientInit
    /\ current = 1
    /\ completed = FALSE
    /\ deferred = NoPayload
    /\ input = TRUE
    /\ pending = Nothing
    /\ reply = Idle
    /\ waiters = {}
    /\ heard = <<>>
    /\ interrupts = 0

-----------------------------------------------------------------------------
(* How a reply goes on                                                      *)

Untended == {c \in calls : ~c.awaited}

\* It calls the service in a thread.
Calls(kind, via, payload, mended) ==
    /\ reply' = [at |-> kind, via |-> via, payload |-> payload, generation |-> 0]
    /\ calls' = Untended \cup {Request(kind, payload, mended)}

\* It ends with nothing more than words, or with an exception; "finally".
\* Mutant: without "finally".
FallsSilent(others) ==
    /\ reply' = Idle
    /\ calls' = others
    /\ UNCHANGED <<current, completed, pending, deferred, input>>

Falls(others) ==
    /\ reply' = Idle
    /\ input' = TRUE
    /\ calls' = others
    /\ UNCHANGED <<current, completed, pending, deferred>>

\* _reset_prompt_state, and prompt q is spoken.
Asks(q) ==
    /\ current' = q
    /\ pending' = Cleared
    /\ deferred' = NoPayload
    /\ reply' = Idle
    /\ input' = TRUE
    /\ calls' = Untended
    /\ UNCHANGED completed

\* _defer_submission: "Your answer is saved".
\* Mutant: the answer is not saved.
DefersNothing ==
    /\ deferred' = NoPayload
    /\ pending' = Cleared
    /\ reply' = Idle
    /\ input' = TRUE
    /\ calls' = Untended
    /\ UNCHANGED <<current, completed>>

Defers ==
    /\ deferred' = reply.payload
    /\ pending' = Cleared
    /\ reply' = Idle
    /\ input' = TRUE
    /\ calls' = Untended
    /\ UNCHANGED <<current, completed>>

\* The result is told, and the conversation is over.
Announces ==
    /\ completed' = TRUE
    /\ input' = FALSE
    /\ reply' = Idle
    /\ calls' = Untended
    /\ UNCHANGED <<current, pending, deferred>>

\* One more call of the same reply.
CallsAlso(kind, via, mended) ==
    /\ Calls(kind, via, reply.payload, mended)
    /\ UNCHANGED <<current, completed, input, pending, deferred>>

\* _next_spoken_text: the next prompt, or the result is fetched first.
\* Mutant: there is always a next prompt.
ProceedsAsking(next) == Asks(next)

Proceeds(next) ==
    \/ next # Over /\ Asks(next)
    \/ /\ next = Over
       /\ Calls("result", reply.via, reply.payload, FALSE)
       /\ deferred' = NoPayload
       /\ UNCHANGED <<current, completed, input, pending>>

\* The except clauses of a fresh submission and of the calls they lead to.  An
\* error while a 409 is being repaired ends the reply, and so does any error of
\* a retry, whose payload is kept as it is.
Handles(says) ==
    LET fresh == reply.via = "fresh"
        keeps == \/ fresh /\ says \in {"busy", "down"}
                 \/ reply.via = "refused" /\ says # "broken"
    IN  \/ keeps /\ Defers
        \/ fresh /\ says = "gone" /\ CallsAlso("result", "gone", FALSE)
        \/ fresh /\ says \in {"stale", "refused"} /\ CallsAlso("state", says, FALSE)
        \/ ~keeps /\ (~fresh \/ says = "broken") /\ Falls(Untended)

\* The reply gets the outcome of the call it waits for.
Resume ==
    /\ \E c \in calls \ Untended :
          \/ c.says = "next" /\ Proceeds(c.next)
          \/ c.says = "result" /\ Announces
          \/ c.says = "rejected" /\ CallsAlso("submit", reply.via, TRUE)
          \/ c.says \notin {"", "next", "result", "rejected"} /\ Handles(c.says)
    /\ UNCHANGED <<breaker, service, faults, refusals, waiters, heard, interrupts>>

-----------------------------------------------------------------------------
(* llm_node: what the learner says                                          *)

Turn      == Len(heard) + 1
Listening == input /\ ~completed /\ reply.at = "idle"
Spoken    == Listening /\ deferred = NoPayload /\ Turn <= MaxTurns

\* PendingResponse.add
Added(said) ==
    LET base == IF pending.prompt \in {0, current} THEN pending ELSE Cleared
    IN  [prompt |-> current, said |-> base.said \cup said, generation |-> base.generation + 1]

\* What an utterance is: a fragment of an answer, its last one ("... that's all"),
\* the bare words, or a control.  "Continue" is a fragment if no answer is saved.
Utterances == {"fragment", "last", "done", "control"}

\* The bare words end an answer that was begun.  The reply to a fragment that is
\* not the last waits for silence.
Answer(u) ==
    /\ Spoken
    /\ u = "done" => pending.said # {}
    /\ LET new == Added(IF u = "done" THEN {} ELSE {Turn})
       IN  /\ pending' = new
           /\ IF u # "fragment"
              THEN /\ Calls("submit", "fresh",
                            [key |-> Turn, prompt |-> current, said |-> new.said], FALSE)
                   /\ input' = FALSE
              ELSE /\ reply' = [at |-> "window", via |-> "fresh", generation |-> new.generation,
                                payload |-> [key |-> Turn, prompt |-> current, said |-> {}]]
                   /\ UNCHANGED <<input, calls>>
    /\ heard' = Append(heard, IF u = "done" THEN 0 ELSE current)
    /\ UNCHANGED <<current, completed, deferred, waiters, interrupts, breaker, service, faults, refusals>>

\* The quiet window of reply w is over; claim.
Claims(w) ==
    IF w.generation = pending.generation
    THEN /\ Calls("submit", "fresh", [w.payload EXCEPT !.said = pending.said], FALSE)
         /\ input' = FALSE
    ELSE /\ reply' = IF w = reply THEN Idle ELSE reply
         /\ UNCHANGED <<calls, input>>

Wake(w) ==
    /\ w \in waiters \/ (w = reply /\ w.at = "window")
    /\ w.generation = pending.generation => reply.at = "idle" \/ w = reply
    /\ Claims(w)
    /\ waiters' = waiters \ {w}
    /\ UNCHANGED <<current, completed, deferred, pending, heard, interrupts,
                   breaker, service, faults, refusals>>

\* "repeat", "explain" or "one moment": _pause_control_audio.
Postponed == IF pending.said = {} THEN pending ELSE [pending EXCEPT !.generation = @ + 1]

Control ==
    /\ Spoken
    /\ pending' = Postponed
    /\ heard' = Append(heard, 0)
    /\ UNCHANGED <<current, completed, deferred, input, reply, waiters, interrupts, clientVars>>

\* "continue" while an answer is saved; anything else is turned away then.
Continue ==
    /\ Listening
    /\ deferred # NoPayload
    /\ Calls("submit", "retry", deferred, FALSE)
    /\ input' = FALSE
    /\ UNCHANGED <<current, completed, deferred, pending, waiters, heard, interrupts,
                   breaker, service, faults, refusals>>

\* The learner speaks: LiveKit cancels the reply, but not the thread of its call.
Interrupt ==
    /\ reply.at # "idle"
    /\ interrupts < MaxInterrupts
    /\ interrupts' = interrupts + 1
    /\ Falls(Untended \cup {[c EXCEPT !.awaited = FALSE] :
                 c \in {d \in calls \ Untended : d.kind = "submit" /\ d.says = ""}})
    /\ \/ UNCHANGED waiters
       \/ reply.at = "window" /\ waiters' = waiters \cup {reply}
    /\ UNCHANGED <<heard, breaker, service, faults, refusals>>

-----------------------------------------------------------------------------
Thread(c) == Attempt(c) /\ UNCHANGED agentVars
Waking    == \E w \in waiters \cup {reply} : Wake(w)

Next ==
    \/ \E c \in calls : Thread(c)
    \/ (Rest \/ Cancel) /\ UNCHANGED agentVars
    \/ Resume \/ Waking \/ Control \/ Continue \/ Interrupt
    \/ \E u \in Utterances \ {"control"} : Answer(u)

Spec == Init /\ [][Next]_vars

\* Threads and replies go on, time passes, and a learner who was told to say
\* "continue" does so.
FairSpec ==
    /\ Spec
    /\ WF_vars(\E c \in calls : Thread(c))
    /\ WF_vars(Rest /\ UNCHANGED agentVars)
    /\ WF_vars(Resume) /\ WF_vars(Waking) /\ WF_vars(Continue)

-----------------------------------------------------------------------------
TypeOK ==
    /\ ClientTypeOK
    /\ current \in 1..NumPrompts
    /\ completed \in BOOLEAN
    /\ deferred \in Payloads
    /\ input \in BOOLEAN
    /\ pending \in [prompt : 0..NumPrompts, said : SUBSET Turns, generation : Nat]
    /\ reply \in Replies
    /\ waiters \subseteq Replies
    /\ heard \in Seq(0..NumPrompts) /\ Len(heard) <= MaxTurns
    /\ interrupts \in 0..MaxInterrupts

\* Whatever is lost, cancelled or sent again, no part of what the learner said
\* counts for two prompts or twice for one: an answer whose reply was cancelled
\* is sent again under a new key together with what was said since, and the
\* service takes only one of the two.
SpokenOnce ==
    \A a, b \in log : a.usable /\ b.usable /\ a # b => a.said \cap b.said = {}

\* Nothing the learner said for the prompt that is still open is lost: the agent
\* has it, or it was judged unusable.  Timeouts, failing evaluators, broken
\* connections and cancelled replies all keep it.  (A refusal such as HTTP 429
\* makes the agent ask the prompt again and forget the answer.)
Held == pending.said \cup deferred.said \cup reply.payload.said

HeardIsKept ==
    refusals = 0 /\ ~cancelled =>
        \A t \in DOMAIN heard : heard[t] = prompt =>
            t \in Held \/ \E a \in log : t \in a.said /\ ~a.usable

\* What was said counts, once.
SpokenCounts == SpokenOnce /\ HeardIsKept

\* The microphone is off only while the agent works or after the result.
ListensWhenIdle == reply.at \in {"idle", "window"} /\ ~completed => input

\* A saved answer does not stay in the way for ever, as long as the assessment
\* has not moved on without it.
Outdated(p) == cancelled \/ (p.prompt # prompt /\ \A a \in log : a.key # p.key)

SavedIsScored == deferred # NoPayload ~> (deferred = NoPayload \/ Outdated(deferred))

\* The same without the exception, as the troubleshooting guide has it: HTTP 409
\* triggers the recovery of the assessment's state.
SavedIsSettled == deferred # NoPayload ~> deferred = NoPayload
=============================================================================
