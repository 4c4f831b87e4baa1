------------------------------ MODULE GuidedRules ------------------------------
(***************************************************************************)
(* services/guided_conversation/service.py, one call at a time: what each  *)
(* call does to a guided session record.  Pure operators, shared by the    *)
(* atomic specification (GuidedLifecycle) and the threaded service         *)
(* (GuidedSession).                                                        *)
(*                                                                         *)
(* A turn is its number in the scenario.  Transcripts, timings and scores  *)
(* are left out: of an attempt the calls only tell apart whether it was    *)
(* unclear (an explicit audio issue, or a completion ratio below 0.55) and *)
(* whether its pronunciation is to be evaluated.  PronunciationStatus      *)
(* NOT_CONFIGURED, which nothing ever leaves, is one with NOT_REQUESTED.   *)
(***************************************************************************)
EXTENDS Integers, Sequences, FiniteSets

CONSTANT NumTurns               \* len(scenario.turns)

ASSUME NumTurnsAssumption == NumTurns \in Nat \ {0}

Turns      == 1 .. NumTurns
MaxRetries == 2

Active   == {"assistant_speaking", "user_prompt_visible", "awaiting_retry_decision"}
States   == Active \cup {"paused", "completed", "stopped"}
Statuses == {"in_progress", "completed", "stopped"}
PronunciationStatuses == {"not_requested", "queued", "completed", "failed"}

Attempts == [turn          : Turns,
             selected      : BOOLEAN,
             retry         : 0 .. MaxRetries,
             pronunciation : PronunciationStatuses]
Records ==
    [status     : Statuses,
     state      : States,
     pausedFrom : Active \cup {"none"},
     turn       : Turns,
     attempts   : Seq(Attempts)]

\* create_session
NewRecord ==
    [status |-> "in_progress", state |-> "assistant_speaking", pausedFrom |-> "none",
     turn |-> 1, attempts |-> <<>>]

InProgress(r) == r.status = "in_progress"

-----------------------------------------------------------------------------
(***************************************************************************)
(* Controls: the calls without a payload.                                  *)
(***************************************************************************)
Controls == {"prompt_ready", "continue", "retry", "pause", "resume", "stop"}

\* Mutant: a paused session can be paused again.
MayPauseTwice(r) == InProgress(r)

MayPause(r) == InProgress(r) /\ r.state \in Active

\* Mutant: the prompt may be skipped, not only a retry.
MayContinueAnytime(r) == InProgress(r) /\ r.state \in Active

MayContinue(r) == r.state = "awaiting_retry_decision"

\* The call goes on to change the record.
MayControl(r, control) ==
    \/ control = "prompt_ready" /\ r.state = "assistant_speaking"
    \/ control = "continue"     /\ MayContinue(r)
    \/ control = "retry"        /\ r.state = "awaiting_retry_decision"
    \/ control = "pause"        /\ MayPause(r)
    \/ control = "resume"       /\ InProgress(r) /\ r.state = "paused"
    \/ control = "stop"         /\ InProgress(r)

\* The call is answered with the record as it is.
AlreadyDone(r, control) ==
    \/ control = "prompt_ready" /\ r.state = "user_prompt_visible"
    \/ control = "pause" /\ InProgress(r) /\ r.state = "paused"

\* Mutant: the last line is not noticed.
FinishTurnOnly(r) == [r EXCEPT !.turn = @ + 1, !.state = "assistant_speaking"]

\* The end of a line: on to the next one, or the scenario is complete.
FinishTurn(r) ==
    IF r.turn = NumTurns
    THEN [r EXCEPT !.status = "completed", !.state = "completed", !.pausedFrom = "none"]
    ELSE [r EXCEPT !.turn = @ + 1, !.state = "assistant_speaking"]

Pause(r) == [r EXCEPT !.pausedFrom = r.state, !.state = "paused"]

Resume(r) ==
    [r EXCEPT !.state = IF r.pausedFrom \in Active THEN r.pausedFrom ELSE "user_prompt_visible",
              !.pausedFrom = "none"]

\* Mutant: a stop during a pause leaves the pause behind.
StopOnly(r) == [r EXCEPT !.status = "stopped", !.state = "stopped"]

\* Mutant: only the status is set.
StopStatus(r) == [r EXCEPT !.status = "stopped", !.pausedFrom = "none"]

Stop(r) == [r EXCEPT !.status = "stopped", !.state = "stopped", !.pausedFrom = "none"]

AfterControl(r, control) ==
    CASE control = "prompt_ready" -> [r EXCEPT !.state = "user_prompt_visible"]
      [] control = "continue"     -> FinishTurn(r)
      [] control = "retry"        -> [r EXCEPT !.state = "user_prompt_visible"]
      [] control = "pause"        -> Pause(r)
      [] control = "resume"       -> Resume(r)
      [] control = "stop"         -> Stop(r)

-----------------------------------------------------------------------------
(***************************************************************************)
(* Attempts.                                                               *)
(***************************************************************************)
AttemptsAt(r, turn) == {i \in DOMAIN r.attempts : r.attempts[i].turn = turn}
RetryNumber(r)      == Cardinality(AttemptsAt(r, r.turn))

\* Mutant: a retry has to be asked for before the line is read again.
MaySpeakWhenPrompted(r) == InProgress(r) /\ r.state = "user_prompt_visible"

MaySpeak(r) ==
    /\ InProgress(r)
    /\ r.state \in {"user_prompt_visible", "awaiting_retry_decision"}

\* Mutant: one retry too many is offered.
RetryTooOften(r, unclear) == unclear /\ RetryNumber(r) <= MaxRetries

RetryRecommended(r, unclear) == unclear /\ RetryNumber(r) < MaxRetries

\* Mutant: the earlier attempts at the line stay selected.
AddSelected(r, queued) ==
    Append(r.attempts, [turn          |-> r.turn,
                        selected      |-> TRUE,
                        retry         |-> RetryNumber(r),
                        pronunciation |-> IF queued THEN "queued" ELSE "not_requested"])

\* The new attempt is the selected one of its line.
AddAttempt(r, queued) ==
    Append([i \in DOMAIN r.attempts |->
               [r.attempts[i] EXCEPT !.selected = @ /\ r.attempts[i].turn # r.turn]],
           [turn          |-> r.turn,
            selected      |-> TRUE,
            retry         |-> RetryNumber(r),
            pronunciation |-> IF queued THEN "queued" ELSE "not_requested"])

\* Mutant: whether there is any audio is not looked at.
AfterAttemptQueued(r, unclear, queued) ==
    LET heard == [r EXCEPT !.attempts = AddAttempt(r, TRUE)]
    IN  IF RetryRecommended(r, unclear)
        THEN [heard EXCEPT !.state = "awaiting_retry_decision"]
        ELSE FinishTurn(heard)

AfterAttempt(r, unclear, queued) ==
    LET heard == [r EXCEPT !.attempts = AddAttempt(r, queued)]
    IN  IF RetryRecommended(r, unclear)
        THEN [heard EXCEPT !.state = "awaiting_retry_decision"]
        ELSE FinishTurn(heard)

\* apply_pronunciation_result, for the i-th attempt, whatever its status was.
AfterPronunciation(r, i, status) ==
    [r EXCEPT !.attempts[i].pronunciation = status]
=============================================================================
