------------------------------ MODULE Assessment ------------------------------
(***************************************************************************)
(* One oral assessment as its callers may think of it: answers are taken   *)
(* one at a time, each against the prompt that is current, and cancelling  *)
(* is atomic.  AssessmentService shows that request threads, optimistic    *)
(* commits and retries amount to this.                                     *)
(***************************************************************************)
EXTENDS AssessmentRules

CONSTANT MaxEvaluatorFailures   \* bound on recorded evaluator outages

ASSUME MaxEvaluatorFailuresAssumption == MaxEvaluatorFailures \in Nat

VARIABLES
    record,     \* the assessment record
    answers     \* the stored answers in commit order

vars == <<record, answers>>

Init ==
    /\ record = NewRecord
    /\ answers = <<>>

-----------------------------------------------------------------------------
\* Mutant: answers to boundary items are turned away.
AnswerButBoundary ==
    /\ InProgress(record)
    /\ record.kind # "tie_breaker"
    /\ \E audible \in BOOLEAN :
       \E decision \in Observations(record, audible) :
       \E outcome \in Advance(record, answers, decision) :
          /\ record' = outcome.record
          /\ answers' = Append(answers, [prompt   |-> CurrentPrompt(record),
                                         decision |-> decision])

\* submit_response, accepted: the answer is judged, logged and moves the ladder.
Answer ==
    /\ InProgress(record)
    /\ \E audible \in BOOLEAN :
       \E decision \in Observations(record, audible) :
       \E outcome \in Advance(record, answers, decision) :
          /\ record' = outcome.record
          /\ answers' = Append(answers, [prompt   |-> CurrentPrompt(record),
                                         decision |-> decision])

\* submit_response when the evaluator is unavailable: only the outage is
\* recorded, the answer has to be sent again.
EvaluatorUnavailable ==
    /\ InProgress(record)
    /\ record.kind # "calibration"
    /\ record.evalFailures < MaxEvaluatorFailures
    /\ record' = [record EXCEPT !.evalFailures = @ + 1]
    /\ UNCHANGED answers

Cancel ==
    /\ InProgress(record)
    /\ record' = [record EXCEPT !.status = "cancelled", !.reason = "cancelled"]
    /\ UNCHANGED answers

Next == Answer \/ EvaluatorUnavailable \/ Cancel

Spec == Init /\ [][Next]_vars

\* A learner who keeps answering.
FairSpec == Spec /\ WF_vars(Answer)

-----------------------------------------------------------------------------
(***************************************************************************)
(* Properties.                                                             *)
(***************************************************************************)
At(level, kind) ==
    {i \in DOMAIN answers : answers[i].prompt = [level |-> level, kind |-> kind]}
ValidAt(level, kind) == {i \in At(level, kind) : Valid(answers[i].decision)}

\* The record and the log have the shape the service gives them.
TypeOK ==
    /\ record \in Records
    /\ answers \in Seq(Answers)

\* A level counts as confirmed only on stored evidence of that very level:
\* a passed boundary item, or a main answer followed by its follow-up that
\* are not two failures (_pass_stage and the paths that lead to it).
Established(level) ==
    \/ \E i \in At(level, "tie_breaker") : answers[i].decision = "pass"
    \/ \E i \in ValidAt(level, "main"), j \in ValidAt(level, "follow_up") :
          /\ i < j
          /\ {answers[i].decision, answers[j].decision} # {"fail"}
ConfirmedByEvidence == \A level \in 0 .. record.highest : Established(level)

\* The placement is always the level below the one being tested, whatever
\* mix of repeats and boundary items led there; a finished placement names
\* the next level as the first unconfirmed one, or none at the ceiling.
LadderPosition ==
    /\ InProgress(record) => record.highest = record.level - 1
    /\ record.kind = "calibration" => record.level = 0
    /\ record.verified \subseteq 0 .. record.level
    /\ record.reason = "ceiling_reached" =>
          record.highest = TopLevel /\ record.firstUnconfirmed = NoLevel
    /\ \/ record.reason = "first_unconfirmed_level_reached"
       \/ record.reason = "audio_unusable" /\ record.kind # "calibration"
       => record.firstUnconfirmed = record.highest + 1

\* A level is refused only by a boundary item of that level that was heard
\* and not passed: no pair of answers, however weak, stops an assessment.
RefusedByBoundaryItem ==
    record.reason = "first_unconfirmed_level_reached" =>
        /\ Len(answers) \in ValidAt(record.firstUnconfirmed, "tie_breaker")
        /\ answers[Len(answers)].decision # "pass"

\* Where the ladder stands, and where it stopped, rests on evidence: confirmed
\* levels, the level being tested and the refused one, after any sequence of
\* answers, repeats and boundary items.
LadderSound == ConfirmedByEvidence /\ LadderPosition /\ RefusedByBoundaryItem

\* Unusable audio ends an assessment exactly when one prompt has been answered
\* unusably twice; a single bad recording is never held against the learner,
\* nor are bad recordings of different prompts added up.
SamePromptUnusable(i, j) ==
    /\ answers[i].prompt = answers[j].prompt
    /\ ~Valid(answers[i].decision) /\ ~Valid(answers[j].decision)
TwoInvalidsStop ==
    record.reason = "audio_unusable" <=>
        \E i, j \in DOMAIN answers : i < j /\ SamePromptUnusable(i, j)

\* No prompt is judged twice: repeats only ever replace unusable audio.
OneValidAnswerPerPrompt ==
    \A i, j \in DOMAIN answers :
        /\ answers[i].prompt = answers[j].prompt
        /\ Valid(answers[i].decision) /\ Valid(answers[j].decision)
        => i = j

\* A follow-up always finds the main answer it is judged with, so the
\* "no valid main observation" error of _advance_scored_response is dead code.
FollowUpHasMain ==
    InProgress(record) /\ record.kind = "follow_up" =>
        MainDecision(answers, record.level) # {}

\* The announced maximum of a new assessment bounds it: whatever mix of repeats,
\* boundary items and passes, no more answers are stored than two for each
\* prompt of the maximum.
AnswersBounded == Len(answers) <= 2 * RemainingMax(NewRecord)

\* Every answer counts for what it was: repeats replace unusable audio and
\* nothing else, the second unusable answer to a prompt ends the assessment,
\* a pair of answers is a pair, and there are finitely many.
AnswersSound == TwoInvalidsStop /\ OneValidAnswerPerPrompt /\ FollowUpHasMain /\ AnswersBounded

\* The estimate shown to the learner is honest: each heard answer uses up at
\* least one of the announced maximum and at most one of the minimum, and an
\* unusable one that does not end the assessment changes neither.
EstimateHonest ==
    [][\/ answers' = answers
       \/ /\ Valid(answers'[Len(answers')].decision)
          /\ RemainingMax(record') <= RemainingMax(record) - 1
          /\ RemainingMin(record') >= RemainingMin(record) - 1
       \/ /\ ~Valid(answers'[Len(answers')].decision)
          /\ \/ ~InProgress(record')
             \/ /\ RemainingMax(record') = RemainingMax(record)
                /\ RemainingMin(record') = RemainingMin(record)]_vars

\* Every assessment whose learner keeps answering ends.
AssessmentEnds == <>~InProgress(record)

=============================================================================
