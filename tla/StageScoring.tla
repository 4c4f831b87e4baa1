------------------------------ MODULE StageScoring ------------------------------
(***************************************************************************)
(* services/oral_assessment/scoring_engine.py and branching_engine.py: from *)
(* the rubric scores of one answer to its decision, and from the two       *)
(* answers of a level to the verdict on the stage.  Weighted scores are in *)
(* twentieths, so that the weights 0.25 .. 0.10 and the marks 2.8 and 2.4  *)
(* are whole numbers; the code's rounding to three places leaves the       *)
(* comparisons with both marks as they are.                                *)
(***************************************************************************)
EXTENDS Integers, FluencyScoring

Dimensions == {"task", "interaction", "fluency", "coherence", "lexical", "intelligibility"}
Marks      == 0..4
NoRule     == -1        \* no rule score: the evaluator's fluency mark stands

\* WEIGHTS, PASS_THRESHOLD and BORDERLINE_THRESHOLD
Weighted(s) == 5 * s.task + 4 * s.interaction + 4 * s.fluency
               + 3 * s.coherence + 2 * s.lexical + 2 * s.intelligibility
PassMark       == 56
BorderlineMark == 48

\* The dimensions without which no answer, and no pair of answers, passes.
\* They take the sum over n answers.
CriticalMet(task, interaction, intelligibility, n) ==
    /\ task >= 3 * n
    /\ interaction >= 3 * n
    /\ intelligibility >= 2 * n

\* score_evaluator_output: the rule scorer's fluency mark replaces the
\* evaluator's, and then the first clause that applies decides.
\* Mutant: an answer beside the task is judged by its marks.
DecideOffTask(output, s) ==
    CASE output.invalid -> "invalid_audio"
      [] ~output.invalid /\ output.blocked -> "fail"
      [] ~output.invalid /\ ~output.blocked
            /\ (~output.achieved \/ output.scores.task <= 1) -> "fail"
      [] OTHER ->
            IF Weighted(s) >= PassMark
               /\ CriticalMet(s.task, s.interaction, s.intelligibility, 1) THEN "pass"
            ELSE IF Weighted(s) < BorderlineMark THEN "fail" ELSE "borderline"

Decide(output, s) ==
    IF output.invalid THEN "invalid_audio"
    ELSE IF output.blocked \/ ~output.relevant \/ ~output.achieved \/ output.scores.task <= 1
    THEN "fail"
    ELSE IF Weighted(s) >= PassMark /\ CriticalMet(s.task, s.interaction, s.intelligibility, 1)
    THEN "pass"
    ELSE IF Weighted(s) < BorderlineMark THEN "fail" ELSE "borderline"

ScoreOutput(output, rule) ==
    LET s == IF rule = NoRule THEN output.scores ELSE [output.scores EXCEPT !.fluency = rule]
    IN  [scores   |-> s,
         weighted |-> Weighted(s),
         decision |-> Decide(output, s),
         blocked  |-> output.blocked,
         relevant |-> output.relevant,
         achieved |-> output.achieved]

-----------------------------------------------------------------------------
\* decide_stage: the table of two labels.
StageTable(main, followUp) ==
    IF main = "pass" /\ followUp = "pass" THEN "pass"
    ELSE IF "pass" \in {main, followUp} \/ {main, followUp} = {"borderline"}
    THEN "tie_breaker"
    ELSE "fail"

\* decide_stage_evidence: the averages of the pair, as sums over the two.
\* Mutant: the exchange need not be usable.
AverageOnly(a, b) ==
    /\ a.weighted + b.weighted >= 2 * PassMark
    /\ CriticalMet(a.scores.task + b.scores.task,
                   a.scores.interaction + b.scores.interaction,
                   a.scores.intelligibility + b.scores.intelligibility, 2)

Usable(a)   == a.relevant /\ a.achieved /\ ~a.blocked
Hopeless(a) == a.decision = "fail" /\ (a.blocked \/ ~a.relevant)

AverageSuffices(a, b) ==
    /\ a.weighted + b.weighted >= 2 * PassMark
    /\ CriticalMet(a.scores.task + b.scores.task,
                   a.scores.interaction + b.scores.interaction,
                   a.scores.intelligibility + b.scores.intelligibility, 2)
    /\ Usable(a)
    /\ Usable(b)

\* Mutant: only answers with the same decision are averaged.
DecideStageAlike(a, b) ==
    IF (a.decision = "pass" /\ b.decision = "pass")
       \/ (a.decision = b.decision /\ AverageSuffices(a, b)) THEN "pass"
    ELSE IF Hopeless(a) /\ Hopeless(b) THEN "fail" ELSE "tie_breaker"

DecideStage(a, b) ==
    IF (a.decision = "pass" /\ b.decision = "pass") \/ AverageSuffices(a, b) THEN "pass"
    ELSE IF Hopeless(a) /\ Hopeless(b) THEN "fail" ELSE "tie_breaker"
=============================================================================
