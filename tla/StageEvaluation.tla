----------------------------- MODULE StageEvaluation -----------------------------
(***************************************************************************)
(* The judgement of one level: the main answer and its follow-up are       *)
(* submitted one after the other, each is evaluated and scored, and the    *)
(* pair is judged.  Unusable audio asks for the same answer once more, and *)
(* an evaluator that is unavailable leaves everything as it was, so that   *)
(* the same answer is submitted again.                                     *)
(***************************************************************************)
EXTENDS RubricEvaluator, StageScoring

CONSTANTS
    Outputs,        \* what a provider may answer: marks and flags
    Rules,          \* the fluency marks the rule scorer may give, NoRule among them
    MaxFailures     \* bound on evaluator outages

Scores == [task : Marks, interaction : Marks, fluency : Marks, coherence : Marks,
           lexical : Marks, intelligibility : Marks]

\* EvaluatorOutput is a validated schema, and the rule scorer's marks are of
\* the same range as the evaluator's.
ASSUME StageEvaluationAssumption ==
    /\ Outputs \subseteq [scores : Scores, invalid : BOOLEAN, blocked : BOOLEAN,
                         relevant : BOOLEAN, achieved : BOOLEAN]
    /\ Rules \subseteq Marks \cup {NoRule}
    /\ MaxFailures \in Nat

VARIABLES
    main,           \* the scored main answer
    followUp,       \* the scored follow-up
    verdict,        \* decide_stage_evidence, or "open"
    repeated,       \* was the current prompt answered with unusable audio?
    failures        \* evaluator_failure_count

stageVars == <<main, followUp, verdict, repeated, failures>>
vars      == <<evaluatorVars, stageVars>>

\* A level is one of the four of the assessment.
Ladder == INSTANCE AssessmentRules WITH NumLevels <- 4

NoAnswer == [decision |-> "none"]

Init ==
    /\ EvaluatorInit
    /\ main = NoAnswer
    /\ followUp = NoAnswer
    /\ verdict = "open"
    /\ repeated = FALSE
    /\ failures = 0

-----------------------------------------------------------------------------
\* invalid_audio_reason: audio that is not worth the evaluator's time.
\* The second unusable answer to a prompt ends the assessment.
Unusable ==
    /\ verdict' = IF repeated THEN "stopped" ELSE "open"
    /\ repeated' = TRUE
    /\ UNCHANGED <<main, followUp>>

Silence ==
    /\ call.phase = "idle" /\ verdict = "open"
    /\ Unusable
    /\ UNCHANGED <<evaluatorVars, failures>>

Submit ==
    /\ verdict = "open"
    /\ Ask
    /\ UNCHANGED <<provider, stageVars>>

\* Marks the provider may have answered with.
Answered == IF provider = "heuristic" THEN HeuristicOutputs ELSE Outputs

\* _advance_scored_response for a main answer and for its follow-up.
Judge(scored) ==
    IF main = NoAnswer
    THEN main' = scored /\ UNCHANGED <<followUp, verdict>>
    ELSE followUp' = scored /\ verdict' = DecideStage(main, scored) /\ UNCHANGED main

Reply == Replied /\ UNCHANGED stageVars

Score ==
    /\ call.phase = "answered" /\ call' = Idle
    /\ \E output \in Answered, rule \in Rules :
          LET scored == ScoreOutput(output, rule)
          IN  IF scored.decision = "invalid_audio"
              THEN Unusable
              ELSE Judge(scored) /\ repeated' = FALSE
    /\ UNCHANGED <<provider, failures>>

Struggle == EvaluatorFails /\ UNCHANGED stageVars

\* The outage is counted and answered with 503; the answer stays with the
\* client, which may submit it again.
Outage ==
    /\ call.phase = "unavailable"
    /\ failures < MaxFailures
    /\ failures' = failures + 1
    /\ call' = Idle
    /\ UNCHANGED <<provider, main, followUp, verdict, repeated>>

Next == Silence \/ Submit \/ Reply \/ Score \/ Struggle \/ Outage

Spec == Init /\ [][Next]_vars

-----------------------------------------------------------------------------
ScoredAnswers ==
    [scores : Scores, weighted : 0..80, decision : {"pass", "borderline", "fail"},
     blocked : BOOLEAN, relevant : BOOLEAN, achieved : BOOLEAN]

TypeOK ==
    /\ EvaluatorTypeOK
    /\ main = NoAnswer \/ main \in ScoredAnswers
    /\ followUp = NoAnswer \/ followUp \in ScoredAnswers
    /\ verdict \in {"open", "stopped", "pass", "tie_breaker", "fail"}
    /\ repeated \in BOOLEAN
    /\ failures \in 0..MaxFailures

Judged == followUp # NoAnswer

\* A level is passed exactly on the averaged evidence: two answers to the
\* task that got their meaning across, at 2.8 on average with the critical
\* dimensions met.  The short cut for two passed answers gives away nothing,
\* and no weak answer is carried by one that missed the task.
PassIsEarned ==
    Judged => (verdict = "pass" <=>
        /\ \A a \in {main, followUp} : a.relevant /\ a.achieved /\ ~a.blocked
        /\ 10 * (main.weighted + followUp.weighted) >= 2 * 28 * 20
        /\ main.scores.task + followUp.scores.task >= 6
        /\ main.scores.interaction + followUp.scores.interaction >= 6
        /\ main.scores.intelligibility + followUp.scores.intelligibility >= 4)

\* Speaking better never costs a level: a higher mark in any dimension of
\* either answer never makes the verdict worse.
Improved(a, d) ==
    ScoreOutput([scores |-> [a.scores EXCEPT ![d] = @ + 1], invalid |-> FALSE,
                 blocked |-> a.blocked, relevant |-> a.relevant, achieved |-> a.achieved],
                NoRule)

Rank == [fail |-> 1, tie_breaker |-> 2, pass |-> 3]

BetterNeverHurts ==
    Judged => \A d \in Dimensions :
        /\ main.scores[d] < 4 =>
              Rank[DecideStage(Improved(main, d), followUp)] >= Rank[verdict]
        /\ followUp.scores[d] < 4 =>
              Rank[DecideStage(main, Improved(followUp, d))] >= Rank[verdict]

\* The ladder's view of the two answers holds: their decisions leave no more
\* verdicts open than Assessment considers, so two failed answers never make
\* a level, two passed ones always do, and the averages never place a learner
\* below the plain table of decisions.
LadderAllows ==
    Judged => /\ verdict \in Ladder!StageDecisions(main.decision, followUp.decision)
              /\ Rank[verdict] >= Rank[StageTable(main.decision, followUp.decision)]

\* The verdict on a level is earned by its two answers, and is one that the
\* ladder of the assessment provides for.
VerdictSound == PassIsEarned /\ LadderAllows
=============================================================================
