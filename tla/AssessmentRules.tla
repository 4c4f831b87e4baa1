--------------------------- MODULE AssessmentRules ---------------------------
(***************************************************************************)
(* The placement ladder of services/oral_assessment/service.py: what one   *)
(* accepted answer does to an assessment record.  Everything here is a     *)
(* pure operator on a record and on the log of stored answers, so that the *)
(* one-answer-at-a-time specification (Assessment) and the threaded        *)
(* service (AssessmentService) take the same decisions.                    *)
(*                                                                         *)
(* A level is its index in LEVELS (A1 = 0).  A prompt is a level and a     *)
(* kind: the form seed fixes the normal item of a level and a level has    *)
(* one tie-breaker item, so prompt id and item id are functions of these   *)
(* two.  Transcripts and scores are abstracted to the decision they give.  *)
(***************************************************************************)
EXTENDS Integers, Sequences, FiniteSets

CONSTANT NumLevels              \* len(LEVELS), 4 in the code

ASSUME NumLevelsAssumption == NumLevels \in Nat \ {0}

NoLevel == -1                   \* None in a CEFRLevel | None field
Levels  == 0 .. NumLevels - 1
TopLevel == NumLevels - 1       \* B2

Kinds     == {"calibration", "main", "follow_up", "tie_breaker"}
Scored    == {"pass", "borderline", "fail"}
Decisions == Scored \cup {"invalid_audio", "not_scored"}
Reasons   == {"none", "audio_unusable", "ceiling_reached",
              "first_unconfirmed_level_reached", "cancelled"}
Stages    == {"calibration_passed", "calibration_repeat_required", "completed_without_placement",
              "repeat_required", "completed_with_low_confidence", "follow_up_required",
              "boundary_verification_required", "level_passed", "assessment_completed"}
Prompts   == [level : Levels, kind : Kinds]
Answers   == [prompt : Prompts, decision : Decisions]

Records ==
    [status           : {"in_progress", "completed", "cancelled"},
     level            : Levels,
     kind             : Kinds,
     highest          : Levels \cup {NoLevel},
     firstUnconfirmed : Levels \cup {NoLevel},
     invalidAudio     : Nat,
     tieBreakers      : Nat,
     verified         : SUBSET Levels,
     evalFailures     : Nat,
     reason           : Reasons]

\* AssessmentService.create_assessment
NewRecord ==
    [status |-> "in_progress", level |-> 0, kind |-> "calibration",
     highest |-> NoLevel, firstUnconfirmed |-> NoLevel,
     invalidAudio |-> 0, tieBreakers |-> 0, verified |-> {},
     evalFailures |-> 0, reason |-> "none"]

InProgress(r)    == r.status = "in_progress"
CurrentPrompt(r) == [level |-> r.level, kind |-> r.kind]
Valid(decision)  == decision # "invalid_audio"

-----------------------------------------------------------------------------
(***************************************************************************)
(* Scoring, seen from the ladder.                                          *)
(***************************************************************************)

\* The decisions an answer to the current prompt of r may get.  A valid
\* calibration answer is never scored; audio the validity gate refuses is not
\* shown to the evaluator, which may itself call the audio unusable.
Observations(r, audible) ==
    CASE ~audible                          -> {"invalid_audio"}
      [] audible /\ r.kind = "calibration" -> {"not_scored"}
      [] audible /\ r.kind # "calibration" -> Scored \cup {"invalid_audio"}

\* decide_stage_evidence, by the decisions of the two observations: averaged
\* scores may rescue a weak half of the pair, but never two failures, and the
\* verdict "fail" needs two failures.
StageDecisions(main, followUp) ==
    IF main = "pass" /\ followUp = "pass" THEN {"pass"}
    ELSE IF main = "fail" /\ followUp = "fail" THEN {"tie_breaker", "fail"}
    ELSE {"pass", "tie_breaker"}

\* Mutant: a borderline boundary answer is good enough.
TieBreakerNotFailed(decision) == decision # "fail"

TieBreakerPassed(decision) == decision = "pass"

-----------------------------------------------------------------------------
(***************************************************************************)
(* One step of the ladder: the new record and the stage status reported.   *)
(***************************************************************************)
Outcome(r, stage) == [record |-> r, stage |-> stage]

Complete(r, first, why) ==
    [r EXCEPT !.status = "completed", !.firstUnconfirmed = first, !.reason = why]

\* Mutant: unusable answers are counted per level, not per prompt.
InvalidAtLevel(answers, prompt) ==
    \E i \in DOMAIN answers :
        answers[i].prompt.level = prompt.level /\ ~Valid(answers[i].decision)

InvalidAt(answers, prompt) ==
    \E i \in DOMAIN answers : answers[i].prompt = prompt /\ ~Valid(answers[i].decision)

CountInvalid(r) == [r EXCEPT !.invalidAudio = @ + 1]

HandleCalibration(r, answers, decision) ==
    IF Valid(decision)
    THEN Outcome([r EXCEPT !.kind = "main"], "calibration_passed")
    ELSE IF InvalidAt(answers, CurrentPrompt(r))
    THEN Outcome(Complete(CountInvalid(r), NoLevel, "audio_unusable"),
                 "completed_without_placement")
    ELSE Outcome(CountInvalid(r), "calibration_repeat_required")

InvalidRepeatOrStop(r, answers) ==
    IF InvalidAt(answers, CurrentPrompt(r))
    THEN Outcome(Complete(CountInvalid(r), r.level, "audio_unusable"),
                 "completed_with_low_confidence")
    ELSE Outcome(CountInvalid(r), "repeat_required")

\* Mutant: the follow-up is announced, but the prompt does not move on.
AnnounceFollowUp(r) == Outcome(r, "follow_up_required")

AskFollowUp(r) ==
    Outcome([r EXCEPT !.kind = "follow_up"], "follow_up_required")

\* Mutant: the ceiling is not noticed.
PassStageNoCeiling(r) ==
    Outcome([r EXCEPT !.highest = r.level, !.level = @ + 1, !.kind = "main"],
            "level_passed")

PassStage(r) ==
    LET confirmed == [r EXCEPT !.highest = r.level]
    IN  IF r.level = TopLevel
        THEN Outcome(Complete(confirmed, NoLevel, "ceiling_reached"),
                     "assessment_completed")
        ELSE Outcome([confirmed EXCEPT !.level = @ + 1, !.kind = "main"],
                     "level_passed")

\* Mutant: the confirmed level is reported as the unconfirmed one.
FailStageConfirmed(r) ==
    Outcome(Complete(r, r.highest, "first_unconfirmed_level_reached"),
            "assessment_completed")

FailStage(r) ==
    Outcome(Complete(r, r.level, "first_unconfirmed_level_reached"),
            "assessment_completed")

\* Mutant: a weak pair of answers ends the assessment at once.
RefuseWithoutBoundaryItem(r) == FailStage(r)

RequestBoundaryVerification(r) ==
    IF r.level \in r.verified
    THEN FailStage(r)
    ELSE Outcome([r EXCEPT !.kind = "tie_breaker",
                           !.tieBreakers = @ + 1,
                           !.verified = @ \cup {r.level}],
                 "boundary_verification_required")

\* Mutant: only the answer just before is looked at.
PreviousDecision(answers, level) ==
    {answers[i].decision :
        i \in {j \in DOMAIN answers : /\ j = Len(answers)
                                     /\ answers[j].prompt = [level |-> level, kind |-> "main"]}}

\* The decision of the last valid main answer of a level, as a set with at
\* most one member: it is empty when there is no such answer.
MainDecision(answers, level) ==
    LET mains == {i \in DOMAIN answers :
                    /\ answers[i].prompt = [level |-> level, kind |-> "main"]
                    /\ Valid(answers[i].decision)}
    IN  {answers[i].decision : i \in {j \in mains : \A k \in mains : k <= j}}

JudgeStage(r, answers, decision) ==
    {IF verdict = "pass" THEN PassStage(r) ELSE RequestBoundaryVerification(r) :
        verdict \in UNION {StageDecisions(m, decision) :
                             m \in MainDecision(answers, r.level)}}

\* The outcomes of an answer with this decision to the current prompt of r;
\* the set is empty when a follow-up has no main answer to be judged with.
Advance(r, answers, decision) ==
    CASE r.kind = "calibration" -> {HandleCalibration(r, answers, decision)}
      [] r.kind # "calibration" /\ ~Valid(decision)
                                -> {InvalidRepeatOrStop(r, answers)}
      [] r.kind = "main" /\ Valid(decision)
                                -> {AskFollowUp(r)}
      [] r.kind = "follow_up" /\ Valid(decision)
                                -> JudgeStage(r, answers, decision)
      [] r.kind = "tie_breaker" /\ Valid(decision)
                                -> {IF TieBreakerPassed(decision)
                                    THEN PassStage(r) ELSE FailStage(r)}

-----------------------------------------------------------------------------
(***************************************************************************)
(* What the learner is told: the progress estimate and the placement.      *)
(***************************************************************************)
WithinStage == [main |-> <<2, 3>>, follow_up |-> <<1, 2>>, tie_breaker |-> <<1, 1>>]

RemainingMin(r) ==
    CASE ~InProgress(r)                            -> 0
      [] InProgress(r) /\ r.kind = "calibration"   -> 3
      [] InProgress(r) /\ r.kind # "calibration"   -> WithinStage[r.kind][1]

\* Mutant: the boundary item of the levels to come is forgotten.
RemainingMaxTwoPerLevel(r) ==
    CASE ~InProgress(r)                            -> 0
      [] InProgress(r) /\ r.kind = "calibration"   -> 1 + NumLevels * 3
      [] InProgress(r) /\ r.kind # "calibration"   ->
            WithinStage[r.kind][2] + (NumLevels - r.level - 1) * 2

RemainingMax(r) ==
    CASE ~InProgress(r)                            -> 0
      [] InProgress(r) /\ r.kind = "calibration"   -> 1 + NumLevels * 3
      [] InProgress(r) /\ r.kind # "calibration"   ->
            WithinStage[r.kind][2] + (NumLevels - r.level - 1) * 3

\* build_result: the placement reported for a finished assessment.
ConfirmedLevel(r) ==
    CASE r.highest # NoLevel                                 -> "level"
      [] r.highest = NoLevel /\ r.reason = "audio_unusable"  -> "not_determined"
      [] r.highest = NoLevel /\ r.reason # "audio_unusable"  -> "pre_a1"
=============================================================================
