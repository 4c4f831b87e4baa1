--------------------------- MODULE AssessmentProofs ---------------------------
(***************************************************************************)
(* Proofs about Assessment for every number of levels and any number of    *)
(* recorded evaluator outages.  Every step of the ladder is one of seven   *)
(* moves (lemma AdvanceMoves); each theorem looks at the moves in turn.    *)
(***************************************************************************)
EXTENDS Assessment, TLAPS

-----------------------------------------------------------------------------
(***************************************************************************)
(* The moves of the ladder on a record r, for an answer judged d.          *)
(***************************************************************************)
Repeats(r, log, d, next) ==
    /\ ~Valid(d) /\ ~InvalidAt(log, CurrentPrompt(r))
    /\ next = CountInvalid(r)

StopsForAudio(r, log, d, next) ==
    /\ ~Valid(d) /\ InvalidAt(log, CurrentPrompt(r))
    /\ next = Complete(CountInvalid(r), IF r.kind = "calibration" THEN NoLevel ELSE r.level,
                       "audio_unusable")

StartsLadder(r, d, next) ==
    Valid(d) /\ r.kind = "calibration" /\ next = [r EXCEPT !.kind = "main"]

AsksFollowUp(r, d, next) ==
    Valid(d) /\ r.kind = "main" /\ next = [r EXCEPT !.kind = "follow_up"]

Passes(r, log, d, next) ==
    /\ Valid(d)
    /\ \/ r.kind = "tie_breaker" /\ d = "pass"
       \/ r.kind = "follow_up" /\ \E m \in MainDecision(log, r.level) : ~(m = "fail" /\ d = "fail")
    /\ next = PassStage(r).record

AsksBoundary(r, d, next) ==
    Valid(d) /\ r.kind = "follow_up" /\ next = RequestBoundaryVerification(r).record

Refuses(r, d, next) ==
    Valid(d) /\ r.kind = "tie_breaker" /\ d # "pass" /\ next = FailStage(r).record

Moves(r, log, d, next) ==
    \/ Repeats(r, log, d, next)
    \/ StopsForAudio(r, log, d, next)
    \/ StartsLadder(r, d, next)
    \/ AsksFollowUp(r, d, next)
    \/ Passes(r, log, d, next)
    \/ AsksBoundary(r, d, next)
    \/ Refuses(r, d, next)

\* Whatever Advance does is one of the moves.
LEMMA AdvanceMoves ==
    ASSUME NEW r \in Records, NEW log, NEW d,
           NEW outcome \in Advance(r, log, d)
    PROVE  Moves(r, log, d, outcome.record)
<1>0. r.kind \in Kinds
  BY DEF Records
<1>1. CASE r.kind = "calibration"
  <2>1. outcome = HandleCalibration(r, log, d)
    BY <1>1 DEF Advance
  <2> QED
    BY <1>1, <2>1 DEF Moves, HandleCalibration, Outcome, Repeats, StopsForAudio, StartsLadder
<1>2. CASE r.kind # "calibration" /\ ~Valid(d)
  <2>1. outcome = InvalidRepeatOrStop(r, log)
    BY <1>2 DEF Advance
  <2> QED
    BY <1>2, <2>1 DEF Moves, InvalidRepeatOrStop, Outcome, Repeats, StopsForAudio
<1>3. CASE r.kind = "main" /\ Valid(d)
  <2>1. outcome = AskFollowUp(r)
    BY <1>3 DEF Advance
  <2> QED
    BY <1>3, <2>1 DEF Moves, AskFollowUp, Outcome, AsksFollowUp
<1>4. CASE r.kind = "follow_up" /\ Valid(d)
  <2>1. outcome \in JudgeStage(r, log, d)
    BY <1>4 DEF Advance
  <2>2. PICK m \in MainDecision(log, r.level) : \E verdict \in StageDecisions(m, d) :
           outcome = IF verdict = "pass" THEN PassStage(r) ELSE RequestBoundaryVerification(r)
    BY <2>1 DEF JudgeStage
  <2>3. m = "fail" /\ d = "fail" => "pass" \notin StageDecisions(m, d)
    BY DEF StageDecisions
  <2> QED
    BY <1>4, <2>2, <2>3 DEF Moves, Passes, AsksBoundary
<1>5. CASE r.kind = "tie_breaker" /\ Valid(d)
  <2>1. outcome = IF TieBreakerPassed(d) THEN PassStage(r) ELSE FailStage(r)
    BY <1>5 DEF Advance
  <2> QED
    BY <1>5, <2>1 DEF Moves, TieBreakerPassed, Passes, Refuses
<1> QED
  BY <1>0, <1>1, <1>2, <1>3, <1>4, <1>5 DEF Kinds

LEMMA CompleteType ==
    ASSUME NEW r \in Records, NEW first \in Levels \cup {NoLevel}, NEW why \in Reasons
    PROVE  Complete(r, first, why) \in Records
BY DEF Complete, Records

LEMMA PassStageType ==
    ASSUME NEW r \in Records
    PROVE  PassStage(r).record \in Records
<1> DEFINE confirmed == [r EXCEPT !.highest = r.level]
<1>1. confirmed \in Records
  BY DEF Records
<1>2. CASE r.level = TopLevel
  <2>1. PassStage(r).record = Complete(confirmed, NoLevel, "ceiling_reached")
    BY <1>2 DEF PassStage, Outcome
  <2> QED
    BY <1>1, <2>1, CompleteType DEF Reasons
<1>3. CASE r.level # TopLevel
  <2>1. r.level \in Levels /\ r.level + 1 \in Levels
    BY <1>3, NumLevelsAssumption DEF Records, Levels, TopLevel
  <2>2. PassStage(r).record = [confirmed EXCEPT !.level = r.level + 1, !.kind = "main"]
    BY <1>3, <1>1 DEF PassStage, Outcome, Records
  <2> QED
    BY <1>1, <2>1, <2>2 DEF Records, Kinds
<1> QED
  BY <1>2, <1>3

LEMMA FailStageType ==
    ASSUME NEW r \in Records
    PROVE  FailStage(r).record \in Records
<1>1. FailStage(r).record = Complete(r, r.level, "first_unconfirmed_level_reached")
  BY DEF FailStage, Outcome
<1> QED
  BY <1>1, CompleteType DEF Records, Reasons

\* A move yields a record again: the ladder is not left at the top, and the
\* counters stay natural numbers.
LEMMA MovesType ==
    ASSUME NEW r \in Records, NEW log, NEW d, NEW next, Moves(r, log, d, next)
    PROVE  next \in Records
<1>0. CountInvalid(r) \in Records
  BY DEF CountInvalid, Records
<1>1. CASE Repeats(r, log, d, next)
  BY <1>0, <1>1 DEF Repeats
<1>2. CASE StopsForAudio(r, log, d, next)
  <2> DEFINE first == IF r.kind = "calibration" THEN NoLevel ELSE r.level
  <2>1. first \in Levels \cup {NoLevel}
    BY DEF Records
  <2>2. next = Complete(CountInvalid(r), first, "audio_unusable")
    BY <1>2 DEF StopsForAudio
  <2> QED
    BY <1>0, <2>1, <2>2, CompleteType DEF Reasons
<1>3. CASE StartsLadder(r, d, next)
  BY <1>3 DEF StartsLadder, Records, Kinds
<1>4. CASE AsksFollowUp(r, d, next)
  BY <1>4 DEF AsksFollowUp, Records, Kinds
<1>5. CASE Passes(r, log, d, next)
  BY <1>5, PassStageType DEF Passes
<1>6. CASE AsksBoundary(r, d, next)
  <2>1. CASE r.level \in r.verified
    BY <1>6, <2>1, FailStageType DEF AsksBoundary, RequestBoundaryVerification
  <2>2. CASE r.level \notin r.verified
    <3>1. next = [r EXCEPT !.kind = "tie_breaker", !.tieBreakers = r.tieBreakers + 1,
                           !.verified = r.verified \cup {r.level}]
      BY <1>6, <2>2 DEF AsksBoundary, RequestBoundaryVerification, Outcome
    <3>2. r.verified \cup {r.level} \in SUBSET Levels /\ r.tieBreakers + 1 \in Nat
      BY DEF Records
    <3> QED
      BY <3>1, <3>2 DEF Records, Kinds
  <2> QED
    BY <2>1, <2>2
<1>7. CASE Refuses(r, d, next)
  BY <1>7, FailStageType DEF Refuses
<1> QED
  BY <1>1, <1>2, <1>3, <1>4, <1>5, <1>6, <1>7 DEF Moves

-----------------------------------------------------------------------------
(***************************************************************************)
(* The inductive invariant: the properties of Assessment with what they    *)
(* need to carry each other through a step.                                *)
(***************************************************************************)

\* No reason is given before the end.
NoReasonYet == InProgress(record) => record.reason = "none"

\* A level has its boundary item ahead until the item is asked.
BoundaryAhead ==
    InProgress(record) /\ record.kind # "tie_breaker" => record.level \notin record.verified

\* Prompts in the order the ladder asks them.
KindRank == [calibration |-> 0, main |-> 1, follow_up |-> 2, tie_breaker |-> 3]
Rank(p)  == 4 * p.level + KindRank[p.kind]

\* The log lies behind the current prompt, apart from its unusable answers.
AnswersBehind ==
    InProgress(record) =>
        \A i \in DOMAIN answers :
            /\ Rank(answers[i].prompt) <= Rank(CurrentPrompt(record))
            /\ Valid(answers[i].decision) => Rank(answers[i].prompt) < Rank(CurrentPrompt(record))

IInv ==
    /\ TypeOK
    /\ LadderPosition
    /\ NoReasonYet
    /\ BoundaryAhead
    /\ AnswersBehind
    /\ OneValidAnswerPerPrompt
    /\ FollowUpHasMain
    /\ ConfirmedByEvidence
    /\ RefusedByBoundaryItem
    /\ TwoInvalidsStop

\* What an accepted answer does, in the terms the proofs use.
Answered(d) ==
    /\ InProgress(record)
    /\ d \in IF record.kind = "calibration" THEN {"not_scored", "invalid_audio"}
             ELSE Scored \cup {"invalid_audio"}
    /\ Moves(record, answers, d, record')
    /\ answers' = Append(answers, [prompt |-> CurrentPrompt(record), decision |-> d])

LEMMA AnswerMoves ==
    ASSUME TypeOK, Answer
    PROVE  \E d \in Decisions : Answered(d)
<1>0. PICK audible \in BOOLEAN :
         \E d \in Observations(record, audible) :
         \E outcome \in Advance(record, answers, d) :
            /\ record' = outcome.record
            /\ answers' = Append(answers, [prompt |-> CurrentPrompt(record), decision |-> d])
  BY DEF Answer
<1>1. PICK d \in Observations(record, audible) :
         \E outcome \in Advance(record, answers, d) :
            /\ record' = outcome.record
            /\ answers' = Append(answers, [prompt |-> CurrentPrompt(record), decision |-> d])
  BY <1>0
<1>2. Moves(record, answers, d, record')
  BY <1>1, AdvanceMoves DEF TypeOK
<1>3. d \in IF record.kind = "calibration" THEN {"not_scored", "invalid_audio"}
             ELSE Scored \cup {"invalid_audio"}
  BY <1>1 DEF Observations
<1>4. d \in Decisions
  BY <1>3 DEF Decisions, Scored
<1> QED
  BY <1>1, <1>2, <1>3, <1>4 DEF Answer, Answered

\* Appending leaves the old answers where they were.
LEMMA Appended ==
    ASSUME TypeOK, NEW d \in Decisions, Answered(d)
    PROVE  /\ Len(answers) \in Nat
           /\ DOMAIN answers = 1 .. Len(answers)
           /\ answers' \in Seq(Answers)
           /\ Len(answers') = Len(answers) + 1
           /\ DOMAIN answers' = DOMAIN answers \cup {Len(answers) + 1}
           /\ \A i \in DOMAIN answers : answers'[i] = answers[i] /\ answers[i] \in Answers
           /\ answers'[Len(answers) + 1] = [prompt |-> CurrentPrompt(record), decision |-> d]
<1>1. CurrentPrompt(record) \in Prompts
  BY DEF TypeOK, Records, CurrentPrompt, Prompts
<1>2. [prompt |-> CurrentPrompt(record), decision |-> d] \in Answers
  BY <1>1 DEF Answers
<1>3. /\ Len(answers) \in Nat /\ Len(answers') = Len(answers) + 1
      /\ DOMAIN answers = 1 .. Len(answers) /\ DOMAIN answers' = 1 .. Len(answers) + 1
  BY <1>2 DEF TypeOK, Answered
<1>4. DOMAIN answers' = DOMAIN answers \cup {Len(answers) + 1}
  BY <1>3
<1> QED
  BY <1>2, <1>3, <1>4 DEF TypeOK, Answered

-----------------------------------------------------------------------------
(***************************************************************************)
(* What an accepted answer preserves, one conjunct at a time.              *)
(***************************************************************************)
LEMMA AnswerTypeOK ==
    ASSUME TypeOK, NEW d \in Decisions, Answered(d)
    PROVE  TypeOK'
<1>1. record' \in Records
  BY MovesType DEF TypeOK, Answered
<1> QED
  BY <1>1, Appended DEF TypeOK

LEMMA AnswerLadder ==
    ASSUME TypeOK, LadderPosition, NoReasonYet, BoundaryAhead,
           NEW d \in Decisions, Answered(d)
    PROVE  LadderPosition' /\ NoReasonYet' /\ BoundaryAhead'
<1> DEFINE r == record
<1> USE NumLevelsAssumption
<1>0. /\ r \in Records
      /\ r.status = "in_progress"
      /\ r.reason = "none"
      /\ r.level \in Levels /\ r.highest = r.level - 1
      /\ r.kind = "calibration" => r.level = 0
      /\ r.verified \subseteq 0 .. r.level
      /\ r.kind # "tie_breaker" => r.level \notin r.verified
  BY DEF TypeOK, Records, Answered, InProgress, LadderPosition, NoReasonYet, BoundaryAhead
<1>1. CASE Repeats(r, answers, d, record')
  BY <1>0, <1>1 DEF Repeats, CountInvalid, Records, InProgress,
                    LadderPosition, NoReasonYet, BoundaryAhead
<1>2. CASE StopsForAudio(r, answers, d, record')
  <2>1. /\ record'.status = "completed" /\ record'.reason = "audio_unusable"
        /\ record'.level = r.level /\ record'.kind = r.kind
        /\ record'.highest = r.highest /\ record'.verified = r.verified
        /\ r.kind # "calibration" => record'.firstUnconfirmed = r.level
    BY <1>0, <1>2 DEF StopsForAudio, Complete, CountInvalid, Records
  <2> QED
    BY <1>0, <2>1 DEF InProgress, LadderPosition, NoReasonYet, BoundaryAhead, Levels
<1>3. CASE StartsLadder(r, d, record')
  BY <1>0, <1>3 DEF StartsLadder, Records, InProgress,
                    LadderPosition, NoReasonYet, BoundaryAhead
<1>4. CASE AsksFollowUp(r, d, record')
  BY <1>0, <1>4 DEF AsksFollowUp, Records, InProgress,
                    LadderPosition, NoReasonYet, BoundaryAhead
<1>5. CASE Passes(r, answers, d, record')
  BY <1>0, <1>5 DEF Passes, PassStage, Outcome, Complete, Records, InProgress, Levels, TopLevel,
                    LadderPosition, NoReasonYet, BoundaryAhead
<1>6. CASE AsksBoundary(r, d, record')
  <2>1. r.level \notin r.verified
    BY <1>0, <1>6 DEF AsksBoundary
  <2>2. /\ record'.status = r.status /\ record'.reason = r.reason
        /\ record'.level = r.level /\ record'.kind = "tie_breaker"
        /\ record'.highest = r.highest /\ record'.verified = r.verified \cup {r.level}
    BY <1>0, <1>6, <2>1 DEF AsksBoundary, RequestBoundaryVerification, Outcome, Records
  <2> QED
    BY <1>0, <2>2 DEF InProgress, LadderPosition, NoReasonYet, BoundaryAhead, Levels
<1>7. CASE Refuses(r, d, record')
  <2>1. /\ record'.status = "completed" /\ record'.firstUnconfirmed = r.level
        /\ record'.reason = "first_unconfirmed_level_reached"
        /\ record'.level = r.level /\ record'.kind = r.kind
        /\ record'.highest = r.highest /\ record'.verified = r.verified
    BY <1>0, <1>7 DEF Refuses, FailStage, Outcome, Complete, Records
  <2> QED
    BY <1>0, <2>1 DEF InProgress, LadderPosition, NoReasonYet, BoundaryAhead, Levels
<1> QED
  BY <1>1, <1>2, <1>3, <1>4, <1>5, <1>6, <1>7 DEF Answered, Moves

LEMMA AnswerBehind ==
    ASSUME TypeOK, LadderPosition, BoundaryAhead, AnswersBehind, OneValidAnswerPerPrompt,
           NEW d \in Decisions, Answered(d)
    PROVE  AnswersBehind' /\ OneValidAnswerPerPrompt'
<1> DEFINE r == record
           now == CurrentPrompt(r)
<1>0. /\ r \in Records /\ r.status = "in_progress"
      /\ r.level \in Int /\ r.kind \in Kinds
      /\ now = [level |-> r.level, kind |-> r.kind]
      /\ r.kind # "tie_breaker" => r.level \notin r.verified
  BY NumLevelsAssumption
     DEF TypeOK, Records, Answered, InProgress, CurrentPrompt, Levels, BoundaryAhead
<1>a. /\ DOMAIN answers' = DOMAIN answers \cup {Len(answers) + 1}
      /\ \A i \in DOMAIN answers : answers'[i] = answers[i]
      /\ answers'[Len(answers) + 1].prompt = now /\ answers'[Len(answers) + 1].decision = d
      /\ \A i \in DOMAIN answers : answers[i].prompt \in Prompts
  <2>1. /\ DOMAIN answers' = DOMAIN answers \cup {Len(answers) + 1}
        /\ \A i \in DOMAIN answers : answers'[i] = answers[i] /\ answers[i] \in Answers
        /\ answers'[Len(answers) + 1] = [prompt |-> now, decision |-> d]
    BY Appended
  <2> QED
    BY <2>1 DEF Answers
<1>1. \A i \in DOMAIN answers :
         /\ Rank(answers[i].prompt) <= Rank(now)
         /\ Valid(answers[i].decision) => Rank(answers[i].prompt) < Rank(now)
  BY DEF AnswersBehind, Answered
<1>2. ~InProgress(record') \/ (~Valid(d) /\ CurrentPrompt(record') = now)
                           \/ Rank(now) < Rank(CurrentPrompt(record'))
  <2>1. CASE Repeats(r, answers, d, record')
    BY <1>0, <2>1 DEF Repeats, CountInvalid, CurrentPrompt, Records
  <2>2. CASE StopsForAudio(r, answers, d, record')
    BY <1>0, <2>2 DEF StopsForAudio, Complete, CountInvalid, Records, InProgress
  <2>3. CASE StartsLadder(r, d, record')
    BY <1>0, <2>3 DEF StartsLadder, Records, CurrentPrompt, Rank, KindRank
  <2>4. CASE AsksFollowUp(r, d, record')
    BY <1>0, <2>4 DEF AsksFollowUp, Records, CurrentPrompt, Rank, KindRank
  <2>5. CASE Passes(r, answers, d, record')
    BY <1>0, <2>5 DEF Passes, PassStage, Outcome, Complete, Records, InProgress,
                      CurrentPrompt, Rank, KindRank
  <2>6. CASE AsksBoundary(r, d, record')
    BY <1>0, <2>6 DEF AsksBoundary, RequestBoundaryVerification, Outcome, Records,
                      CurrentPrompt, Rank, KindRank
  <2>7. CASE Refuses(r, d, record')
    BY <1>0, <2>7 DEF Refuses, FailStage, Outcome, Complete, Records, InProgress
  <2> QED
    BY <2>1, <2>2, <2>3, <2>4, <2>5, <2>6, <2>7 DEF Answered, Moves
<1>3. AnswersBehind'
  <2> SUFFICES ASSUME InProgress(record'), NEW i \in DOMAIN answers'
               PROVE  /\ Rank(answers'[i].prompt) <= Rank(CurrentPrompt(record'))
                      /\ Valid(answers'[i].decision) =>
                           Rank(answers'[i].prompt) < Rank(CurrentPrompt(record'))
    BY DEF AnswersBehind
  <2>1. Rank(now) \in Int /\ Rank(CurrentPrompt(record')) \in Int
    <3>1. record' \in Records
      BY MovesType DEF TypeOK, Answered
    <3> QED
      BY <1>0, <3>1, NumLevelsAssumption
         DEF Rank, KindRank, Kinds, CurrentPrompt, Records, Levels
  <2>2. CASE i \in DOMAIN answers
    <3>1. answers'[i] = answers[i] /\ answers[i].prompt \in Prompts
      BY <1>a, <2>2
    <3>2. Rank(answers[i].prompt) \in Int
      BY <3>1, NumLevelsAssumption DEF Prompts, Rank, KindRank, Kinds, Levels
    <3> QED
      BY <1>1, <1>2, <2>1, <2>2, <3>1, <3>2
  <2>3. CASE i = Len(answers) + 1
    BY <1>2, <1>a, <2>1, <2>3
  <2> QED
    BY <1>a, <2>2, <2>3
<1>4. OneValidAnswerPerPrompt'
  <2>1. \A i \in DOMAIN answers : Valid(answers[i].decision) => answers[i].prompt # now
    <3>1. Rank(now) \in Int
      BY <1>0 DEF Rank, KindRank, Kinds
    <3> QED
      BY <1>1, <3>1
  <2> QED
    BY <1>a, <2>1 DEF OneValidAnswerPerPrompt
<1> QED
  BY <1>3, <1>4

\* The main answer a follow-up needs is the one just given, and it stays the
\* last valid one while follow-ups are repeated.
LEMMA AnswerKeepsMain ==
    ASSUME TypeOK, FollowUpHasMain, NEW d \in Decisions, Answered(d)
    PROVE  FollowUpHasMain'
<1> DEFINE n == Len(answers) + 1
           IsMain(log, level, i) == /\ log[i].prompt = [level |-> level, kind |-> "main"]
                                    /\ Valid(log[i].decision)
           LastMain(log, level, i) ==
               /\ i \in DOMAIN log /\ IsMain(log, level, i)
               /\ \A j \in DOMAIN log : IsMain(log, level, j) => j <= i
<1>0. \A log, level : MainDecision(log, level) # {} <=> \E i : LastMain(log, level, i)
  BY DEF MainDecision
<1>1. /\ Len(answers) \in Nat /\ DOMAIN answers = 1 .. Len(answers)
      /\ DOMAIN answers' = DOMAIN answers \cup {n}
      /\ \A i \in DOMAIN answers : answers'[i] = answers[i]
      /\ answers'[n] = [prompt |-> CurrentPrompt(record), decision |-> d]
  BY Appended
<1>2. record \in Records /\ InProgress(record)
  BY DEF TypeOK, Answered
<1> SUFFICES ASSUME InProgress(record'), record'.kind = "follow_up"
             PROVE  \E i : LastMain(answers', record'.level, i)
  BY <1>0 DEF FollowUpHasMain
<1>3. CASE Repeats(record, answers, d, record')
  <2>1. record'.level = record.level /\ record.kind = "follow_up"
    BY <1>2, <1>3 DEF Repeats, CountInvalid, Records
  <2>2. PICK i : LastMain(answers, record.level, i)
    BY <1>0, <1>2, <2>1 DEF FollowUpHasMain
  <2>3. ~IsMain(answers', record.level, n)
    BY <1>1, <1>3 DEF Repeats
  <2> QED
    BY <1>1, <2>1, <2>2, <2>3
<1>4. CASE AsksFollowUp(record, d, record')
  <2>1. record'.level = record.level /\ CurrentPrompt(record) = [level |-> record.level, kind |-> "main"]
    BY <1>2, <1>4 DEF AsksFollowUp, CurrentPrompt, Records
  <2>2. LastMain(answers', record.level, n)
    BY <1>1, <1>4, <2>1 DEF AsksFollowUp
  <2> QED
    BY <2>1, <2>2
<1>5. Repeats(record, answers, d, record') \/ AsksFollowUp(record, d, record')
  <2>1. CASE StopsForAudio(record, answers, d, record')
    BY <1>2, <2>1 DEF StopsForAudio, Complete, CountInvalid, Records, InProgress
  <2>2. CASE StartsLadder(record, d, record')
    BY <1>2, <2>2 DEF StartsLadder, Records
  <2>3. CASE Passes(record, answers, d, record')
    BY <1>2, <2>3 DEF Passes, PassStage, Outcome, Complete, Records, InProgress
  <2>4. CASE AsksBoundary(record, d, record')
    BY <1>2, <2>4 DEF AsksBoundary, RequestBoundaryVerification, FailStage, Complete,
                      Outcome, Records, InProgress
  <2>5. CASE Refuses(record, d, record')
    BY <1>2, <2>5 DEF Refuses, FailStage, Outcome, Complete, Records, InProgress
  <2> QED
    BY <2>1, <2>2, <2>3, <2>4, <2>5 DEF Answered, Moves
<1> QED
  BY <1>3, <1>4, <1>5

\* Evidence is never lost, and a level is only passed on new evidence of it.
LEMMA AnswerEvidence ==
    ASSUME TypeOK, LadderPosition, ConfirmedByEvidence, NEW d \in Decisions, Answered(d)
    PROVE  ConfirmedByEvidence'
<1> DEFINE n == Len(answers) + 1
<1>1. /\ Len(answers) \in Nat /\ DOMAIN answers = 1 .. Len(answers)
      /\ DOMAIN answers' = DOMAIN answers \cup {n}
      /\ \A i \in DOMAIN answers : answers'[i] = answers[i]
      /\ answers'[n] = [prompt |-> CurrentPrompt(record), decision |-> d]
  BY Appended
<1>2. record \in Records /\ InProgress(record) /\ record.highest = record.level - 1
  BY DEF TypeOK, Answered, LadderPosition
<1>3. \A level : Established(level) => Established(level)'
  BY <1>1 DEF Established, At, ValidAt
<1>4. PICK level \in Int : level = record.level
  BY <1>2, NumLevelsAssumption DEF Records, Levels
<1>5. CASE Passes(record, answers, d, record')
  <2>1. record'.highest = level
    BY <1>2, <1>4, <1>5 DEF Passes, PassStage, Outcome, Complete, Records
  <2>2. Established(level)'
    <3>1. CASE record.kind = "tie_breaker" /\ d = "pass"
      BY <1>1, <1>4, <3>1 DEF Established, At, CurrentPrompt
    <3>2. CASE record.kind = "follow_up" /\ \E m \in MainDecision(answers, record.level) :
                                              ~(m = "fail" /\ d = "fail")
      <4>1. PICK i \in DOMAIN answers :
               /\ answers[i].prompt = [level |-> level, kind |-> "main"]
               /\ Valid(answers[i].decision)
               /\ ~(answers[i].decision = "fail" /\ d = "fail")
        BY <1>4, <3>2 DEF MainDecision
      <4>2. i \in ValidAt(level, "main")' /\ answers'[i].decision = answers[i].decision
        BY <1>1, <4>1 DEF At, ValidAt
      <4>3. n \in ValidAt(level, "follow_up")' /\ answers'[n].decision = d
        BY <1>1, <1>4, <1>5, <3>2 DEF At, ValidAt, CurrentPrompt, Passes
      <4>4. i < n
        BY <1>1
      <4> QED
        BY <4>1, <4>2, <4>3, <4>4 DEF Established
    <3> QED
      BY <1>5, <3>1, <3>2 DEF Passes
  <2> QED
    BY <1>2, <1>3, <1>4, <2>1, <2>2 DEF ConfirmedByEvidence
<1>6. CASE ~Passes(record, answers, d, record')
  <2>1. record'.highest = record.highest
    <3>1. CASE Repeats(record, answers, d, record')
      BY <1>2, <3>1 DEF Repeats, CountInvalid, Records
    <3>2. CASE StopsForAudio(record, answers, d, record')
      BY <1>2, <3>2 DEF StopsForAudio, Complete, CountInvalid, Records
    <3>3. CASE StartsLadder(record, d, record')
      BY <1>2, <3>3 DEF StartsLadder, Records
    <3>4. CASE AsksFollowUp(record, d, record')
      BY <1>2, <3>4 DEF AsksFollowUp, Records
    <3>5. CASE AsksBoundary(record, d, record')
      BY <1>2, <3>5 DEF AsksBoundary, RequestBoundaryVerification, FailStage, Complete,
                        Outcome, Records
    <3>6. CASE Refuses(record, d, record')
      BY <1>2, <3>6 DEF Refuses, FailStage, Outcome, Complete, Records
    <3> QED
      BY <1>6, <3>1, <3>2, <3>3, <3>4, <3>5, <3>6 DEF Answered, Moves
  <2> QED
    BY <1>3, <2>1 DEF ConfirmedByEvidence
<1> QED
  BY <1>5, <1>6

\* A boundary item is always still ahead when a pair of answers is too weak.
LEMMA AnswerRefusal ==
    ASSUME TypeOK, NoReasonYet, BoundaryAhead, NEW d \in Decisions, Answered(d)
    PROVE  RefusedByBoundaryItem'
<1> DEFINE n == Len(answers) + 1
<1>1. /\ Len(answers') = n
      /\ DOMAIN answers' = DOMAIN answers \cup {n}
      /\ answers'[n] = [prompt |-> CurrentPrompt(record), decision |-> d]
  BY Appended
<1>2. record \in Records /\ InProgress(record) /\ record.reason = "none"
  BY DEF TypeOK, Answered, NoReasonYet
<1>3. CASE Refuses(record, d, record')
  <2>1. /\ record'.firstUnconfirmed = record.level
        /\ CurrentPrompt(record) = [level |-> record.level, kind |-> "tie_breaker"]
        /\ Valid(d) /\ d # "pass"
    BY <1>2, <1>3 DEF Refuses, FailStage, Outcome, Complete, CurrentPrompt, Records
  <2> QED
    BY <1>1, <2>1 DEF RefusedByBoundaryItem, ValidAt, At
<1>4. CASE ~Refuses(record, d, record')
  <2>1. record'.reason # "first_unconfirmed_level_reached"
    <3>1. CASE Repeats(record, answers, d, record')
      BY <1>2, <3>1 DEF Repeats, CountInvalid, Records
    <3>2. CASE StopsForAudio(record, answers, d, record')
      BY <1>2, <3>2 DEF StopsForAudio, Complete, CountInvalid, Records
    <3>3. CASE StartsLadder(record, d, record')
      BY <1>2, <3>3 DEF StartsLadder, Records
    <3>4. CASE AsksFollowUp(record, d, record')
      BY <1>2, <3>4 DEF AsksFollowUp, Records
    <3>5. CASE Passes(record, answers, d, record')
      BY <1>2, <3>5 DEF Passes, PassStage, Outcome, Complete, Records
    <3>6. CASE AsksBoundary(record, d, record')
      BY <1>2, <3>6 DEF AsksBoundary, BoundaryAhead, RequestBoundaryVerification, Outcome, Records
    <3> QED
      BY <1>4, <3>1, <3>2, <3>3, <3>4, <3>5, <3>6 DEF Answered, Moves
  <2> QED
    BY <2>1 DEF RefusedByBoundaryItem
<1> QED
  BY <1>3, <1>4

\* A second unusable answer to a prompt ends the assessment, a first does not.
LEMMA AnswerAudio ==
    ASSUME TypeOK, NoReasonYet, TwoInvalidsStop, NEW d \in Decisions, Answered(d)
    PROVE  TwoInvalidsStop'
<1> DEFINE n == Len(answers) + 1
           now == CurrentPrompt(record)
           Again == \E i \in DOMAIN answers :
                       answers[i].prompt = now /\ ~Valid(answers[i].decision)
<1>1. /\ Len(answers) \in Nat /\ DOMAIN answers = 1 .. Len(answers)
      /\ DOMAIN answers' = DOMAIN answers \cup {n}
      /\ \A i \in DOMAIN answers : answers'[i] = answers[i]
      /\ answers'[n] = [prompt |-> now, decision |-> d]
  BY Appended
<1>2. record \in Records /\ InProgress(record) /\ record.reason = "none"
  BY DEF TypeOK, Answered, NoReasonYet
<1>3. \A i, j \in DOMAIN answers : i < j => ~SamePromptUnusable(i, j)
  BY <1>2 DEF TwoInvalidsStop
<1>4. (\E i, j \in DOMAIN answers' : i < j /\ SamePromptUnusable(i, j)') <=> ~Valid(d) /\ Again
  <2>1. ASSUME NEW i \in DOMAIN answers', NEW j \in DOMAIN answers', i < j,
               SamePromptUnusable(i, j)'
        PROVE  ~Valid(d) /\ Again
    <3>1. j = n /\ i \in DOMAIN answers
      BY <1>1, <1>3, <2>1 DEF SamePromptUnusable
    <3> QED
      BY <1>1, <2>1, <3>1 DEF SamePromptUnusable
  <2>2. ASSUME ~Valid(d), NEW i \in DOMAIN answers,
               answers[i].prompt = now, ~Valid(answers[i].decision)
        PROVE  \E k, j \in DOMAIN answers' : k < j /\ SamePromptUnusable(k, j)'
    <3>1. PICK last \in DOMAIN answers' : last = n
      BY <1>1
    <3>2. i < last /\ i \in DOMAIN answers'
      BY <1>1, <3>1
    <3>3. SamePromptUnusable(i, last)'
      BY <1>1, <2>2, <3>1 DEF SamePromptUnusable
    <3> QED
      BY <3>2, <3>3
  <2> QED
    BY <2>1, <2>2
<1>5. record'.reason = "audio_unusable" <=> ~Valid(d) /\ Again
  <2>1. CASE Repeats(record, answers, d, record')
    BY <1>2, <2>1 DEF Repeats, CountInvalid, InvalidAt, Records
  <2>2. CASE StopsForAudio(record, answers, d, record')
    BY <1>2, <2>2 DEF StopsForAudio, Complete, CountInvalid, InvalidAt, Records
  <2>3. CASE StartsLadder(record, d, record')
    BY <1>2, <2>3 DEF StartsLadder, Records
  <2>4. CASE AsksFollowUp(record, d, record')
    BY <1>2, <2>4 DEF AsksFollowUp, Records
  <2>5. CASE Passes(record, answers, d, record')
    BY <1>2, <2>5 DEF Passes, PassStage, Outcome, Complete, Records
  <2>6. CASE AsksBoundary(record, d, record')
    BY <1>2, <2>6 DEF AsksBoundary, RequestBoundaryVerification, FailStage, Complete,
                      Outcome, Records
  <2>7. CASE Refuses(record, d, record')
    BY <1>2, <2>7 DEF Refuses, FailStage, Outcome, Complete, Records
  <2> QED
    BY <2>1, <2>2, <2>3, <2>4, <2>5, <2>6, <2>7 DEF Answered, Moves
<1> QED
  BY <1>4, <1>5 DEF TwoInvalidsStop

-----------------------------------------------------------------------------
(***************************************************************************)
(* The other steps, and the invariance of IInv.                            *)
(***************************************************************************)

\* An outage and a cancellation leave the ladder and the log where they are.
LEMMA InterruptionInvariant ==
    ASSUME IInv, EvaluatorUnavailable \/ Cancel
    PROVE  IInv'
<1>1. /\ record \in Records /\ InProgress(record) /\ record.reason = "none"
      /\ answers' = answers
  BY DEF IInv, TypeOK, NoReasonYet, EvaluatorUnavailable, Cancel
<1>2. /\ record' \in Records
      /\ \/ record'.status = "in_progress" /\ record'.reason = "none"
         \/ record'.status = "cancelled" /\ record'.reason = "cancelled"
      /\ record'.level = record.level /\ record'.kind = record.kind
      /\ record'.highest = record.highest /\ record'.verified = record.verified
  <2>1. CASE EvaluatorUnavailable
    BY <1>1, <2>1 DEF EvaluatorUnavailable, Records, InProgress
  <2>2. CASE Cancel
    BY <1>1, <2>2 DEF Cancel, Records, Reasons, InProgress
  <2> QED
    BY <2>1, <2>2
<1>3. TypeOK'
  BY <1>1, <1>2 DEF IInv, TypeOK
<1>4. LadderPosition' /\ NoReasonYet' /\ BoundaryAhead'
  BY <1>1, <1>2 DEF IInv, LadderPosition, NoReasonYet, BoundaryAhead, InProgress
<1>5. AnswersBehind' /\ OneValidAnswerPerPrompt' /\ FollowUpHasMain'
  BY <1>1, <1>2 DEF IInv, AnswersBehind, OneValidAnswerPerPrompt, FollowUpHasMain, CurrentPrompt
<1>6. ConfirmedByEvidence'
  <2>1. \A level : Established(level) => Established(level)'
    BY <1>1 DEF Established, At, ValidAt
  <2> QED
    BY <1>2, <2>1 DEF IInv, ConfirmedByEvidence
<1>7. RefusedByBoundaryItem'
  BY <1>2 DEF RefusedByBoundaryItem
<1>8. TwoInvalidsStop'
  BY <1>1, <1>2 DEF IInv, TwoInvalidsStop, SamePromptUnusable
<1> QED
  BY <1>3, <1>4, <1>5, <1>6, <1>7, <1>8 DEF IInv

LEMMA InitInvariant == Init => IInv
<1> SUFFICES ASSUME Init PROVE IInv
  OBVIOUS
<1>1. /\ NewRecord \in Records /\ NewRecord.level = 0 /\ NewRecord.highest = -1
      /\ NewRecord.kind = "calibration" /\ NewRecord.verified = {}
      /\ NewRecord.reason = "none"
  BY NumLevelsAssumption DEF NewRecord, Records, Levels, NoLevel, Kinds, Reasons
<1>2. answers \in Seq(Answers) /\ DOMAIN answers = {}
  BY DEF Init
<1> QED
  BY <1>1, <1>2 DEF Init, IInv, TypeOK, LadderPosition, NoReasonYet, BoundaryAhead, AnswersBehind,
     OneValidAnswerPerPrompt, FollowUpHasMain, ConfirmedByEvidence, RefusedByBoundaryItem,
     TwoInvalidsStop

LEMMA StepInvariant == IInv /\ [Next]_vars => IInv'
<1> SUFFICES ASSUME IInv, [Next]_vars PROVE IInv'
  OBVIOUS
<1>1. CASE Answer
  <2>1. PICK d \in Decisions : Answered(d)
    BY <1>1, AnswerMoves DEF IInv
  <2> QED
    BY <2>1, AnswerTypeOK, AnswerLadder, AnswerBehind, AnswerKeepsMain, AnswerEvidence,
       AnswerRefusal, AnswerAudio DEF IInv
<1>2. CASE EvaluatorUnavailable \/ Cancel
  BY <1>2, InterruptionInvariant
<1>3. CASE UNCHANGED vars
  <2>1. record' = record /\ answers' = answers
    BY <1>3 DEF vars
  <2>2. TypeOK' /\ LadderPosition' /\ NoReasonYet' /\ BoundaryAhead' /\ AnswersBehind'
    BY <2>1 DEF IInv, TypeOK, LadderPosition, NoReasonYet, BoundaryAhead, AnswersBehind
  <2>3. OneValidAnswerPerPrompt' /\ FollowUpHasMain'
    BY <2>1 DEF IInv, OneValidAnswerPerPrompt, FollowUpHasMain
  <2>4. ConfirmedByEvidence'
    BY <2>1 DEF IInv, ConfirmedByEvidence, Established, At, ValidAt
  <2>5. RefusedByBoundaryItem'
    BY <2>1 DEF IInv, RefusedByBoundaryItem, At, ValidAt
  <2>6. TwoInvalidsStop'
    BY <2>1 DEF IInv, TwoInvalidsStop, SamePromptUnusable
  <2> QED
    BY <2>2, <2>3, <2>4, <2>5, <2>6 DEF IInv
<1> QED
  BY <1>1, <1>2, <1>3 DEF Next

LEMMA Invariant == Spec => []IInv
BY InitInvariant, StepInvariant, PTL DEF Spec

-----------------------------------------------------------------------------
(***************************************************************************)
(* The estimate shown to the learner.                                      *)
(***************************************************************************)
LEMMA Estimates ==
    ASSUME NEW r \in Records
    PROVE  /\ ~InProgress(r) => RemainingMin(r) = 0 /\ RemainingMax(r) = 0
           /\ InProgress(r) /\ r.kind = "calibration" =>
                 RemainingMin(r) = 3 /\ RemainingMax(r) = 1 + NumLevels * 3
           /\ InProgress(r) /\ r.kind = "main" =>
                 RemainingMin(r) = 2 /\ RemainingMax(r) = 3 + (NumLevels - r.level - 1) * 3
           /\ InProgress(r) /\ r.kind = "follow_up" =>
                 RemainingMin(r) = 1 /\ RemainingMax(r) = 2 + (NumLevels - r.level - 1) * 3
           /\ InProgress(r) /\ r.kind = "tie_breaker" =>
                 RemainingMin(r) = 1 /\ RemainingMax(r) = 1 + (NumLevels - r.level - 1) * 3
<1>1. /\ WithinStage["main"][1] = 2 /\ WithinStage["main"][2] = 3
      /\ WithinStage["follow_up"][1] = 1 /\ WithinStage["follow_up"][2] = 2
      /\ WithinStage["tie_breaker"][1] = 1 /\ WithinStage["tie_breaker"][2] = 1
  BY DEF WithinStage
<1>2. ~InProgress(r) => RemainingMin(r) = 0 /\ RemainingMax(r) = 0
  BY DEF RemainingMin, RemainingMax
<1>3. InProgress(r) /\ r.kind = "calibration" =>
         RemainingMin(r) = 3 /\ RemainingMax(r) = 1 + NumLevels * 3
  BY DEF RemainingMin, RemainingMax
<1>4. InProgress(r) /\ r.kind # "calibration" =>
         /\ RemainingMin(r) = WithinStage[r.kind][1]
         /\ RemainingMax(r) = WithinStage[r.kind][2] + (NumLevels - r.level - 1) * 3
  BY DEF RemainingMin, RemainingMax
<1> QED
  BY <1>1, <1>2, <1>3, <1>4

LEMMA AnswerEstimate ==
    ASSUME IInv, NEW d \in Decisions, Answered(d)
    PROVE  /\ Valid(d) => /\ RemainingMax(record') <= RemainingMax(record) - 1
                          /\ RemainingMin(record') >= RemainingMin(record) - 1
           /\ ~Valid(d) => \/ ~InProgress(record')
                           \/ /\ RemainingMax(record') = RemainingMax(record)
                              /\ RemainingMin(record') = RemainingMin(record)
<1> DEFINE r == record
           next == record'
<1> USE NumLevelsAssumption
<1>1. /\ r \in Records /\ next \in Records /\ InProgress(r) /\ r.status = "in_progress"
      /\ r.level \in 0 .. NumLevels - 1
      /\ r.kind = "calibration" => r.level = 0
  BY AnswerTypeOK DEF IInv, TypeOK, Answered, InProgress, LadderPosition, Records, Levels
<1>2. CASE Repeats(r, answers, d, next)
  <2>1. next.status = r.status /\ next.kind = r.kind /\ next.level = r.level /\ ~Valid(d)
    BY <1>1, <1>2 DEF Repeats, CountInvalid, Records
  <2> QED
    BY <1>1, <2>1, Estimates DEF InProgress, Records, Kinds
<1>3. CASE StopsForAudio(r, answers, d, next)
  BY <1>1, <1>3 DEF StopsForAudio, Complete, CountInvalid, Records, InProgress
<1>4. CASE StartsLadder(r, d, next)
  <2>1. /\ next.status = r.status /\ next.kind = "main" /\ next.level = r.level
        /\ r.kind = "calibration" /\ Valid(d)
    BY <1>1, <1>4 DEF StartsLadder, Records
  <2> QED
    BY <1>1, <2>1, Estimates DEF InProgress
<1>5. CASE AsksFollowUp(r, d, next)
  <2>1. /\ next.status = r.status /\ next.kind = "follow_up" /\ next.level = r.level
        /\ r.kind = "main" /\ Valid(d)
    BY <1>1, <1>5 DEF AsksFollowUp, Records
  <2> QED
    BY <1>1, <2>1, Estimates DEF InProgress
<1>6. CASE Passes(r, answers, d, next)
  <2>1. Valid(d) /\ r.kind \in {"follow_up", "tie_breaker"}
    BY <1>6 DEF Passes
  <2>2. \/ next.status = "completed"
        \/ next.status = r.status /\ next.kind = "main" /\ next.level = r.level + 1
    BY <1>1, <1>6 DEF Passes, PassStage, Outcome, Complete, Records
  <2>3. CASE next.status = "completed"
    BY <1>1, <2>1, <2>3, Estimates DEF InProgress
  <2>4. CASE next.status = r.status /\ next.kind = "main" /\ next.level = r.level + 1
    BY <1>1, <2>1, <2>4, Estimates DEF InProgress
  <2> QED
    BY <2>2, <2>3, <2>4
<1>7. CASE AsksBoundary(r, d, next)
  <2>1. /\ next.status = r.status /\ next.kind = "tie_breaker" /\ next.level = r.level
        /\ r.kind = "follow_up" /\ Valid(d)
    BY <1>1, <1>7 DEF AsksBoundary, RequestBoundaryVerification, IInv, BoundaryAhead,
                      Outcome, Records
  <2> QED
    BY <1>1, <2>1, Estimates DEF InProgress
<1>8. CASE Refuses(r, d, next)
  <2>1. next.status = "completed" /\ r.kind = "tie_breaker" /\ Valid(d)
    BY <1>1, <1>8 DEF Refuses, FailStage, Outcome, Complete, Records
  <2> QED
    BY <1>1, <2>1, Estimates DEF InProgress
<1> QED
  BY <1>2, <1>3, <1>4, <1>5, <1>6, <1>7, <1>8 DEF Answered, Moves

-----------------------------------------------------------------------------
(***************************************************************************)
(* The number of answers: each prompt takes two at most, and the announced *)
(* maximum counts the prompts that are left.                               *)
(***************************************************************************)
Repeated == IF InvalidAt(answers, CurrentPrompt(record)) THEN 1 ELSE 0

AnswersLeft ==
    IF InProgress(record)
    THEN Len(answers) + 2 * RemainingMax(record) <= 2 * RemainingMax(NewRecord) + Repeated
    ELSE Len(answers) <= 2 * RemainingMax(NewRecord)

LEMMA EstimateType ==
    ASSUME NEW r \in Records
    PROVE  /\ RemainingMax(r) \in Int
           /\ InProgress(r) => RemainingMax(r) >= 1
<1>1. r.level \in 0 .. NumLevels - 1 /\ NumLevels \in Nat /\ r.kind \in Kinds
  BY NumLevelsAssumption DEF Records, Levels
<1>2. (NumLevels - r.level - 1) * 3 \in Nat /\ NumLevels * 3 \in Nat
  BY <1>1
<1>3. CASE ~InProgress(r)
  BY <1>3, Estimates
<1>4. CASE InProgress(r) /\ r.kind = "calibration"
  BY <1>2, <1>4, Estimates
<1>5. CASE InProgress(r) /\ r.kind = "main"
  BY <1>2, <1>5, Estimates
<1>6. CASE InProgress(r) /\ r.kind = "follow_up"
  BY <1>2, <1>6, Estimates
<1>7. CASE InProgress(r) /\ r.kind = "tie_breaker"
  BY <1>2, <1>7, Estimates
<1> QED
  BY <1>1, <1>3, <1>4, <1>5, <1>6, <1>7 DEF Kinds

LEMMA NewRecordType == NewRecord \in Records /\ RemainingMax(NewRecord) \in Int
<1>1. NewRecord \in Records
  BY NumLevelsAssumption DEF NewRecord, Records, Levels, NoLevel, Kinds, Reasons
<1> QED
  BY <1>1, EstimateType

LEMMA AnswerUsesOne ==
    ASSUME IInv, IInv', AnswersLeft, NEW d \in Decisions, Answered(d)
    PROVE  AnswersLeft'
<1> DEFINE total == RemainingMax(NewRecord)
           left  == RemainingMax(record)
<1>0. /\ record \in Records /\ record' \in Records /\ TypeOK
      /\ InProgress(record)
  BY DEF IInv, TypeOK, Answered
<1>1. /\ Len(answers) \in Nat /\ Len(answers') = Len(answers) + 1
      /\ answers'[Len(answers) + 1] = [prompt |-> CurrentPrompt(record), decision |-> d]
      /\ Len(answers) + 1 \in DOMAIN answers'
  BY <1>0, Appended
<1>2. /\ left \in Int /\ left >= 1
      /\ RemainingMax(record') \in Int
  BY <1>0, EstimateType
<1>3. total \in Int
  BY NewRecordType
<1>4. Repeated \in {0, 1} /\ Repeated' \in {0, 1}
  BY DEF Repeated
<1>5. Len(answers) + 2 * left <= 2 * total + Repeated
  BY <1>0 DEF AnswersLeft
<1>6. CASE ~InProgress(record')
  <2>1. Len(answers') <= 2 * total
    BY <1>1, <1>2, <1>3, <1>4, <1>5
  <2> QED
    BY <1>6, <2>1 DEF AnswersLeft
<1>7. CASE InProgress(record') /\ Valid(d)
  <2>1. RemainingMax(record') <= left - 1
    BY <1>7, AnswerEstimate
  <2>2. Len(answers') + 2 * RemainingMax(record') <= 2 * total + Repeated'
    BY <1>1, <1>2, <1>3, <1>4, <1>5, <2>1
  <2> QED
    BY <1>7, <2>2 DEF AnswersLeft
<1>8. CASE InProgress(record') /\ ~Valid(d)
  <2>1. RemainingMax(record') = left
    BY <1>8, AnswerEstimate
  <2>2. Repeats(record, answers, d, record')
    BY <1>0, <1>8 DEF Answered, Moves, StopsForAudio, StartsLadder, AsksFollowUp, Passes,
       AsksBoundary, Refuses, Complete, CountInvalid, Records, InProgress
  <2>3. Repeated = 0 /\ CurrentPrompt(record') = CurrentPrompt(record)
    BY <1>0, <2>2 DEF Repeats, Repeated, CountInvalid, CurrentPrompt, Records
  <2>4. InvalidAt(answers', CurrentPrompt(record'))
    BY <1>1, <1>8, <2>3 DEF InvalidAt
  <2>5. Repeated' = 1
    BY <2>4 DEF Repeated
  <2>6. Len(answers') + 2 * RemainingMax(record') <= 2 * total + Repeated'
    BY <1>1, <1>2, <1>3, <1>5, <2>1, <2>3, <2>5
  <2> QED
    BY <1>8, <2>6 DEF AnswersLeft
<1> QED
  BY <1>6, <1>7, <1>8

LEMMA OtherwiseNoneUsed ==
    ASSUME IInv, AnswersLeft, EvaluatorUnavailable \/ Cancel \/ UNCHANGED vars
    PROVE  AnswersLeft'
<1>1. answers' = answers /\ record \in Records
  BY DEF EvaluatorUnavailable, Cancel, vars, IInv, TypeOK
<1>2. CASE UNCHANGED vars
  BY <1>2 DEF vars, AnswersLeft, Repeated
<1>3. CASE EvaluatorUnavailable
  <2>1. /\ record'.status = record.status /\ record'.kind = record.kind
        /\ record'.level = record.level
    BY <1>1, <1>3 DEF EvaluatorUnavailable, Records
  <2>2. /\ InProgress(record') <=> InProgress(record)
        /\ CurrentPrompt(record') = CurrentPrompt(record)
    BY <2>1 DEF InProgress, CurrentPrompt
  <2>3. RemainingMax(record') = RemainingMax(record)
    BY <2>1, <2>2 DEF RemainingMax
  <2> QED
    BY <1>1, <2>2, <2>3 DEF AnswersLeft, Repeated
<1>4. CASE Cancel
  <2> DEFINE total == RemainingMax(NewRecord)
             left  == RemainingMax(record)
  <2>1. ~InProgress(record')
    BY <1>1, <1>4 DEF Cancel, InProgress, Records
  <2>2. Len(answers) + 2 * left <= 2 * total + Repeated
    BY <1>4 DEF Cancel, AnswersLeft
  <2>3. /\ left \in Int /\ left >= 1 /\ Len(answers) \in Nat
        /\ Repeated \in {0, 1}
    BY <1>1, <1>4, EstimateType DEF Cancel, Repeated, IInv, TypeOK
  <2>4. total \in Int
    BY NewRecordType
  <2>5. Len(answers') <= 2 * total
    BY <1>1, <2>2, <2>3, <2>4
  <2> QED
    BY <2>1, <2>5 DEF AnswersLeft
<1> QED
  BY <1>2, <1>3, <1>4

-----------------------------------------------------------------------------
(***************************************************************************)
(* Theorems.                                                               *)
(***************************************************************************)

\* The record and the log always have the shape the service gives them.
THEOREM TypeCorrect == Spec => []TypeOK
<1>1. IInv => TypeOK
  BY DEF IInv
<1> QED
  BY <1>1, Invariant, PTL

\* Every confirmed level rests on stored evidence of that very level.
THEOREM PlacementIsEarned == Spec => []ConfirmedByEvidence
<1>1. IInv => ConfirmedByEvidence
  BY DEF IInv
<1> QED
  BY <1>1, Invariant, PTL

\* The placement is the level below the one being tested, to the very end.
THEOREM LadderIsClimbedInOrder == Spec => []LadderPosition
<1>1. IInv => LadderPosition
  BY DEF IInv
<1> QED
  BY <1>1, Invariant, PTL

\* Only a boundary item that was heard and not passed refuses a level.
THEOREM RefusalNeedsBoundaryItem == Spec => []RefusedByBoundaryItem
<1>1. IInv => RefusedByBoundaryItem
  BY DEF IInv
<1> QED
  BY <1>1, Invariant, PTL

\* Unusable audio ends an assessment exactly when a prompt met it twice.
THEOREM SecondUnusableAnswerStops == Spec => []TwoInvalidsStop
<1>1. IInv => TwoInvalidsStop
  BY DEF IInv
<1> QED
  BY <1>1, Invariant, PTL

\* No prompt is judged twice.
THEOREM JudgedOnce == Spec => []OneValidAnswerPerPrompt
<1>1. IInv => OneValidAnswerPerPrompt
  BY DEF IInv
<1> QED
  BY <1>1, Invariant, PTL

\* The service never meets a follow-up without its main answer.
THEOREM MainAnswerIsFound == Spec => []FollowUpHasMain
<1>1. IInv => FollowUpHasMain
  BY DEF IInv
<1> QED
  BY <1>1, Invariant, PTL

\* Each heard answer uses up the announced maximum and at most one of the
\* announced minimum; a repeat changes neither.
THEOREM EstimateIsHonest == Spec => EstimateHonest
<1>1. IInv /\ [Next]_vars =>
        [\/ answers' = answers
         \/ /\ Valid(answers'[Len(answers')].decision)
            /\ RemainingMax(record') <= RemainingMax(record) - 1
            /\ RemainingMin(record') >= RemainingMin(record) - 1
         \/ /\ ~Valid(answers'[Len(answers')].decision)
            /\ \/ ~InProgress(record')
               \/ /\ RemainingMax(record') = RemainingMax(record)
                  /\ RemainingMin(record') = RemainingMin(record)]_vars
  <2> SUFFICES ASSUME IInv, Next, answers' # answers
               PROVE  \/ /\ Valid(answers'[Len(answers')].decision)
                         /\ RemainingMax(record') <= RemainingMax(record) - 1
                         /\ RemainingMin(record') >= RemainingMin(record) - 1
                      \/ /\ ~Valid(answers'[Len(answers')].decision)
                         /\ \/ ~InProgress(record')
                            \/ /\ RemainingMax(record') = RemainingMax(record)
                               /\ RemainingMin(record') = RemainingMin(record)
    OBVIOUS
  <2>1. Answer
    BY DEF Next, EvaluatorUnavailable, Cancel
  <2>2. PICK d \in Decisions : Answered(d)
    BY <2>1, AnswerMoves DEF IInv
  <2>3. answers'[Len(answers')].decision = d
    <3>1. /\ Len(answers') = Len(answers) + 1
          /\ answers'[Len(answers) + 1] = [prompt |-> CurrentPrompt(record), decision |-> d]
      BY <2>2, Appended DEF IInv
    <3> QED
      BY <3>1
  <2> QED
    BY <2>2, <2>3, AnswerEstimate
<1> QED
  BY <1>1, Invariant, PTL DEF Spec, EstimateHonest

\* Where the ladder stands, and where it stopped, rests on evidence.
THEOREM LadderIsSound == Spec => []LadderSound
<1> QED
  BY PlacementIsEarned, LadderIsClimbedInOrder, RefusalNeedsBoundaryItem, PTL
  DEF LadderSound

\* No assessment takes more answers than two for each prompt it announced as
\* its maximum, for any number of levels: the ladder ends of itself.
THEOREM LadderIsFinite == Spec => []AnswersBounded
<1>1. Init => AnswersLeft
  <2> SUFFICES ASSUME Init
               PROVE  AnswersLeft
    OBVIOUS
  <2>1. Len(answers) = 0 /\ record = NewRecord /\ InProgress(record)
    BY DEF Init, NewRecord, InProgress
  <2>2. Repeated \in {0, 1} /\ RemainingMax(NewRecord) \in Int
    BY NewRecordType DEF Repeated
  <2> QED
    BY <2>1, <2>2 DEF AnswersLeft
<1>2. IInv /\ IInv' /\ AnswersLeft /\ [Next]_vars => AnswersLeft'
  <2> SUFFICES ASSUME IInv, IInv', AnswersLeft, [Next]_vars
               PROVE  AnswersLeft'
    OBVIOUS
  <2>1. CASE Answer
    <3>1. PICK d \in Decisions : Answered(d)
      BY <2>1, AnswerMoves DEF IInv
    <3> QED
      BY <3>1, AnswerUsesOne
  <2> QED
    BY <2>1, OtherwiseNoneUsed DEF Next
<1>3. IInv /\ AnswersLeft => AnswersBounded
  <2> SUFFICES ASSUME IInv, AnswersLeft
               PROVE  AnswersBounded
    OBVIOUS
  <2>1. CASE InProgress(record)
    <3>1. /\ RemainingMax(record) \in Int /\ RemainingMax(record) >= 1
          /\ RemainingMax(NewRecord) \in Int
      BY <2>1, EstimateType, NewRecordType DEF IInv, TypeOK
    <3>2. Repeated \in {0, 1} /\ Len(answers) \in Nat
      BY DEF Repeated, IInv, TypeOK
    <3>3. Len(answers) + 2 * RemainingMax(record) <= 2 * RemainingMax(NewRecord) + Repeated
      BY <2>1 DEF AnswersLeft
    <3> QED
      BY <3>1, <3>2, <3>3 DEF AnswersBounded
  <2>2. CASE ~InProgress(record)
    BY <2>2 DEF AnswersLeft, AnswersBounded
  <2> QED
    BY <2>1, <2>2
<1> QED
  BY <1>1, <1>2, <1>3, Invariant, PTL DEF Spec

\* Every answer counts for what it was.
THEOREM AnswersAreSound == Spec => []AnswersSound
<1> QED
  BY SecondUnusableAnswerStops, JudgedOnce, MainAnswerIsFound, LadderIsFinite, PTL
  DEF AnswersSound
=============================================================================
