------------------------- MODULE StageEvaluationProofs -------------------------
(***************************************************************************)
(* Proofs about StageEvaluation for any evaluators, retries, waits and     *)
(* timeouts, and for whatever marks the providers give.                    *)
(***************************************************************************)
EXTENDS StageEvaluation, TLAPS

-----------------------------------------------------------------------------
(* Scoring. *)

\* What score_evaluator_output makes of a usable answer: its scores decide.
Graded(a) ==
    /\ a \in ScoredAnswers
    /\ a.weighted = Weighted(a.scores)
    /\ a.decision = Decide([scores |-> a.scores, invalid |-> FALSE, blocked |-> a.blocked,
                            relevant |-> a.relevant, achieved |-> a.achieved], a.scores)

EvaluatorOutputs ==
    [scores : Scores, invalid : BOOLEAN, blocked : BOOLEAN, relevant : BOOLEAN,
     achieved : BOOLEAN]

LEMMA WeightedType ==
    ASSUME NEW s \in Scores
    PROVE  Weighted(s) \in 0..80
BY DEF Weighted, Scores, Marks

\* An answer is graded unless its audio is found unusable.
LEMMA ScoringGrades ==
    ASSUME NEW output \in EvaluatorOutputs, NEW rule \in Marks \cup {NoRule},
           ScoreOutput(output, rule).decision # "invalid_audio"
    PROVE  Graded(ScoreOutput(output, rule))
<1> DEFINE s == IF rule = NoRule THEN output.scores ELSE [output.scores EXCEPT !.fluency = rule]
           a == ScoreOutput(output, rule)
           seen == [scores |-> s, invalid |-> FALSE, blocked |-> output.blocked,
                    relevant |-> output.relevant, achieved |-> output.achieved]
<1>1. s \in Scores /\ s.task = output.scores.task
  BY DEF EvaluatorOutputs, Scores
<1>2. a = [scores |-> s, weighted |-> Weighted(s), decision |-> Decide(output, s),
           blocked |-> output.blocked, relevant |-> output.relevant,
           achieved |-> output.achieved]
  BY DEF ScoreOutput
<1>3. ~output.invalid
  BY <1>2 DEF Decide
<1>4. Decide(output, s) = Decide(seen, s)
  BY <1>1, <1>3 DEF Decide
<1>5. Decide(output, s) \in {"pass", "borderline", "fail"}
  BY <1>3 DEF Decide
<1>6. a \in ScoredAnswers
  BY <1>1, <1>2, <1>5, WeightedType DEF ScoredAnswers, EvaluatorOutputs
<1> HIDE DEF s
<1> QED
  BY <1>2, <1>4, <1>6 DEF Graded

-----------------------------------------------------------------------------
(* The verdict on two graded answers. *)

\* What a decision tells of the answer.
LEMMA DecisionMeans ==
    ASSUME NEW a, Graded(a)
    PROVE  /\ a.decision = "pass" =>
                 /\ Usable(a) /\ a.weighted >= 56
                 /\ a.scores.task >= 3 /\ a.scores.interaction >= 3
                 /\ a.scores.intelligibility >= 2
           /\ a.decision = "fail" =>
                 ~Usable(a) \/ a.scores.task <= 1 \/ a.weighted < 48
           /\ (~Usable(a) \/ a.scores.task <= 1) => a.decision = "fail"
           /\ a.decision \in {"pass", "borderline", "fail"}
           /\ a.scores \in Scores /\ a.weighted \in 0..80
BY DEF Graded, Decide, Usable, PassMark, BorderlineMark, CriticalMet, ScoredAnswers

LEMMA VerdictType ==
    ASSUME NEW a, NEW b
    PROVE  DecideStage(a, b) \in {"pass", "tie_breaker", "fail"}
BY DEF DecideStage

\* An average of two answers that were both failed, and could be used, is no pass.
LEMMA TwoFailuresNeverPass ==
    ASSUME NEW a, NEW b, Graded(a), Graded(b), a.decision = "fail", b.decision = "fail"
    PROVE  ~AverageSuffices(a, b)
<1>1. a.scores.task \in 0..4 /\ b.scores.task \in 0..4 /\ a.weighted \in 0..80 /\ b.weighted \in 0..80
  BY DecisionMeans DEF Scores, Marks
<1>2. SUFFICES ASSUME Usable(a), Usable(b), a.weighted + b.weighted >= 112,
                      a.scores.task + b.scores.task >= 6
               PROVE  FALSE
  BY DEF AverageSuffices, PassMark, CriticalMet
<1>3. (a.scores.task <= 1 \/ a.weighted < 48) /\ (b.scores.task <= 1 \/ b.weighted < 48)
  BY <1>2, DecisionMeans
<1> QED
  BY <1>1, <1>2, <1>3

\* The average of two passed answers is a pass.
LEMMA TwoPassesAverage ==
    ASSUME NEW a, NEW b, Graded(a), Graded(b), a.decision = "pass", b.decision = "pass"
    PROVE  AverageSuffices(a, b)
<1>1. /\ a.scores.task >= 3 /\ a.scores.interaction >= 3 /\ a.scores.intelligibility >= 2
      /\ b.scores.task >= 3 /\ b.scores.interaction >= 3 /\ b.scores.intelligibility >= 2
      /\ a.weighted >= 56 /\ b.weighted >= 56 /\ Usable(a) /\ Usable(b)
  BY DecisionMeans
<1>2. /\ a.scores.task \in Int /\ a.scores.interaction \in Int /\ a.scores.intelligibility \in Int
      /\ b.scores.task \in Int /\ b.scores.interaction \in Int /\ b.scores.intelligibility \in Int
      /\ a.weighted \in Int /\ b.weighted \in Int
  BY DecisionMeans DEF Scores, Marks
<1> QED
  BY <1>1, <1>2 DEF AverageSuffices, PassMark, CriticalMet

\* The short cut for two passed answers gives nothing away.
LEMMA PassesByAverage ==
    ASSUME NEW a, NEW b, Graded(a), Graded(b)
    PROVE  DecideStage(a, b) = "pass" <=> AverageSuffices(a, b)
BY TwoPassesAverage DEF DecideStage

\* The verdict is against the learner when both answers were beside the task or
\* could not be understood.
LEMMA FailsWhenBothHopeless ==
    ASSUME NEW a, NEW b, Graded(a), Graded(b)
    PROVE  DecideStage(a, b) = "fail" <=>
              (a.blocked \/ ~a.relevant) /\ (b.blocked \/ ~b.relevant)
<1>1. \A x \in {a, b} : Hopeless(x) <=> (x.blocked \/ ~x.relevant)
  BY DecisionMeans DEF Hopeless, Usable
<1>2. Hopeless(a) => ~AverageSuffices(a, b)
  BY <1>1 DEF AverageSuffices, Usable
<1>3. a.decision = "pass" => ~Hopeless(a)
  BY DEF Hopeless
<1> QED
  BY <1>1, <1>2, <1>3 DEF DecideStage

\* The ladder knows the decisions only: what it leaves open, and what the
\* plain table of decisions says.
LEMMA VerdictIsOfLadder ==
    ASSUME NEW a, NEW b, Graded(a), Graded(b)
    PROVE  /\ DecideStage(a, b) \in Ladder!StageDecisions(a.decision, b.decision)
           /\ Rank[DecideStage(a, b)] >= Rank[StageTable(a.decision, b.decision)]
<1>1. /\ a.decision \in {"pass", "borderline", "fail"}
      /\ b.decision \in {"pass", "borderline", "fail"}
  BY DecisionMeans
<1>2. Rank["fail"] = 1 /\ Rank["tie_breaker"] = 2 /\ Rank["pass"] = 3
  BY DEF Rank
<1>3. CASE a.decision = "pass" /\ b.decision = "pass"
  <2>1. DecideStage(a, b) = "pass" /\ StageTable(a.decision, b.decision) = "pass"
    BY <1>3 DEF DecideStage, StageTable
  <2> QED
    BY <1>2, <1>3, <2>1 DEF Ladder!StageDecisions
<1>4. CASE a.decision = "fail" /\ b.decision = "fail"
  <2>1. DecideStage(a, b) \in {"tie_breaker", "fail"}
    BY <1>4, TwoFailuresNeverPass DEF DecideStage
  <2>2. StageTable(a.decision, b.decision) = "fail"
    BY <1>4 DEF StageTable
  <2> QED
    BY <1>2, <1>4, <2>1, <2>2 DEF Ladder!StageDecisions
<1>5. CASE (a.decision # "pass" \/ b.decision # "pass") /\ (a.decision # "fail" \/ b.decision # "fail")
  <2>1. DecideStage(a, b) \in {"pass", "tie_breaker"}
    BY <1>5 DEF DecideStage, Hopeless
  <2>2. StageTable(a.decision, b.decision) \in {"tie_breaker", "fail"}
    BY <1>5 DEF StageTable
  <2> QED
    BY <1>2, <1>5, <2>1, <2>2 DEF Ladder!StageDecisions
<1> QED
  BY <1>3, <1>4, <1>5

-----------------------------------------------------------------------------
(* A higher mark. *)

\* The same answer with marks that are at least as high.
AtLeastAsGood(better, a) ==
    /\ better.blocked = a.blocked /\ better.relevant = a.relevant
    /\ better.achieved = a.achieved
    /\ better.weighted >= a.weighted
    /\ better.scores.task >= a.scores.task
    /\ better.scores.interaction >= a.scores.interaction
    /\ better.scores.intelligibility >= a.scores.intelligibility

LEMMA WeightedGrows ==
    ASSUME NEW s \in Scores, NEW t \in Scores,
           s.task >= t.task, s.interaction >= t.interaction, s.fluency >= t.fluency,
           s.coherence >= t.coherence, s.lexical >= t.lexical,
           s.intelligibility >= t.intelligibility
    PROVE  Weighted(s) >= Weighted(t)
<1>1. /\ s.task \in Int /\ s.interaction \in Int /\ s.fluency \in Int
      /\ s.coherence \in Int /\ s.lexical \in Int /\ s.intelligibility \in Int
  BY DEF Scores, Marks
<1>2. /\ t.task \in Int /\ t.interaction \in Int /\ t.fluency \in Int
      /\ t.coherence \in Int /\ t.lexical \in Int /\ t.intelligibility \in Int
  BY DEF Scores, Marks
<1> QED
  BY <1>1, <1>2 DEF Weighted

LEMMA HigherMark ==
    ASSUME NEW a, Graded(a), NEW d \in Dimensions, a.scores[d] < 4
    PROVE  Graded(Improved(a, d)) /\ AtLeastAsGood(Improved(a, d), a)
<1> DEFINE s == [a.scores EXCEPT ![d] = @ + 1]
           better == [scores |-> s, invalid |-> FALSE, blocked |-> a.blocked,
                      relevant |-> a.relevant, achieved |-> a.achieved]
<1>0. a.scores \in Scores /\ a.scores[d] \in 0..4
  BY DEF Graded, ScoredAnswers, Scores, Marks, Dimensions
<1>1. s \in Scores
  BY <1>0 DEF Scores, Marks, Dimensions
<1>2. better \in EvaluatorOutputs
  BY <1>1 DEF EvaluatorOutputs, Graded, ScoredAnswers
<1>3. Improved(a, d) = ScoreOutput(better, NoRule)
  BY DEF Improved
<1>4. ScoreOutput(better, NoRule) =
         [scores |-> s, weighted |-> Weighted(s), decision |-> Decide(better, s),
          blocked |-> a.blocked, relevant |-> a.relevant, achieved |-> a.achieved]
  BY DEF ScoreOutput
<1>5. Decide(better, s) # "invalid_audio"
  BY DEF Decide
<1> HIDE DEF better
<1>6. Graded(ScoreOutput(better, NoRule))
  BY <1>2, <1>4, <1>5, ScoringGrades
<1>7. /\ s.task >= a.scores.task /\ s.interaction >= a.scores.interaction
      /\ s.intelligibility >= a.scores.intelligibility
      /\ s.fluency >= a.scores.fluency /\ s.coherence >= a.scores.coherence
      /\ s.lexical >= a.scores.lexical
  BY <1>0 DEF Scores, Marks, Dimensions
<1> HIDE DEF s
<1>8. Weighted(s) >= Weighted(a.scores)
  BY <1>0, <1>1, <1>7, WeightedGrows
<1> QED
  BY <1>3, <1>4, <1>6, <1>7, <1>8 DEF AtLeastAsGood, Graded

LEMMA BetterAverage ==
    ASSUME NEW a, NEW b, NEW better, Graded(a), Graded(b), Graded(better), AtLeastAsGood(better, a)
    PROVE  /\ AverageSuffices(a, b) => AverageSuffices(better, b)
           /\ AverageSuffices(b, a) => AverageSuffices(b, better)
<1>1. \A x \in {a, b, better} :
         /\ x.scores.task \in Int /\ x.scores.interaction \in Int
         /\ x.scores.intelligibility \in Int /\ x.weighted \in Int
  BY DecisionMeans DEF Scores, Marks
<1>2. Usable(a) => Usable(better)
  BY DEF AtLeastAsGood, Usable
<1> QED
  BY <1>1, <1>2 DEF AtLeastAsGood, AverageSuffices, CriticalMet, PassMark

\* Whichever of the two answers is better than it was, the verdict is no worse.
LEMMA BetterVerdict ==
    ASSUME NEW a, NEW b, NEW better, Graded(a), Graded(b), Graded(better), AtLeastAsGood(better, a)
    PROVE  /\ Rank[DecideStage(better, b)] >= Rank[DecideStage(a, b)]
           /\ Rank[DecideStage(b, better)] >= Rank[DecideStage(b, a)]
<1>1. Rank["fail"] = 1 /\ Rank["tie_breaker"] = 2 /\ Rank["pass"] = 3
  BY DEF Rank
<1>2. /\ DecideStage(a, b) = "pass" => DecideStage(better, b) = "pass"
      /\ DecideStage(b, a) = "pass" => DecideStage(b, better) = "pass"
  BY BetterAverage, PassesByAverage
<1>3. /\ DecideStage(better, b) = "fail" => DecideStage(a, b) = "fail"
      /\ DecideStage(b, better) = "fail" => DecideStage(b, a) = "fail"
  BY FailsWhenBothHopeless DEF AtLeastAsGood
<1> QED
  BY <1>1, <1>2, <1>3, VerdictType

-----------------------------------------------------------------------------
(***************************************************************************)
(* The inductive invariant.                                                *)
(***************************************************************************)

\* What is kept of an answer is what its scores say of it, and a pair that was
\* judged keeps its verdict.
Kept ==
    /\ main # NoAnswer => Graded(main)
    /\ followUp # NoAnswer =>
          Graded(followUp) /\ main # NoAnswer /\ verdict = DecideStage(main, followUp)

\* Nobody is asked about a level that is judged.
AskedWhileOpen == call.phase # "idle" => verdict = "open"

\* A client that tries again, by itself or inside its SDK.
Retrying == Asking("gemini") \/ Asking("openai")

\* What has been spent of the two rounds: the attempts that failed, each up to
\* its timeout, and the waits between them.
Spent ==
    /\ Retrying =>
          /\ call.elapsed <=
                (call.validation - 1) * Round(provider) + call.attempt * Timeout + call.waited
          /\ call.waited <= (IF provider = "openai" THEN call.attempt * SdkWait ELSE MaxWait)
    /\ call.phase = "asking" /\ ~Retrying => call.elapsed = 0
    /\ call.phase # "asking" => call.elapsed <= 2 * Round(provider)

IInv == TypeOK /\ Kept /\ AskedWhileOpen /\ Spent

-----------------------------------------------------------------------------
(* Type correctness. *)

LEMMA DelayType ==
    ASSUME NEW hint \in Hints, call \in Calls
    PROVE  Delay(hint) \in Nat
<1>1. hint # NoHint => hint \in Nat
  BY RubricEvaluatorAssumption DEF NoHint
<1>2. call.attempt \in Nat
  BY RubricEvaluatorAssumption DEF Calls
<1>3. call.attempt < 3 => <<1, 2, 4>>[call.attempt + 1] \in Nat
  <2>1. call.attempt < 3 => call.attempt \in {0, 1, 2}
    BY <1>2
  <2> QED
    BY <2>1
<1> QED
  BY <1>1, <1>2, <1>3 DEF Delay

LEMMA SdkDelayType ==
    ASSUME NEW hint \in Hints, call \in Calls
    PROVE  SdkDelay(hint) \in Nat /\ SdkDelay(hint) <= SdkWait
<1>1. SdkWait \in Nat /\ 8 <= SdkWait /\ call.attempt \in Nat
  BY RubricEvaluatorAssumption DEF Calls
<1>2. CASE hint \in 1..SdkWait
  BY <1>1, <1>2 DEF SdkDelay
<1>3. CASE hint \notin 1..SdkWait
  <2>1. call.attempt < 3 => call.attempt \in {0, 1, 2}
    BY <1>1
  <2>2. Delay(NoHint) = IF call.attempt >= 3 THEN 8 ELSE <<1, 2, 4>>[call.attempt + 1]
    BY DEF Delay
  <2>3. CASE call.attempt < 3
    <3>1. Delay(NoHint) \in {1, 2, 4}
      BY <1>1, <2>1, <2>2, <2>3
    <3> QED
      BY <1>1, <1>3, <3>1 DEF SdkDelay
  <2>4. CASE call.attempt >= 3
    BY <1>1, <1>3, <2>2, <2>4 DEF SdkDelay
  <2> QED
    BY <1>1, <2>3, <2>4
<1> QED
  BY <1>2, <1>3

LEMMA HeuristicType == HeuristicOutputs \subseteq EvaluatorOutputs
<1> SUFFICES ASSUME NEW base \in 0..4, NEW asked \in BOOLEAN, NEW halting \in BOOLEAN,
                    NEW relevant \in BOOLEAN, NEW unusable \in BOOLEAN
             PROVE  HeuristicOutput(base, asked, halting, relevant, unusable) \in EvaluatorOutputs
  BY DEF HeuristicOutputs
<1> DEFINE s == [task          |-> IF ~relevant /\ base > 1 THEN 1 ELSE base,
                 interaction   |-> IF asked THEN AtLeast(base - 1, 0) ELSE base,
                 fluency       |-> IF halting THEN AtLeast(base - 1, 1) ELSE base,
                 coherence     |-> base,
                 lexical       |-> base,
                 intelligibility |-> base]
<1>1. AtLeast(base - 1, 0) \in Marks /\ AtLeast(base - 1, 1) \in Marks
  BY DEF AtLeast, Marks
<1>2. base \in Marks /\ 1 \in Marks
  BY DEF Marks
<1>3. s \in Scores
  BY <1>1, <1>2 DEF Scores
<1>4. (base >= 2 /\ relevant) \in BOOLEAN
  OBVIOUS
<1>5. HeuristicOutput(base, asked, halting, relevant, unusable) =
         [scores |-> s, invalid |-> unusable, blocked |-> FALSE, relevant |-> relevant,
          achieved |-> base >= 2 /\ relevant]
  BY DEF HeuristicOutput
<1> HIDE DEF s
<1> QED
  BY <1>3, <1>4, <1>5 DEF EvaluatorOutputs

LEMMA AnsweredType ==
    /\ Answered \subseteq EvaluatorOutputs
    /\ Rules \subseteq Marks \cup {NoRule}
BY HeuristicType, StageEvaluationAssumption DEF Answered, EvaluatorOutputs

\* Whatever a step of evaluate does to the call leaves a call.
LEMMA CallType ==
    ASSUME TypeOK, [Next]_vars
    PROVE  call' \in Calls
<1>0. /\ call \in Calls /\ 0 \in 0..MaxRetries /\ 0 \in Nat
      /\ MaxRetries \in Nat /\ MaxWait \in Nat /\ Timeout \in Nat
  BY RubricEvaluatorAssumption DEF TypeOK, EvaluatorTypeOK
<1>a. 1 \in 1..2 /\ 2 \in 1..2
  OBVIOUS
<1>1. \A e \in Nat : GiveUp(e) => call' \in Calls
  <2> SUFFICES ASSUME NEW e \in Nat, GiveUp(e)
               PROVE  call' \in Calls
    OBVIOUS
  <2>1. call' = [phase |-> "unavailable", validation |-> 1, attempt |-> 0, waited |-> 0, elapsed |-> e]
    BY DEF GiveUp, Idle
  <2> QED
    BY <1>0, <1>a, <2>1 DEF Calls
<1>2. \A e \in Nat : AskForm(e) => call' \in Calls
  <2> SUFFICES ASSUME NEW e \in Nat, AskForm(e)
               PROVE  call' \in Calls
    OBVIOUS
  <2>1. CASE call.validation = 1
    <3>1. call' = [call EXCEPT !.validation = 2, !.attempt = 0, !.waited = 0, !.elapsed = e]
      BY <2>1 DEF AskForm
    <3> QED
      BY <1>0, <1>a, <3>1 DEF Calls
  <2>2. CASE call.validation # 1
    BY <1>1, <2>2 DEF AskForm
  <2> QED
    BY <2>1, <2>2
<1>3. call.elapsed \in Nat
  BY <1>0 DEF Calls
<1>4. Idle \in Calls
  BY <1>0 DEF Idle, Calls
<1>5. CASE Silence \/ UNCHANGED vars
  BY <1>0, <1>5 DEF Silence, vars, evaluatorVars
<1>6. CASE Submit \/ Reply
  BY <1>0, <1>6 DEF Submit, Reply, Ask, Replied, Idle, Calls
<1>7. CASE Score \/ Outage
  BY <1>4, <1>7 DEF Score, Outage
<1>8. CASE Struggle
  <2>1. ASSUME NEW took \in {1, Timeout}, Malformed(took)
        PROVE  call' \in Calls
    BY <1>0, <1>2, <1>3, <2>1 DEF Malformed
  <2>2. ASSUME NEW took \in {1, Timeout}, NEW status \in Statuses, NEW daily \in BOOLEAN,
               NEW hint \in Hints, ProviderError(status, daily, hint, took)
        PROVE  call' \in Calls
    <3>1. CASE CanRetry(status, daily, hint)
      <4>1. Delay(hint) \in Nat
        BY <1>0, DelayType
      <4>2. call.attempt + 1 \in 0..MaxRetries /\ call.waited + Delay(hint) \in Nat
        BY <1>0, <3>1, <4>1 DEF CanRetry, Calls
      <4>3. call.elapsed + took + Delay(hint) \in Nat
        BY <1>0, <1>3, <4>1
      <4>4. call' = [call EXCEPT !.attempt = @ + 1, !.waited = @ + Delay(hint),
                                 !.elapsed = @ + took + Delay(hint)]
        BY <2>2, <3>1 DEF ProviderError
      <4> QED
        BY <1>0, <4>2, <4>3, <4>4 DEF Calls
    <3>2. CASE ~CanRetry(status, daily, hint)
      BY <1>0, <1>1, <1>3, <2>2, <3>2 DEF ProviderError
    <3> QED
      BY <3>1, <3>2
  <2>3. ASSUME NEW took \in {1, Timeout}, NEW status \in Statuses, OpenAIError(status, took)
        PROVE  call' \in Calls
    BY <1>0, <1>1, <1>2, <1>3, <2>3 DEF OpenAIError
  <2>4. CASE NotConfigured
    BY <1>1, <1>3, <2>4 DEF NotConfigured
  <2>5. ASSUME NEW took \in {1, Timeout}, NEW hint \in Hints, SdkRetries(hint, took)
        PROVE  call' \in Calls
    <3>1. SdkDelay(hint) \in Nat
      BY <1>0, SdkDelayType
    <3>2. /\ call.attempt + 1 \in 0..MaxRetries /\ call.waited + SdkDelay(hint) \in Nat
          /\ call.elapsed + took + SdkDelay(hint) \in Nat
      BY <1>0, <1>3, <2>5, <3>1 DEF SdkRetries, Calls
    <3>3. call' = [call EXCEPT !.attempt = @ + 1, !.waited = @ + SdkDelay(hint),
                               !.elapsed = @ + took + SdkDelay(hint)]
      BY <2>5 DEF SdkRetries
    <3> QED
      BY <1>0, <3>2, <3>3 DEF Calls
  <2> QED
    BY <1>8, <2>1, <2>2, <2>3, <2>4, <2>5 DEF Struggle, EvaluatorFails
<1> QED
  BY <1>5, <1>6, <1>7, <1>8 DEF Next

\* Only scoring and unusable audio touch the answers, while the level is open.
LEMMA AnswersChange ==
    ASSUME [Next]_vars
    PROVE  \/ UNCHANGED <<main, followUp, verdict, repeated>>
           \/ (Silence \/ Score) /\ Unusable
           \/ /\ Score /\ repeated' = FALSE
              /\ \E output \in Answered, rule \in Rules :
                    /\ ScoreOutput(output, rule).decision # "invalid_audio"
                    /\ Judge(ScoreOutput(output, rule))
<1>1. CASE Silence
  BY <1>1 DEF Silence
<1>2. CASE Score
  <2>1. PICK output \in Answered, rule \in Rules :
           IF ScoreOutput(output, rule).decision = "invalid_audio"
           THEN Unusable
           ELSE Judge(ScoreOutput(output, rule)) /\ repeated' = FALSE
    BY <1>2 DEF Score
  <2> QED
    BY <1>2, <2>1
<1>3. CASE Submit \/ Reply \/ Struggle \/ Outage \/ UNCHANGED vars
  BY <1>3 DEF Submit, Reply, Struggle, Outage, vars, stageVars
<1> QED
  BY <1>1, <1>2, <1>3 DEF Next

LEMMA TypeStep ==
    ASSUME TypeOK, [Next]_vars
    PROVE  TypeOK'
<1>1. call' \in Calls
  BY CallType
<1>2. provider' = provider
  BY DEF Next, vars, evaluatorVars, Silence, Submit, Reply, Replied, Score, Struggle, EvaluatorFails,
         Outage, Malformed, ProviderError, SdkRetries, OpenAIError, NotConfigured
<1>3. failures' \in 0..MaxFailures
  <2>1. CASE Outage
    BY <2>1, StageEvaluationAssumption DEF Outage, TypeOK
  <2>2. CASE ~Outage
    BY <2>2 DEF TypeOK, Next, vars, stageVars, Silence, Submit, Reply, Score, Struggle
  <2> QED
    BY <2>1, <2>2
<1>4. /\ main' = NoAnswer \/ main' \in ScoredAnswers
      /\ followUp' = NoAnswer \/ followUp' \in ScoredAnswers
      /\ verdict' \in {"open", "stopped", "pass", "tie_breaker", "fail"}
      /\ repeated' \in BOOLEAN
  <2>1. CASE UNCHANGED <<main, followUp, verdict, repeated>>
    BY <2>1 DEF TypeOK
  <2>2. CASE Unusable
    BY <2>2 DEF TypeOK, Unusable
  <2>3. ASSUME NEW output \in Answered, NEW rule \in Rules, repeated' = FALSE,
               ScoreOutput(output, rule).decision # "invalid_audio",
               Judge(ScoreOutput(output, rule))
        PROVE  /\ main' = NoAnswer \/ main' \in ScoredAnswers
               /\ followUp' = NoAnswer \/ followUp' \in ScoredAnswers
               /\ verdict' \in {"open", "stopped", "pass", "tie_breaker", "fail"}
               /\ repeated' \in BOOLEAN
    <3>1. ScoreOutput(output, rule) \in ScoredAnswers
      BY <2>3, AnsweredType, ScoringGrades DEF Graded
    <3> QED
      BY <2>3, <3>1, VerdictType DEF TypeOK, Judge
  <2> QED
    BY <2>1, <2>2, <2>3, AnswersChange
<1> QED
  BY <1>1, <1>2, <1>3, <1>4 DEF TypeOK, EvaluatorTypeOK

-----------------------------------------------------------------------------
(* The verdict and the answers it rests on. *)

LEMMA OpenStep ==
    ASSUME AskedWhileOpen, [Next]_vars
    PROVE  AskedWhileOpen'
<1>1. CASE Silence
  BY <1>1 DEF Silence, AskedWhileOpen, evaluatorVars
<1>2. CASE Submit
  BY <1>2 DEF Submit, AskedWhileOpen, stageVars
<1>3. CASE Reply
  BY <1>3 DEF Reply, Replied, AskedWhileOpen, stageVars
<1>4. CASE Score \/ Outage
  BY <1>4 DEF Score, Outage, Idle, AskedWhileOpen
<1>5. CASE Struggle
  <2>1. call.phase = "asking" /\ verdict' = verdict
    BY <1>5 DEF Struggle, stageVars, EvaluatorFails, Malformed, ProviderError, SdkRetries,
                OpenAIError, NotConfigured, Asking
  <2> QED
    BY <2>1 DEF AskedWhileOpen
<1>6. CASE UNCHANGED vars
  BY <1>6 DEF vars, evaluatorVars, stageVars, AskedWhileOpen
<1> QED
  BY <1>1, <1>2, <1>3, <1>4, <1>5, <1>6 DEF Next

LEMMA KeptStep ==
    ASSUME TypeOK, Kept, AskedWhileOpen, [Next]_vars
    PROVE  Kept'
<1>1. CASE UNCHANGED <<main, followUp, verdict, repeated>>
  BY <1>1 DEF Kept
<1>2. CASE Silence \/ Score
  <2>1. followUp = NoAnswer
    <3>1. verdict = "open"
      BY <1>2 DEF Silence, Score, AskedWhileOpen
    <3> QED
      BY <3>1, VerdictType DEF Kept
  <2>2. CASE Unusable
    BY <2>1, <2>2 DEF Kept, Unusable
  <2>3. ASSUME NEW output \in Answered, NEW rule \in Rules,
               ScoreOutput(output, rule).decision # "invalid_audio",
               Judge(ScoreOutput(output, rule))
        PROVE  Kept'
    <3>1. Graded(ScoreOutput(output, rule))
      BY <2>3, AnsweredType, ScoringGrades
    <3>2. CASE main = NoAnswer
      BY <2>1, <2>3, <3>1, <3>2 DEF Judge, Kept
    <3>3. CASE main # NoAnswer
      BY <2>3, <3>1, <3>3 DEF Judge, Kept
    <3> QED
      BY <3>2, <3>3
  <2> QED
    BY <1>2, <1>1, <2>2, <2>3, AnswersChange
<1> QED
  BY <1>1, <1>2, AnswersChange

-----------------------------------------------------------------------------
(* What a call of evaluate costs. *)

LEMMA RoundType ==
    ASSUME NEW p
    PROVE  /\ Timeout \in Nat /\ MaxWait \in Nat /\ MaxRetries \in Nat /\ SdkWait \in Nat
           /\ Waits(p) \in Nat /\ Round(p) \in Nat
           /\ Round(p) = MaxRetries * Timeout + Timeout + Waits(p)
<1>1. Timeout \in Nat /\ MaxWait \in Nat /\ MaxRetries \in Nat /\ SdkWait \in Nat
  BY RubricEvaluatorAssumption
<1>2. MaxRetries * Timeout \in Nat /\ MaxRetries * SdkWait \in Nat
  BY <1>1
<1>3. (MaxRetries + 1) * Timeout = MaxRetries * Timeout + Timeout
  BY <1>1
<1>4. Waits(p) \in Nat
  BY <1>1, <1>2 DEF Waits
<1> QED
  BY <1>1, <1>2, <1>3, <1>4 DEF Round

LEMMA CallFields ==
    ASSUME TypeOK
    PROVE  /\ call.attempt \in 0..MaxRetries /\ call.waited \in Nat /\ call.elapsed \in Nat
           /\ call.validation \in 1..2 /\ call \in Calls
BY DEF TypeOK, EvaluatorTypeOK, Calls

\* Within a round there is always room for the attempt in progress.
LEMMA RoomForAttempt ==
    ASSUME TypeOK, Spent, Retrying
    PROVE  call.elapsed + Timeout <= call.validation * Round(provider)
<1>1. /\ call.attempt \in 0..MaxRetries /\ call.waited \in Nat /\ call.elapsed \in Nat
      /\ call.validation \in 1..2
  BY CallFields
<1>2. call.attempt * Timeout <= MaxRetries * Timeout
  BY <1>1, RoundType
<1>3. call.attempt * SdkWait <= MaxRetries * SdkWait
  BY <1>1, RoundType
<1>4. /\ call.attempt * Timeout \in Nat /\ MaxRetries * Timeout \in Nat
      /\ call.attempt * SdkWait \in Nat /\ MaxRetries * SdkWait \in Nat
  BY <1>1, RoundType
<1>5. call.waited <= Waits(provider)
  BY <1>1, <1>3, <1>4, RoundType DEF Spent, Waits
<1>6. /\ call.elapsed <=
            (call.validation - 1) * Round(provider) + call.attempt * Timeout + call.waited
  BY DEF Spent
<1>7. CASE call.validation = 1
  BY <1>1, <1>2, <1>4, <1>5, <1>6, <1>7, RoundType
<1>8. CASE call.validation = 2
  BY <1>1, <1>2, <1>4, <1>5, <1>6, <1>8, RoundType
<1> QED
  BY <1>1, <1>7, <1>8

LEMMA SpentStep ==
    ASSUME TypeOK, Spent, [Next]_vars
    PROVE  Spent'
<1>0. /\ call.attempt \in 0..MaxRetries /\ call.waited \in Nat /\ call.elapsed \in Nat
      /\ call.validation \in 1..2 /\ call \in Calls
  BY CallFields
<1>p. provider' = provider
  BY DEF Next, vars, evaluatorVars, Silence, Submit, Reply, Replied, Score, Struggle, EvaluatorFails,
         Outage, Malformed, ProviderError, SdkRetries, OpenAIError, NotConfigured
<1>r. Round(provider)' = Round(provider)
  BY <1>p DEF Round, Waits
<1>1. 0 <= 2 * Round(provider)
  BY RoundType
<1>2. CASE Silence \/ UNCHANGED vars
  <2>1. call' = call
    BY <1>2 DEF Silence, vars, evaluatorVars
  <2> QED
    BY <1>p, <1>r, <2>1 DEF Spent, Retrying, Asking
<1>3. CASE Submit
  <2>1. call' = [phase |-> "asking", validation |-> 1, attempt |-> 0, waited |-> 0, elapsed |-> 0]
    BY <1>3 DEF Submit, Ask, Idle
  <2>2. 0 <= (1 - 1) * Round(provider) + 0 * Timeout + 0 /\ 0 <= 0 * SdkWait /\ 0 <= MaxWait
    BY RoundType
  <2> QED
    BY <1>p, <1>r, <2>1, <2>2 DEF Spent, Retrying, Asking
<1>4. CASE Reply \/ Score \/ Outage
  <2>1. call'.phase # "asking" /\ call'.elapsed = 0
    BY <1>4 DEF Reply, Replied, Score, Outage, Idle
  <2> QED
    BY <1>1, <1>r, <2>1 DEF Spent, Retrying, Asking
<1>5. ASSUME NEW e \in Nat, e <= 2 * Round(provider), GiveUp(e)
      PROVE  Spent'
  <2>1. call'.phase = "unavailable" /\ call'.elapsed = e
    BY <1>5 DEF GiveUp, Idle
  <2> QED
    BY <1>5, <1>r, <2>1 DEF Spent, Retrying, Asking
<1>t. ASSUME NEW took \in {1, Timeout}
      PROVE  took \in Nat /\ took <= Timeout
  BY RubricEvaluatorAssumption
\* The client gives up.
<1>6. ASSUME NEW took \in {1, Timeout}, Retrying, GiveUp(call.elapsed + took)
      PROVE  Spent'
  <2>1. call.elapsed + took <= 2 * Round(provider) /\ call.elapsed + took \in Nat
    BY <1>0, <1>6, <1>t, RoomForAttempt, RoundType
  <2> QED
    BY <1>5, <1>6, <2>1
\* The form is asked for once more.
<1>7. ASSUME NEW took \in {1, Timeout}, Retrying, AskForm(call.elapsed + took)
      PROVE  Spent'
  <2>1. CASE call.validation = 1
    <3>1. call' = [call EXCEPT !.validation = 2, !.attempt = 0, !.waited = 0,
                               !.elapsed = call.elapsed + took]
      BY <1>7, <2>1 DEF AskForm
    <3>2. /\ call'.phase = "asking" /\ call'.validation = 2 /\ call'.attempt = 0
          /\ call'.waited = 0 /\ call'.elapsed = call.elapsed + took
      BY <1>0, <1>7, <3>1 DEF Calls, Retrying, Asking
    <3>3. /\ call.elapsed + took <= (2 - 1) * Round(provider) + 0 * Timeout + 0
          /\ 0 <= 0 * SdkWait /\ 0 <= MaxWait
      BY <1>0, <1>7, <1>t, <2>1, RoomForAttempt, RoundType
    <3> QED
      BY <1>7, <1>p, <1>r, <3>2, <3>3 DEF Spent, Retrying, Asking
  <2>2. CASE call.validation # 1
    BY <1>6, <1>7, <2>2 DEF AskForm
  <2> QED
    BY <2>1, <2>2
\* Another attempt after a wait.
<1>8. ASSUME NEW took \in {1, Timeout}, NEW d \in Nat, Retrying,
             IF provider = "openai" THEN d <= SdkWait ELSE call.waited + d <= MaxWait,
             call' = [call EXCEPT !.attempt = @ + 1, !.waited = @ + d, !.elapsed = @ + took + d]
      PROVE  Spent'
  <2>1. /\ call'.phase = "asking" /\ call'.validation = call.validation
        /\ call'.attempt = call.attempt + 1 /\ call'.waited = call.waited + d
        /\ call'.elapsed = call.elapsed + took + d
    BY <1>0, <1>8 DEF Calls, Retrying, Asking
  <2>2. /\ (call.attempt + 1) * Timeout = call.attempt * Timeout + Timeout
        /\ (call.attempt + 1) * SdkWait = call.attempt * SdkWait + SdkWait
    BY <1>0, RoundType
  <2>3. /\ (call.validation - 1) * Round(provider) \in Int
        /\ call.attempt * Timeout \in Int /\ call.attempt * SdkWait \in Int
    BY <1>0, RoundType
  <2>4. /\ call.elapsed <=
              (call.validation - 1) * Round(provider) + call.attempt * Timeout + call.waited
        /\ call.waited <= (IF provider = "openai" THEN call.attempt * SdkWait ELSE MaxWait)
    BY <1>8 DEF Spent
  <2>5. call.elapsed + took + d
           <= (call.validation - 1) * Round(provider) + (call.attempt + 1) * Timeout
                 + (call.waited + d)
    BY <1>0, <1>8, <1>t, <2>2, <2>3, <2>4, RoundType
  <2>6. call.waited + d <=
           (IF provider = "openai" THEN (call.attempt + 1) * SdkWait ELSE MaxWait)
    BY <1>0, <1>8, <2>2, <2>3, <2>4, RoundType
  <2> QED
    BY <1>8, <1>p, <1>r, <2>1, <2>5, <2>6 DEF Spent, Retrying, Asking
<1>9. ASSUME NEW took \in {1, Timeout}, Malformed(took)
      PROVE  Spent'
  BY <1>7, <1>9 DEF Malformed, Retrying
<1>10. ASSUME NEW took \in {1, Timeout}, NEW status \in Statuses, OpenAIError(status, took)
       PROVE  Spent'
  BY <1>6, <1>7, <1>10 DEF OpenAIError, Retrying
<1>11. ASSUME NEW took \in {1, Timeout}, NEW status \in Statuses, NEW daily \in BOOLEAN,
              NEW hint \in Hints, ProviderError(status, daily, hint, took)
       PROVE  Spent'
  <2>1. Retrying /\ provider # "openai"
    BY <1>11 DEF ProviderError, Retrying, Asking
  <2>2. CASE CanRetry(status, daily, hint)
    <3>1. Delay(hint) \in Nat
      BY <1>0, DelayType
    <3>2. /\ call' = [call EXCEPT !.attempt = @ + 1, !.waited = @ + Delay(hint),
                                  !.elapsed = @ + took + Delay(hint)]
          /\ call.waited + Delay(hint) <= MaxWait
      BY <1>11, <2>2 DEF ProviderError, CanRetry
    <3> QED
      BY <1>8, <2>1, <3>1, <3>2
  <2>3. CASE ~CanRetry(status, daily, hint)
    BY <1>6, <1>11, <2>1, <2>3 DEF ProviderError
  <2> QED
    BY <2>2, <2>3
<1>12. ASSUME NEW took \in {1, Timeout}, NEW hint \in Hints, SdkRetries(hint, took)
       PROVE  Spent'
  <2>1. /\ Retrying /\ provider = "openai"
        /\ call' = [call EXCEPT !.attempt = @ + 1, !.waited = @ + SdkDelay(hint),
                                !.elapsed = @ + took + SdkDelay(hint)]
    BY <1>12 DEF SdkRetries, Retrying, Asking
  <2>2. SdkDelay(hint) \in Nat /\ SdkDelay(hint) <= SdkWait
    BY <1>0, SdkDelayType
  <2> QED
    BY <1>8, <2>1, <2>2
<1>13. CASE NotConfigured
  <2>1. GiveUp(0)
    BY <1>13 DEF NotConfigured, Retrying, Asking, Spent
  <2> QED
    BY <1>1, <1>5, <2>1
<1> QED
  BY <1>2, <1>3, <1>4, <1>9, <1>10, <1>11, <1>12, <1>13 DEF Next, Struggle, EvaluatorFails

LEMMA Initially == Init => IInv
<1> SUFFICES ASSUME Init
             PROVE  IInv
  OBVIOUS
<1>1. call = Idle /\ Idle \in Calls /\ Idle.phase = "idle" /\ Idle.elapsed = 0
  <2>1. 1 \in 1..2 /\ 0 \in 0..MaxRetries /\ 0 \in Nat
    BY RubricEvaluatorAssumption
  <2> QED
    BY <2>1 DEF Init, EvaluatorInit, Idle, Calls
<1>2. TypeOK
  <2>1. 0 \in 0..MaxFailures
    BY StageEvaluationAssumption
  <2> QED
    BY <1>1, <2>1 DEF Init, EvaluatorInit, TypeOK, EvaluatorTypeOK
<1>3. Kept /\ AskedWhileOpen
  BY <1>1 DEF Init, Kept, AskedWhileOpen
<1>4. Spent
  <2>1. 0 <= 2 * Round(provider)
    BY RoundType
  <2> QED
    BY <1>1, <2>1 DEF Spent, Retrying, Asking
<1> QED
  BY <1>2, <1>3, <1>4 DEF IInv

\* What the judgement of a level keeps true, whatever the evaluator does.
THEOREM EvaluationInvariant == Spec => []IInv
<1>1. IInv /\ [Next]_vars => IInv'
  BY TypeStep, KeptStep, OpenStep, SpentStep DEF IInv
<1> QED
  BY Initially, <1>1, PTL DEF Spec

-----------------------------------------------------------------------------
(***************************************************************************)
(* The theorems.                                                           *)
(***************************************************************************)

\* Every value has its type: no call is tried more often than it may be, and a
\* call waits and lasts for whole numbers of seconds; a verdict is one of decide_stage_evidence.
THEOREM EvaluationTypeCorrect == Spec => []TypeOK
BY EvaluationInvariant, PTL DEF IInv

\* The two rounds of evaluate, each with all its attempts and waits, bound what
\* an answer may cost, whatever the provider asks for: of the Gemini client all
\* the waits together, of the SDK of OpenAI each one.
THEOREM BudgetIsKept == Spec => []AnsweredWithinBudget
<1>1. IInv => AnsweredWithinBudget
  <2> SUFFICES ASSUME IInv
               PROVE  AnsweredWithinBudget
    OBVIOUS
  <2>0. /\ call.elapsed \in Nat /\ call.validation \in 1..2
        /\ Round(provider) \in Nat /\ Timeout \in Nat
    BY RoundType, CallFields DEF IInv
  <2>1. CASE Retrying
    <3>1. call.elapsed + Timeout <= call.validation * Round(provider)
      BY <2>1, RoomForAttempt DEF IInv
    <3>2. call.elapsed + Timeout <= 2 * Round(provider)
      BY <2>0, <3>1
    <3> QED
      BY <2>1, <3>2 DEF AnsweredWithinBudget, Retrying
  <2>2. CASE ~Retrying
    <3>1. call.elapsed <= 2 * Round(provider)
      <4>1. CASE call.phase = "asking"
        BY <2>0, <2>2, <4>1 DEF IInv, Spent
      <4>2. CASE call.phase # "asking"
        BY <4>2 DEF IInv, Spent
      <4> QED
        BY <4>1, <4>2
    <3>2. call.elapsed + 0 = call.elapsed
      BY <2>0
    <3> QED
      BY <2>2, <3>1, <3>2 DEF AnsweredWithinBudget, Retrying
  <2> QED
    BY <2>1, <2>2
<1> QED
  BY <1>1, EvaluationInvariant, PTL

\* A level is passed exactly on averaged evidence, and the verdict is one that
\* the ladder provides for, whatever the marks.
THEOREM VerdictIsEarned == Spec => []VerdictSound
<1>1. IInv => VerdictSound
  <2> SUFFICES ASSUME IInv, Judged
               PROVE  VerdictSound
    BY DEF VerdictSound, PassIsEarned, LadderAllows
  <2>1. Graded(main) /\ Graded(followUp) /\ verdict = DecideStage(main, followUp)
    BY DEF IInv, Kept, Judged
  <2>2. LadderAllows
    BY <2>1, VerdictIsOfLadder DEF LadderAllows
  <2>3. /\ main.weighted \in Int /\ followUp.weighted \in Int
        /\ main.scores.task \in Int /\ followUp.scores.task \in Int
        /\ main.scores.interaction \in Int /\ followUp.scores.interaction \in Int
        /\ main.scores.intelligibility \in Int /\ followUp.scores.intelligibility \in Int
    BY <2>1, DecisionMeans DEF Scores, Marks
  <2>4. 10 * (main.weighted + followUp.weighted) >= 2 * 28 * 20
           <=> main.weighted + followUp.weighted >= 112
    BY <2>3
  <2>5. AverageSuffices(main, followUp) <=>
           /\ \A a \in {main, followUp} : a.relevant /\ a.achieved /\ ~a.blocked
           /\ main.weighted + followUp.weighted >= 112
           /\ main.scores.task + followUp.scores.task >= 6
           /\ main.scores.interaction + followUp.scores.interaction >= 6
           /\ main.scores.intelligibility + followUp.scores.intelligibility >= 4
    BY DEF AverageSuffices, Usable, PassMark, CriticalMet
  <2>6. verdict = "pass" <=> AverageSuffices(main, followUp)
    BY <2>1, PassesByAverage
  <2>7. PassIsEarned
    BY <2>4, <2>5, <2>6 DEF PassIsEarned
  <2> QED
    BY <2>2, <2>7 DEF VerdictSound
<1> QED
  BY <1>1, EvaluationInvariant, PTL

\* A higher mark in any dimension of either answer never makes the verdict
\* worse.
THEOREM BetterIsNeverWorse == Spec => []BetterNeverHurts
<1>1. IInv => BetterNeverHurts
  <2> SUFFICES ASSUME IInv, Judged, NEW d \in Dimensions
               PROVE  /\ main.scores[d] < 4 =>
                            Rank[DecideStage(Improved(main, d), followUp)] >= Rank[verdict]
                      /\ followUp.scores[d] < 4 =>
                            Rank[DecideStage(main, Improved(followUp, d))] >= Rank[verdict]
    BY DEF BetterNeverHurts
  <2>1. Graded(main) /\ Graded(followUp) /\ verdict = DecideStage(main, followUp)
    BY DEF IInv, Kept, Judged
  <2> QED
    BY <2>1, HigherMark, BetterVerdict
<1> QED
  BY <1>1, EvaluationInvariant, PTL
=============================================================================
