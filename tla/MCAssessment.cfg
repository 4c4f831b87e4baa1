SPECIFICATION FairSpec
CONSTANTS
  NumLevels = 2
  MaxEvaluatorFailures = 1
INVARIANTS
  TypeOK
  LadderSound
  AnswersSound
PROPERTIES
  EstimateHonest
  AssessmentEnds
\* an assessment that has ended stops
CHECK_DEADLOCK FALSE
