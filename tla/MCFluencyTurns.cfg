SPECIFICATION Spec
CONSTANTS
  Limit = 2
  Window = 1
  MaxTime = 2
  MaxTurns = 2
  Spoken <- MCSpoken
  Earlier <- MCEarlier
  Others <- MCOthers
  MaxTimeouts = 1
  MaxOthers = 1
INVARIANTS
  TypeOK
  WordsCountOnce
  WindowHolds
  AnswersHold
\* every turn may have been submitted and answered
CHECK_DEADLOCK FALSE
