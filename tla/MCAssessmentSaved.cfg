SPECIFICATION FairSpec
CONSTANTS
  NumPrompts = 2
  MaxTurns = 3
  Odd = {}
  MaxFaults = 1
  MaxRefusals = 0
  Threshold = 1
  MayCancel = FALSE
  MaxInterrupts = 1
PROPERTY
  SavedIsSettled
\* the assessment is over, or the learner says no more
CHECK_DEADLOCK FALSE
