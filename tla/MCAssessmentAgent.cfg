SPECIFICATION FairSpec
CONSTANTS
  NumPrompts = 2
  MaxTurns = 3
  Odd = {2}
  MaxFaults = 3
  MaxRefusals = 1
  Threshold = 1
  MayCancel = TRUE
  MaxInterrupts = 1
INVARIANTS
  TypeOK
  SpokenCounts
  ListensWhenIdle
PROPERTY
  SavedIsScored
\* the assessment is over, or the learner says no more
CHECK_DEADLOCK FALSE
