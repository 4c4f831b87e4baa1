SPECIFICATION Spec
CONSTANTS
  Providers = {"gemini", "openai", "heuristic", "unavailable"}
  MaxRetries = 2
  MaxWait = 6
  Timeout = 4
  SdkWait = 8
  Hints <- MCHints
  Outputs <- MCOutputs
  Rules <- MCRules
  MaxFailures = 1
INVARIANTS
  TypeOK
  AnsweredWithinBudget
  VerdictSound
  BetterNeverHurts
\* the judgement of a level ends
CHECK_DEADLOCK FALSE
