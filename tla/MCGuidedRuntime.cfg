SPECIFICATION RuntimeSpec
CONSTANTS
  c1 = c1
  c2 = c2
  p1 = p1
  voice = voice
  Commands = {c1}
  Prompts = {p1}
  Voice = voice
  Consent = FALSE
  Patient = FALSE
  NumTurns = 2
  MaxFailures = 0
  MaxLost = 1
  MaxRejoins = 0
  MaxSpeech = 1
INVARIANT
  WorkerAgrees
PROPERTY
  RefinesLifecycle
\* a closed room, and a learner who has gone, may stay as they are
CHECK_DEADLOCK FALSE
