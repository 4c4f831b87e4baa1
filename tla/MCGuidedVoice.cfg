SPECIFICATION RuntimeFairSpec
CONSTANTS
  c1 = c1
  c2 = c2
  p1 = p1
  voice = voice
  Commands = {}
  Prompts = {p1}
  Voice = voice
  Consent = TRUE
  Patient = TRUE
  NumTurns = 2
  MaxFailures = 2
  MaxLost = 0
  MaxRejoins = 1
  MaxSpeech = 1
INVARIANT
  ClosingLineSaid
PROPERTIES
  RoomCloses
  TryAgainWorks
\* a closed room, and a learner who has gone, may stay as they are
CHECK_DEADLOCK FALSE
