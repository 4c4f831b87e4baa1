SPECIFICATION FairSpec
CONSTANTS
  NumTurns = 2
INVARIANTS
  TypeOK
  RecordSound
PROPERTIES
  StepsSound
  SessionEnds
\* a session that has ended stops
CHECK_DEADLOCK FALSE
