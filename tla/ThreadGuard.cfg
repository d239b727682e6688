SPECIFICATION FairSpec
CONSTANTS
  Faults = {"SEGV", "FPE"}
  MAX_MISHAPS = 2
INVARIANT TypeOK
INVARIANT LockSound
PROPERTY SurvivesFirst
PROPERTY PerceptionSees
PROPERTY ShutdownEnds
CHECK_DEADLOCK FALSE
