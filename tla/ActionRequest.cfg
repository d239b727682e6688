SPECIFICATION Spec
CONSTANTS
  Readers = {motion, team}
  MAX_REQUESTS = 4
  MAX_CONFIGS = 2
INVARIANT TypeOK
INVARIANT ShownWhole
INVARIANT WrongNeedsLap
PROPERTY ImplementsRegister
