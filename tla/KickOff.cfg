SPECIFICATION Spec
CONSTANTS
  Robots = {r1, r2, r3, r4}
  MAX_ORIGIN = 1
  MAX_OUT = 1
  Moves = {"READY", "SET", "PLAYING"}
  Faults = {"button", "penalty", "flicker"}
SYMMETRY Symmetry
CONSTRAINT FewStarted
INVARIANT TypeOK
INVARIANT FalseStartContained
