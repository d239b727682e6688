SPECIFICATION FairSpec
CONSTANTS
  Robots = {r1, r2, r3}
  MAX_ORIGIN = 1
  MAX_OUT = 0
  Moves = {"SET", "PLAYING"}
  Faults = {}
PROPERTY WhistleSpreads
