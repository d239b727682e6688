SPECIFICATION FairSpec
CONSTANTS
  FRAMES = 3
  SETTLE = 1
  MIN_TICKS = 2
  PICKUP_TICKS = 2
  USE_GETUPS = TRUE
  Wishes = {"STAND", "WALK", "KICK", "GOALIE_DIVE_LEFT"}
INVARIANT TypeOK
INVARIANT PriorityServed
PROPERTY GetupPlayedOut
PROPERTY NoJumpFromDead
PROPERTY SmoothStart
PROPERTY WalkKept
PROPERTY TriesToGetUp
PROPERTY RequestServed
