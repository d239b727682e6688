SPECIFICATION Spec
CONSTANTS
  MAX_SKIPS = 2
  StiffSitSteps = 1
  SoftSitSteps = 1
  AgentMayStop = TRUE
  AgentMayStart = TRUE
INVARIANT TypeOK
INVARIANT LostNeedsStand
PROPERTY ContactRecent
PROPERTY StiffenServed
