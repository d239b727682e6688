SPECIFICATION Spec
CONSTANTS
  MAX_SKIPS = 1
  StiffSitSteps = 1
  SoftSitSteps = 1
  AgentMayStop = FALSE
  AgentMayStart = FALSE
PROPERTY LimpWasAsked
