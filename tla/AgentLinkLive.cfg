SPECIFICATION FairSpec
CONSTANTS
  MAX_SKIPS = 0
  StiffSitSteps = 1
  SoftSitSteps = 1
  AgentMayStop = TRUE
  AgentMayStart = FALSE
PROPERTY GoneMeansLimp
PROPERTY SitEnds
PROPERTY SigtermEnds
