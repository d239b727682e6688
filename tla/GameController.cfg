SPECIFICATION FairSpec
CONSTANTS
  MAX_POLLS = 1
  Sides = {"RED"}
  MayRestart = TRUE
INVARIANT TypeOK
INVARIANT PenaltyObeyed
INVARIANT PenaltyHasCause
INVARIANT PlayNeedsLicence
PROPERTY EarlyStartKept
PROPERTY RefereeObeyed
