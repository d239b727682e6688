SPECIFICATION FairSpec
CONSTANTS
  MAX_CLICK_INTERVAL = 1
  MAX_HOLD = 1
  MAX_CLICKS = 2
  MAX_PRESSES = 2
INVARIANT TypeOK
INVARIANT RepeatNeedsRace
PROPERTY Delivered
