SPECIFICATION FairSpec
CONSTANT MAX_OBS = 1
INVARIANT TypeOK
INVARIANT DroppedWasLate
PROPERTY TwiceNeedsRace
PROPERTY EverythingLeaves
