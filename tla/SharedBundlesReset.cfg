SPECIFICATION Spec
CONSTANT MAX_OBS = 1
PROPERTY ResetAfterBroadcast
