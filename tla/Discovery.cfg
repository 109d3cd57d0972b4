\* Four changes of one extension's directory, one callback at a time.
SPECIFICATION FairSpec
CONSTANTS
  None = None
  Bad = Bad
  Version = {v1, v2}
  Slot = {s1}
  MaxEdits = 4
PROPERTY
  ManifestsFollowed
CHECK_DEADLOCK FALSE
