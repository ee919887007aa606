SPECIFICATION FairSpec
CONSTANTS
  Kinds = {"receiver"}
  MaxItems = 1
  Caps = {1}
  Breaks = FALSE
CHECK_DEADLOCK FALSE
PROPERTY EndSeen
