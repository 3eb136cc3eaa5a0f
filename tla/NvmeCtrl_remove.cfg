CONSTANTS
  Ios = {r1}
  Troubles <- OnlyRemoved
  NoActor = NoActor
SPECIFICATION FairSpec
PROPERTY RemoveEnds
CHECK_DEADLOCK FALSE
