CONSTANTS
  Ios = {r1}
  Troubles <- All
  NoActor = NoActor
SPECIFICATION FairSpec
INVARIANTS TypeOK FreezeBalanced SetupNotReset LiveIsUp
PROPERTIES ResetEnds RequestsEnd
CHECK_DEADLOCK FALSE
