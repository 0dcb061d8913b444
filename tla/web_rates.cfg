CONSTANTS
  Nodes = {1, 2}
  Satellites = {sat1, sat2}
  Window = 2
  MaxGap = 1
  MaxPause = 1
  Starts <- MCStarts
SPECIFICATION Spec
CHECK_DEADLOCK FALSE
INVARIANTS
  TypeOK
  RateIsHonest
  SamplesAreContiguous
  IncreaseIsHonest
