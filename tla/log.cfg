CONSTANTS
  f1 = f1
  f2 = f2
  k1 = k1
  k2 = k2
  Fibers = {f1, f2}
  Keys = {k1, k2}
  TimeKey = time
  HeadSize = 2
  AreaSize = 6
  Scenarios <- AllScenarios
SPECIFICATION FairSpec
INVARIANTS TableUntilFull 
PROPERTIES CallsReturnFormatted
CHECK_DEADLOCK FALSE
