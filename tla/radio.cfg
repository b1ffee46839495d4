CONSTANTS
  RxBuffers = 2
  Scenarios <- AllScenarios
SPECIFICATION FairSpec
INVARIANTS BuffersOwned  
PROPERTIES WakesAsItSlept CallsReturn
