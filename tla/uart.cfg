CONSTANTS
  f1 = f1
  f2 = f2
  Fibers = {f1, f2}
  RxSize = 3
  TxSize = 3
  AttrSize = 2
  Wrap = 4
  MaxPacket = 2
  MaxLen = 2
  Scenarios <- AllScenarios
SPECIFICATION FairSpec
INVARIANTS RxExact TxExact
PROPERTY TxDrains
