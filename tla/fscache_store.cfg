CONSTANTS
  Fibers = {f1}
  NumBlocks = 3
  BlockSize = 2
  WordSize = 2
  PageBlocks = 2
  Bit = {b1}
  CacheSize = 2
  CountMod = 2
  MaxLen = 2
  MaxCount = 1
  Serialised = TRUE
  FlashFails = FALSE
SPECIFICATION Spec
INVARIANTS OneCopy Coherent
PROPERTIES ImplementsStore
