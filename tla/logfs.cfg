CONSTANTS
  Val = {"a"}
  PageSize = 4
  BlockSize = 2
  DataPages = 3
  JournalPages = 2
  PageEntries = 2
  MaxString = 5
SPECIFICATION Spec
INVARIANTS JournalBehindData WritesLand RecoversEnd
PROPERTY AppendOnly
