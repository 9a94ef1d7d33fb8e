SPECIFICATION Spec
CONSTANTS
  INVALID_VALUE = 7
  TOMB_STONE = 6
  MAX_KEYS = 1
  Keys = {0, 1}
  Values = {4, 5}
  memtable_size = 2
  MaxLevels = 3
  ReuseDeleted = FALSE
INVARIANTS
  TypeOK
  GetReturnsNewest
  ScanComplete
  FilesSorted
PROPERTIES
  ImplementsDurableMap
  CallsTakeEffect
