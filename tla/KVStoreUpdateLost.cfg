SPECIFICATION Spec
CONSTANTS
  INVALID_VALUE = 7
  TOMB_STONE = 6
  MAX_KEYS = 2
  Keys = {1, 2}
  Values = {4, 5}
  memtable_size = 2
  MaxLevels = 2
  ReuseDeleted = TRUE
PROPERTIES
  CompactionPrefersNew
