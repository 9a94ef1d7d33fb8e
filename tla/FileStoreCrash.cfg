SPECIFICATION FileSpec
CONSTANTS
  INVALID_VALUE = 7
  TOMB_STONE = 6
  MAX_KEYS = 1
  Keys = {0, 1}
  Values = {5}
  memtable_size = 1
  MaxLevels = 3
  ReuseDeleted = FALSE
  NoPage = NoPage
PROPERTIES
  CrashRecovers
