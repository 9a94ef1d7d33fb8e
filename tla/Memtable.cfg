SPECIFICATION MemtableSpec
CONSTANTS
  INVALID_VALUE = 9
  TOMB_STONE = 8
  MAX_KEYS = 2
  MAX_BITMAP_SIZE = 12
  BITS_PER_ENTRY = 5
  MaxFilterEntries = 4
  FilterKeys <- MCKeys
  Hashes <- MCHashes
  StoredValues = {5, 8}
INVARIANTS
  FilterTypeOK
  TreeIsBalanced
  TreeIsMap
  NoFalseNegatives
  FlushedFileAnswers
PROPERTIES
  FlushImplementsFilter
