SPECIFICATION MergeSpec
CONSTANTS
  INVALID_VALUE = 40
  TOMB_STONE = 39
  MAX_KEYS = 2
  Inputs <- MCInputs
INVARIANTS
  ComesToMergeRuns
  NewestWins
  MergedFileAnswers
PROPERTIES
  MergeEnds
CHECK_DEADLOCK FALSE
