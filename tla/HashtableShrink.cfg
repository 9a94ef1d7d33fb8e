SPECIFICATION HashtableSpec
CONSTANTS
  Pages <- MCPages
  Hashes <- MCHashes
  MinDepth = 0
  MaxDepth = 2
  Depths = {0, 1, 2}
  SafeShrink = FALSE
  bucket_max_size = 1
INVARIANTS
  MovedPagesLive
