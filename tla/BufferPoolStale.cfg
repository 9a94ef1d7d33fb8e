SPECIFICATION Spec
CONSTANTS
  Pages = {p1, p2, p3}
  Hashes <- MCAllHashes
  MinDepth = 0
  MaxDepth = 1
  Depths = {0, 1}
  SafeShrink = TRUE
  bucket_max_size = 1
  Copies = 2
  none = none
  MaxSizes = {}
  SafeUse = FALSE
SYMMETRY MCSymmetry
INVARIANTS
  EvictFindsPage
