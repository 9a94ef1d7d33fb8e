SPECIFICATION Spec
CONSTANTS
  Pages = {p1, p2, p3, p4}
  Hashes <- MCLopsidedHashes
  MinDepth = 0
  MaxDepth = 2
  Depths = {0, 1, 2}
  SafeShrink = TRUE
  bucket_max_size = 1
  Copies = 2
  none = none
  MaxSizes = {2, 3, 4}
  SafeUse = TRUE
SYMMETRY MCSymmetry
INVARIANTS
  LRUTypeOK
  DoublyLinked
  ListMatchesTable
  PoolBounded
PROPERTIES
  ImplementsPageCache
