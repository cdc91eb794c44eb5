CONSTANTS
  nullptr = nullptr
  PageInfo = {p1, p2, p3, p4, p5}
  Util <- MCUtil
  Bucket <- MCBucket
  BucketOf <- MCBucketOf
SPECIFICATION CarefulSpec
VIEW
  MCView
SYMMETRY
  MCPages
INVARIANTS
  HoldsEveryPageOnce
  
PROPERTY
  ImplementsPageSets
