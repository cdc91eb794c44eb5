CONSTANTS
  NULL = NULL
  Page = {p1, p2, p3}
  Alloc <- MCAlloc
  EntryCount <- MCEntryCount
  BSQ_COLLECTION_THRESHOLD = 2
SPECIFICATION Spec
SYMMETRY Symmetry
INVARIANTS
  PagesTypeOK
  
  DeleteFindsPage
  FreelistsInStep
  YoungPagesAreCollected
  CollectsInTime
PROPERTY
  HandsOutRoom
