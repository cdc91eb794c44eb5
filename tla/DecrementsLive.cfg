CONSTANTS
  NULL = NULL
  Obj <- MCObj
  Page <- MCPage
  PageOf <- MCPageOf
  RootCount = 2
  max_decrement_count = 1
  RefModulus = 16
  PendingModulus = 8
SPECIFICATION MCAnySpec
INVARIANT
  NoLiveObjectFreed
