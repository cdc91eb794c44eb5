CONSTANTS
  a1 = a1  a2 = a2  a3 = a3  a4 = a4
  NULL = NULL
  Obj <- MCObj
  Page <- MCPage
  PageOf <- MCPageOf
  max_decrement_count = 1
  RefModulus = 16
  MaxSlots = 2
  MaxObjects = 4
SYMMETRY Symmetry
SPECIFICATION RebuildSpec
INVARIANT
  HeldStaysAllocated
CHECK_DEADLOCK FALSE
