SPECIFICATION RestrictedSpec
CONSTANTS
  PageWords = 28
  AllocSizes = {1, 2, 3}
  CanarySizes = {0, 2}
INVARIANTS
  ScanFindsTheObject
  FreelistIntact
  
