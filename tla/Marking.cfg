CONSTANTS
  NULL = NULL
  Obj <- MCObj
  Word <- MCWord
  InPageTable <- MCInPageTable
  InHeader <- MCInHeader
  EntryOf <- MCEntryOf
SPECIFICATION MCSpec
INVARIANTS
  TypeOK
  MarkedExactlyLiveYoung
  RootsExactlyOnce
  MarkedOnce
  TopologicalWithoutShortcut
PROPERTY
  Terminates
