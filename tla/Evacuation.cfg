CONSTANTS
  NULL = NULL
  MAX_FWD_INDEX = MAX_FWD_INDEX
  Obj <- MCObj
  Word <- MCObj
  InPageTable <- MCObj
  InHeader = {}
  EntryOf <- MCEntryOf
SPECIFICATION MCNoShortcutSpec
INVARIANTS
  EvacTypeOK
  ProgramSeesSameGraph
  RefCountsExact
