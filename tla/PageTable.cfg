CONSTANTS
  NULL = NULL
  PAGE_PRESENT = PAGE_PRESENT
  Page <- MCPage
  Thread = {t1, t2}
  Index <- MCIndex
  Levels = 3
  Addr <- MCAddr
SYMMETRY Symmetry
SPECIFICATION MCSpec
INVARIANTS
  TableExact
  QueriesFindInserted
  PoolPagesInOnePlace
  GCPagesInOnePlace
