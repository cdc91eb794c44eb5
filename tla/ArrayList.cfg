CONSTANTS
  NULL = NULL
  Page = {p1, p2, p3}
  Value = {u, v}
  Fifo <- MCFifo
  Lifo <- MCLifo
  List <- MCList
  ElemWords <- MCElemWords
  DataWords = 2
  StackElemWords = 1
SPECIFICATION CarefulSpec
INVARIANTS
  
  PagesOwnedOnce
PROPERTY
  ImplementsDeques
SYMMETRY
  MCPages
