CONSTANTS
  t1 = t1
  l1 = l1
  l2 = l2
  s1 = s1
  s2 = s2
  NULL = NULL
  Threads = {t1}
  Huge = {}
  Large = {l1, l2}
  Small = {s1, s2}
  Chunks = {l1, l2, s1, s2}
  Size <- Sizes
  MemMax = 22
  SwapSize = 80
  Modes <- FileSwapGuesses
  MaxUses = 1
SPECIFICATION Spec
SYMMETRY Symmetry
CONSTRAINT NoneDeleted
INVARIANTS AllElementsAccessed
