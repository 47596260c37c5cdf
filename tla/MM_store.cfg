CONSTANTS
  t1 = t1
  t2 = t2
  arriver = arriver
  c1 = c1
  c2 = c2
  v1 = v1
  v2 = v2
  None = None
  Threads = {t1, t2}
  Arriver = arriver
  Chunks = {c1, c2}
  Vals = {v1, v2}
  Size <- SameSize
  MemMax = 10
  Limits = {3, 5, 10}
  SwapSize = 10
  OutOfSwapIsFatal = FALSE
  PreemptiveUnloading = FALSE
  Prefetch = FALSE
  FreeWhileLoading = FALSE
SPECIFICATION Spec
SYMMETRY Symmetry
INVARIANTS CopyCoherent
PROPERTIES LimitKept StoreImplemented
