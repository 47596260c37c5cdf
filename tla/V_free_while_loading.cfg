CONSTANTS
  t1 = t1
  arriver = arriver
  c1 = c1
  c2 = c2
  v1 = v1
  None = None
  Threads = {t1}
  Arriver = arriver
  Chunks = {c1, c2}
  Vals = {v1}
  Size <- SameSize
  MemMax = 5
  Limits = {}
  SwapSize = 10
  OutOfSwapIsFatal = TRUE
  PreemptiveUnloading = FALSE
  Prefetch = TRUE
  FreeWhileLoading = TRUE
SPECIFICATION Spec
SYMMETRY Symmetry
INVARIANTS Accounting
