CONSTANTS
  t1 = t1
  t2 = t2
  arriver = arriver
  c1 = c1
  c2 = c2
  c3 = c3
  v1 = v1
  None = None
  Threads = {t1, t2}
  Arriver = arriver
  Chunks = {c1, c2, c3}
  Vals = {v1}
  Size <- SameSize
  MemMax = 10
  Limits = {}
  SwapSize = 12
  OutOfSwapIsFatal = TRUE
  PreemptiveUnloading = TRUE
  Prefetch = FALSE
  FreeWhileLoading = FALSE
SPECIFICATION Spec
SYMMETRY Symmetry
INVARIANTS TypeOK Accounting SwapBounded LimitRespected UseProtects UseCntExact NeverStuck
