CONSTANTS
  t1 = t1
  t2 = t2
  h1 = h1
  s1 = s1
  s2 = s2
  s3 = s3
  NULL = NULL
  Threads = {t1, t2}
  Huge = {h1}
  Large = {}
  Small = {s1, s2, s3}
  Chunks = {h1, s1, s2, s3}
  Size <- Sizes
  MemMax = 22
  SwapSize = 80
  Modes <- PlainOrDummy
  MaxUses = 1
SPECIFICATION Spec
SYMMETRY Symmetry
CONSTRAINT Followed
INVARIANTS TypeOK RingIntact BorderTracked GuessesTogether GuessesBounded EvictsAllItCan
