CONSTANTS
  t1 = t1
  t2 = t2
  p1 = p1
  p2 = p2
  p3 = p3
  g1 = g1
  g2 = g2
  g3 = g3
  c1 = c1
  c2 = c2
  NULL = NULL
  None = None
  Threads = {t1, t2}
  Ptrs = {p1, p2, p3}
  Glues = {g1, g2, g3}
  Chunks = {c1, c2}
  Classes = {c1}
  SharedGlue = FALSE
SPECIFICATION Spec
SYMMETRY Symmetry
INVARIANTS TypeOK TrackerExact UseExact PointersHold DeletedOnce
