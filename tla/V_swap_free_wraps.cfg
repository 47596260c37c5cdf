CONSTANTS
  c1 = c1
  c2 = c2
  c3 = c3
  Chunks = {c1, c2, c3}
  Size <- Sizes
  PageFileSize = 12
  PageFileNumber = 1
  MaxFiles = 2
  Width = 6
  Layouts <- BothLayouts
  Policies = {"fixed", "autoextendable"}
SPECIFICATION Spec
INVARIANTS NothingOverclaimed
