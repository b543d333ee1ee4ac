\* Two threads, two locations, flat blocks.
SPECIFICATION Spec
CONSTANTS
  Threads = {t1, t2}
  Addrs = {x, y}
  Vals = {1}
  Junk = Junk
  NoVal = NoVal
  InitVal = 0
  IntLimit = 1000
  MaxDepth = 1
  MaxGlb = 2
  RestartIrrevoc = FALSE
SYMMETRY Symmetry
INVARIANTS ReadsAreOneVersion IInv
PROPERTIES ImplementsTM
