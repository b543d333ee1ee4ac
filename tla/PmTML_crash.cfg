\* Two threads, two locations, nested blocks, a crash anywhere.
SPECIFICATION Spec
CONSTANTS
  Threads = {t1, t2}
  Addrs = {x, y}
  Vals = {1}
  Junk = Junk
  NoVal = NoVal
  InitVal = 0
  MaxDepth = 2
  MaxGlb = 3
  MaxCrashes = 1
SYMMETRY Symmetry
INVARIANTS LogRestoresVersion LockIsLostByRestartOnly ReadsAreOneVersion
PROPERTIES RecoversLatest PublishesAllOrNothing
