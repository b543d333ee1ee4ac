\* Is the lock always given back, and does tml_tx_begin end?  No symmetry: the property is temporal.
SPECIFICATION FairSpec
CONSTANTS
  Threads = {t1, t2}
  Addrs = {x}
  Vals = {0, 1}
  Junk = Junk
  NoVal = NoVal
  InitVal = 0
  MaxDepth = 2
  MaxGlb = 2
  RestartIrrevoc = FALSE
PROPERTIES LockIsReleased ObstructionFree
