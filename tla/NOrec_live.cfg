\* Nested blocks and aborts in place: opacity, publication, and is the lock always given back?
\* No symmetry: two of the properties are temporal.
SPECIFICATION FairSpec
CONSTANTS
  Threads = {t1, t2}
  Addrs = {x}
  Vals = {0, 1}
  Junk = Junk
  NoVal = NoVal
  InitVal = 0
  IntLimit = 1000
  MaxDepth = 2
  MaxGlb = 2
  RestartIrrevoc = FALSE
PROPERTIES PublishesAtomically LockIsReleased ObstructionFree
