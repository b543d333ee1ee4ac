\* Two threads, two locations, nested blocks.
SPECIFICATION Spec
CONSTANTS
  Threads = {t1, t2}
  Addrs = {x, y}
  Vals = {0, 1}
  Junk = Junk
  NoVal = NoVal
  InitVal = 0
  MaxDepth = 2
  MaxGlb = 4
  RestartIrrevoc = FALSE
SYMMETRY Symmetry
INVARIANTS LockHasOneHolder ReadsAreOneVersion
PROPERTIES PublishesAtomically OutcomeIsExact ImplementsTM
