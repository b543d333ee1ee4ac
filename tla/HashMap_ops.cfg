\* Two threads, two keys that share the one bucket until it becomes two, either resize.
SPECIFICATION Spec
CONSTANTS
  Threads = {t1, t2}
  k1 = k1
  k2 = k2
  Keys = {k1, k2}
  Vals = {1, 2}
  Nodes = {n1, n2}
  Hash <- MCHash
  Primes <- MCPrimes
  InitCap = 1
  Null = Null
  NoVal = NoVal
  BeyondRace = FALSE
SYMMETRY Symmetry
INVARIANTS WellFormed
PROPERTIES ImplementsKeyValue RepliesAreTrue
