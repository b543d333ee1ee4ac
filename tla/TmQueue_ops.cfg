\* Two threads, both of them push, pop and peak at both ends.
SPECIFICATION Spec
CONSTANTS
  Threads = {t1, t2}
  Nodes = {n1, n2, n3}
  Values = {v1, v2}
  Null = Null
  NoVal = NoVal
SYMMETRY Symmetry
INVARIANTS WellLinked
PROPERTIES RepliesAreTrue ImplementsDeque
