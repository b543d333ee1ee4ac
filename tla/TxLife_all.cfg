\* Blocks nested three deep, growing lists, every call of malloc() may fail.
\* No symmetry: one of the properties is temporal.
SPECIFICATION FairSpec
CONSTANTS
  Blocks = {b1, b2, b3}
  Null = Null
  VecInit = 2
  MaxLen = 3
  MaxDepth = 3
  Failing = {"enter", "stack", "begin", "nested", "malloc", "alloc_list", "free_list"}
INVARIANTS NoDoubleFree FailureIsFinal ProcessSurvives
PROPERTIES AllOrNothing AbortsUnwind
