\* Four locations, a table that grows from two slots to three and is full, every failure.
SPECIFICATION Spec
CONSTANTS
  a = a
  b = b
  c = c
  d = d
  Addrs = {a, b, c, d}
  Vals = {0, 1}
  NoAddr = NoAddr
  NoVal = NoVal
  Hash <- MCHash
  Primes <- MCPrimes
  VecInit = 2
  MaxWrites = 5
  Failing = {"pval", "append", "table"}
INVARIANTS LookupFailsOnlyWhenFull ReplayIsLastWrite FreedIsOutOfReach DoubleFreeNeedsRewrite
