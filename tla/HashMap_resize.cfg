\* The volatile map grows while another thread looks a key up.
SPECIFICATION Spec
CONSTANTS
  Threads = {t1, t2}
  k1 = k1
  k2 = k2
  Keys = {k1, k2}
  Vals = {1, 2}
  Nodes = {n1, n2}
  Hash <- MCHash
  Primes <- MCPrimes
  InitCap = 1
  Null = Null
  NoVal = NoVal
  BeyondRace = TRUE
SYMMETRY Symmetry
PROPERTIES FindsWhatIsThere
