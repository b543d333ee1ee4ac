-------------------------------- MODULE MCHashMap --------------------------------
(* HashMap for TLC: the two keys share a bucket until the map has grown.           *)
EXTENDS HashMap, TLC

CONSTANTS k1, k2

MCHash   == [k \in Keys |-> IF k = k1 THEN 2 ELSE 3]
MCPrimes == <<1, 2>>
Symmetry == Permutations(Nodes) \cup Permutations(Threads)
================================================================================
