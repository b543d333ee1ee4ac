-------------------------------- MODULE MCPmNOrec --------------------------------
(* Small instances of PmNOrec for TLC. *)
EXTENDS PmNOrec, TLC

Symmetry == Permutations(Threads) \cup Permutations(Addrs)
================================================================================
