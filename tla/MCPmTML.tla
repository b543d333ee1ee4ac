-------------------------------- MODULE MCPmTML --------------------------------
(* Small instances of PmTML for TLC. *)
EXTENDS PmTML, TLC

Symmetry == Permutations(Threads) \cup Permutations(Addrs)
================================================================================
