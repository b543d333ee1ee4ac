-------------------------------- MODULE MCNOrec --------------------------------
(* Small instances of NOrec for TLC. *)
EXTENDS NOrecRefines, TLC

Symmetry == Permutations(Threads) \cup Permutations(Addrs)
===============================================================================
