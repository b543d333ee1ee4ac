--------------------------------- MODULE MCTML ---------------------------------
(* Small instances of TML for TLC. *)
EXTENDS TMLRefines, TLC

Symmetry == Permutations(Threads) \cup Permutations(Addrs)
===============================================================================
