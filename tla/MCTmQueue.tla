------------------------------- MODULE MCTmQueue -------------------------------
(* TmQueue for TLC: entries have no identity but their address, threads run *)
(* the same code and values are only passed on.                             *)
EXTENDS TmQueue, TLC

Symmetry ==
  Permutations(Threads) \cup Permutations(Nodes) \cup Permutations(Values)
================================================================================
