------------------------------- MODULE MCTxLife --------------------------------
(* TxLife for TLC: the addresses are interchangeable.                       *)
EXTENDS TxLife

Symmetry == Permutations(Blocks)
================================================================================
