------------------------------- MODULE MCWriteSet -------------------------------
(* WriteSet for TLC: a and b meet in every table, c and d join them in the first.*)
EXTENDS WriteSet, TLC

CONSTANTS a, b, c, d

MCHash == [x \in Addrs |-> IF x = c THEN 4 ELSE IF x = d THEN 14 ELSE 0]
MCPrimes == <<2, 3>>
=================================================================================
