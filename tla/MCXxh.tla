-------------------------------- MODULE MCXxh --------------------------------
(***************************************************************************)
(* XxhStreams for TLC, and XxhArith with words of four bits.               *)
(***************************************************************************)
EXTENDS XxhStreams, XxhArith, Bitwise, TLC

\* 32 stands for 2^32.
MCTotalModulo == 4 :> 32 @@ 8 :> 1000

MCXor(x, y) == x ^^ y

===============================================================================
