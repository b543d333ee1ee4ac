---------------------------------- MODULE Tx ----------------------------------
(***************************************************************************)
(* The life of a transaction as volatile_stms/algs/common/tx.c keeps it    *)
(* for one thread (struct tx), and the block macros of tx_generic.h that   *)
(* drive it.  Every operator maps the thread's record to the record the C  *)
(* function leaves behind; TML, NOrec and TxLife apply them in the step    *)
(* that makes the call.                                                    *)
(*                                                                         *)
(*   stage  where the block stands: the stages of enum tx_stage            *)
(*   depth  number of struct tx_data on the stack tx->entries              *)
(*   level  tx->level, the nesting level tx_begin and tx_end count         *)
(*   retry  tx->retry, set by tx_restart, cleared by the next tx_begin     *)
(*   err    tx->last_errnum: "none" is 0, "restart" is -1, "failed" is     *)
(*          ECANCELED of a client's abort or ENOMEM of the library's;      *)
(*          nothing in the code depends on which                           *)
(*                                                                         *)
(* longjmp always lands in the loop of the block whose environment is on   *)
(* top of the stack, so "jump to the innermost block" is "go on at depth". *)
(***************************************************************************)
EXTENDS Naturals

Stages == {"NONE", "WORK", "ONRETRY", "ONABORT", "ONCOMMIT", "FINALLY"}

Errs == {"none", "restart", "failed"}

TxRecord ==
  [stage : Stages, depth : Nat, level : Nat, retry : BOOLEAN, err : Errs]

(* The zeroed thread-local struct tx. *)
TxIdle ==
  [stage |-> "NONE", depth |-> 0, level |-> 0, retry |-> FALSE, err |-> "none"]

InWork(x) == x.stage = "WORK"

(* The stack holds this block only, at level 0: the test tx_abort makes    *)
(* before it frees what the transaction allocated, and the one tx_end      *)
(* makes (after its pop) before it finishes the whole transaction.         *)
Outermost(x) == x.depth = 1 /\ x.level = 0

TxBeginSameLevel(x) ==   \* mutant: a nested block does not count the level up
  [stage |-> "WORK", depth |-> x.depth + 1, level |-> 0, retry |-> FALSE, err |-> "none"]

(* tx_begin at stage NONE or WORK; any other stage kills the process.      *)
TxBegin(x) ==
  [stage |-> "WORK",
   depth |-> x.depth + 1,
   level |-> IF InWork(x) THEN x.level + 1 ELSE 0,
   retry |-> FALSE,
   err   |-> "none"]

(* tx_abort(e), then the jump. *)
TxAbort(x, e) ==
  [x EXCEPT !.stage = IF e = "restart" /\ x.retry THEN "ONRETRY" ELSE "ONABORT",
            !.err   = e]

TxRestart(x) == TxAbort([x EXCEPT !.retry = TRUE], "restart")

TxCommit(x) == [x EXCEPT !.stage = "ONCOMMIT"]

(* tx_process outside stage WORK: the block's handler has run. *)
TxProcess(x) ==
  [x EXCEPT !.stage = IF x.stage = "FINALLY" THEN "NONE" ELSE "FINALLY"]

(* tx_end.  The outermost block finishes the transaction; a nested one     *)
(* hands the work back to the block around it, or aborts that one too.     *)
TxEnd(x) ==
  IF Outermost(x)
  THEN [x EXCEPT !.stage = "NONE", !.depth = 0]
  ELSE LET outer == [x EXCEPT !.stage = "WORK", !.depth = @ - 1, !.level = @ - 1]
       IN  IF x.err = "none" THEN outer ELSE TxAbort(outer, x.err)

(* tx_end calls abort(): a nested block that did not fail ended two or     *)
(* more levels down.                                                       *)
TxEndKills(x) == ~Outermost(x) /\ x.err = "none" /\ x.level > 1

(* What _TX_END does with the value of tx_end: back to _TX_RETRY_LABEL. *)
Retries(x) == x.err = "restart" /\ x.retry
===============================================================================
