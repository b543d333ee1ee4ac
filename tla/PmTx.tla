---------------------------------- MODULE PmTx ----------------------------------
(***************************************************************************)
(* The life of a transaction in persistent memory: pmdk_stms/algs/common/  *)
(* tx.c, which keeps a retry mark and a nesting level beside libpmemobj's  *)
(* own transaction, and the undo log of libpmemobj, modelled from its use. *)
(*                                                                         *)
(*   stage, depth, err   libpmemobj's: the stage, how many blocks are      *)
(*                       open, and what pmemobj_tx_errno returns ("none"   *)
(*                       is 0, "restart" is -1, "cancelled" ECANCELED,     *)
(*                       "nomem" ENOMEM)                                   *)
(*   level, retry        struct tx                                         *)
(*                                                                         *)
(* A log maps a location to what it held before its first                  *)
(* pmemobj_tx_add_range_direct, or to NoVal.                               *)
(***************************************************************************)
EXTENDS Naturals, Sequences, SequencesExt, FiniteSetsExt

PmStages == {"NONE", "WORK", "ONABORT", "ONCOMMIT", "FINALLY"}

PmErrs == {"none", "restart", "cancelled", "nomem"}

PmRecord ==
  [stage : PmStages, depth : Nat, level : Nat, retry : BOOLEAN, err : PmErrs]

TxIdle ==
  [stage |-> "NONE", depth |-> 0, level |-> 0, retry |-> FALSE, err |-> "none"]

InWork(x) == x.stage = "WORK"

(* libpmemobj: an abort rolls back and a commit is durable in this block.   *)
Outermost(x) == x.depth = 1

(* tx_begin, and pmemobj_tx_begin. *)
TxBegin(x) ==
  [stage |-> "WORK",
   depth |-> x.depth + 1,
   level |-> IF InWork(x) THEN x.level + 1 ELSE x.level,
   retry |-> InWork(x) /\ x.retry,
   err   |-> "none"]

(* pmemobj_tx_abort, without the rollback. *)
TxAbort(x, e) == [x EXCEPT !.stage = "ONABORT", !.err = e]

TxRestart(x) == TxAbort([x EXCEPT !.retry = TRUE], "restart")

(* pmemobj_tx_commit, without what it does to memory. *)
TxCommit(x) == [x EXCEPT !.stage = "ONCOMMIT"]

(* tx_process outside WORK is pmemobj_tx_process. *)
TxProcess(x) ==
  [x EXCEPT !.stage = IF x.stage = "FINALLY" THEN "NONE" ELSE "FINALLY"]

(* tx_end: the level is counted down or the callback has run; then          *)
(* pmemobj_tx_end, which aborts the block around a block that failed.       *)
TxEnd(x) ==
  LET y == [x EXCEPT !.level = IF @ > 0 THEN @ - 1 ELSE 0, !.depth = @ - 1]
  IN  IF Outermost(x) THEN [y EXCEPT !.stage = "NONE"]
      ELSE IF x.err = "none" THEN [y EXCEPT !.stage = "WORK"]
      ELSE TxAbort(y, x.err)

(* pmemobj_tx_end aborts the outermost block. *)
EndRollsBack(x) == x.depth = 2 /\ x.err # "none"

(* _TX_END: back to _TX_RETRY_LABEL. *)
Retries(x) == x.err = "restart" /\ x.retry

--------------------------------------------------------------------------------
(* Memory under a function of changes, NoVal where there is none.           *)
Overlay(m, w, noVal) == [a \in DOMAIN m |-> IF w[a] = noVal THEN m[a] ELSE w[a]]

(* pmemobj_tx_add_range_direct: the first time, what is there now. *)
AddRange(u, m, a, noVal) == IF u[a] = noVal THEN [u EXCEPT ![a] = m[a]] ELSE u

(* pmemobj_open after a crash: the logs of the transactions that had not    *)
(* committed are applied in the order of their lanes, so a location that    *)
(* several have logged gets what the last one holds.                        *)
Recover(m, logs, noVal) ==
  [a \in DOMAIN m |-> LET having == {i \in DOMAIN logs : logs[i][a] # noVal}
                     IN  IF having = {} THEN m[a] ELSE logs[Max(having)][a]]
===============================================================================
