-------------------------------- MODULE TxLife --------------------------------
(***************************************************************************)
(* The transaction core on its own: volatile_stms/algs/common/tx.c, the    *)
(* block macros of tx_generic.h and the vectors of tx_util.c, as one       *)
(* thread runs them against the allocator.  What an algorithm adds (locks, *)
(* read and write sets) is in TML and NOrec; here the question is what     *)
(* happens to the blocks a transaction allocates and frees, to nested      *)
(* transactions, and to the process when a call fails half way.            *)
(***************************************************************************)
EXTENDS Tx, SequencesExt

CONSTANTS
  Blocks,        \* addresses the allocator hands out
  Null,          \* the null pointer
  VecInit,       \* VEC_INIT, the capacity of a new vector
  MaxLen,        \* bound: longest list the client asks for
  MaxDepth,      \* deepest nesting the client asks for
  Failing        \* the calls of malloc() that may return NULL

FailPoints == {"enter", "stack", "begin", "nested", "malloc", "alloc_list", "free_list"}

ASSUME ConstAssumption ==
  /\ Null \notin Blocks
  /\ VecInit \in Nat \ {0, 1}
  /\ MaxLen \in Nat
  /\ MaxDepth \in Nat \ {0}
  /\ Failing \subseteq FailPoints

VARIABLES
  tx,        \* the struct tx of the thread
  pc,        \* "out" of every block, "in" the macros' loop, at the "retry" label
  proc,      \* the process: "ok", crashed on a bad pointer, or ended by abort():
             \* "refused" for a call its client may not make, else "killed"
  entered,   \* the vectors exist: between tx_thread_enter and tx_thread_exit
  stack,     \* tx->entries points to a stack
  heap,      \* heap[b]: "free", "live", or "corrupt" once freed when not live
  allocs,    \* tx->alloc_list, the addr of its entries
  frees,     \* tx->free_list, the addr of its entries
  cap,       \* the capacities of the two vectors
  \* history
  before,    \* the blocks live when the outermost block began
  mine,      \* the blocks tx_malloc gave this transaction
  given,     \* the blocks this transaction passed to tx_free
  failed,    \* tx_abort has been called in this transaction
  spoilt     \* a call of malloc() has failed that the code does not recover from

listVars == <<allocs, frees, cap>>
histVars == <<before, mine, given, failed, spoilt>>
vars     == <<tx, pc, proc, entered, stack, heap, listVars, histVars>>

NewCap == [alloc |-> VecInit, free |-> VecInit]

Live(h) == {b \in Blocks : h[b] = "live"}

Init ==
  /\ tx = TxIdle
  /\ pc = "out"
  /\ proc = "ok"
  /\ entered = FALSE
  /\ stack = FALSE
  /\ heap = [b \in Blocks |-> "free"]
  /\ allocs = <<>> /\ frees = <<>> /\ cap = NewCap
  /\ before = {} /\ mine = {} /\ given = {} /\ failed = FALSE /\ spoilt = FALSE

--------------------------------------------------------------------------------
(* free() of every entry of a list that is not null: a block that is not    *)
(* live, or that the list names twice, is corrupt afterwards.               *)
FreeAll(h, list) ==
  [b \in Blocks |->
     LET at == {i \in DOMAIN list : list[i] = b}
     IN  IF at = {} THEN h[b]
         ELSE IF h[b] = "live" /\ Cardinality(at) = 1 THEN "free" ELSE "corrupt"]

(* tx_vector_append stores the entry first; a vector that is then full is   *)
(* doubled, which is where it can fail.                                     *)
Fills(list, c) == Len(list) + 1 >= c

Grown(list, c) == IF Fills(list, c) THEN 2 * c ELSE c

(* The process stops where it is.  What the call had written in struct tx    *)
(* nothing reads any more.                                                  *)
Stop(how) ==
  /\ proc' = how
  /\ UNCHANGED <<tx, pc, entered, stack, heap, listVars, histVars>>

Ok == proc = "ok"

AtWork == Ok /\ pc = "in" /\ InWork(tx)

(* tx_abort, up to its jump, leaves y in struct tx; list is the alloc_list   *)
(* it finds.  It looks at the head of the stack and, at the outermost       *)
(* block, at the alloc_list: neither need be there.  spoils tells whether   *)
(* the caller leaves something half done that nothing puts right.           *)
Abort(y, list, spoils) ==
  IF y.depth = 0 \/ (Outermost(y) /\ ~entered)
  THEN Stop("crashed")
  ELSE /\ tx' = y
       /\ heap' = IF Outermost(y) THEN FreeAll(heap, list) ELSE heap
       /\ failed' = TRUE
       /\ spoilt' = (spoilt \/ spoils)
       /\ UNCHANGED <<proc, pc, entered, stack, before, mine, given>>

--------------------------------------------------------------------------------
(* tx_thread_enter and tx_thread_exit. *)

Enter ==
  /\ Ok /\ pc = "out" /\ ~entered
  /\ entered' = TRUE
  /\ allocs' = <<>> /\ frees' = <<>> /\ cap' = NewCap
  /\ UNCHANGED <<tx, pc, proc, stack, heap, histVars>>

EnterFails ==
  /\ Ok /\ pc = "out" /\ ~entered
  /\ "enter" \in Failing
  /\ Stop("killed")

Exit ==
  /\ Ok /\ pc = "out" /\ entered
  /\ entered' = FALSE
  /\ allocs' = <<>> /\ frees' = <<>> /\ cap' = NewCap
  /\ UNCHANGED <<tx, pc, proc, stack, heap, histVars>>

--------------------------------------------------------------------------------
(* _TX_BEGIN of an outermost block, first time or at the retry label.  When *)
(* it fails the macros' loop still runs, from ONABORT.                      *)

AtBegin == Ok /\ pc \in {"retry", "out"}

NewTransaction ==
  /\ pc' = "in"
  /\ before' = Live(heap) /\ mine' = {} /\ given' = {} /\ failed' = FALSE
  /\ UNCHANGED <<proc, entered, heap, listVars>>

Begin ==
  /\ AtBegin
  /\ tx' = TxBegin(tx)
  /\ stack' = TRUE
  /\ NewTransaction
  /\ UNCHANGED spoilt

BeginFails ==
  /\ AtBegin
  /\ tx' = [tx EXCEPT !.stage = "ONABORT", !.retry = FALSE, !.err = "none"]
  /\ \/ "stack" \in Failing /\ UNCHANGED stack /\ spoilt' = TRUE
     \/ "begin" \in Failing /\ stack' = TRUE /\ UNCHANGED spoilt
  /\ NewTransaction

BeginNested ==
  /\ AtWork
  /\ tx.depth < MaxDepth
  /\ tx' = TxBegin(tx)
  /\ UNCHANGED <<pc, proc, entered, stack, heap, listVars, histVars>>

(* The level has been counted up, the block has not been pushed. *)
BeginNestedFails ==
  /\ AtWork
  /\ tx.depth < MaxDepth
  /\ "nested" \in Failing
  /\ Abort(TxAbort([tx EXCEPT !.level = @ + 1, !.retry = FALSE], "failed"), allocs, TRUE)
  /\ UNCHANGED listVars

--------------------------------------------------------------------------------
(* tx_malloc *)

Malloc(b) ==
  /\ AtWork
  /\ heap[b] = "free"
  /\ Len(allocs) < MaxLen
  /\ IF ~entered THEN Stop("crashed")
     ELSE /\ heap' = [heap EXCEPT ![b] = "live"]
          /\ allocs' = Append(allocs, b)
          /\ cap' = [cap EXCEPT !.alloc = Grown(allocs, @)]
          /\ mine' = mine \cup {b}
          /\ UNCHANGED <<tx, pc, proc, entered, stack, frees, before, given, failed, spoilt>>

MallocFails ==
  /\ AtWork
  /\ "malloc" \in Failing
  /\ Abort(TxAbort(tx, "failed"), allocs, FALSE)
  /\ UNCHANGED listVars

(* The vector could not grow: the block is freed, its entry is on the list. *)
AllocListFails(b) ==
  /\ AtWork
  /\ heap[b] = "free"
  /\ entered
  /\ "alloc_list" \in Failing
  /\ Fills(allocs, cap.alloc)
  /\ allocs' = Append(allocs, b)
  /\ Abort(TxAbort(tx, "failed"), allocs', TRUE)
  /\ UNCHANGED <<frees, cap>>

--------------------------------------------------------------------------------
(* tx_free: an earlier entry for the same pointer is nulled first.  The     *)
(* client frees blocks it knows to be allocated, or the null pointer.       *)

ForgetNothing(p) == frees   \* mutant: no search for an earlier entry

Forget(p) ==
  LET i == SelectInSeq(frees, LAMBDA e : e = p)
  IN  IF i = 0 THEN frees ELSE [frees EXCEPT ![i] = Null]

Free(p) ==
  /\ AtWork
  /\ p \in Live(heap) \cup {Null}
  /\ Len(frees) < MaxLen
  /\ IF ~entered THEN Stop("crashed")
     ELSE /\ frees' = Append(Forget(p), p)
          /\ cap' = [cap EXCEPT !.free = Grown(frees, @)]
          /\ given' = given \cup ({p} \ {Null})
          /\ UNCHANGED <<tx, pc, proc, entered, stack, heap, allocs, before, mine, failed, spoilt>>

FreeListFails(p) ==
  /\ AtWork
  /\ p \in Live(heap) \cup {Null}
  /\ entered
  /\ "free_list" \in Failing
  /\ Fills(frees, cap.free)
  /\ frees' = Append(Forget(p), p)
  /\ Abort(TxAbort(tx, "failed"), allocs, FALSE)
  /\ UNCHANGED <<allocs, cap>>

--------------------------------------------------------------------------------
(* tx_abort and tx_restart called by the client's code. *)

UserAbort ==
  /\ AtWork
  /\ Abort(TxAbort(tx, "failed"), allocs, FALSE)
  /\ UNCHANGED listVars

UserRestart ==
  /\ AtWork
  /\ Abort(TxRestart(tx), allocs, FALSE)
  /\ UNCHANGED listVars

--------------------------------------------------------------------------------
(* tx_process at stage WORK: the commit callback (here TML's) gives the     *)
(* free_list back at level 0 and calls tx_commit.                           *)

CommitAtEveryLevel ==   \* mutant: a nested block reclaims the frees too
  /\ AtWork
  /\ heap' = FreeAll(heap, frees)
  /\ tx' = TxCommit(tx)
  /\ UNCHANGED <<pc, proc, entered, stack, listVars, histVars>>

Commit ==
  /\ AtWork
  /\ IF tx.level = 0 /\ ~entered THEN Stop("crashed")
     ELSE /\ heap' = IF tx.level = 0 THEN FreeAll(heap, frees) ELSE heap
          /\ tx' = TxCommit(tx)
          /\ UNCHANGED <<pc, proc, entered, stack, listVars, histVars>>

(* The client's handlers ONRETRY, ONABORT, ONCOMMIT and FINALLY. *)
InHandler == Ok /\ pc = "in" /\ tx.stage \notin {"NONE", "WORK"}

ProcessMissesRetry ==   \* mutant: no case for TX_STAGE_ONRETRY
  /\ InHandler
  /\ tx' = IF tx.stage = "ONRETRY" THEN tx ELSE TxProcess(tx)
  /\ UNCHANGED <<pc, proc, entered, stack, heap, listVars, histVars>>

(* tx_process at the other stages. *)
Process ==
  /\ InHandler
  /\ tx' = TxProcess(tx)
  /\ UNCHANGED <<pc, proc, entered, stack, heap, listVars, histVars>>

(* Calls at a wrong stage.  tx_begin takes stage NONE for an outermost block *)
(* and WORK for a nested one, so it refuses a handler only.                 *)
BeginInHandler ==
  /\ InHandler
  /\ Stop("refused")

(* ASSERT_IN_STAGE of tx_malloc and tx_free. *)
ListCallOutsideWork ==
  /\ InHandler \/ (Ok /\ pc = "out")
  /\ Stop("refused")

--------------------------------------------------------------------------------
(* tx_end, when the macros' loop has come to stage NONE. *)

AtEnd == Ok /\ pc = "in" /\ tx.stage = "NONE"

(* What the pop leaves is an empty stack at level 0. *)
LastBlock == tx.depth \in {0, 1} /\ tx.level = 0

End ==
  /\ AtEnd /\ LastBlock
  /\ IF ~stack \/ ~entered THEN Stop("crashed")
     ELSE /\ tx' = [tx EXCEPT !.stage = "NONE", !.depth = 0]
          /\ allocs' = <<>> /\ frees' = <<>>
          /\ stack' = FALSE
          /\ pc' = IF Retries(tx) THEN "retry" ELSE "out"
          /\ UNCHANGED <<proc, entered, heap, cap, histVars>>

EndNestedRunsOn ==   \* mutant: the block around a failed one goes on
  /\ AtEnd /\ ~LastBlock
  /\ tx' = TxEnd([tx EXCEPT !.err = "none"])
  /\ UNCHANGED <<pc, proc, entered, stack, heap, listVars, histVars>>

EndNested ==
  /\ AtEnd /\ ~LastBlock
  /\ IF tx.err # "none"
     THEN Abort(TxEnd(tx), allocs, FALSE) /\ UNCHANGED listVars
     ELSE IF TxEndKills(tx) THEN Stop("killed")
     ELSE tx' = TxEnd(tx)
          /\ UNCHANGED <<pc, proc, entered, stack, heap, listVars, histVars>>

--------------------------------------------------------------------------------
Client ==
  \/ Enter \/ EnterFails \/ Exit
  \/ BeginNested \/ BeginNestedFails
  \/ \E b \in Blocks : Malloc(b) \/ AllocListFails(b)
  \/ MallocFails
  \/ \E p \in Blocks \cup {Null} : Free(p) \/ FreeListFails(p)
  \/ UserAbort \/ UserRestart
  \/ BeginInHandler \/ ListCallOutsideWork
  \/ Commit

Library == Process \/ End \/ EndNested

Start == Begin \/ BeginFails

(* Nothing runs any more in a process that has died. *)
Dead == ~Ok /\ UNCHANGED vars

Next == Client \/ Library \/ Start \/ Dead

Spec == Init /\ [][Next]_vars

(* The thread is scheduled, and the handlers of a block end. *)
FairSpec == Spec /\ WF_vars(Library)

--------------------------------------------------------------------------------
(* Properties. *)

(* Type invariant of the thread's struct tx, its lists and the heap. *)
TypeOK ==
  /\ tx \in TxRecord
  /\ pc \in {"out", "in", "retry"}
  /\ proc \in {"ok", "killed", "refused", "crashed"}
  /\ entered \in BOOLEAN /\ stack \in BOOLEAN /\ failed \in BOOLEAN
  /\ spoilt \in BOOLEAN
  /\ heap \in [Blocks -> {"free", "live", "corrupt"}]
  /\ allocs \in Seq(Blocks)
  /\ frees \in Seq(Blocks \cup {Null})
  /\ cap \in [alloc : Nat, free : Nat]
  /\ before \subseteq Blocks /\ mine \subseteq Blocks /\ given \subseteq Blocks

(* The variables have their types, and no block is given to free() twice:   *)
(* not by an abort that comes down several levels (tx_abort), not by a      *)
(* commit of a list that names the block twice (tx_free), and not by the    *)
(* attempt after a restart.                                                 *)
NoDoubleFree == TypeOK /\ (~spoilt => \A b \in Blocks : heap[b] # "corrupt")

(* The macros leave a transaction with its frees done and its allocations   *)
(* kept, all of them, when no block of it failed, and otherwise with the    *)
(* heap as the outermost block found it: nothing leaks, nothing is lost.    *)
AllOrNothing ==
  [][~spoilt /\ pc = "in" /\ pc' # "in" =>
       Live(heap) = IF failed THEN before ELSE (before \cup mine) \ given]_vars

(* A failure in any block fails every block around it: the client's code    *)
(* is never run on in a transaction that tx_abort was called in, so it      *)
(* cannot commit (tx_end "waterfalls" the abort).                           *)
FailureIsFinal == failed => ~InWork(tx)

(* The process outlives every transaction of a thread that has called       *)
(* tx_thread_enter, and every failure of malloc() that leaves nothing half  *)
(* done, with one exception: tx_end calls abort() where a third nested      *)
(* block ends that has not failed, though tx.c:296 says "failed to          *)
(* waterfall abort to outer tx".  A thread that never entered crashes, as   *)
(* the main thread of hashmap/transfer.c does.  A process refused a call    *)
(* for its stage (BeginInHandler, ListCallOutsideWork) has its client to    *)
(* blame, and nothing is promised of it.                                    *)
ProcessSurvives ==
  /\ proc = "crashed" => spoilt \/ ~entered
  /\ proc = "killed" => ~entered \/ tx.depth > 2

(* Once a block has failed, the handlers run and the macros are left, by    *)
(* the way out or to the retry label.                                       *)
AbortsUnwind == failed /\ pc = "in" ~> pc # "in" \/ ~Ok
--------------------------------------------------------------------------------
(* The invariant the proofs are made with.                                  *)

(* A block that tx_abort was called in has an error pending until the       *)
(* macros are left, and no client's code runs in it.  The level is one less *)
(* than the depth, but where tx_begin has failed: the outermost block then  *)
(* is not on the stack, a nested one has been counted only.                 *)
ControlInv ==
  /\ pc # "in" => /\ tx.stage = "NONE" /\ tx.depth = 0 /\ tx.level = 0
                  /\ ~stack /\ allocs = <<>> /\ frees = <<>>
  /\ InWork(tx) => tx.depth > 0 /\ ~failed
  /\ pc = "in" => /\ failed <=> tx.err # "none"
                  /\ \/ tx.depth = tx.level + 1 /\ stack
                     \/ tx.depth = 0 /\ tx.level = 0 /\ ~failed /\ (stack \/ spoilt)
                     \/ tx.depth = tx.level /\ failed /\ spoilt

(* The lists name a block once. *)
Once(list) ==
  \A i, j \in DOMAIN list : list[i] = list[j] /\ list[i] # Null => i = j

Named(list) == {list[i] : i \in DOMAIN list} \ {Null}

(* What is live in a transaction: all it found and got until its outermost  *)
(* block ends, then as in AllOrNothing.                                     *)
Kept ==
  IF tx.depth > 1 \/ InWork(tx) THEN before \cup mine
  ELSE IF failed THEN before ELSE (before \cup mine) \ given

(* The lists are what the transaction may have to give back: alloc_list as  *)
(* long as it can abort, free_list as long as it can commit.                *)
BooksInv ==
  /\ \A b \in Blocks : heap[b] # "corrupt"
  /\ pc = "in" =>
       /\ Live(heap) = Kept
       /\ before \cap mine = {}
       /\ ~failed \/ tx.depth > 1 => Once(allocs) /\ mine = Named(allocs)
       /\ ~failed => Once(frees) /\ given = Named(frees) /\ given \subseteq before \cup mine

IInv == TypeOK /\ ControlInv /\ ProcessSurvives /\ (spoilt \/ BooksInv)
================================================================================
