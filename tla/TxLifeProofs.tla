----------------------------- MODULE TxLifeProofs ------------------------------
(***************************************************************************)
(* The transaction core for any set of blocks, lists of any length and any *)
(* nesting, whichever calls of malloc() fail: IInv is inductive, and the   *)
(* safety properties are read off it.                                      *)
(*                                                                         *)
(* First the lists: what FreeAll does to the heap and what tx_free does to *)
(* the free_list.  Then AbortStep, for every call of tx_abort, one lemma   *)
(* for each action, NextInv, and the theorems.                             *)
(***************************************************************************)
EXTENDS TxLife, FiniteSetTheorems, WellFoundedInduction, TLAPS

--------------------------------------------------------------------------------
(* What the operators of Tx do to the fields of a transaction's record.     *)

(* tx_begin: a new block, one level down if there is one around it.         *)
LEMMA TxBeginFields ==
  ASSUME NEW x \in TxRecord
  PROVE  /\ TxBegin(x) \in TxRecord
         /\ TxBegin(x).stage = "WORK" /\ TxBegin(x).depth = x.depth + 1
         /\ TxBegin(x).level = (IF x.stage = "WORK" THEN x.level + 1 ELSE 0)
         /\ TxBegin(x).retry = FALSE /\ TxBegin(x).err = "none"
BY DEF TxRecord, Stages, Errs, TxBegin, InWork

(* tx_abort changes the stage and the error, and nothing of the nesting.    *)
LEMMA TxAbortFields ==
  ASSUME NEW x \in TxRecord, NEW e \in Errs
  PROVE  /\ TxAbort(x, e) \in TxRecord
         /\ TxAbort(x, e).stage \in {"ONRETRY", "ONABORT"}
         /\ TxAbort(x, e).depth = x.depth /\ TxAbort(x, e).level = x.level
         /\ TxAbort(x, e).retry = x.retry /\ TxAbort(x, e).err = e
BY DEF TxRecord, Stages, Errs, TxAbort

(* tx_restart: the same, and the mark that End will go back to the beginning. *)
LEMMA TxRestartFields ==
  ASSUME NEW x \in TxRecord
  PROVE  /\ TxRestart(x) \in TxRecord
         /\ TxRestart(x).stage \in {"ONRETRY", "ONABORT"}
         /\ TxRestart(x).depth = x.depth /\ TxRestart(x).level = x.level
         /\ TxRestart(x).retry = TRUE /\ TxRestart(x).err = "restart"
<1> DEFINE y == [x EXCEPT !.retry = TRUE]
<1>1. /\ y \in TxRecord /\ y.depth = x.depth
      /\ y.level = x.level /\ y.retry = TRUE
  BY DEF TxRecord
<1>2. "restart" \in Errs
  BY DEF Errs
<1> HIDE DEF y
<1>3. TxRestart(x) = TxAbort(y, "restart")
  BY DEF TxRestart, y
<1> QED
  BY <1>1, <1>2, <1>3, TxAbortFields

(* tx_commit changes the stage only.                                        *)
LEMMA TxCommitFields ==
  ASSUME NEW x \in TxRecord
  PROVE  /\ TxCommit(x) \in TxRecord
         /\ TxCommit(x).stage = "ONCOMMIT"
         /\ TxCommit(x).depth = x.depth /\ TxCommit(x).level = x.level
         /\ TxCommit(x).retry = x.retry /\ TxCommit(x).err = x.err
BY DEF TxRecord, Stages, TxCommit

(* So does tx_process.                                                      *)
LEMMA TxProcessFields ==
  ASSUME NEW x \in TxRecord
  PROVE  /\ TxProcess(x) \in TxRecord
         /\ TxProcess(x).stage \in {"FINALLY", "NONE"}
         /\ TxProcess(x).depth = x.depth /\ TxProcess(x).level = x.level
         /\ TxProcess(x).retry = x.retry /\ TxProcess(x).err = x.err
BY DEF TxRecord, Stages, TxProcess

--------------------------------------------------------------------------------

States == {"free", "live", "corrupt"}

(* A set of positive numbers that is not empty has a least one: the         *)
(* intervals up to one of them are finite, and one of these is smallest.    *)
LEMMA Least ==
  ASSUME NEW S \in SUBSET Nat, S # {}
  PROVE  Min(S) \in S
<1> DEFINE below == {0..n : n \in S}
<1>1. below \subseteq FiniteSubsetsOf(Nat) /\ below # {}
  <2>1. \A n \in Nat : 0..n \in SUBSET Nat /\ IsFiniteSet(0..n)
    BY FS_Interval
  <2> QED
    BY <2>1 DEF FiniteSubsetsOf
<1>2. IsWellFoundedOn(StrictSubsetOrdering(Nat), FiniteSubsetsOf(Nat))
  BY FS_StrictSubsetOrderingWellFounded
<1>3. PICK x \in below : \A y \in below : ~(<<y, x>> \in StrictSubsetOrdering(Nat))
  <2> HIDE DEF below
  <2> QED
    BY <1>1, <1>2, WFMin
<1>4. PICK n \in S : x = 0..n
  BY <1>3
<1>5. ASSUME NEW m \in S, m < n PROVE FALSE
  <2>1. 0..m \subseteq 0..n /\ n \in 0..n /\ n \notin 0..m /\ 0..n \subseteq Nat
    BY <1>5
  <2>2. <<0..m, x>> \in StrictSubsetOrdering(Nat)
    BY <1>4, <2>1 DEF StrictSubsetOrdering
  <2> QED
    BY <1>3, <2>2
<1>6. \A m \in S : n <= m
  BY <1>5
<1> QED
  BY <1>6 DEF Min

(* free() of a list leaves a heap, whatever the list.                       *)
LEMMA FreeAllType ==
  ASSUME NEW h \in [Blocks -> States], NEW list
  PROVE  FreeAll(h, list) \in [Blocks -> States]
BY DEF FreeAll, States

(* The blocks of a list that names each once, and only live ones, are free  *)
(* afterwards, and no other block has changed.                              *)
LEMMA FreeAllOnce ==
  ASSUME NEW h \in [Blocks -> States], NEW list, Once(list), Named(list) \subseteq Live(h)
  PROVE  /\ Live(FreeAll(h, list)) = Live(h) \ Named(list)
         /\ (\A b \in Blocks : h[b] # "corrupt") =>
              \A b \in Blocks : FreeAll(h, list)[b] # "corrupt"
<1>1. ASSUME NEW b \in Blocks
      PROVE  FreeAll(h, list)[b] = IF b \in Named(list) THEN "free" ELSE h[b]
  <2> DEFINE at == {i \in DOMAIN list : list[i] = b}
  <2>0. FreeAll(h, list)[b] = IF at = {} THEN h[b]
          ELSE IF h[b] = "live" /\ Cardinality(at) = 1 THEN "free" ELSE "corrupt"
    BY DEF FreeAll
  <2>n. b # Null
    BY ConstAssumption
  <2>1. CASE b \in Named(list)
    <3>1. PICK i \in DOMAIN list : list[i] = b
      BY <2>1 DEF Named
    <3>2. at = {i}
      BY <2>n, <3>1 DEF Once
    <3>3. Cardinality({i}) = 1
      BY FS_Singleton
    <3>4. h[b] = "live"
      BY <2>1 DEF Live
    <3> HIDE DEF at
    <3> QED
      BY <2>0, <2>1, <3>2, <3>3, <3>4
  <2>2. CASE b \notin Named(list)
    <3>1. at = {}
      BY <2>2, <2>n DEF Named
    <3> HIDE DEF at
    <3> QED
      BY <2>0, <2>2, <3>1
  <2> QED
    BY <2>1, <2>2
<1> QED
  BY <1>1 DEF Live

(* An entry more at the end of a list.                                      *)
LEMMA AppendFacts ==
  ASSUME NEW S, NEW list \in Seq(S), NEW e \in S
  PROVE  /\ Append(list, e) \in Seq(S)
         /\ Named(Append(list, e)) = Named(list) \cup ({e} \ {Null})
         /\ Once(list) /\ (e # Null => e \notin Named(list)) => Once(Append(list, e))
<1> DEFINE more == Append(list, e)
<1>0. Len(list) \in Nat /\ DOMAIN list = 1..Len(list)
  OBVIOUS
<1>1. /\ more \in Seq(S) /\ DOMAIN more = DOMAIN list \cup {Len(list) + 1}
      /\ Len(list) + 1 \notin DOMAIN list
      /\ more[Len(list) + 1] = e /\ \A i \in DOMAIN list : more[i] = list[i]
  BY <1>0
<1> HIDE DEF more
<1>2. more \in Seq(S)
  BY <1>1
<1>3. Named(more) = Named(list) \cup ({e} \ {Null})
  BY <1>1 DEF Named
<1>4. ASSUME Once(list), e # Null => e \notin Named(list) PROVE Once(more)
  BY <1>1, <1>4 DEF Once, Named
<1> QED
  BY <1>2, <1>3, <1>4 DEF more

(* tx_free of p: the free_list names p once, and no other block less.       *)
LEMMA ForgetFacts ==
  ASSUME frees \in Seq(Blocks \cup {Null}), NEW p \in Blocks \cup {Null}
  PROVE  /\ Append(Forget(p), p) \in Seq(Blocks \cup {Null})
         /\ Once(frees) => /\ Once(Append(Forget(p), p))
                           /\ Named(Append(Forget(p), p)) = Named(frees) \cup ({p} \ {Null})
<1> DEFINE at == {j \in 1..Len(frees) : frees[j] = p}
           i == SelectInSeq(frees, LAMBDA e : e = p)
           S == Blocks \cup {Null}
<1>0. Len(frees) \in Nat /\ DOMAIN frees = 1..Len(frees) /\ at \in SUBSET Nat
  OBVIOUS
<1>1. i = IF at # {} THEN Min(at) ELSE 0
  BY DEF SelectInSeq
<1>2. at # {} => i \in DOMAIN frees /\ frees[i] = p
  <2> SUFFICES ASSUME at # {} PROVE i \in at
    BY <1>0
  <2>1. i = Min(at)
    BY <1>1
  <2> HIDE DEF i, at
  <2> QED
    BY <1>0, <2>1, Least
<1>3. at = {} => Forget(p) = frees /\ p \notin Named(frees)
  BY <1>0, <1>1 DEF Forget, Named
<1>4. at # {} => Forget(p) = [frees EXCEPT ![i] = Null]
  <2>1. at # {} => i # 0
    BY <1>0, <1>2
  <2> QED
    BY <2>1 DEF Forget
<1> HIDE DEF i
<1>5. Forget(p) \in Seq(S)
  <2>1. CASE at = {}
    BY <1>3, <2>1
  <2>2. CASE at # {}
    BY <1>4, <2>2
  <2> QED
    BY <2>1, <2>2
<1>6. Append(Forget(p), p) \in Seq(S)
  BY <1>5, AppendFacts
<1>7. ASSUME Once(frees)
      PROVE  Once(Forget(p)) /\ Named(Forget(p)) = Named(frees) \ {p}
  <2>1. CASE at = {}
    BY <1>3, <1>7, <2>1
  <2>2. CASE at # {}
    <3>1. /\ DOMAIN Forget(p) = DOMAIN frees /\ i \in DOMAIN frees /\ frees[i] = p
          /\ Forget(p)[i] = Null
          /\ \A j \in DOMAIN frees : j # i => Forget(p)[j] = frees[j]
      BY <1>2, <1>4, <2>2
    <3> QED
      BY <1>7, <3>1 DEF Once, Named
  <2> QED
    BY <2>1, <2>2
<1>8. ASSUME Once(frees)
      PROVE  /\ Once(Append(Forget(p), p))
             /\ Named(Append(Forget(p), p)) = Named(frees) \cup ({p} \ {Null})
  <2>1. Once(Forget(p)) /\ p \notin Named(Forget(p))
    BY <1>7, <1>8
  <2>2. Named(Forget(p)) \cup ({p} \ {Null}) = Named(frees) \cup ({p} \ {Null})
    BY <1>7, <1>8 DEF Named
  <2> QED
    BY <1>5, <2>1, <2>2, AppendFacts
<1> QED
  BY <1>6, <1>8
--------------------------------------------------------------------------------
(* Before tx_thread_enter there is nothing.                                 *)
LEMMA InitInv == Init => IInv
<1> SUFFICES ASSUME Init PROVE IInv
  OBVIOUS
<1> USE ConstAssumption DEF Init
<1>1. TypeOK
  <2>1. tx \in TxRecord
    BY DEF TxIdle, TxRecord, Stages, Errs
  <2>2. cap \in [alloc : Nat, free : Nat]
    BY DEF NewCap
  <2>3. heap \in [Blocks -> {"free", "live", "corrupt"}]
    OBVIOUS
  <2>4. allocs \in Seq(Blocks) /\ frees \in Seq(Blocks \cup {Null})
    OBVIOUS
  <2> QED
    BY <2>1, <2>2, <2>3, <2>4 DEF TypeOK
<1>2. ControlInv
  BY DEF ControlInv, TxIdle, InWork
<1>3. ProcessSurvives
  BY DEF ProcessSurvives
<1>4. BooksInv
  BY DEF BooksInv
<1> QED
  BY <1>1, <1>2, <1>3, <1>4 DEF IInv

(* The process dies: nothing else changes.                                  *)
LEMMA StopStep ==
  ASSUME IInv, NEW how \in {"killed", "refused", "crashed"}, Stop(how),
         how = "crashed" => spoilt \/ ~entered,
         how = "killed" => ~entered \/ tx.depth > 2
  PROVE  IInv'
<1> USE DEF Stop, listVars, histVars
<1>1. TypeOK'
  BY DEF IInv, TypeOK
<1>2. ControlInv'
  BY DEF IInv, ControlInv, InWork
<1>3. ProcessSurvives'
  BY DEF ProcessSurvives
<1>4. (spoilt \/ BooksInv)'
  BY DEF IInv, BooksInv, Live, Kept, Once, Named, InWork
<1> QED
  BY <1>1, <1>2, <1>3, <1>4 DEF IInv

(* A block at work.                                                         *)
LEMMA WorkFacts ==
  ASSUME IInv, AtWork
  PROVE  /\ Ok /\ pc = "in" /\ tx.stage = "WORK" /\ tx \in TxRecord /\ stack
         /\ ~failed /\ tx.err = "none" /\ tx.depth = tx.level + 1
         /\ tx.depth \in Nat /\ tx.level \in Nat
BY DEF IInv, TypeOK, AtWork, ControlInv, InWork, TxRecord

(* tx_abort in a block that has not come to its outermost end: it frees the *)
(* allocations at depth 1, and leaves the rest of the work to tx_end.       *)
LEMMA AbortStep ==
  ASSUME IInv, Ok, pc = "in", NEW y \in TxRecord, NEW list \in Seq(Blocks),
         NEW spoils \in BOOLEAN, Abort(y, list, spoils),
         y.stage \in {"ONRETRY", "ONABORT"}, y.err # "none",
         y.depth = 0 => spoilt,
         allocs' = list, frees' \in Seq(Blocks \cup {Null}), cap' = cap,
         \/ spoils \/ spoilt
         \/ /\ tx.depth > 1 \/ InWork(tx)
            /\ list = allocs,
         (y.depth = y.level + 1 /\ stack) \/ (y.depth = y.level /\ (spoils \/ spoilt))
  PROVE  IInv'
<1> USE DEF IInv
<1>1. CASE y.depth = 0 \/ (Outermost(y) /\ ~entered)
  <2>1. Stop("crashed")
    BY <1>1 DEF Abort
  <2> QED
    BY <1>1, <2>1, StopStep
<1>2. CASE ~(y.depth = 0 \/ (Outermost(y) /\ ~entered))
  <2>1. /\ tx' = y /\ heap' = (IF Outermost(y) THEN FreeAll(heap, list) ELSE heap)
        /\ failed' = TRUE /\ spoilt' = (spoilt \/ spoils)
        /\ UNCHANGED <<proc, pc, entered, stack, before, mine, given>>
    BY <1>2 DEF Abort
  <2>2. TypeOK'
    <3>1. heap' \in [Blocks -> States]
      BY <2>1, FreeAllType DEF TypeOK, States
    <3> QED
      BY <2>1, <3>1 DEF TypeOK, States
  <2>3. ControlInv'
    BY <2>1 DEF ControlInv, InWork
  <2>4. ProcessSurvives'
    BY <2>1 DEF ProcessSurvives, Ok
  <2>5. ASSUME ~spoilt' PROVE BooksInv'
    <3>1. /\ ~spoilt /\ ~spoils /\ BooksInv /\ (tx.depth > 1 \/ InWork(tx)) /\ list = allocs
          /\ y.depth = y.level + 1 /\ y.depth \in Nat /\ y.level \in Nat
      BY <2>1, <2>5 DEF TxRecord
    <3>2. Live(heap) = before \cup mine /\ before \cap mine = {}
          /\ Once(allocs) /\ mine = Named(allocs) /\ \A b \in Blocks : heap[b] # "corrupt"
      BY <3>1 DEF BooksInv, Kept, ControlInv
    <3>3. CASE Outermost(y)
      <4>1. /\ Live(FreeAll(heap, allocs)) = Live(heap) \ Named(allocs)
            /\ \A b \in Blocks : FreeAll(heap, allocs)[b] # "corrupt"
        BY <3>2, FreeAllOnce DEF TypeOK, States
      <4>2. Live(heap)' = before' /\ \A b \in Blocks : heap'[b] # "corrupt"
        BY <2>1, <3>1, <3>2, <3>3, <4>1 DEF Live
      <4>3. tx'.depth = 1 /\ tx'.stage # "WORK"
        BY <2>1, <3>3 DEF Outermost
      <4> QED
        BY <2>1, <3>2, <4>2, <4>3 DEF BooksInv, Kept, InWork
    <3>4. CASE ~Outermost(y)
      <4>1. y.depth > 1 /\ heap' = heap
        BY <1>2, <2>1, <3>1, <3>4 DEF Outermost
      <4>2. Live(heap)' = Live(heap) /\ Once(allocs)' /\ Named(allocs)' = Named(allocs)
        BY <3>1, <3>2, <4>1 DEF Live, Once, Named
      <4>3. tx'.depth > 1
        BY <2>1, <4>1
      <4> QED
        BY <2>1, <3>2, <4>1, <4>2, <4>3 DEF BooksInv, Kept
    <3> QED
      BY <3>3, <3>4
  <2> QED
    BY <2>2, <2>3, <2>4, <2>5
<1> QED
  BY <1>1, <1>2
--------------------------------------------------------------------------------
(* The actions.  A thread enters and leaves outside of every block.         *)
LEMMA EnterExitStep ==
  ASSUME IInv, Enter \/ EnterFails \/ Exit
  PROVE  IInv'
<1> USE DEF IInv, histVars
<1>1. CASE EnterFails
  <2>1. Stop("killed") /\ ~entered
    BY <1>1 DEF EnterFails
  <2> QED
    BY <2>1, StopStep
<1>2. CASE Enter \/ Exit
  <2>1. /\ proc = "ok" /\ pc = "out" /\ allocs' = <<>> /\ frees' = <<>> /\ cap' = NewCap
        /\ UNCHANGED <<tx, pc, proc, stack, heap, histVars>> /\ entered' \in BOOLEAN
    BY <1>2 DEF Enter, Exit, Ok
  <2>2. TypeOK'
    <3>1. cap' \in [alloc : Nat, free : Nat]
      BY <2>1, ConstAssumption DEF NewCap
    <3> QED
      BY <2>1, <3>1 DEF TypeOK
  <2>3. ControlInv'
    BY <2>1 DEF ControlInv, InWork
  <2>4. ProcessSurvives'
    BY <2>1 DEF ProcessSurvives
  <2>5. (spoilt \/ BooksInv)'
    BY <2>1 DEF BooksInv
  <2> QED
    BY <2>2, <2>3, <2>4, <2>5
<1> QED
  BY <1>1, <1>2

(* tx_begin of an outermost block, or its failure: the books are opened.    *)
LEMMA BeginStep ==
  ASSUME IInv, Begin \/ BeginFails
  PROVE  IInv'
<1> USE DEF IInv, NewTransaction
<1>0. /\ proc = "ok" /\ pc # "in" /\ tx \in TxRecord /\ tx.depth = 0 /\ tx.level = 0
      /\ tx.stage = "NONE" /\ allocs = <<>> /\ frees = <<>> /\ stack = FALSE
  BY DEF Begin, BeginFails, AtBegin, Ok, TypeOK, ControlInv
<1>1. /\ pc' = "in" /\ before' = Live(heap) /\ mine' = {} /\ given' = {} /\ failed' = FALSE
      /\ UNCHANGED <<proc, entered, heap, allocs, frees, cap>>
  BY DEF Begin, BeginFails, listVars
<1>2. /\ tx' \in TxRecord /\ tx'.err = "none" /\ stack' \in BOOLEAN /\ spoilt' \in BOOLEAN
      /\ spoilt => spoilt'
      /\ \/ tx'.stage = "WORK" /\ tx'.depth = 1 /\ tx'.level = 0 /\ stack'
         \/ tx'.stage = "ONABORT" /\ tx'.depth = 0 /\ tx'.level = 0 /\ (stack' \/ spoilt')
  <2>1. CASE Begin
    <3>1. tx' = TxBegin(tx) /\ stack' = TRUE /\ spoilt' = spoilt
      BY <2>1 DEF Begin
    <3>2. tx' \in TxRecord /\ tx'.stage = "WORK" /\ tx'.depth = 1 /\ tx'.level = 0 /\ tx'.err = "none"
      <4>1. /\ TxBegin(tx) \in TxRecord /\ TxBegin(tx).stage = "WORK"
            /\ TxBegin(tx).depth = tx.depth + 1 /\ TxBegin(tx).err = "none"
            /\ TxBegin(tx).level = (IF tx.stage = "WORK" THEN tx.level + 1 ELSE 0)
        BY <1>0, TxBeginFields
      <4>2. tx.depth + 1 = 1
        BY <1>0
      <4>3. TxBegin(tx).level = 0
        BY <1>0, <4>1
      <4> QED
        BY <3>1, <4>1, <4>2, <4>3
    <3> QED
      BY <3>1, <3>2 DEF TypeOK
  <2>2. CASE BeginFails
    <3>1. /\ tx' \in TxRecord /\ tx'.stage = "ONABORT" /\ tx'.err = "none"
          /\ tx'.depth = 0 /\ tx'.level = 0
      BY <1>0, <2>2 DEF BeginFails, TxRecord, Stages, Errs
    <3>2. (stack' = stack /\ spoilt' = TRUE) \/ (stack' = TRUE /\ spoilt' = spoilt)
      BY <2>2 DEF BeginFails
    <3> QED
      BY <3>1, <3>2 DEF TypeOK
  <2> QED
    BY <2>1, <2>2
<1>3. TypeOK'
  BY <1>1, <1>2 DEF TypeOK, Live
<1>4. ControlInv'
  BY <1>1, <1>2 DEF ControlInv, InWork
<1>5. ProcessSurvives'
  BY <1>0, <1>1 DEF ProcessSurvives
<1>6. ASSUME ~spoilt' PROVE BooksInv'
  <2>1. \A b \in Blocks : heap'[b] # "corrupt"
    BY <1>1, <1>2, <1>6 DEF BooksInv
  <2>2. Live(heap)' = before' /\ Kept' = before'
    BY <1>1 DEF Live, Kept
  <2>3. Once(allocs)' /\ Once(frees)' /\ Named(allocs)' = {} /\ Named(frees)' = {}
    BY <1>0, <1>1 DEF Once, Named
  <2> QED
    BY <1>1, <2>1, <2>2, <2>3 DEF BooksInv
<1> QED
  BY <1>3, <1>4, <1>5, <1>6

(* A step that moves the record inside the macros and nothing else.         *)
LEMMA RecordStep ==
  ASSUME IInv, Ok, pc = "in", tx' \in TxRecord, tx'.err = tx.err,
         UNCHANGED <<pc, proc, entered, stack, heap, listVars, histVars>>,
         \/ tx'.depth = tx.depth /\ tx'.level = tx.level /\ (InWork(tx)' <=> InWork(tx))
         \/ /\ tx.depth > 1 /\ tx'.depth > 0 /\ tx'.depth = tx'.level + 1 /\ stack
            /\ InWork(tx)' => ~failed
            /\ tx'.depth > 1 \/ InWork(tx)'
         \/ /\ InWork(tx) /\ ~failed /\ tx'.depth > 1 /\ tx'.depth = tx'.level + 1 /\ stack
  PROVE  IInv'
<1> USE DEF IInv, listVars, histVars
<1>1. TypeOK'
  BY DEF TypeOK
<1>2. ControlInv'
  <2>0. /\ pc' = "in" /\ failed' = failed /\ (failed <=> tx.err # "none")
        /\ (failed' <=> tx'.err # "none") /\ stack' = stack /\ spoilt' = spoilt
    BY DEF ControlInv
  <2>1. CASE tx'.depth = tx.depth /\ tx'.level = tx.level /\ (InWork(tx)' <=> InWork(tx))
    BY <2>0, <2>1 DEF ControlInv
  <2>2. CASE tx'.depth > 0 /\ tx'.depth = tx'.level + 1 /\ stack /\ (InWork(tx)' => ~failed)
    BY <2>0, <2>2 DEF ControlInv
  <2>3. CASE InWork(tx) /\ ~failed /\ tx'.depth > 1 /\ tx'.depth = tx'.level + 1 /\ stack
    <3>1. tx'.depth > 0
      BY <2>3 DEF TxRecord
    <3> QED
      BY <2>0, <2>3, <3>1 DEF ControlInv
  <2> QED
    BY <2>1, <2>2, <2>3
<1>3. ProcessSurvives'
  BY DEF ProcessSurvives, Ok
<1>4. ASSUME ~spoilt' PROVE BooksInv'
  <2>1. BooksInv
    BY <1>4
  <2>2. Live(heap)' = Live(heap) /\ Once(allocs)' = Once(allocs) /\ Once(frees)' = Once(frees)
        /\ Named(allocs)' = Named(allocs) /\ Named(frees)' = Named(frees)
    BY DEF Live, Once, Named
  <2>3. Kept' = Kept
    BY DEF Kept
  <2>4. tx'.depth > 1 => ~failed \/ tx.depth > 1
    OBVIOUS
  <2> QED
    BY <2>1, <2>2, <2>3, <2>4 DEF BooksInv
<1> QED
  BY <1>1, <1>2, <1>3, <1>4

(* tx_begin of a nested block.                                              *)
LEMMA BeginNestedStep ==
  ASSUME IInv, BeginNested
  PROVE  IInv'
<1>1. AtWork /\ tx' = TxBegin(tx)
      /\ UNCHANGED <<pc, proc, entered, stack, heap, listVars, histVars>>
  BY DEF BeginNested
<1>2. /\ tx' \in TxRecord /\ tx'.stage = "WORK" /\ tx'.depth = tx.depth + 1
      /\ tx'.level = tx.level + 1 /\ tx'.err = "none"
  BY <1>1, WorkFacts, TxBeginFields
<1>3. /\ tx'.err = tx.err /\ InWork(tx) /\ tx'.depth > 1 /\ tx'.depth = tx'.level + 1
  BY <1>1, <1>2, WorkFacts DEF InWork
<1> QED
  BY <1>1, <1>2, <1>3, WorkFacts, RecordStep
(* A call of tx_abort in a block at work: the struct tx it leaves is y.     *)
LEMMA AbortAtWork ==
  ASSUME IInv, AtWork, NEW y \in TxRecord, Abort(y, allocs, FALSE),
         y.stage \in {"ONRETRY", "ONABORT"}, y.err # "none",
         y.depth = tx.depth, y.level = tx.level,
         allocs' = allocs, frees' \in Seq(Blocks \cup {Null}), cap' = cap
  PROVE  IInv'
<1>1. /\ Ok /\ pc = "in" /\ stack /\ y.depth = y.level + 1 /\ y.depth # 0 /\ InWork(tx)
  BY WorkFacts DEF InWork
<1>2. allocs \in Seq(Blocks)
  BY DEF IInv, TypeOK
<1> QED
  BY <1>1, <1>2, AbortStep

(* malloc() of tx_malloc fails; the client aborts, or restarts.             *)
LEMMA UserAbortStep ==
  ASSUME IInv, MallocFails \/ UserAbort \/ UserRestart
  PROVE  IInv'
<1>1. AtWork /\ UNCHANGED listVars
  BY DEF MallocFails, UserAbort, UserRestart
<1>2. tx \in TxRecord /\ allocs' = allocs /\ frees' = frees /\ cap' = cap
      /\ frees \in Seq(Blocks \cup {Null})
  BY <1>1 DEF listVars, IInv, TypeOK
<1>3. ASSUME NEW e \in {"failed"}, Abort(TxAbort(tx, e), allocs, FALSE)
      PROVE  IInv'
  <2>1. e \in Errs /\ e # "none"
    BY DEF Errs
  <2> QED
    BY <1>1, <1>2, <1>3, <2>1, TxAbortFields, AbortAtWork
<1>4. ASSUME Abort(TxRestart(tx), allocs, FALSE) PROVE IInv'
  BY <1>1, <1>2, <1>4, TxRestartFields, AbortAtWork
<1> QED
  BY <1>3, <1>4 DEF MallocFails, UserAbort, UserRestart

(* tx_begin of a nested block fails with the level counted up.              *)
LEMMA BeginNestedFailsStep ==
  ASSUME IInv, BeginNestedFails
  PROVE  IInv'
<1> DEFINE x == [tx EXCEPT !.level = @ + 1, !.retry = FALSE]
           y == TxAbort(x, "failed")
<1>1. AtWork /\ Abort(y, allocs, TRUE) /\ UNCHANGED listVars
  BY DEF BeginNestedFails
<1>2. /\ Ok /\ pc = "in" /\ tx \in TxRecord /\ tx.depth = tx.level + 1
      /\ tx.depth \in Nat /\ tx.level \in Nat
  BY <1>1, WorkFacts
<1>3. x \in TxRecord /\ x.depth = tx.depth /\ x.level = tx.level + 1
  BY <1>2 DEF TxRecord
<1>4. "failed" \in Errs
  BY DEF Errs
<1> HIDE DEF x
<1>5. /\ y \in TxRecord /\ y.stage \in {"ONRETRY", "ONABORT"} /\ y.err # "none"
      /\ y.depth = y.level /\ y.depth # 0
  BY <1>2, <1>3, <1>4, TxAbortFields
<1>6. /\ allocs \in Seq(Blocks) /\ allocs' = allocs /\ cap' = cap
      /\ frees' \in Seq(Blocks \cup {Null})
  BY <1>1 DEF listVars, IInv, TypeOK
<1> HIDE DEF y
<1> QED
  BY <1>1, <1>2, <1>5, <1>6, AbortStep

(* The capacity of a vector stays a number.                                 *)
LEMMA GrownType ==
  ASSUME NEW list, NEW c \in Nat
  PROVE  Grown(list, c) \in Nat
BY DEF Grown

(* tx_malloc.                                                               *)
LEMMA MallocStep ==
  ASSUME IInv, NEW b \in Blocks, Malloc(b)
  PROVE  IInv'
<1> USE DEF IInv
<1>0. AtWork /\ heap[b] = "free"
  BY DEF Malloc
<1>w. /\ Ok /\ pc = "in" /\ tx.stage = "WORK" /\ ~failed /\ tx \in TxRecord
  BY <1>0, WorkFacts
<1>1. CASE ~entered
  <2>1. Stop("crashed")
    BY <1>1 DEF Malloc
  <2> QED
    BY <1>1, <2>1, StopStep
<1>2. CASE entered
  <2>1. /\ heap' = [heap EXCEPT ![b] = "live"] /\ allocs' = Append(allocs, b)
        /\ cap' = [cap EXCEPT !.alloc = Grown(allocs, @)] /\ mine' = mine \cup {b}
        /\ UNCHANGED <<tx, pc, proc, entered, stack, frees, before, given, failed, spoilt>>
    BY <1>2 DEF Malloc
  <2>2. /\ allocs \in Seq(Blocks) /\ heap \in [Blocks -> {"free", "live", "corrupt"}]
        /\ cap \in [alloc : Nat, free : Nat]
    BY DEF TypeOK
  <2>3. /\ Append(allocs, b) \in Seq(Blocks)
        /\ Named(Append(allocs, b)) = Named(allocs) \cup {b}
        /\ Once(allocs) /\ b \notin Named(allocs) => Once(Append(allocs, b))
    BY <2>2, AppendFacts, ConstAssumption
  <2>4. TypeOK'
    <3>1. cap' \in [alloc : Nat, free : Nat]
      BY <2>1, <2>2, GrownType
    <3>2. heap' \in [Blocks -> {"free", "live", "corrupt"}]
      BY <2>1, <2>2
    <3>3. allocs' \in Seq(Blocks)
      BY <2>1, <2>3
    <3> QED
      BY <2>1, <3>1, <3>2, <3>3 DEF TypeOK
  <2>5. ControlInv'
    BY <1>w, <2>1 DEF ControlInv, InWork
  <2>6. ProcessSurvives'
    BY <2>1 DEF ProcessSurvives
  <2>7. ASSUME ~spoilt' PROVE BooksInv'
    <3>1. BooksInv /\ Kept = before \cup mine
      BY <1>w, <2>1, <2>7 DEF Kept, InWork
    <3>2. Live(heap)' = Live(heap) \cup {b} /\ b \notin Live(heap)
      BY <1>0, <2>1, <2>2 DEF Live
    <3>3. b \notin before /\ b \notin mine /\ b \notin Named(allocs)
      BY <1>w, <3>1, <3>2 DEF BooksInv
    <3>4. /\ Kept' = before' \cup mine'
          /\ Named(allocs)' = Named(allocs) \cup {b} /\ Once(allocs)'
      <4>1. Once(allocs)
        BY <1>w, <3>1 DEF BooksInv
      <4>2. Named(allocs)' = Named(Append(allocs, b)) /\ Once(allocs)' = Once(Append(allocs, b))
        BY <2>1 DEF Named, Once
      <4>3. Kept' = before' \cup mine'
        BY <1>w, <2>1 DEF Kept, InWork
      <4> QED
        BY <2>3, <3>3, <4>1, <4>2, <4>3
    <3>5. Once(frees)' = Once(frees) /\ Named(frees)' = Named(frees)
      BY <2>1 DEF Once, Named
    <3>6. \A c \in Blocks : heap'[c] # "corrupt"
      BY <2>1, <2>2, <3>1 DEF BooksInv
    <3>7. /\ Live(heap)' = Kept' /\ before' \cap mine' = {} /\ mine' = Named(allocs)'
      BY <1>w, <2>1, <3>1, <3>2, <3>3, <3>4 DEF BooksInv
    <3>8. Once(frees)' /\ given' = Named(frees)' /\ given' \subseteq before' \cup mine'
      BY <1>w, <2>1, <3>1, <3>5 DEF BooksInv
    <3> QED
      BY <3>4, <3>6, <3>7, <3>8 DEF BooksInv
  <2> QED
    BY <2>4, <2>5, <2>6, <2>7
<1> QED
  BY <1>1, <1>2

(* The alloc_list cannot grow: the block is freed, its entry is on the list. *)
LEMMA AllocListFailsStep ==
  ASSUME IInv, NEW b \in Blocks, AllocListFails(b)
  PROVE  IInv'
<1> DEFINE y == TxAbort(tx, "failed")
<1>1. /\ AtWork /\ allocs' = Append(allocs, b) /\ Abort(y, allocs', TRUE)
      /\ UNCHANGED <<frees, cap>>
  BY DEF AllocListFails
<1>2. /\ Ok /\ pc = "in" /\ tx \in TxRecord /\ tx.depth = tx.level + 1 /\ stack
      /\ tx.depth \in Nat /\ tx.level \in Nat /\ "failed" \in Errs
  BY <1>1, WorkFacts DEF Errs
<1>3. /\ y \in TxRecord /\ y.stage \in {"ONRETRY", "ONABORT"} /\ y.err # "none"
      /\ y.depth = y.level + 1 /\ y.depth # 0
  BY <1>2, TxAbortFields
<1>4. allocs' \in Seq(Blocks) /\ frees' \in Seq(Blocks \cup {Null}) /\ cap' = cap
  BY <1>1 DEF IInv, TypeOK
<1> HIDE DEF y
<1> QED
  BY <1>1, <1>2, <1>3, <1>4, AbortStep
(* tx_free.                                                                 *)
LEMMA FreeStep ==
  ASSUME IInv, NEW p \in Blocks \cup {Null}, Free(p)
  PROVE  IInv'
<1> USE DEF IInv
<1>0. AtWork /\ p \in Live(heap) \cup {Null}
  BY DEF Free
<1>w. /\ Ok /\ pc = "in" /\ tx.stage = "WORK" /\ ~failed /\ tx \in TxRecord
  BY <1>0, WorkFacts
<1>1. CASE ~entered
  <2>1. Stop("crashed")
    BY <1>1 DEF Free
  <2> QED
    BY <1>1, <2>1, StopStep
<1>2. CASE entered
  <2>1. /\ frees' = Append(Forget(p), p)
        /\ cap' = [cap EXCEPT !.free = Grown(frees, @)] /\ given' = given \cup ({p} \ {Null})
        /\ UNCHANGED <<tx, pc, proc, entered, stack, heap, allocs, before, mine, failed, spoilt>>
    BY <1>2 DEF Free
  <2>2. /\ frees \in Seq(Blocks \cup {Null}) /\ cap \in [alloc : Nat, free : Nat]
    BY DEF TypeOK
  <2>3. TypeOK'
    <3>1. cap' \in [alloc : Nat, free : Nat]
      BY <2>1, <2>2, GrownType
    <3>2. frees' \in Seq(Blocks \cup {Null})
      BY <2>1, <2>2, ForgetFacts
    <3>3. given' \subseteq Blocks
      BY <2>1 DEF TypeOK
    <3> QED
      BY <2>1, <3>1, <3>2, <3>3 DEF TypeOK
  <2>4. ControlInv'
    BY <1>w, <2>1 DEF ControlInv, InWork
  <2>5. ProcessSurvives'
    BY <2>1 DEF ProcessSurvives
  <2>6. ASSUME ~spoilt' PROVE BooksInv'
    <3>1. BooksInv
      BY <2>1, <2>6
    <3>2. Once(frees)' /\ Named(frees)' = Named(frees) \cup ({p} \ {Null})
      <4>1. Once(frees)
        BY <1>w, <3>1 DEF BooksInv
      <4>2. Named(frees)' = Named(Append(Forget(p), p)) /\ Once(frees)' = Once(Append(Forget(p), p))
        BY <2>1 DEF Named, Once
      <4> QED
        BY <2>2, <4>1, <4>2, ForgetFacts
    <3>3. /\ Kept = before \cup mine /\ Kept' = Kept /\ Live(heap)' = Live(heap)
      BY <1>w, <2>1 DEF Kept, InWork, Live
    <3>4. given' = Named(frees)' /\ given' \subseteq before' \cup mine'
      BY <1>0, <1>w, <2>1, <3>1, <3>2, <3>3 DEF BooksInv
    <3>5. Once(allocs)' = Once(allocs) /\ Named(allocs)' = Named(allocs)
      BY <2>1 DEF Once, Named
    <3> QED
      BY <1>w, <2>1, <3>1, <3>2, <3>3, <3>4, <3>5 DEF BooksInv
  <2> QED
    BY <2>3, <2>4, <2>5, <2>6
<1> QED
  BY <1>1, <1>2

(* The free_list cannot grow.                                               *)
LEMMA FreeListFailsStep ==
  ASSUME IInv, NEW p \in Blocks \cup {Null}, FreeListFails(p)
  PROVE  IInv'
<1>1. /\ AtWork /\ frees' = Append(Forget(p), p) /\ allocs' = allocs /\ cap' = cap
      /\ Abort(TxAbort(tx, "failed"), allocs, FALSE)
  BY DEF FreeListFails
<1>2. tx \in TxRecord /\ "failed" \in Errs /\ frees \in Seq(Blocks \cup {Null})
  BY DEF Errs, IInv, TypeOK
<1>3. frees' \in Seq(Blocks \cup {Null})
  BY <1>1, <1>2, ForgetFacts
<1> QED
  BY <1>1, <1>2, <1>3, TxAbortFields, AbortAtWork

(* The commit callback: level 0 gives back what the transaction has freed.  *)
LEMMA CommitStep ==
  ASSUME IInv, Commit
  PROVE  IInv'
<1> USE DEF IInv
<1>0. AtWork
  BY DEF Commit
<1>w. /\ Ok /\ pc = "in" /\ tx.stage = "WORK" /\ ~failed /\ tx \in TxRecord /\ stack
      /\ tx.depth = tx.level + 1 /\ tx.depth \in Nat /\ tx.level \in Nat /\ tx.err = "none"
  BY <1>0, WorkFacts
<1>1. CASE tx.level = 0 /\ ~entered
  <2>1. Stop("crashed")
    BY <1>1 DEF Commit
  <2> QED
    BY <1>1, <2>1, StopStep
<1>2. CASE ~(tx.level = 0 /\ ~entered)
  <2>1. /\ heap' = (IF tx.level = 0 THEN FreeAll(heap, frees) ELSE heap)
        /\ tx' = TxCommit(tx)
        /\ UNCHANGED <<pc, proc, entered, stack, listVars, histVars>>
    BY <1>2 DEF Commit
  <2>2. /\ tx' \in TxRecord /\ tx'.stage = "ONCOMMIT" /\ tx'.depth = tx.depth
        /\ tx'.level = tx.level /\ tx'.err = tx.err
    BY <1>w, <2>1, TxCommitFields
  <2>3. TypeOK'
    <3>1. heap' \in [Blocks -> States]
      BY <2>1, FreeAllType DEF TypeOK, States
    <3> QED
      BY <2>1, <2>2, <3>1 DEF TypeOK, States, listVars, histVars
  <2>4. ControlInv'
    BY <1>w, <2>1, <2>2 DEF ControlInv, InWork, listVars, histVars
  <2>5. ProcessSurvives'
    BY <2>1, <2>2 DEF ProcessSurvives, histVars
  <2>6. ASSUME ~spoilt' PROVE BooksInv'
    <3>1. BooksInv /\ Live(heap) = before \cup mine
      BY <1>w, <2>1, <2>6 DEF Kept, InWork, histVars, BooksInv
    <3>2. Once(frees) /\ given = Named(frees) /\ given \subseteq before \cup mine
      BY <1>w, <3>1 DEF BooksInv
    <3>3. /\ Live(heap)' = Kept' /\ \A b \in Blocks : heap'[b] # "corrupt"
      <4>1. CASE tx.level = 0
        <5>1. /\ Live(FreeAll(heap, frees)) = Live(heap) \ Named(frees)
              /\ \A b \in Blocks : FreeAll(heap, frees)[b] # "corrupt"
          BY <3>1, <3>2, FreeAllOnce DEF TypeOK, States, BooksInv
        <5>2. Live(heap)' = Live(FreeAll(heap, frees))
          BY <2>1, <4>1 DEF Live
        <5>3. Kept' = (before \cup mine) \ given
          BY <1>w, <2>1, <2>2, <4>1 DEF Kept, InWork, histVars
        <5> QED
          BY <2>1, <3>1, <3>2, <4>1, <5>1, <5>2, <5>3
      <4>2. CASE tx.level # 0
        <5>1. tx'.depth > 1
          BY <1>w, <2>2, <4>2
        <5>2. Kept' = before \cup mine
          BY <2>1, <5>1 DEF Kept, histVars
        <5> QED
          BY <2>1, <3>1, <4>2, <5>2 DEF BooksInv, Live
      <4> QED
        BY <4>1, <4>2
    <3>4. /\ Once(allocs)' = Once(allocs) /\ Once(frees)' = Once(frees)
          /\ Named(allocs)' = Named(allocs) /\ Named(frees)' = Named(frees)
      BY <2>1 DEF Once, Named, listVars
    <3> QED
      BY <1>w, <2>1, <3>1, <3>2, <3>3, <3>4 DEF BooksInv, histVars
  <2> QED
    BY <2>3, <2>4, <2>5, <2>6
<1> QED
  BY <1>1, <1>2

(* A call at a wrong stage.                                                  *)
LEMMA RefusedStep ==
  ASSUME IInv, BeginInHandler \/ ListCallOutsideWork
  PROVE  IInv'
<1>1. Stop("refused")
  BY DEF BeginInHandler, ListCallOutsideWork
<1> QED
  BY <1>1, StopStep

(* tx_process at the other stages.                                          *)
LEMMA ProcessStep ==
  ASSUME IInv, Process
  PROVE  IInv'
<1>1. /\ Ok /\ pc = "in" /\ tx.stage # "WORK" /\ tx' = TxProcess(tx) /\ tx \in TxRecord
      /\ UNCHANGED <<pc, proc, entered, stack, heap, listVars, histVars>>
  BY DEF Process, InHandler, IInv, TypeOK
<1>2. /\ tx' \in TxRecord /\ tx'.stage # "WORK" /\ tx'.depth = tx.depth
      /\ tx'.level = tx.level /\ tx'.err = tx.err
  BY <1>1, TxProcessFields
<1>3. ~InWork(tx) /\ ~InWork(tx)'
  BY <1>1, <1>2 DEF InWork
<1> QED
  BY <1>1, <1>2, <1>3, RecordStep

(* tx_end of the last block: the macros are left.                           *)
LEMMA EndStep ==
  ASSUME IInv, End
  PROVE  IInv'
<1> USE DEF IInv
<1>0. /\ Ok /\ pc = "in" /\ tx.stage = "NONE" /\ LastBlock /\ tx \in TxRecord
  BY DEF End, AtEnd, TypeOK
<1>1. CASE ~stack \/ ~entered
  <2>1. Stop("crashed")
    BY <1>1 DEF End
  <2>2. ~stack => spoilt
    BY <1>0 DEF ControlInv, LastBlock
  <2> QED
    BY <1>1, <2>1, <2>2, StopStep
<1>2. CASE ~(~stack \/ ~entered)
  <2>1. /\ tx' = [tx EXCEPT !.stage = "NONE", !.depth = 0]
        /\ allocs' = <<>> /\ frees' = <<>> /\ stack' = FALSE /\ pc' \in {"retry", "out"}
        /\ UNCHANGED <<proc, entered, heap, cap, histVars>>
    BY <1>2 DEF End
  <2>2. /\ tx' \in TxRecord /\ tx'.stage = "NONE" /\ tx'.depth = 0 /\ tx'.level = 0
    BY <1>0, <2>1 DEF TxRecord, Stages, LastBlock
  <2>3. TypeOK'
    <3>1. allocs' \in Seq(Blocks) /\ frees' \in Seq(Blocks \cup {Null})
      BY <2>1
    <3>2. pc' \in {"out", "in", "retry"} /\ stack' \in BOOLEAN
      BY <2>1
    <3> QED
      BY <2>1, <2>2, <3>1, <3>2 DEF TypeOK, histVars
  <2>4. ControlInv'
    BY <2>1, <2>2 DEF ControlInv, InWork
  <2>5. ProcessSurvives'
    BY <1>0, <2>1 DEF ProcessSurvives, Ok
  <2>6. (spoilt \/ BooksInv)'
    BY <2>1 DEF BooksInv, histVars
  <2> QED
    BY <2>3, <2>4, <2>5, <2>6
<1> QED
  BY <1>1, <1>2
(* tx_end of a nested block: the block around it runs on, or fails too.     *)
LEMMA EndNestedStep ==
  ASSUME IInv, EndNested
  PROVE  IInv'
<1> USE DEF IInv
<1>0. /\ Ok /\ pc = "in" /\ tx.stage = "NONE" /\ ~LastBlock /\ tx \in TxRecord
      /\ tx.depth \in Nat /\ tx.level \in Nat /\ ~InWork(tx)
  BY DEF EndNested, AtEnd, TypeOK, InWork, TxRecord
<1>1. \/ tx.depth = tx.level + 1 /\ tx.depth > 1 /\ stack
      \/ tx.depth = tx.level /\ tx.depth > 0 /\ tx.err # "none" /\ spoilt
  BY <1>0 DEF ControlInv, LastBlock
<1>2. ~Outermost(tx) /\ tx.depth - 1 \in Nat /\ tx.level - 1 \in Nat
  BY <1>0, <1>1 DEF Outermost
<1>3. CASE tx.err # "none"
  <2> DEFINE outer == [tx EXCEPT !.stage = "WORK", !.depth = @ - 1, !.level = @ - 1]
             y == TxAbort(outer, tx.err)
  <2>1. TxEnd(tx) = y
    BY <1>2, <1>3 DEF TxEnd
  <2>2. Abort(y, allocs, FALSE) /\ UNCHANGED listVars
    BY <1>0, <1>3, <2>1 DEF EndNested
  <2>3. /\ outer \in TxRecord /\ outer.depth = tx.depth - 1 /\ outer.level = tx.level - 1
        /\ tx.err \in Errs
    BY <1>0, <1>2 DEF TxRecord, Stages
  <2> HIDE DEF outer
  <2>4. /\ y \in TxRecord /\ y.stage \in {"ONRETRY", "ONABORT"} /\ y.err # "none"
        /\ y.depth = tx.depth - 1 /\ y.level = tx.level - 1
    BY <1>3, <2>3, TxAbortFields
  <2> HIDE DEF y
  <2>5. /\ y.depth = 0 => spoilt
        /\ (y.depth = y.level + 1 /\ stack) \/ (y.depth = y.level /\ spoilt)
        /\ spoilt \/ tx.depth > 1
    BY <1>0, <1>1, <2>4
  <2>6. /\ allocs \in Seq(Blocks) /\ allocs' = allocs /\ cap' = cap
        /\ frees' \in Seq(Blocks \cup {Null})
    BY <2>2 DEF listVars, TypeOK
  <2> QED
    BY <1>0, <2>2, <2>4, <2>5, <2>6, AbortStep
<1>4. CASE tx.err = "none"
  <2>1. tx.depth = tx.level + 1 /\ tx.depth > 1 /\ stack /\ ~failed
    BY <1>0, <1>1, <1>4 DEF ControlInv
  <2>2. CASE TxEndKills(tx)
    <3>1. Stop("killed")
      BY <1>4, <2>2 DEF EndNested
    <3>2. tx.level > 1
      BY <2>2 DEF TxEndKills
    <3>3. tx.depth > 2
      BY <1>0, <2>1, <3>2
    <3> QED
      BY <3>1, <3>3, StopStep
  <2>3. CASE ~TxEndKills(tx)
    <3>1. tx' = TxEnd(tx) /\ UNCHANGED <<pc, proc, entered, stack, heap, listVars, histVars>>
      BY <1>4, <2>3 DEF EndNested
    <3>2. tx' = [tx EXCEPT !.stage = "WORK", !.depth = @ - 1, !.level = @ - 1]
      BY <1>2, <1>4, <3>1 DEF TxEnd
    <3>3. /\ tx' \in TxRecord /\ tx'.stage = "WORK" /\ tx'.err = tx.err
          /\ tx'.depth = tx.depth - 1 /\ tx'.level = tx.level - 1
      BY <1>0, <1>2, <3>2 DEF TxRecord, Stages
    <3>4. tx'.depth > 0 /\ tx'.depth = tx'.level + 1 /\ InWork(tx)'
      BY <1>0, <2>1, <3>3 DEF InWork
    <3> QED
      BY <1>0, <2>1, <3>1, <3>3, <3>4, RecordStep
  <2> QED
    BY <2>2, <2>3
<1> QED
  BY <1>3, <1>4

(* Every step keeps IInv.                                                   *)
LEMMA NextInv == IInv /\ [Next]_vars => IInv'
<1> SUFFICES ASSUME IInv, [Next]_vars PROVE IInv'
  OBVIOUS
<1>1. CASE UNCHANGED vars
  <2>1. TypeOK' /\ ProcessSurvives' /\ ControlInv'
    BY <1>1 DEF IInv, TypeOK, ProcessSurvives, ControlInv, InWork, vars, listVars, histVars
  <2>2. (spoilt \/ BooksInv)'
    BY <1>1 DEF IInv, BooksInv, Live, Kept, Once, Named, InWork, vars, listVars, histVars
  <2> QED
    BY <2>1, <2>2 DEF IInv
<1>2. CASE Client
  BY <1>2, EnterExitStep, BeginNestedStep, BeginNestedFailsStep, MallocStep,
     AllocListFailsStep, FreeStep, FreeListFailsStep, UserAbortStep, RefusedStep, CommitStep
     DEF Client
<1>3. CASE Library
  BY <1>3, ProcessStep, EndStep, EndNestedStep DEF Library
<1>4. CASE Start
  BY <1>4, BeginStep DEF Start
<1> QED
  BY <1>1, <1>2, <1>3, <1>4 DEF Next, Dead

--------------------------------------------------------------------------------
(* IInv is an invariant of the specification.                               *)
THEOREM Invariance == Spec => []IInv
<1> QED
  BY InitInv, NextInv, PTL DEF Spec

(* tx_abort through several levels, tx_free of a block twice, a commit, the *)
(* attempt after a restart: nothing is given to free() twice.               *)
THEOREM NothingFreedTwice == Spec => []NoDoubleFree
<1>1. IInv => NoDoubleFree
  BY DEF IInv, BooksInv, NoDoubleFree
<1> QED
  BY <1>1, Invariance, PTL

(* tx_end passes a failure on to every block around: no client's code runs  *)
(* in a transaction that tx_abort was called in.                            *)
THEOREM FailureWaterfalls == Spec => []FailureIsFinal
<1>1. IInv => FailureIsFinal
  BY DEF IInv, ControlInv, FailureIsFinal
<1> QED
  BY <1>1, Invariance, PTL

(* The process ends by tx_thread_enter that was not called, by a failure    *)
(* that leaves tx_begin or tx_malloc half done, and by the third level.     *)
THEOREM Survival == Spec => []ProcessSurvives
<1>1. IInv => ProcessSurvives
  BY DEF IInv
<1> QED
  BY <1>1, Invariance, PTL

(* The macros are left by tx_end of the last block: with what was allocated *)
(* kept and what was freed gone, or as if the transaction had not been.     *)
THEOREM AllOrNone == Spec => AllOrNothing
<1> DEFINE Leaves == ~spoilt /\ pc = "in" /\ pc' # "in" =>
                       Live(heap) = IF failed THEN before ELSE (before \cup mine) \ given
<1>1. IInv /\ [Next]_vars => [Leaves]_vars
  <2> SUFFICES ASSUME IInv, Next, ~spoilt, pc = "in", pc' # "in"
               PROVE  Live(heap) = IF failed THEN before ELSE (before \cup mine) \ given
    OBVIOUS
  <2>1. End
    BY DEF Next, Client, Library, Start, Dead, Enter, EnterFails, Exit, Begin, BeginFails,
       AtBegin, BeginNested, BeginNestedFails, Malloc, AllocListFails, MallocFails, Free,
       FreeListFails, UserAbort, UserRestart, BeginInHandler, ListCallOutsideWork, Commit, Process,
       EndNested, Abort, Stop, vars
  <2>2. ~(tx.depth > 1) /\ ~InWork(tx) /\ BooksInv
    BY <2>1 DEF End, AtEnd, LastBlock, InWork, IInv, TypeOK, TxRecord
  <2> QED
    BY <2>2 DEF BooksInv, Kept
<1> QED
  BY <1>1, Invariance, PTL DEF Spec, AllOrNothing
================================================================================
