------------------------------- MODULE TMLProofs -------------------------------
(***************************************************************************)
(* The safety of TML for any number of threads, locations, values and      *)
(* transactions: IInv is inductive, and each property is read off it.      *)
(*                                                                         *)
(* The file follows the specification: one lemma per action saying that    *)
(* its step keeps IInv, then NextInv, which joins them, and the theorems.  *)
(* The second part is about what a transaction leaves behind, the third    *)
(* proves the refinement of AtomicTM.                                      *)
(***************************************************************************)
EXTENDS TMLRefines, TLAPS

--------------------------------------------------------------------------------
(* What the operators of Tx do to the fields of a transaction's record.     *)

(* tx_begin: a new block, one level down if there is one around it.         *)
LEMMA TxBeginFields ==
  ASSUME NEW x \in TxRecord
  PROVE  /\ TxBegin(x) \in TxRecord
         /\ TxBegin(x).stage = "WORK" /\ TxBegin(x).depth = x.depth + 1
         /\ TxBegin(x).level = (IF x.stage = "WORK" THEN x.level + 1 ELSE 0)
         /\ TxBegin(x).retry = FALSE /\ TxBegin(x).err = "none"
BY DEF TxRecord, Stages, Errs, TxBegin, InWork

(* tx_abort changes the stage and the error, and nothing of the nesting.    *)
LEMMA TxAbortFields ==
  ASSUME NEW x \in TxRecord, NEW e \in Errs
  PROVE  /\ TxAbort(x, e) \in TxRecord
         /\ TxAbort(x, e).stage \in {"ONRETRY", "ONABORT"}
         /\ TxAbort(x, e).depth = x.depth /\ TxAbort(x, e).level = x.level
         /\ TxAbort(x, e).retry = x.retry /\ TxAbort(x, e).err = e
BY DEF TxRecord, Stages, Errs, TxAbort

(* tx_restart: the same, and the mark that End will go back to the beginning. *)
LEMMA TxRestartFields ==
  ASSUME NEW x \in TxRecord
  PROVE  /\ TxRestart(x) \in TxRecord
         /\ TxRestart(x).stage \in {"ONRETRY", "ONABORT"}
         /\ TxRestart(x).depth = x.depth /\ TxRestart(x).level = x.level
         /\ TxRestart(x).retry = TRUE /\ TxRestart(x).err = "restart"
<1> DEFINE y == [x EXCEPT !.retry = TRUE]
<1>1. /\ y \in TxRecord /\ y.depth = x.depth
      /\ y.level = x.level /\ y.retry = TRUE
  BY DEF TxRecord
<1>2. "restart" \in Errs
  BY DEF Errs
<1> HIDE DEF y
<1>3. TxRestart(x) = TxAbort(y, "restart")
  BY DEF TxRestart, y
<1> QED
  BY <1>1, <1>2, <1>3, TxAbortFields

(* tx_commit changes the stage only.                                        *)
LEMMA TxCommitFields ==
  ASSUME NEW x \in TxRecord
  PROVE  /\ TxCommit(x) \in TxRecord
         /\ TxCommit(x).stage = "ONCOMMIT"
         /\ TxCommit(x).depth = x.depth /\ TxCommit(x).level = x.level
         /\ TxCommit(x).retry = x.retry /\ TxCommit(x).err = x.err
BY DEF TxRecord, Stages, TxCommit

(* So does tx_process.                                                      *)
LEMMA TxProcessFields ==
  ASSUME NEW x \in TxRecord
  PROVE  /\ TxProcess(x) \in TxRecord
         /\ TxProcess(x).stage \in {"FINALLY", "NONE"}
         /\ TxProcess(x).depth = x.depth /\ TxProcess(x).level = x.level
         /\ TxProcess(x).retry = x.retry /\ TxProcess(x).err = x.err
BY DEF TxRecord, Stages, TxProcess

(* tx_end of the outermost block empties the stack.                         *)
LEMMA TxEndOutermost ==
  ASSUME NEW x \in TxRecord, Outermost(x)
  PROVE  /\ TxEnd(x) \in TxRecord
         /\ TxEnd(x).stage = "NONE" /\ TxEnd(x).depth = 0
         /\ TxEnd(x).level = x.level
         /\ TxEnd(x).retry = x.retry /\ TxEnd(x).err = x.err
BY DEF TxRecord, Stages, TxEnd

(* tx_end of a nested block leaves the one around it at WORK, or failing    *)
(* with the same error.                                                     *)
LEMMA TxEndNested ==
  ASSUME NEW x \in TxRecord, x.depth > 1, x.level = x.depth - 1
  PROVE  /\ TxEnd(x) \in TxRecord
         /\ TxEnd(x).stage = "WORK" => TxEnd(x).err = "none"
         /\ TxEnd(x).stage # "NONE"
         /\ TxEnd(x).depth = x.depth - 1 /\ TxEnd(x).level = x.level - 1
         /\ TxEnd(x).retry = x.retry /\ TxEnd(x).err = x.err
<1> DEFINE y == [x EXCEPT !.stage = "WORK", !.depth = @ - 1, !.level = @ - 1]
<1>1. ~Outermost(x)
  BY DEF Outermost, TxRecord
<1>2. x.depth - 1 \in Nat /\ x.level - 1 \in Nat
  BY DEF TxRecord
<1>3. /\ y \in TxRecord /\ y.stage = "WORK" /\ y.depth = x.depth - 1
      /\ y.level = x.level - 1 /\ y.retry = x.retry /\ y.err = x.err
  BY <1>2 DEF TxRecord, Stages
<1>4. x.err \in Errs
  BY DEF TxRecord
<1>5. TxEnd(x) = IF x.err = "none" THEN y ELSE TxAbort(y, x.err)
  BY <1>1 DEF TxEnd
<1> HIDE DEF y
<1>6. /\ TxAbort(y, x.err) \in TxRecord
      /\ TxAbort(y, x.err).stage \in {"ONRETRY", "ONABORT"}
      /\ TxAbort(y, x.err).depth = y.depth /\ TxAbort(y, x.err).level = y.level
      /\ TxAbort(y, x.err).retry = y.retry /\ TxAbort(y, x.err).err = x.err
  BY <1>3, <1>4, TxAbortFields
<1> QED
  BY <1>3, <1>5, <1>6

(* A nested block that has not failed hands back to the block around it.    *)
LEMMA TxEndResumes ==
  ASSUME NEW x \in TxRecord, ~Outermost(x), x.err = "none"
  PROVE  TxEnd(x).stage = "WORK"
<1> DEFINE y == [x EXCEPT !.stage = "WORK", !.depth = @ - 1, !.level = @ - 1]
<1>1. TxEnd(x) = y
  BY DEF TxEnd
<1>2. y.stage = "WORK"
  BY DEF TxRecord
<1> QED
  BY <1>1, <1>2

--------------------------------------------------------------------------------

(* The arithmetic of the lock word: one up from even is odd, and back.      *)
LEMMA Parity ==
  \A n \in Nat : /\ IsEven(n) => ~IsEven(n + 1)
                 /\ ~IsEven(n) => n - 1 \in Nat /\ IsEven(n - 1) /\ IsEven(n + 1)
BY DEF IsEven

(* Before any thread has begun, memory is version 0 and nobody holds.       *)
LEMMA InitInv == Init => IInv
<1> SUFFICES ASSUME Init PROVE IInv
  OBVIOUS
<1> USE ConstAssumption DEF Init
<1>1. TypeOK
  BY DEF TypeOK, TxIdle, TxRecord, Stages, Errs, NoArg, NoWrites, Contents
<1>2. IsEven(0)
  BY DEF IsEven
<1>3. LockInv
  BY <1>2 DEF LockInv, Holds, InTx, TxIdle
<1>4. ReadsAreOneVersion
  BY DEF ReadsAreOneVersion, InTx, TxIdle
<1>5. MemoryIsVersionPlusHolder
  BY <1>2 DEF MemoryIsVersionPlusHolder, Holds, InTx, TxIdle
<1>6. HistoryInv
  BY <1>2 DEF HistoryInv
<1>7. ASSUME NEW t \in Threads PROVE ControlInv(t) /\ HolderInv(t) /\ ReaderInv(t)
  BY DEF ControlInv, HolderInv, ReaderInv, InTx, Holds, TxIdle, InWork
<1> QED
  BY <1>1, <1>3, <1>4, <1>5, <1>6, <1>7 DEF IInv

--------------------------------------------------------------------------------
(* A step of thread t that only rewrites its struct tx and goes back to the *)
(* loop of a block: nesting, handlers, aborts and every kind of restart.    *)
LEMMA RecordStep ==
  ASSUME IInv, NEW t \in Threads, NEW r \in TxRecord, InTx(t),
         tx' = [tx EXCEPT ![t] = r],
         pc' = [pc EXCEPT ![t] = "run"],
         arg' = [arg EXCEPT ![t] = NoArg],
         loc' \in [Threads -> Nat], \A s \in Threads : s # t => loc'[s] = loc[s],
         loc'[t] = loc[t] \/ (r.retry /\ ~irrevoc[t]),
         UNCHANGED <<glb, mem, irrevoc, frees, histVars>>,
         pc[t] # "store",
         r.depth > 0, r.level = r.depth - 1,
         r.stage = "WORK" => r.err = "none",
         r.retry <=> r.err = "restart",
         r.err = "none" => tx[t].err = "none",
         tx[t].retry => r.retry,
         r.retry => ~irrevoc[t]
  PROVE  IInv'
<1> USE DEF IInv, InTx, histVars
<1>t. /\ TypeOK /\ \A s \in Threads : s # t => tx'[s] = tx[s]
      /\ tx'[t] = r /\ tx[t].depth > 0
      /\ \A s \in Threads : s # t => pc'[s] = pc[s] /\ arg'[s] = arg[s]
      /\ pc'[t] = "run" /\ arg'[t] = NoArg
  BY DEF TypeOK
<1>h. \A s \in Threads : Holds(s)' <=> Holds(s)
  BY <1>t DEF Holds
<1>1. TypeOK'
  BY <1>t DEF TypeOK
<1>2. LockInv'
  BY <1>h, <1>t DEF LockInv, Holds
<1>3. ReadsAreOneVersion'
  BY <1>t DEF ReadsAreOneVersion, Version
<1>4. MemoryIsVersionPlusHolder'
  BY <1>h DEF MemoryIsVersionPlusHolder, Overlay
<1>5. HistoryInv'
  BY DEF HistoryInv
<1>6. ASSUME NEW s \in Threads
      PROVE  ControlInv(s)' /\ HolderInv(s)' /\ ReaderInv(s)'
  <2>1. ControlInv(s)'
    BY <1>t DEF ControlInv, InWork
  <2>2. HolderInv(s)'
    BY <1>t, <1>h DEF HolderInv, NoWrites
  <2>3. ReaderInv(s)'
    BY <1>t DEF ReaderInv
  <2> QED
    BY <2>1, <2>2, <2>3
<1> QED
  BY <1>1, <1>2, <1>3, <1>4, <1>5, <1>6

(* tml_tx_begin inside a block: the lock is not looked at.                   *)
LEMMA BeginNestedStep ==
  ASSUME IInv, NEW t \in Threads, BeginNested(t)
  PROVE  IInv'
<1>1. /\ TypeOK /\ ControlInv(t) /\ HolderInv(t) /\ tx[t] \in TxRecord
      /\ InTx(t) /\ pc[t] = "run" /\ InWork(tx[t]) /\ arg[t] = NoArg
  BY DEF IInv, TypeOK, BeginNested, AtWork, ControlInv
<1>2. /\ tx[t].level = tx[t].depth - 1 /\ tx[t].depth \in Nat /\ tx[t].err = "none"
      /\ ~tx[t].retry
  BY <1>1 DEF ControlInv, TxRecord
<1> DEFINE r == TxBegin(tx[t])
<1>3. /\ r \in TxRecord /\ r.depth = tx[t].depth + 1 /\ r.level = tx[t].level + 1
      /\ r.retry = FALSE /\ r.err = "none"
  BY <1>1, TxBeginFields DEF InWork
<1> HIDE DEF r
<1>4. /\ tx' = [tx EXCEPT ![t] = r]
      /\ pc' = [pc EXCEPT ![t] = "run"] /\ arg' = [arg EXCEPT ![t] = NoArg]
      /\ loc' = loc /\ loc' \in [Threads -> Nat]
      /\ UNCHANGED <<glb, mem, irrevoc, frees, histVars>>
  BY <1>1 DEF BeginNested, TypeOK, r
<1>5. r.depth > 0 /\ r.level = r.depth - 1
  BY <1>2, <1>3
<1> QED
  BY <1>1, <1>2, <1>3, <1>4, <1>5, RecordStep

(* Restart from any step of t's block that changes nothing else but loc,    *)
(* which the failed CAS may have overwritten.                               *)
LEMMA RestartStep ==
  ASSUME IInv, NEW t \in Threads, InTx(t), InWork(tx[t]), ~irrevoc[t],
         pc[t] # "store",
         Restart(t),
         arg' = [arg EXCEPT ![t] = NoArg],
         loc' \in [Threads -> Nat], \A s \in Threads : s # t => loc'[s] = loc[s],
         UNCHANGED <<glb, mem, irrevoc, frees, histVars>>
  PROVE  IInv'
<1>1. tx[t] \in TxRecord /\ tx[t].level = tx[t].depth - 1 /\ tx[t].err = "none"
  BY DEF IInv, TypeOK, ControlInv
<1> DEFINE r == TxRestart(tx[t])
<1>2. /\ r \in TxRecord /\ r.depth = tx[t].depth /\ r.level = tx[t].level
      /\ r.retry = TRUE /\ r.err = "restart" /\ r.stage # "WORK"
  BY <1>1, TxRestartFields
<1>3. tx' = [tx EXCEPT ![t] = r] /\ pc' = [pc EXCEPT ![t] = "run"]
  BY DEF Restart, Goto
<1> HIDE DEF r
<1> QED
  BY <1>1, <1>2, <1>3, RecordStep DEF InTx

(* What IInv says of a thread whose client's code is running.               *)
LEMMA WorkFacts ==
  ASSUME IInv, NEW t \in Threads, AtWork(t)
  PROVE  /\ TypeOK /\ InTx(t) /\ pc[t] = "run" /\ tx[t] \in TxRecord /\ arg[t] = NoArg
         /\ tx[t].err = "none" /\ ~tx[t].retry /\ InWork(tx[t])
         /\ tx[t].level = tx[t].depth - 1 /\ tx[t].depth > 0 /\ tx[t].depth \in Nat
BY DEF IInv, TypeOK, AtWork, ControlInv, InTx, TxRecord

(* tx_abort: the lock is kept, irrevocable or not, until the end.           *)
LEMMA AbortStep ==
  ASSUME IInv, NEW t \in Threads, Abort(t)
  PROVE  IInv'
<1>1. /\ TypeOK /\ ControlInv(t) /\ HolderInv(t) /\ tx[t] \in TxRecord
      /\ InTx(t) /\ pc[t] = "run" /\ InWork(tx[t]) /\ arg[t] = NoArg
  BY DEF IInv, TypeOK, Abort, AtWork, ControlInv
<1>2. /\ tx[t].level = tx[t].depth - 1 /\ tx[t].depth > 0 /\ tx[t].err = "none"
      /\ ~tx[t].retry
  BY <1>1 DEF ControlInv, InTx
<1> DEFINE r == TxAbort(tx[t], "failed")
<1>3. /\ r \in TxRecord /\ r.depth = tx[t].depth /\ r.level = tx[t].level
      /\ r.retry = tx[t].retry /\ r.err = "failed" /\ r.stage # "WORK"
  BY <1>1, TxAbortFields DEF Errs
<1> HIDE DEF r
<1>4. /\ tx' = [tx EXCEPT ![t] = r]
      /\ pc' = [pc EXCEPT ![t] = "run"] /\ arg' = [arg EXCEPT ![t] = NoArg]
      /\ loc' = loc /\ loc' \in [Threads -> Nat]
      /\ UNCHANGED <<glb, mem, irrevoc, frees, histVars>>
  BY <1>1 DEF Abort, TypeOK, r
<1> QED
  BY <1>1, <1>2, <1>3, <1>4, RecordStep

(* TML_RESTART, from a transaction that does not write in place.             *)
LEMMA UserRestartStep ==
  ASSUME IInv, NEW t \in Threads, UserRestart(t), ~RestartIrrevoc
  PROVE  IInv'
<1>1. /\ TypeOK /\ InTx(t) /\ pc[t] = "run" /\ InWork(tx[t]) /\ arg[t] = NoArg
      /\ ~irrevoc[t]
  BY ConstAssumption DEF IInv, TypeOK, UserRestart, AtWork, ControlInv
<1>2. /\ Restart(t) /\ arg' = [arg EXCEPT ![t] = NoArg]
      /\ loc' = loc /\ loc' \in [Threads -> Nat]
      /\ UNCHANGED <<glb, mem, irrevoc, frees, histVars>>
  BY <1>1 DEF UserRestart, TypeOK
<1> QED
  BY <1>1, <1>2, RestartStep

(* The CAS that fails leaves loc to the holder's value and restarts.         *)
LEMMA LoseRaceStep ==
  ASSUME IInv, NEW t \in Threads, AtWork(t), LoseRace(t), UNCHANGED <<mem, histVars>>
  PROVE  IInv'
<1>1. /\ TypeOK /\ InTx(t) /\ pc[t] = "run" /\ InWork(tx[t]) /\ arg[t] = NoArg
      /\ ~irrevoc[t]
  BY DEF IInv, TypeOK, AtWork, ControlInv, LoseRace, CasFails
<1>2. /\ Restart(t) /\ arg' = [arg EXCEPT ![t] = NoArg]
      /\ loc' \in [Threads -> Nat] /\ \A s \in Threads : s # t => loc'[s] = loc[s]
      /\ UNCHANGED <<glb, mem, irrevoc, frees, histVars>>
  BY <1>1 DEF LoseRace, TypeOK
<1> QED
  BY <1>1, <1>2, RestartStep

(* A turn of the macros' loop past stage WORK.                               *)
LEMMA ProcessStep ==
  ASSUME IInv, NEW t \in Threads, Process(t)
  PROVE  IInv'
<1>1. /\ TypeOK /\ ControlInv(t) /\ HolderInv(t) /\ tx[t] \in TxRecord
      /\ InTx(t) /\ pc[t] = "run" /\ arg[t] = NoArg
  BY DEF IInv, TypeOK, Process, ControlInv
<1>2. /\ tx[t].level = tx[t].depth - 1 /\ tx[t].depth > 0
      /\ tx[t].retry <=> tx[t].err = "restart"
      /\ tx[t].retry => ~irrevoc[t]
  BY <1>1 DEF ControlInv, InTx, HolderInv
<1> DEFINE r == TxProcess(tx[t])
<1>3. /\ r \in TxRecord /\ r.depth = tx[t].depth /\ r.level = tx[t].level
      /\ r.retry = tx[t].retry /\ r.err = tx[t].err /\ r.stage # "WORK"
  BY <1>1, TxProcessFields
<1> HIDE DEF r
<1>4. /\ tx' = [tx EXCEPT ![t] = r]
      /\ pc' = [pc EXCEPT ![t] = "run"] /\ arg' = [arg EXCEPT ![t] = NoArg]
      /\ loc' = loc /\ loc' \in [Threads -> Nat]
      /\ UNCHANGED <<glb, mem, irrevoc, frees, histVars>>
  BY <1>1 DEF Process, TypeOK, r
<1> QED
  BY <1>1, <1>2, <1>3, <1>4, RecordStep

(* tml_tx_end of a nested block: tml_on_end is not called.                   *)
LEMMA EndNestedStep ==
  ASSUME IInv, NEW t \in Threads, EndNested(t)
  PROVE  IInv'
<1>1. /\ TypeOK /\ ControlInv(t) /\ HolderInv(t) /\ tx[t] \in TxRecord
      /\ InTx(t) /\ pc[t] = "run" /\ arg[t] = NoArg
  BY DEF IInv, TypeOK, EndNested, ControlInv
<1>2. /\ tx[t].level = tx[t].depth - 1 /\ tx[t].depth > 0 /\ tx[t].depth \in Nat
      /\ tx[t].retry <=> tx[t].err = "restart"
      /\ tx[t].retry => ~irrevoc[t]
  BY <1>1 DEF ControlInv, InTx, HolderInv, TxRecord
<1>3. tx[t].depth > 1
  BY <1>2 DEF EndNested, Outermost
<1> DEFINE r == TxEnd(tx[t])
<1>4. /\ r \in TxRecord /\ r.depth = tx[t].depth - 1 /\ r.level = tx[t].level - 1
      /\ r.retry = tx[t].retry /\ r.err = tx[t].err
      /\ r.stage = "WORK" => r.err = "none"
  BY <1>1, <1>2, <1>3, TxEndNested
<1> HIDE DEF r
<1>5. /\ tx' = [tx EXCEPT ![t] = r]
      /\ pc' = [pc EXCEPT ![t] = "run"] /\ arg' = [arg EXCEPT ![t] = NoArg]
      /\ loc' = loc /\ loc' \in [Threads -> Nat]
      /\ UNCHANGED <<glb, mem, irrevoc, frees, histVars>>
  BY <1>1 DEF EndNested, TypeOK, r
<1>6. r.depth > 0 /\ r.level = r.depth - 1
  BY <1>2, <1>3, <1>4
<1> QED
  BY <1>1, <1>2, <1>3, <1>4, <1>5, <1>6, RecordStep

--------------------------------------------------------------------------------
(* tml_tx_begin.  A thread outside a block has no history and holds nothing; *)
(* the even value it reads is a committed version.                           *)
LEMMA OutsideIsClean ==
  ASSUME IInv, NEW t \in Threads, ~InTx(t)
  PROVE  own[t] = NoWrites /\ frees[t] = {} /\ ~Holds(t) /\ tx[t].depth = 0
BY DEF IInv, HolderInv, Holds, InTx, TypeOK, TxRecord

(* A turn of the loop that finds the lock taken.                             *)
LEMMA SpinStep ==
  ASSUME IInv, NEW t \in Threads, Spin(t)
  PROVE  IInv'
<1> USE DEF IInv, histVars, InTx
<1>t. /\ TypeOK /\ ~InTx(t) /\ tx' = tx
      /\ \A s \in Threads : s # t =>
           pc'[s] = pc[s] /\ loc'[s] = loc[s] /\ irrevoc'[s] = irrevoc[s]
      /\ pc'[t] = "begin" /\ loc'[t] = glb /\ irrevoc'[t] = FALSE
  BY DEF Spin, AtBegin, TypeOK, ControlInv, Goto
<1>h. \A s \in Threads : Holds(s)' <=> Holds(s)
  BY <1>t DEF Holds
<1>1. TypeOK'
  BY <1>t DEF TypeOK, Spin, Goto, AtBegin
<1>2. LockInv'
  BY <1>h, <1>t DEF LockInv, Holds, Spin
<1>3. ReadsAreOneVersion'
  BY <1>t DEF ReadsAreOneVersion, Version, Spin
<1>4. MemoryIsVersionPlusHolder'
  BY <1>h DEF MemoryIsVersionPlusHolder, Overlay, Spin
<1>5. HistoryInv'
  BY DEF HistoryInv, Spin
<1>6. ASSUME NEW s \in Threads
      PROVE  ControlInv(s)' /\ HolderInv(s)' /\ ReaderInv(s)'
  <2>1. ControlInv(s)'
    BY <1>t DEF ControlInv, InWork
  <2>2. HolderInv(s)'
    BY <1>t, <1>h, OutsideIsClean DEF HolderInv, NoWrites, Spin
  <2>3. ReaderInv(s)'
    BY <1>t DEF ReaderInv, Spin
  <2> QED
    BY <2>1, <2>2, <2>3
<1> QED
  BY <1>1, <1>2, <1>3, <1>4, <1>5, <1>6

(* The turn that finds it free: the version it chooses exists.               *)
LEMMA BeginStep ==
  ASSUME IInv, NEW t \in Threads, Begin(t)
  PROVE  IInv'
<1> USE DEF IInv, histVars, InTx
<1> DEFINE r == TxBegin(tx[t])
<1>r. tx[t] \in TxRecord /\ tx[t].stage = "NONE" /\ tx[t].depth = 0
  BY OutsideIsClean DEF TypeOK, Begin, AtBegin, ControlInv
<1>s. /\ r \in TxRecord /\ r.stage = "WORK" /\ r.depth = 1 /\ r.level = 0
      /\ r.retry = FALSE /\ r.err = "none"
  <2>1. tx[t].stage # "WORK" /\ tx[t].depth + 1 = 1
    BY <1>r
  <2> QED
    BY <1>r, <2>1, TxBeginFields
<1>u. tx' = [tx EXCEPT ![t] = r]
  BY DEF Begin
<1> HIDE DEF r
<1>t. /\ TypeOK /\ ~InTx(t) /\ tx'[t] = r
      /\ \A s \in Threads : s # t =>
           /\ pc'[s] = pc[s] /\ loc'[s] = loc[s] /\ irrevoc'[s] = irrevoc[s]
           /\ tx'[s] = tx[s]
      /\ pc'[t] = "run" /\ loc'[t] = glb /\ irrevoc'[t] = FALSE
  BY <1>u DEF Begin, AtBegin, TypeOK, ControlInv, Goto
<1>h. \A s \in Threads : Holds(s)' <=> Holds(s)
  BY <1>t DEF Holds
<1>e. IsEven(glb) /\ UNCHANGED <<glb, mem, arg, frees, histVars>>
  BY DEF Begin
<1>1. TypeOK'
  BY <1>t, <1>u, <1>e, <1>s DEF TypeOK, Begin, Goto, AtBegin
<1>2. LockInv'
  BY <1>h, <1>t, <1>e DEF LockInv, Holds
<1>3. ReadsAreOneVersion'
  BY <1>t, <1>e DEF ReadsAreOneVersion, Version, ReaderInv
<1>4. MemoryIsVersionPlusHolder'
  BY <1>h, <1>e DEF MemoryIsVersionPlusHolder, Overlay
<1>5. HistoryInv'
  BY <1>e DEF HistoryInv
<1>6. ASSUME NEW s \in Threads
      PROVE  ControlInv(s)' /\ HolderInv(s)' /\ ReaderInv(s)'
  <2>1. ControlInv(s)'
    BY <1>t, <1>s DEF ControlInv, InWork
  <2>2. HolderInv(s)'
    BY <1>t, <1>h, <1>e, <1>s, OutsideIsClean DEF HolderInv, NoWrites
  <2>3. ReaderInv(s)'
    BY <1>t, <1>e, <1>s DEF ReaderInv, HistoryInv, TypeOK
  <2> QED
    BY <2>1, <2>2, <2>3
<1> QED
  BY <1>1, <1>2, <1>3, <1>4, <1>5, <1>6

--------------------------------------------------------------------------------
(* Reads. *)
LEMMA ReadLoadStep ==
  ASSUME IInv, NEW t \in Threads, NEW a \in Addrs, ReadLoad(t, a)
  PROVE  IInv'
<1> USE DEF IInv, histVars, InTx
<1>e. UNCHANGED <<glb, mem, tx, loc, irrevoc, frees, histVars>>
  BY DEF ReadLoad
<1>t. /\ TypeOK /\ pc[t] = "run" /\ InWork(tx[t]) /\ InTx(t)
      /\ \A s \in Threads : s # t => pc'[s] = pc[s] /\ arg'[s] = arg[s]
      /\ pc'[t] = "read" /\ arg'[t] = <<a, mem[a]>>
  BY DEF ReadLoad, AtWork, TypeOK, ControlInv, Goto
<1>a. <<a, mem[a]>> \in Addrs \X Contents /\ <<a, mem[a]>> # NoArg
  BY <1>t DEF TypeOK, NoArg
<1>1. TypeOK'
  <2>1. pc' \in [Threads -> {"idle", "begin", "run", "read", "store"}]
    BY DEF TypeOK, ReadLoad, Goto
  <2>2. arg' \in [Threads -> (Addrs \X Contents) \cup {NoArg}]
    BY <1>a DEF TypeOK, ReadLoad
  <2>3. \A s \in Threads : pc'[s] \in {"read", "store"} <=> arg'[s] # NoArg
    BY <1>t, <1>a DEF TypeOK
  <2> QED
    BY <1>e, <2>1, <2>2, <2>3 DEF TypeOK
<1>2. LockInv'
  BY <1>e DEF LockInv, Holds
<1>3. ReadsAreOneVersion'
  BY <1>e DEF ReadsAreOneVersion, Version
<1>4. MemoryIsVersionPlusHolder'
  BY <1>e DEF MemoryIsVersionPlusHolder, Overlay, Holds
<1>5. HistoryInv'
  BY <1>e DEF HistoryInv
<1>6. ASSUME NEW s \in Threads
      PROVE  ControlInv(s)' /\ HolderInv(s)' /\ ReaderInv(s)'
  <2>1. ControlInv(s)'
    BY <1>t, <1>e DEF ControlInv, InWork
  <2>2. HolderInv(s)'
    BY <1>t, <1>e DEF HolderInv, NoWrites, Holds
  <2>3. ReaderInv(s)'
    BY <1>t, <1>e DEF ReaderInv
  <2> QED
    BY <2>1, <2>2, <2>3
<1> QED
  BY <1>1, <1>2, <1>3, <1>4, <1>5, <1>6

(* What tml_tx_read lets through is what the transaction's version holds,   *)
(* or what the transaction itself wrote over it.                            *)
LEMMA HandedOver ==
  ASSUME IInv, NEW t \in Threads, pc[t] = "read", ~ReadStale(t)
  PROVE  /\ arg[t] \in Addrs \X Contents
         /\ own[t][arg[t][1]] = NoVal => arg[t][2] = hist[Version(t)][arg[t][1]]
<1>1. /\ arg[t] \in Addrs \X Contents /\ InTx(t) /\ InWork(tx[t])
      /\ tx[t].err = "none" /\ ~tx[t].retry
  BY DEF IInv, TypeOK, ControlInv
<1>2. arg[t][1] \in Addrs
  BY <1>1
<1>3. CASE irrevoc[t]
  <2>1. loc[t] = glb /\ ~IsEven(glb) /\ mem = Overlay(hist[glb - 1], own[t])
    BY <1>1, <1>3 DEF IInv, LockInv, MemoryIsVersionPlusHolder, Holds
  <2>2. arg[t][2] = mem[arg[t][1]]
    BY <1>3 DEF IInv, ReaderInv
  <2> QED
    BY <1>1, <1>2, <2>1, <2>2 DEF Version, Overlay
<1>4. CASE ~irrevoc[t]
  <2>1. IsEven(loc[t]) /\ loc[t] = glb
    BY <1>1, <1>4 DEF IInv, ReaderInv, ReadStale
  <2>2. mem = hist[glb] /\ arg[t][2] = mem[arg[t][1]]
    BY <2>1 DEF IInv, MemoryIsVersionPlusHolder, ReaderInv
  <2> QED
    BY <1>1, <2>1, <2>2 DEF Version
<1> QED
  BY <1>3, <1>4

(* The read that is let through.                                            *)
LEMMA HandOverStep ==
  ASSUME IInv, NEW t \in Threads, ReadCheck(t), HandOver(t)
  PROVE  IInv'
<1> USE DEF IInv, InTx
<1>e. UNCHANGED <<glb, mem, tx, loc, irrevoc, frees, hist, own>>
  BY DEF ReadCheck, HandOver
<1>v. /\ arg[t] \in Addrs \X Contents
      /\ own[t][arg[t][1]] = NoVal => arg[t][2] = hist[Version(t)][arg[t][1]]
  BY HandedOver DEF ReadCheck, HandOver
<1>t. /\ TypeOK /\ pc[t] = "read" /\ InWork(tx[t]) /\ InTx(t)
      /\ \A s \in Threads : s # t =>
           pc'[s] = pc[s] /\ arg'[s] = arg[s] /\ seen'[s] = seen[s]
      /\ pc'[t] = "run" /\ arg'[t] = NoArg
      /\ seen'[t] = IF own[t][arg[t][1]] = NoVal THEN seen[t] \cup {arg[t]} ELSE seen[t]
  BY DEF ReadCheck, HandOver, TypeOK, ControlInv, Goto
<1>1. TypeOK'
  <2>1. pc' \in [Threads -> {"idle", "begin", "run", "read", "store"}]
    BY DEF TypeOK, HandOver, Goto
  <2>2. arg' \in [Threads -> (Addrs \X Contents) \cup {NoArg}]
    BY DEF TypeOK, ReadCheck
  <2>3. \A s \in Threads : pc'[s] \in {"read", "store"} <=> arg'[s] # NoArg
    BY <1>t DEF TypeOK
  <2>4. seen' \in [Threads -> SUBSET (Addrs \X Contents)]
    BY <1>v DEF TypeOK, HandOver
  <2> QED
    BY <1>e, <2>1, <2>2, <2>3, <2>4 DEF TypeOK
<1>2. LockInv'
  BY <1>e DEF LockInv, Holds
<1>3. ReadsAreOneVersion'
  <2> SUFFICES ASSUME NEW s \in Threads, InTx(s), ~tx[s].retry, NEW p \in seen'[s]
               PROVE  p[2] = hist[Version(s)][p[1]]
    BY <1>e DEF ReadsAreOneVersion, Version
  <2>1. CASE p \in seen[s]
    BY <2>1 DEF ReadsAreOneVersion
  <2>2. CASE p \notin seen[s]
    BY <2>2, <1>t, <1>v
  <2> QED
    BY <2>1, <2>2
<1>4. MemoryIsVersionPlusHolder'
  BY <1>e DEF MemoryIsVersionPlusHolder, Overlay, Holds
<1>5. HistoryInv'
  BY <1>e DEF HistoryInv
<1>6. ASSUME NEW s \in Threads
      PROVE  ControlInv(s)' /\ HolderInv(s)' /\ ReaderInv(s)'
  <2>1. ControlInv(s)'
    BY <1>t, <1>e DEF ControlInv, InWork
  <2>2. HolderInv(s)'
    BY <1>t, <1>e DEF HolderInv, NoWrites, Holds
  <2>3. ReaderInv(s)'
    BY <1>t, <1>e DEF ReaderInv
  <2> QED
    BY <2>1, <2>2, <2>3
<1> QED
  BY <1>1, <1>2, <1>3, <1>4, <1>5, <1>6

(* tml_tx_read as a whole: restart, or hand over.                           *)
LEMMA ReadCheckStep ==
  ASSUME IInv, NEW t \in Threads, ReadCheck(t)
  PROVE  IInv'
<1>1. CASE ReadStale(t) /\ Restart(t) /\ UNCHANGED seen
  <2>1. /\ TypeOK /\ InTx(t) /\ InWork(tx[t]) /\ ~irrevoc[t] /\ pc[t] # "store"
    BY <1>1 DEF IInv, ControlInv, ReadCheck, ReadStale
  <2>2. /\ arg' = [arg EXCEPT ![t] = NoArg] /\ loc' = loc /\ loc' \in [Threads -> Nat]
        /\ UNCHANGED <<glb, mem, irrevoc, frees, histVars>>
    BY <1>1, <2>1 DEF ReadCheck, histVars, TypeOK
  <2> QED
    BY <1>1, <2>1, <2>2, RestartStep
<1>2. CASE HandOver(t)
  BY <1>2, HandOverStep
<1> QED
  BY <1>1, <1>2 DEF ReadCheck

--------------------------------------------------------------------------------
(* Becoming irrevocable.  The CAS can only succeed on a free lock, when     *)
(* memory is the very version the transaction has been reading.             *)
LEMMA AcquireEffect ==
  ASSUME IInv, NEW t \in Threads, AtWork(t), Acquire(t)
  PROVE  /\ InTx(t) /\ ~IsEven(glb') /\ glb' \in Nat
         /\ irrevoc' = [irrevoc EXCEPT ![t] = TRUE]
         /\ loc' = [loc EXCEPT ![t] = glb']
         /\ \/ Holds(t) /\ glb' = glb /\ loc[t] = glb
            \/ /\ \A s \in Threads : ~Holds(s)
               /\ IsEven(glb) /\ glb' = glb + 1 /\ loc[t] = glb
<1>1. /\ TypeOK /\ InTx(t) /\ InWork(tx[t]) /\ tx[t].err = "none" /\ ~tx[t].retry
  BY DEF IInv, AtWork, ControlInv
<1>2. CASE irrevoc[t]
  <2>1. Holds(t) /\ loc[t] = glb /\ ~IsEven(glb)
    BY <1>1, <1>2 DEF IInv, LockInv, Holds
  <2>2. glb' = glb /\ loc' = loc /\ irrevoc' = [irrevoc EXCEPT ![t] = TRUE]
    BY <1>2 DEF Acquire
  <2>3. loc' = [loc EXCEPT ![t] = glb']
    BY <2>1, <2>2, <1>1 DEF TypeOK
  <2> QED
    BY <1>1, <2>1, <2>2, <2>3 DEF TypeOK
<1>3. CASE ~irrevoc[t]
  <2>1. IsEven(loc[t]) /\ loc[t] = glb
    BY <1>1, <1>3 DEF IInv, ReaderInv, Acquire, CasFails
  <2>2. \A s \in Threads : ~Holds(s)
    BY <2>1 DEF IInv, LockInv
  <2>3. glb' = glb + 1 /\ loc' = [loc EXCEPT ![t] = glb']
        /\ irrevoc' = [irrevoc EXCEPT ![t] = TRUE]
    BY <1>3, <2>1 DEF Acquire
  <2>4. ~IsEven(glb + 1) /\ glb + 1 \in Nat
    BY <1>1, <2>1, Parity DEF TypeOK
  <2> QED
    BY <1>1, <2>1, <2>2, <2>3, <2>4
<1> QED
  BY <1>2, <1>3

(* A step that becomes irrevocable and leaves memory alone; it may fail     *)
(* after it has.                                                            *)
LEMMA AcquireStep ==
  ASSUME IInv, NEW t \in Threads, AtWork(t), Acquire(t),
         NEW r \in TxRecord, tx' = [tx EXCEPT ![t] = r],
         r.depth = tx[t].depth, r.level = tx[t].level, ~r.retry, r.err # "restart",
         r.stage = "WORK" => r.err = "none",
         NEW l \in {"run", "store"}, pc' = [pc EXCEPT ![t] = l],
         NEW w \in (Addrs \X Contents) \cup {NoArg}, l = "store" <=> w # NoArg,
         l = "store" => r.stage = "WORK",
         arg' = [arg EXCEPT ![t] = w],
         NEW F \in SUBSET Addrs, frees' = [frees EXCEPT ![t] = F],
         UNCHANGED <<mem, histVars>>
  PROVE  IInv'
<1> USE DEF IInv, InTx, histVars
<1>e. UNCHANGED <<mem, hist, seen, own>>
  OBVIOUS
<1>q. /\ TypeOK /\ InTx(t) /\ ~IsEven(glb') /\ glb' \in Nat
      /\ irrevoc' = [irrevoc EXCEPT ![t] = TRUE]
      /\ loc' = [loc EXCEPT ![t] = glb']
      /\ \/ Holds(t) /\ glb' = glb /\ loc[t] = glb
         \/ /\ \A s \in Threads : ~Holds(s)
            /\ IsEven(glb) /\ glb' = glb + 1 /\ loc[t] = glb
  BY AcquireEffect
<1>t. /\ \A s \in Threads : s # t =>
           /\ pc'[s] = pc[s] /\ arg'[s] = arg[s] /\ frees'[s] = frees[s]
           /\ loc'[s] = loc[s] /\ irrevoc'[s] = irrevoc[s] /\ tx'[s] = tx[s]
      /\ tx'[t] = r /\ tx[t].depth > 0 /\ ~tx[t].retry /\ tx[t].level = tx[t].depth - 1
      /\ pc'[t] = l /\ arg'[t] = w /\ frees'[t] = F
      /\ loc'[t] = glb' /\ irrevoc'[t] = TRUE /\ pc[t] = "run" /\ InWork(tx[t])
  BY <1>q, WorkFacts DEF TypeOK, AtWork
<1>h. Holds(t)' /\ \A s \in Threads : s # t => ~Holds(s)' /\ ~Holds(s)
  BY <1>q, <1>t, <1>e DEF Holds, LockInv
<1>n. glb \in Nat
  BY DEF TypeOK
<1>p. glb \in Nat /\ (glb' = glb + 1 => glb' - 1 = glb)
  BY <1>n
<1>1. TypeOK'
  <2>1. pc' \in [Threads -> {"idle", "begin", "run", "read", "store"}]
    BY DEF TypeOK
  <2>2. arg' \in [Threads -> (Addrs \X Contents) \cup {NoArg}]
    BY DEF TypeOK
  <2>3. \A s \in Threads : pc'[s] \in {"read", "store"} <=> arg'[s] # NoArg
    BY <1>t DEF TypeOK
  <2>4. glb' \in Nat /\ loc' \in [Threads -> Nat] /\ irrevoc' \in [Threads -> BOOLEAN]
        /\ frees' \in [Threads -> SUBSET Addrs]
    BY <1>q DEF TypeOK
  <2> QED
    BY <1>e, <2>1, <2>2, <2>3, <2>4 DEF TypeOK
<1>2. LockInv'
  BY <1>h, <1>t, <1>q DEF LockInv
<1>3. ReadsAreOneVersion'
  <2>1. \A s \in Threads : InTx(s) /\ ~tx[s].retry => Version(s)' = Version(s)
    BY <1>q, <1>t, <1>p DEF Version
  <2> QED
    BY <1>e, <1>t, <2>1 DEF ReadsAreOneVersion
<1>4. MemoryIsVersionPlusHolder'
  <2>1. CASE Holds(t) /\ glb' = glb
    BY <2>1, <1>h, <1>q, <1>e DEF MemoryIsVersionPlusHolder, Overlay
  <2>2. CASE ~Holds(t) /\ IsEven(glb) /\ glb' = glb + 1
    <3>1. own[t] = NoWrites /\ mem = hist[glb] /\ mem \in [Addrs -> Contents]
      BY <2>2, <1>q DEF HolderInv, MemoryIsVersionPlusHolder, TypeOK
    <3>2. mem = Overlay(hist[glb], own[t])
      BY <3>1 DEF Overlay, NoWrites
    <3>3. mem' = Overlay(hist'[glb' - 1], own'[t])
      BY <3>2, <2>2, <1>e, <1>p DEF Overlay
    <3> QED
      BY <3>3, <1>h, <1>q, <1>e DEF MemoryIsVersionPlusHolder
  <2> QED
    BY <2>1, <2>2, <1>q
<1>5. HistoryInv'
  BY <1>e, <1>q, <1>p DEF HistoryInv, TypeOK
<1>6. ASSUME NEW s \in Threads
      PROVE  ControlInv(s)' /\ HolderInv(s)' /\ ReaderInv(s)'
  <2>1. ControlInv(s)'
    BY <1>t, <1>e DEF ControlInv, InWork
  <2>2. HolderInv(s)'
    <3>1. CASE s = t
      BY <3>1, <1>h, <1>t, <1>e DEF HolderInv, ControlInv, InWork
    <3>2. CASE s # t
      BY <3>2, <1>h, <1>t, <1>e DEF HolderInv, NoWrites
    <3> QED
      BY <3>1, <3>2
  <2>3. ReaderInv(s)'
    <3>1. CASE s = t
      BY <3>1, <1>t, <1>e DEF ReaderInv
    <3>2. CASE s # t
      <4>1. pc[s] = "read" => InTx(s) /\ ~tx[s].retry
        BY DEF ControlInv
      <4>2. ~irrevoc[s] /\ InTx(s) /\ ~tx[s].retry =>
              loc[s] <= glb' /\ (glb' = glb + 1 => loc[s] # glb')
        BY <1>q, <1>p DEF ReaderInv, TypeOK
      <4>3. irrevoc[s] /\ InTx(s) => FALSE
        BY <3>2, <1>h DEF Holds
      <4> QED
        BY <3>2, <1>t, <1>e, <1>q, <4>1, <4>2, <4>3 DEF ReaderInv
    <3> QED
      BY <3>1, <3>2
  <2> QED
    BY <2>1, <2>2, <2>3
<1> QED
  BY <1>1, <1>2, <1>3, <1>4, <1>5, <1>6

(* TML_WRITE up to its store.                                               *)
LEMMA WriteStep ==
  ASSUME IInv, NEW t \in Threads, NEW a \in Addrs, NEW v \in Vals, Write(t, a, v)
  PROVE  IInv'
<1>1. AtWork(t) /\ UNCHANGED <<mem, histVars>>
  BY DEF Write
<1>2. CASE LoseRace(t)
  BY <1>1, <1>2, LoseRaceStep
<1>3. CASE Acquire(t) /\ arg' = [arg EXCEPT ![t] = <<a, v>>] /\ Goto(t, "store")
           /\ UNCHANGED <<tx, frees>>
  <2>w. /\ tx[t] \in TxRecord /\ tx' = [tx EXCEPT ![t] = tx[t]] /\ ~tx[t].retry
        /\ tx[t].err = "none" /\ tx[t].stage = "WORK"
    BY <1>1, <1>3, WorkFacts DEF TypeOK, InWork
  <2>1. <<a, v>> \in Addrs \X Contents /\ <<a, v>> # NoArg
    BY DEF Contents, NoArg
  <2>2. frees[t] \in SUBSET Addrs /\ frees' = [frees EXCEPT ![t] = frees[t]]
    BY <1>3 DEF IInv, TypeOK
  <2>3. pc' = [pc EXCEPT ![t] = "store"]
    BY <1>3 DEF Goto
  <2> QED
    BY <1>1, <1>3, <2>w, <2>1, <2>2, <2>3, AcquireStep
<1> QED
  BY <1>2, <1>3 DEF Write

(* TML_FREE, with room on the free_list or without.                         *)
LEMMA FreeStep ==
  ASSUME IInv, NEW t \in Threads, NEW a \in Addrs, Free(t, a)
  PROVE  IInv'
<1>1. AtWork(t) /\ UNCHANGED <<mem, histVars>>
  BY DEF Free
<1>2. CASE LoseRace(t)
  BY <1>1, <1>2, LoseRaceStep
<1>w. /\ TypeOK /\ pc[t] = "run" /\ arg[t] = NoArg /\ tx[t] \in TxRecord
      /\ tx[t].err = "none" /\ ~tx[t].retry
  BY <1>1, WorkFacts
<1>3. CASE Acquire(t) /\ Listed(t, a) /\ UNCHANGED <<pc, arg>>
  <2>1. frees[t] \cup {a} \in SUBSET Addrs /\ tx' = [tx EXCEPT ![t] = tx[t]]
    BY <1>w, <1>3 DEF TypeOK, Listed
  <2>2. /\ pc' = [pc EXCEPT ![t] = "run"] /\ arg' = [arg EXCEPT ![t] = NoArg]
        /\ frees' = [frees EXCEPT ![t] = frees[t] \cup {a}]
    BY <1>w, <1>3 DEF TypeOK, Listed
  <2> QED
    BY <1>1, <1>w, <1>3, <2>1, <2>2, AcquireStep
<1>4. CASE Acquire(t) /\ NotListed(t) /\ UNCHANGED <<pc, arg>>
  <2> DEFINE r == TxAbort(tx[t], "failed")
  <2>1. /\ r \in TxRecord /\ r.depth = tx[t].depth /\ r.level = tx[t].level
        /\ ~r.retry /\ r.err = "failed" /\ r.stage # "WORK"
    BY <1>w, TxAbortFields DEF Errs
  <2>2. tx' = [tx EXCEPT ![t] = r]
    BY <1>4 DEF NotListed
  <2>3. /\ pc' = [pc EXCEPT ![t] = "run"] /\ arg' = [arg EXCEPT ![t] = NoArg]
        /\ frees[t] \in SUBSET Addrs /\ frees' = [frees EXCEPT ![t] = frees[t]]
    BY <1>w, <1>4 DEF TypeOK, NotListed
  <2> HIDE DEF r
  <2> QED
    BY <1>1, <1>4, <2>1, <2>2, <2>3, AcquireStep
<1> QED
  BY <1>2, <1>3, <1>4 DEF Free

(* TML_IRREVOC.                                                             *)
LEMMA IrrevocStep ==
  ASSUME IInv, NEW t \in Threads, Irrevoc(t)
  PROVE  IInv'
<1>1. AtWork(t) /\ UNCHANGED <<mem, histVars>>
  BY DEF Irrevoc
<1>2. CASE LoseRace(t)
  BY <1>1, <1>2, LoseRaceStep
<1>3. CASE Acquire(t) /\ UNCHANGED <<tx, pc, arg, frees>>
  <2>1. /\ pc[t] = "run" /\ arg[t] = NoArg /\ frees[t] \in SUBSET Addrs
        /\ tx[t] \in TxRecord /\ tx' = [tx EXCEPT ![t] = tx[t]] /\ ~tx[t].retry
        /\ tx[t].err = "none"
    BY <1>1, <1>3, WorkFacts DEF TypeOK
  <2>2. /\ pc' = [pc EXCEPT ![t] = "run"] /\ arg' = [arg EXCEPT ![t] = NoArg]
        /\ frees' = [frees EXCEPT ![t] = frees[t]]
    BY <1>3, <2>1 DEF IInv, TypeOK
  <2> QED
    BY <1>1, <1>3, <2>1, <2>2, AcquireStep
<1> QED
  BY <1>2, <1>3 DEF Irrevoc

--------------------------------------------------------------------------------
(* Changing memory.  Whoever holds the lock changes memory and its own      *)
(* record of it alike; a reader on a committed version has seen the lock    *)
(* move and will not be handed what it loads now.                           *)
LEMMA InPlaceStep ==
  ASSUME IInv, NEW t \in Threads, Holds(t),
         NEW r \in TxRecord, tx' = [tx EXCEPT ![t] = r],
         r.depth = tx[t].depth, r.level = tx[t].level, r.retry = tx[t].retry,
         r.err = tx[t].err, pc[t] = "store" => r = tx[t],
         pc[t] \in {"run", "store"},
         pc' = [pc EXCEPT ![t] = "run"], arg' = [arg EXCEPT ![t] = NoArg],
         NEW w \in [Addrs -> Contents \cup {NoVal}],
         own' = [own EXCEPT ![t] = w],
         mem' \in [Addrs -> Contents],
         mem' = Overlay(hist[glb - 1], w),
         r.stage # "WORK" \/ r = tx[t],
         UNCHANGED <<lockVars, frees, hist, seen>>
  PROVE  IInv'
<1> USE DEF IInv, InTx, lockVars
<1>t. /\ TypeOK
      /\ \A s \in Threads : s # t =>
           /\ pc'[s] = pc[s] /\ arg'[s] = arg[s] /\ own'[s] = own[s] /\ tx'[s] = tx[s]
      /\ pc'[t] = "run" /\ arg'[t] = NoArg /\ own'[t] = w /\ tx'[t] = r
      /\ InTx(t) /\ irrevoc[t]
  BY DEF TypeOK, Holds
<1>h. \A s \in Threads : Holds(s)' <=> Holds(s)
  BY <1>t DEF Holds
<1>l. ~IsEven(glb) /\ loc[t] = glb /\ \A s \in Threads : s # t => ~Holds(s)
  BY DEF LockInv
<1>1. TypeOK'
  <2>1. pc' \in [Threads -> {"idle", "begin", "run", "read", "store"}]
    BY DEF TypeOK
  <2>2. arg' \in [Threads -> (Addrs \X Contents) \cup {NoArg}]
    BY DEF TypeOK
  <2>3. \A s \in Threads : pc'[s] \in {"read", "store"} <=> arg'[s] # NoArg
    BY <1>t DEF TypeOK
  <2>4. own' \in [Threads -> [Addrs -> Contents \cup {NoVal}]] /\ tx' \in [Threads -> TxRecord]
    BY DEF TypeOK
  <2> QED
    BY <2>1, <2>2, <2>3, <2>4 DEF TypeOK
<1>2. LockInv'
  BY <1>h, <1>t DEF LockInv
<1>3. ReadsAreOneVersion'
  BY <1>t DEF ReadsAreOneVersion, Version
<1>4. MemoryIsVersionPlusHolder'
  BY <1>h, <1>l, <1>t DEF MemoryIsVersionPlusHolder, Overlay
<1>5. HistoryInv'
  BY DEF HistoryInv
<1>6. ASSUME NEW s \in Threads
      PROVE  ControlInv(s)' /\ HolderInv(s)' /\ ReaderInv(s)'
  <2>1. ControlInv(s)'
    BY <1>t DEF ControlInv, InWork
  <2>2. HolderInv(s)'
    BY <1>t, <1>h DEF HolderInv, NoWrites
  <2>3. ReaderInv(s)'
    <3>1. CASE s = t
      BY <3>1, <1>t DEF ReaderInv
    <3>2. CASE s # t
      <4>1. pc[s] = "read" => InTx(s) /\ ~tx[s].retry
        BY DEF ControlInv, InWork
      <4>2. pc[s] = "read" => ~irrevoc[s] /\ loc[s] # glb
        BY <1>l, <3>2, <4>1 DEF ReaderInv, Holds
      <4> QED
        BY <3>2, <1>t, <4>2 DEF ReaderInv
    <3> QED
      BY <3>1, <3>2
  <2> QED
    BY <2>1, <2>2, <2>3
<1> QED
  BY <1>1, <1>2, <1>3, <1>4, <1>5, <1>6

(* The store of TML_WRITE.                                                  *)
LEMMA StoreStep ==
  ASSUME IInv, NEW t \in Threads, Store(t)
  PROVE  IInv'
<1> DEFINE a == arg[t][1]
           v == arg[t][2]
           w == [own[t] EXCEPT ![a] = v]
<1>1. /\ TypeOK /\ pc[t] = "store" /\ Holds(t) /\ a \in Addrs /\ v \in Contents
      /\ tx[t] \in TxRecord
  BY DEF IInv, TypeOK, Store, HolderInv
<1>2. mem = Overlay(hist[glb - 1], own[t])
  BY <1>1 DEF IInv, MemoryIsVersionPlusHolder
<1>3. /\ mem' = [mem EXCEPT ![a] = v] /\ own' = [own EXCEPT ![t] = w]
      /\ tx' = [tx EXCEPT ![t] = tx[t]]
      /\ pc' = [pc EXCEPT ![t] = "run"] /\ arg' = [arg EXCEPT ![t] = NoArg]
      /\ UNCHANGED <<lockVars, frees, hist, seen>>
  BY <1>1 DEF Store, Goto, TypeOK
<1>4. v # NoVal
  BY <1>1, ConstAssumption DEF Contents
<1> HIDE DEF a, v
<1>5. w \in [Addrs -> Contents \cup {NoVal}] /\ mem' \in [Addrs -> Contents]
  BY <1>1, <1>3 DEF TypeOK
<1>6. mem' = Overlay(hist[glb - 1], w)
  BY <1>1, <1>2, <1>3, <1>4 DEF Overlay, TypeOK
<1> HIDE DEF w
<1> QED
  BY <1>1, <1>3, <1>5, <1>6, InPlaceStep

(* tml_tx_commit, with the blocks it gives back at level 0.                 *)
LEMMA CommitStep ==
  ASSUME IInv, NEW t \in Threads, Commit(t)
  PROVE  IInv'
<1>1. /\ TypeOK /\ ControlInv(t) /\ HolderInv(t) /\ tx[t] \in TxRecord
      /\ InTx(t) /\ pc[t] = "run" /\ InWork(tx[t]) /\ arg[t] = NoArg
  BY DEF IInv, TypeOK, Commit, AtWork, ControlInv
<1>2. /\ tx[t].level = tx[t].depth - 1 /\ tx[t].depth > 0 /\ tx[t].err = "none"
      /\ ~tx[t].retry
  BY <1>1 DEF ControlInv, InTx
<1> DEFINE r == TxCommit(tx[t])
<1>3. /\ r \in TxRecord /\ r.depth = tx[t].depth /\ r.level = tx[t].level
      /\ r.retry = tx[t].retry /\ r.err = tx[t].err /\ r.stage # "WORK"
  BY <1>1, TxCommitFields
<1>4. tx' = [tx EXCEPT ![t] = r]
  BY DEF Commit
<1> HIDE DEF r
<1>5. /\ pc' = [pc EXCEPT ![t] = "run"] /\ arg' = [arg EXCEPT ![t] = NoArg]
      /\ UNCHANGED <<lockVars, frees, hist, seen>>
  BY <1>1 DEF Commit, TypeOK, lockVars
<1>6. CASE tx[t].level = 0 /\ Holds(t)
  <2> DEFINE w == Reclaim(t, own[t])
  <2>1. mem' = Reclaim(t, mem) /\ own' = [own EXCEPT ![t] = w]
    BY <1>6 DEF Commit
  <2>2. mem = Overlay(hist[glb - 1], own[t]) /\ Junk # NoVal
    BY <1>6, ConstAssumption DEF IInv, MemoryIsVersionPlusHolder
  <2>3. w \in [Addrs -> Contents \cup {NoVal}] /\ mem' \in [Addrs -> Contents]
    BY <1>1, <2>1 DEF TypeOK, Reclaim, Contents
  <2>4. mem' = Overlay(hist[glb - 1], w)
    BY <2>1, <2>2 DEF Overlay, Reclaim
  <2> HIDE DEF w
  <2> QED
    BY <1>1, <1>3, <1>4, <1>5, <1>6, <2>1, <2>3, <2>4, InPlaceStep
<1>7. CASE ~(tx[t].level = 0 /\ Holds(t))
  <2>1. mem' = mem /\ own' = own
    <3>1. CASE tx[t].level # 0
      BY <3>1 DEF Commit
    <3>2. CASE ~Holds(t)
      <4>1. frees[t] = {}
        BY <1>1, <3>2 DEF HolderInv
      <4>2. Reclaim(t, mem) = mem /\ Reclaim(t, own[t]) = own[t]
        BY <1>1, <4>1 DEF Reclaim, TypeOK
      <4> QED
        BY <1>1, <4>2 DEF Commit, TypeOK
    <3> QED
      BY <1>7, <3>1, <3>2
  <2>2. loc' = loc /\ loc' \in [Threads -> Nat]
        /\ UNCHANGED <<glb, mem, irrevoc, frees, histVars>>
    BY <1>1, <1>5, <2>1 DEF lockVars, histVars, TypeOK
  <2> QED
    BY <1>1, <1>2, <1>3, <1>4, <1>5, <2>2, RecordStep
<1> QED
  BY <1>6, <1>7

--------------------------------------------------------------------------------
(* The outermost tml_tx_end.  tml_on_end's test (retry, then the parity of  *)
(* loc) is exact: it releases the lock when, and only when, t holds it.     *)
LEMMA OnEndIsExact ==
  ASSUME IInv, NEW t \in Threads, End(t)
  PROVE  /\ InTx(t)
         /\ Holds(t) => /\ glb' = glb + 1 /\ loc[t] = glb /\ ~IsEven(glb)
                        /\ hist' = [g \in DOMAIN hist \cup {glb + 1} |->
                                      IF g = glb + 1 THEN mem ELSE hist[g]]
         /\ ~Holds(t) => UNCHANGED <<glb, hist>>
<1>1. TypeOK /\ InTx(t) /\ ControlInv(t) /\ HolderInv(t) /\ ReaderInv(t)
  BY DEF IInv, End, ControlInv
<1>2. CASE Holds(t)
  <2>1. ~tx[t].retry /\ loc[t] = glb /\ ~IsEven(glb)
    BY <1>1, <1>2 DEF IInv, LockInv, HolderInv, Holds
  <2> QED
    BY <1>1, <1>2, <2>1 DEF End, OnEnd
<1>3. CASE ~Holds(t)
  <2>1. tx[t].retry \/ IsEven(loc[t])
    BY <1>1, <1>3 DEF ReaderInv, Holds
  <2> QED
    BY <1>1, <1>3, <2>1 DEF End, OnEnd
<1> QED
  BY <1>2, <1>3

(* tml_tx_end of the outermost block, published or restarted.               *)
LEMMA EndStep ==
  ASSUME IInv, NEW t \in Threads, End(t)
  PROVE  IInv'
<1> USE DEF IInv, InTx
<1> DEFINE r == TxEnd(tx[t])
<1>r. tx[t] \in TxRecord /\ Outermost(tx[t])
  BY DEF End, TypeOK
<1>s. r \in TxRecord /\ r.stage = "NONE" /\ r.depth = 0
  BY <1>r, TxEndOutermost
<1>u. tx' = [tx EXCEPT ![t] = r]
  BY DEF End
<1> HIDE DEF r
<1>e. UNCHANGED <<mem, loc, irrevoc, arg>>
  BY DEF End
<1>t. /\ TypeOK
      /\ \A s \in Threads : s # t =>
           /\ pc'[s] = pc[s] /\ tx'[s] = tx[s] /\ frees'[s] = frees[s]
           /\ seen'[s] = seen[s] /\ own'[s] = own[s]
      /\ pc'[t] \in {"begin", "idle"} /\ tx'[t] = r /\ frees'[t] = {} /\ seen'[t] = {}
      /\ own'[t] = NoWrites /\ pc[t] = "run" /\ arg[t] = NoArg
  BY <1>u DEF End, TypeOK, Goto
<1>o. /\ InTx(t)
      /\ Holds(t) => /\ glb' = glb + 1 /\ loc[t] = glb /\ ~IsEven(glb)
                     /\ hist' = [g \in DOMAIN hist \cup {glb + 1} |->
                                   IF g = glb + 1 THEN mem ELSE hist[g]]
      /\ ~Holds(t) => UNCHANGED <<glb, hist>>
  BY OnEndIsExact
<1>h. ~Holds(t)' /\ \A s \in Threads : s # t => (Holds(s)' <=> Holds(s))
  BY <1>t, <1>s, <1>e DEF Holds
<1>n. glb \in Nat /\ \A g \in DOMAIN hist : g \in Nat /\ g <= glb
  BY DEF TypeOK, HistoryInv
<1>p. /\ glb + 1 \in Nat /\ (~IsEven(glb) => IsEven(glb + 1))
      /\ glb + 1 \notin DOMAIN hist /\ glb <= glb + 1
  BY <1>n, Parity
<1>g. /\ \A g \in DOMAIN hist : g \in DOMAIN hist' /\ hist'[g] = hist[g]
      /\ Holds(t) => hist'[glb'] = mem /\ glb' \in DOMAIN hist'
      /\ DOMAIN hist' = DOMAIN hist \/ DOMAIN hist' = DOMAIN hist \cup {glb + 1}
  BY <1>o, <1>p
<1>x. Holds(t) => IsEven(glb')
  BY <1>o, <1>p
<1>1. TypeOK'
  <2>1. pc' \in [Threads -> {"idle", "begin", "run", "read", "store"}]
    BY DEF TypeOK, End, Goto
  <2>2. \A s \in Threads : pc'[s] \in {"read", "store"} <=> arg'[s] # NoArg
    BY <1>t, <1>e DEF TypeOK
  <2>3. own' \in [Threads -> [Addrs -> Contents \cup {NoVal}]]
    BY DEF TypeOK, End, NoWrites
  <2>4. /\ tx' \in [Threads -> TxRecord] /\ frees' \in [Threads -> SUBSET Addrs]
        /\ seen' \in [Threads -> SUBSET (Addrs \X Contents)]
    BY <1>s, <1>u DEF TypeOK, End
  <2>5. glb' \in Nat /\ DOMAIN hist' \subseteq Nat
    BY <1>o, <1>p, <1>n, <1>g
  <2>6. \A g \in DOMAIN hist' : hist'[g] \in [Addrs -> Contents]
    BY <1>o DEF TypeOK
  <2> QED
    BY <1>e, <2>1, <2>2, <2>3, <2>4, <2>5, <2>6 DEF TypeOK
<1>2. LockInv'
  <2>1. CASE Holds(t)
    <3>1. \A s \in Threads : ~Holds(s)'
      BY <2>1, <1>h DEF LockInv
    <3> QED
      BY <3>1, <1>x, <2>1 DEF LockInv
  <2>2. CASE ~Holds(t)
    <3>1. \A s \in Threads : Holds(s)' <=> Holds(s)
      BY <2>2, <1>h
    <3> QED
      BY <3>1, <2>2, <1>o, <1>e DEF LockInv
  <2> QED
    BY <2>1, <2>2
<1>3. ReadsAreOneVersion'
  <2> SUFFICES ASSUME NEW s \in Threads, InTx(s)', ~tx'[s].retry, NEW p \in seen'[s]
               PROVE  p[2] = hist'[Version(s)'][p[1]]
    BY DEF ReadsAreOneVersion
  <2>1. s # t
    BY <1>t
  <2>2. p[2] = hist[Version(s)][p[1]] /\ Version(s)' = Version(s)
    BY <2>1, <1>t, <1>e DEF ReadsAreOneVersion, Version
  <2>3. Version(s) \in DOMAIN hist
    <3>1. InTx(s) /\ ~tx[s].retry
      BY <2>1, <1>t DEF ControlInv
    <3>2. CASE irrevoc[s]
      BY <3>1, <3>2 DEF Version, LockInv, Holds, HistoryInv
    <3>3. CASE ~irrevoc[s]
      BY <3>1, <3>3 DEF Version, ReaderInv
    <3> QED
      BY <3>2, <3>3
  <2> QED
    BY <2>2, <2>3, <1>g
<1>4. MemoryIsVersionPlusHolder'
  <2>1. CASE Holds(t)
    <3>1. \A s \in Threads : ~Holds(s)'
      BY <2>1, <1>h DEF LockInv
    <3> QED
      BY <3>1, <2>1, <1>g, <1>e DEF MemoryIsVersionPlusHolder
  <2>2. CASE ~Holds(t)
    <3>1. \A s \in Threads : Holds(s)' => Holds(s) /\ s # t
      BY <2>2, <1>h
    <3> QED
      BY <3>1, <2>2, <1>o, <1>e, <1>t DEF MemoryIsVersionPlusHolder, Overlay
  <2> QED
    BY <2>1, <2>2
<1>5. HistoryInv'
  BY <1>o, <1>p, <1>g, <1>n, <1>x DEF HistoryInv
<1>6. ASSUME NEW s \in Threads
      PROVE  ControlInv(s)' /\ HolderInv(s)' /\ ReaderInv(s)'
  <2>1. ControlInv(s)'
    BY <1>t, <1>s DEF ControlInv, InWork
  <2>2. HolderInv(s)'
    BY <1>t, <1>h, <1>e, <1>s DEF HolderInv, NoWrites
  <2>3. ReaderInv(s)'
    <3>1. CASE s = t
      BY <3>1, <1>t, <1>s DEF ReaderInv
    <3>2. CASE s # t
      <4>1. pc[s] = "read" => InTx(s) /\ ~tx[s].retry
        BY DEF ControlInv, InWork
      <4>2. glb <= glb' /\ (glb' # glb => glb' = glb + 1)
        BY <1>o, <1>n
      <4>3. pc[s] = "read" /\ ~irrevoc[s] /\ glb' # glb => loc[s] # glb'
        BY <4>1, <4>2, <1>n, <1>p DEF ReaderInv
      <4>4. InTx(s) /\ ~irrevoc[s] /\ ~tx[s].retry =>
               loc[s] \in DOMAIN hist' /\ loc[s] <= glb'
        BY <4>2, <1>g, <1>n DEF ReaderInv
      <4> QED
        BY <3>2, <1>t, <1>e, <4>3, <4>4 DEF ReaderInv
    <3> QED
      BY <3>1, <3>2
  <2> QED
    BY <2>1, <2>2, <2>3
<1> QED
  BY <1>1, <1>2, <1>3, <1>4, <1>5, <1>6

--------------------------------------------------------------------------------
(* A step that changes nothing.                                             *)
LEMMA StutterStep == ASSUME IInv, UNCHANGED vars PROVE IInv'
<1> USE DEF vars, IInv
<1>1. TypeOK' /\ LockInv' /\ ReadsAreOneVersion'
  BY DEF TypeOK, LockInv, ReadsAreOneVersion, Holds, InTx, Version
<1>2. MemoryIsVersionPlusHolder' /\ HistoryInv'
  BY DEF MemoryIsVersionPlusHolder, HistoryInv, Holds, InTx, Overlay
<1>3. \A t \in Threads : (ControlInv(t) /\ HolderInv(t) /\ ReaderInv(t))'
  BY DEF ControlInv, HolderInv, ReaderInv, Holds, InTx, InWork, NoWrites
<1> QED
  BY <1>1, <1>2, <1>3

(* IInv is inductive: one case per action.                                  *)
LEMMA NextInv == ASSUME ~RestartIrrevoc, IInv, [Next]_vars PROVE IInv'
<1>1. CASE UNCHANGED vars \/ Finished
  BY <1>1, StutterStep DEF Finished
<1>2. ASSUME NEW t \in Threads, Client(t) PROVE IInv'
  BY <1>2, BeginNestedStep, ReadLoadStep, FreeStep, WriteStep, IrrevocStep,
     AbortStep, UserRestartStep, CommitStep DEF Client, UserAbort, MallocFails
<1>3. ASSUME NEW t \in Threads, Library(t) PROVE IInv'
  BY <1>3, SpinStep, BeginStep, ReadCheckStep, StoreStep, ProcessStep,
     EndNestedStep, EndStep DEF Library
<1> QED
  BY <1>1, <1>2, <1>3 DEF Next

(* The inductive invariant, for any number of threads, locations, values    *)
(* and transactions: every property below is read off it.                   *)
THEOREM Invariance == ASSUME ~RestartIrrevoc PROVE Spec => []IInv
<1>1. Init => IInv
  BY InitInv
<1>2. IInv /\ [Next]_vars => IInv'
  BY NextInv
<1> QED
  BY <1>1, <1>2, PTL DEF Spec

(* tml.c never leaves the lock behind, never frees it early and never has   *)
(* two owners, as long as the client leaves TML_RESTART alone once it       *)
(* writes.                                                                  *)
THEOREM LockSafety == ASSUME ~RestartIrrevoc PROVE Spec => []LockHasOneHolder
<1>1. IInv => LockHasOneHolder
  BY DEF IInv, LockHasOneHolder
<1> QED
  BY <1>1, Invariance, PTL

(* Opacity: doomed or not, a transaction is only ever handed values of the  *)
(* committed version it began on.                                           *)
THEOREM Opacity == ASSUME ~RestartIrrevoc PROVE Spec => []ReadsAreOneVersion
<1>1. IInv => ReadsAreOneVersion
  BY DEF IInv
<1> QED
  BY <1>1, Invariance, PTL

(* Writing in place is never visible in a committed version before its end. *)
THEOREM InPlaceWriting ==
  ASSUME ~RestartIrrevoc PROVE Spec => []MemoryIsVersionPlusHolder
<1>1. IInv => MemoryIsVersionPlusHolder
  BY DEF IInv
<1> QED
  BY <1>1, Invariance, PTL

(* The version history is append-only, and only End appends. *)
LEMMA OnlyEndPublishes ==
  ASSUME IInv, [Next]_vars, DOMAIN hist' # DOMAIN hist
  PROVE  \E t \in Threads : End(t) /\ Holds(t)
<1>1. ASSUME NEW t \in Threads, Client(t) PROVE FALSE
  BY <1>1 DEF Client, BeginNested, ReadLoad, Free, Write, Irrevoc, UserAbort,
     MallocFails, Abort, UserRestart, Commit, histVars
<1>2. ASSUME NEW t \in Threads, Library(t) PROVE End(t)
  BY <1>2 DEF Library, Spin, Begin, ReadCheck, Store, Process, EndNested, histVars
<1>3. ASSUME NEW t \in Threads, End(t) PROVE Holds(t)
  BY <1>3, OnEndIsExact
<1>4. ~UNCHANGED vars /\ ~Finished
  BY DEF vars, Finished
<1> QED
  BY <1>1, <1>2, <1>3, <1>4 DEF Next

(* A step that adds a version is the holder's End, and adds what it wrote.  *)
LEMMA PublishStepHolds == ASSUME IInv, [Next]_vars PROVE PublishStep
<1> SUFFICES ASSUME DOMAIN hist' # DOMAIN hist
             PROVE  \E t \in Threads :
                      /\ Holds(t) /\ ~InTx(t)'
                      /\ glb' = glb + 1
                      /\ hist'[glb'] = Overlay(hist[glb - 1], own[t])
                      /\ \A p \in seen[t] : hist[glb - 1][p[1]] = p[2]
  BY DEF PublishStep
<1>1. PICK t \in Threads : End(t) /\ Holds(t)
  BY OnlyEndPublishes
<1>2. /\ glb' = glb + 1 /\ loc[t] = glb /\ ~IsEven(glb)
      /\ hist' = [g \in DOMAIN hist \cup {glb + 1} |->
                    IF g = glb + 1 THEN mem ELSE hist[g]]
  BY <1>1, OnEndIsExact
<1>3. ~InTx(t)'
  <2>1. TxEnd(tx[t]).depth = 0 /\ tx'[t] = TxEnd(tx[t])
    BY <1>1, TxEndOutermost DEF End, IInv, TypeOK
  <2> QED
    BY <2>1 DEF InTx
<1>4. hist'[glb'] = Overlay(hist[glb - 1], own[t])
  BY <1>1, <1>2 DEF IInv, MemoryIsVersionPlusHolder
<1>5. \A p \in seen[t] : hist[glb - 1][p[1]] = p[2]
  BY <1>1, <1>2 DEF IInv, ReadsAreOneVersion, Version, Holds, HolderInv
<1> QED
  BY <1>1, <1>2, <1>3, <1>4, <1>5

(* Each new version is the previous one plus all of one transaction's       *)
(* writes, and that transaction read nothing older: no update is lost.      *)
THEOREM AtomicPublication == ASSUME ~RestartIrrevoc PROVE Spec => PublishesAtomically
<1>1. IInv /\ [Next]_vars => [PublishStep]_vars
  BY PublishStepHolds
<1> QED
  BY <1>1, Invariance, PTL DEF Spec, PublishesAtomically

--------------------------------------------------------------------------------
(***************************************************************************)
(* What the macros leave behind is what they report: FateInv, kept beside  *)
(* IInv, says what a transaction has made of the blocks it freed.          *)
(***************************************************************************)

(* The threads start out with nothing to show for a transaction. *)
LEMMA InitOutcomeInv == Init => OutcomeInv
<1> SUFFICES ASSUME Init PROVE OutcomeInv
  OBVIOUS
<1>1. IInv
  BY InitInv
<1>2. ASSUME NEW t \in Threads PROVE FateInv(t)
  BY ConstAssumption DEF FateInv, HasCommitted, Init, TxIdle, InTx, NoWrites
<1> QED
  BY <1>1, <1>2 DEF OutcomeInv

(* The other threads keep everything of their own in a step of t.           *)
LEMMA OthersKeep ==
  ASSUME IInv, NEW t \in Threads, Client(t) \/ Library(t),
         NEW s \in Threads, s # t
  PROVE  /\ tx'[s] = tx[s] /\ loc'[s] = loc[s] /\ irrevoc'[s] = irrevoc[s]
         /\ frees'[s] = frees[s] /\ own'[s] = own[s] /\ seen'[s] = seen[s]
         /\ arg'[s] = arg[s] /\ pc'[s] = pc[s]
<1> USE DEF IInv, TypeOK, lockVars, histVars, Goto
<1>1. ASSUME Acquire(t) \/ LoseRace(t), arg' = arg \/ \E w : arg' = [arg EXCEPT ![t] = w],
             frees' = frees \/ \E F : frees' = [frees EXCEPT ![t] = F],
             tx' = tx \/ \E r : tx' = [tx EXCEPT ![t] = r],
             pc' = pc \/ \E l : pc' = [pc EXCEPT ![t] = l],
             UNCHANGED <<mem, histVars>>
      PROVE  /\ tx'[s] = tx[s] /\ loc'[s] = loc[s] /\ irrevoc'[s] = irrevoc[s]
             /\ frees'[s] = frees[s] /\ own'[s] = own[s] /\ seen'[s] = seen[s]
             /\ arg'[s] = arg[s] /\ pc'[s] = pc[s]
  BY <1>1 DEF Acquire, LoseRace, Restart
<1>2. CASE \E a \in Addrs, v \in Vals : Write(t, a, v)
  BY <1>1, <1>2 DEF Write, LoseRace, Restart
<1>3. CASE \E a \in Addrs : Free(t, a)
  BY <1>1, <1>3 DEF Free, LoseRace, Restart, Listed, NotListed
<1>4. CASE Irrevoc(t)
  BY <1>1, <1>4 DEF Irrevoc, LoseRace, Restart
<1>5. CASE \E a \in Addrs : ReadLoad(t, a)
  BY <1>5 DEF ReadLoad
<1>6. CASE BeginNested(t) \/ Abort(t) \/ UserRestart(t) \/ Commit(t)
  BY <1>6 DEF BeginNested, Abort, UserRestart, Restart, Commit
<1>7. CASE Spin(t) \/ Begin(t) \/ Store(t) \/ Process(t) \/ EndNested(t)
  BY <1>7 DEF Spin, Begin, Store, Process, EndNested
<1>8. CASE ReadCheck(t)
  BY <1>8 DEF ReadCheck, HandOver, Restart
<1>9. CASE End(t)
  BY <1>9 DEF End
<1> QED
  BY <1>2, <1>3, <1>4, <1>5, <1>6, <1>7, <1>8, <1>9
  DEF Client, Library, UserAbort, MallocFails

(* The client's code is in no transaction whose outermost block has         *)
(* committed, nor is one that has failed.                                   *)
LEMMA NotYetCommitted ==
  ASSUME NEW t \in Threads,
         InWork(tx[t]) \/ tx[t].err # "none" \/ tx[t].level # 0 \/ tx[t].depth = 0
  PROVE  ~HasCommitted(t)
BY DEF HasCommitted, InTx

(* A step that leaves alone what t did and whether it has committed leaves  *)
(* FateInv alone.                                                           *)
LEMMA FateStays ==
  ASSUME NEW t \in Threads, FateInv(t), own'[t] = own[t], frees'[t] = frees[t],
         HasCommitted(t)' = HasCommitted(t), pc'[t] = "store" => arg'[t][2] # Junk
  PROVE  FateInv(t)'
BY DEF FateInv

(* As long as neither side of the step is a committed outermost block, the  *)
(* list of freed blocks does not matter.                                    *)
LEMMA FateOpen ==
  ASSUME NEW t \in Threads, FateInv(t), own'[t] = own[t],
         ~HasCommitted(t), ~HasCommitted(t)', pc'[t] = "store" => arg'[t][2] # Junk
  PROVE  FateInv(t)'
BY DEF FateInv

(* FateInv is kept by a step of t's client, for t itself.                   *)
LEMMA FateOfClient ==
  ASSUME OutcomeInv, NEW t \in Threads, Client(t)
  PROVE  FateInv(t)'
<1>i. /\ IInv /\ FateInv(t) /\ AtWork(t)
  BY DEF OutcomeInv, Client, BeginNested, ReadLoad, Free, Write, Irrevoc, UserAbort,
     MallocFails, Abort, UserRestart, Commit
<1>w. /\ TypeOK /\ InTx(t) /\ pc[t] = "run" /\ tx[t] \in TxRecord /\ arg[t] = NoArg
      /\ tx[t].err = "none" /\ ~tx[t].retry /\ InWork(tx[t])
      /\ tx[t].level = tx[t].depth - 1 /\ tx[t].depth > 0 /\ tx[t].depth \in Nat
  BY <1>i, WorkFacts
<1>n. ~HasCommitted(t)
  BY <1>w, NotYetCommitted
<1>o. ASSUME own' = own, pc'[t] = "store" => arg'[t][2] # Junk,
             InWork(tx'[t]) \/ tx'[t].err # "none"
      PROVE  FateInv(t)'
  <2>1. ~HasCommitted(t)'
    BY <1>o DEF HasCommitted
  <2> QED
    BY <1>i, <1>n, <1>o, <2>1, FateOpen
<1>r. ASSUME Restart(t), own' = own PROVE FateInv(t)'
  <2>1. TxRestart(tx[t]).err = "restart"
    BY <1>w, TxRestartFields
  <2>2. tx'[t] = TxRestart(tx[t]) /\ pc'[t] = "run"
    BY <1>w, <1>r DEF Restart, Goto, TypeOK
  <2> QED
    BY <1>o, <1>r, <2>1, <2>2
<1>f. ASSUME tx' = [tx EXCEPT ![t] = TxAbort(tx[t], "failed")], own' = own, pc' = pc
      PROVE  FateInv(t)'
  <2>1. TxAbort(tx[t], "failed").err = "failed"
    BY <1>w, TxAbortFields DEF Errs
  <2>2. tx'[t] = TxAbort(tx[t], "failed")
    BY <1>w, <1>f DEF TypeOK
  <2> QED
    BY <1>w, <1>o, <1>f, <2>1, <2>2
<1>1. CASE BeginNested(t)
  <2>1. TxBegin(tx[t]).stage = "WORK"
    BY <1>w, TxBeginFields
  <2>2. tx'[t] = TxBegin(tx[t]) /\ own' = own /\ pc' = pc
    BY <1>w, <1>1 DEF BeginNested, TypeOK, histVars
  <2> QED
    BY <1>w, <1>o, <2>1, <2>2 DEF InWork
<1>2. ASSUME NEW a \in Addrs, ReadLoad(t, a) PROVE FateInv(t)'
  <2>1. pc'[t] = "read" /\ tx' = tx /\ own' = own
    BY <1>w, <1>2 DEF ReadLoad, Goto, TypeOK, histVars
  <2> QED
    BY <1>w, <1>o, <2>1
<1>3. ASSUME NEW a \in Addrs, Free(t, a) PROVE FateInv(t)'
  <2>1. own' = own
    BY <1>3 DEF Free, histVars
  <2>2. CASE LoseRace(t)
    BY <1>r, <2>1, <2>2 DEF LoseRace
  <2>3. CASE Listed(t, a) /\ pc' = pc
    BY <1>w, <1>o, <2>1, <2>3 DEF Listed
  <2>4. CASE NotListed(t) /\ pc' = pc
    BY <1>f, <2>1, <2>4 DEF NotListed
  <2> QED
    BY <1>3, <2>2, <2>3, <2>4 DEF Free
<1>4. ASSUME NEW a \in Addrs, NEW v \in Vals, Write(t, a, v) PROVE FateInv(t)'
  <2>1. own' = own
    BY <1>4 DEF Write, histVars
  <2>2. CASE LoseRace(t)
    BY <1>r, <2>1, <2>2 DEF LoseRace
  <2>3. CASE arg' = [arg EXCEPT ![t] = <<a, v>>] /\ tx' = tx
    <3>1. arg'[t][2] = v /\ v # Junk
      BY <1>w, <2>3, ConstAssumption DEF TypeOK
    <3> QED
      BY <1>w, <1>o, <2>1, <2>3, <3>1
  <2> QED
    BY <1>4, <2>2, <2>3 DEF Write
<1>5. CASE Irrevoc(t)
  <2>1. own' = own
    BY <1>5 DEF Irrevoc, histVars
  <2>2. CASE LoseRace(t)
    BY <1>r, <2>1, <2>2 DEF LoseRace
  <2>3. CASE UNCHANGED <<tx, pc>>
    BY <1>w, <1>o, <2>1, <2>3
  <2> QED
    BY <1>5, <2>2, <2>3 DEF Irrevoc
<1>6. CASE Abort(t)
  BY <1>6, <1>f DEF Abort, histVars
<1>7. CASE UserRestart(t)
  BY <1>7, <1>r DEF UserRestart, histVars
<1>8. CASE Commit(t)
  <2>1. /\ TxCommit(tx[t]).stage = "ONCOMMIT" /\ TxCommit(tx[t]).err = "none"
        /\ TxCommit(tx[t]).level = tx[t].level /\ TxCommit(tx[t]).depth = tx[t].depth
    BY <1>w, TxCommitFields
  <2>2. tx'[t] = TxCommit(tx[t]) /\ pc'[t] = "run" /\ frees' = frees
    BY <1>w, <1>8 DEF Commit, TypeOK
  <2>3. CASE tx[t].level = 0
    <3>1. \A a \in frees'[t] : own'[t][a] = Junk
      BY <1>w, <1>8, <2>2, <2>3 DEF Commit, Reclaim, TypeOK
    <3>2. HasCommitted(t)'
      BY <1>w, <2>1, <2>2, <2>3 DEF HasCommitted, InTx, InWork
    <3> QED
      BY <2>2, <3>1, <3>2 DEF FateInv
  <2>4. CASE tx[t].level # 0
    <3>1. own' = own /\ ~HasCommitted(t)'
      BY <1>8, <2>1, <2>2, <2>4 DEF Commit, HasCommitted
    <3> QED
      BY <1>i, <1>n, <2>2, <3>1, FateOpen
  <2> QED
    BY <2>3, <2>4
<1> QED
  BY <1>1, <1>2, <1>3, <1>4, <1>5, <1>6, <1>7, <1>8 DEF Client, UserAbort, MallocFails

(* A step of the library keeps FateInv of the thread that takes it.         *)
LEMMA FateOfLibrary ==
  ASSUME OutcomeInv, NEW t \in Threads, Library(t)
  PROVE  FateInv(t)'
<1>i. /\ IInv /\ FateInv(t) /\ TypeOK /\ ControlInv(t) /\ HolderInv(t) /\ tx[t] \in TxRecord
  BY DEF OutcomeInv, IInv, TypeOK
<1>o. ASSUME own' = own, ~HasCommitted(t), pc'[t] # "store",
             InWork(tx'[t]) \/ tx'[t].err # "none" \/ tx'[t].depth = 0
      PROVE  FateInv(t)'
  <2>1. ~HasCommitted(t)'
    BY <1>o DEF HasCommitted, InTx
  <2> QED
    BY <1>i, <1>o, <2>1, FateOpen
<1>1. CASE Spin(t)
  <2>1. tx[t].depth = 0
    BY <1>1, <1>i, OutsideIsClean DEF Spin, AtBegin, ControlInv
  <2>2. pc'[t] = "begin" /\ tx' = tx /\ own' = own
    BY <1>1, <1>i DEF Spin, Goto, TypeOK, histVars
  <2> QED
    BY <1>o, <2>1, <2>2, NotYetCommitted
<1>2. CASE Begin(t)
  <2>1. tx[t].depth = 0
    BY <1>2, <1>i, OutsideIsClean DEF Begin, AtBegin, ControlInv
  <2>2. TxBegin(tx[t]).stage = "WORK"
    BY <1>i, TxBeginFields
  <2>3. tx'[t] = TxBegin(tx[t]) /\ own' = own /\ pc'[t] = "run"
    BY <1>2, <1>i DEF Begin, Goto, TypeOK, histVars
  <2> QED
    BY <1>o, <2>1, <2>2, <2>3, NotYetCommitted DEF InWork
<1>3. CASE ReadCheck(t)
  <2>1. InWork(tx[t]) /\ ~HasCommitted(t) /\ own' = own
    BY <1>3, <1>i, NotYetCommitted DEF ReadCheck, ControlInv
  <2>2. CASE Restart(t)
    <3>1. TxRestart(tx[t]).err = "restart"
      BY <1>i, TxRestartFields
    <3>2. tx'[t] = TxRestart(tx[t]) /\ pc'[t] = "run"
      BY <1>i, <2>2 DEF Restart, Goto, TypeOK
    <3> QED
      BY <1>o, <2>1, <3>1, <3>2
  <2>3. CASE HandOver(t)
    <3>1. tx' = tx /\ pc'[t] = "run"
      BY <1>i, <2>3 DEF HandOver, Goto, TypeOK
    <3> QED
      BY <1>o, <2>1, <3>1
  <2> QED
    BY <1>3, <2>2, <2>3 DEF ReadCheck
<1>4. CASE Store(t)
  <2>1. InWork(tx[t]) /\ ~HasCommitted(t) /\ tx' = tx /\ pc'[t] = "run"
    BY <1>4, <1>i, NotYetCommitted DEF Store, Goto, ControlInv, TypeOK
  <2>2. ~HasCommitted(t)'
    BY <2>1 DEF HasCommitted
  <2>3. \A a \in Addrs : own'[t][a] = own[t][a] \/ own'[t][a] = arg[t][2]
    BY <1>4, <1>i DEF Store, TypeOK
  <2>4. \A a \in Addrs : own'[t][a] # Junk
    BY <1>4, <1>i, <2>1, <2>3 DEF FateInv, Store
  <2> QED
    BY <2>1, <2>2, <2>4 DEF FateInv
<1>5. CASE Process(t)
  <2>1. /\ TxProcess(tx[t]).err = tx[t].err /\ TxProcess(tx[t]).stage # "WORK"
        /\ TxProcess(tx[t]).level = tx[t].level /\ TxProcess(tx[t]).depth = tx[t].depth
    BY <1>i, TxProcessFields
  <2>2. /\ tx'[t] = TxProcess(tx[t]) /\ pc'[t] = "run" /\ own' = own /\ frees' = frees
        /\ tx[t].stage # "WORK"
    BY <1>5, <1>i DEF Process, TypeOK, histVars
  <2>3. HasCommitted(t)' = HasCommitted(t)
    BY <2>1, <2>2 DEF HasCommitted, InTx, InWork
  <2> QED
    BY <1>i, <2>2, <2>3, FateStays
<1>6. CASE EndNested(t)
  <2>1. tx[t].level = tx[t].depth - 1 /\ tx[t].depth > 1 /\ tx[t].depth \in Nat
    BY <1>6, <1>i DEF EndNested, ControlInv, Outermost, TxRecord
  <2>2. TxEnd(tx[t]).err = tx[t].err
    BY <1>i, <2>1, TxEndNested
  <2>3. tx[t].err = "none" => TxEnd(tx[t]).stage = "WORK"
    BY <1>i, <1>6, TxEndResumes DEF EndNested
  <2>4. tx'[t] = TxEnd(tx[t]) /\ pc'[t] = "run" /\ own' = own
    BY <1>6, <1>i DEF EndNested, TypeOK, histVars
  <2>5. ~HasCommitted(t)
    BY <2>1, NotYetCommitted
  <2> QED
    BY <1>o, <2>2, <2>3, <2>4, <2>5 DEF InWork
<1>7. CASE End(t)
  <2>1. TxEnd(tx[t]).depth = 0
    BY <1>7, <1>i, TxEndOutermost DEF End
  <2>2. tx'[t] = TxEnd(tx[t]) /\ own'[t] = NoWrites /\ pc'[t] # "store"
    BY <1>7, <1>i DEF End, Goto, TypeOK
  <2> QED
    BY <2>1, <2>2, ConstAssumption DEF FateInv, HasCommitted, InTx, NoWrites
<1> QED
  BY <1>1, <1>2, <1>3, <1>4, <1>5, <1>6, <1>7 DEF Library

(* OutcomeInv is inductive. *)
LEMMA NextOutcomeInv ==
  ASSUME ~RestartIrrevoc, OutcomeInv, [Next]_vars
  PROVE  OutcomeInv'
<1>1. IInv'
  BY NextInv DEF OutcomeInv
<1>2. CASE UNCHANGED vars \/ Finished
  BY <1>1, <1>2 DEF OutcomeInv, FateInv, HasCommitted, Finished, vars, InTx, InWork
<1>3. ASSUME NEW t \in Threads, Client(t) \/ Library(t), NEW s \in Threads
      PROVE  FateInv(s)'
  <2>1. CASE s = t
    BY <1>3, <2>1, FateOfClient, FateOfLibrary
  <2>2. CASE s # t
    <3>1. /\ tx'[s] = tx[s] /\ frees'[s] = frees[s] /\ own'[s] = own[s]
          /\ arg'[s] = arg[s] /\ pc'[s] = pc[s]
      BY <1>3, <2>2, OthersKeep DEF OutcomeInv
    <3>2. HasCommitted(s)' = HasCommitted(s)
      BY <3>1 DEF HasCommitted, InTx
    <3> QED
      BY <3>1, <3>2, FateStays DEF OutcomeInv, FateInv
  <2> QED
    BY <2>1, <2>2
<1> QED
  BY <1>1, <1>2, <1>3 DEF Next, OutcomeInv

(* Only the outermost tml_tx_end takes a thread out of its transaction.     *)
LEMMA OnlyEndLeaves ==
  ASSUME IInv, NEW t \in Threads, InTx(t), ~InTx(t)', [Next]_vars
  PROVE  End(t)
<1>1. ~UNCHANGED vars /\ ~Finished
  BY DEF vars, Finished, InTx
<1>2. PICK s \in Threads : Client(s) \/ Library(s)
  BY <1>1 DEF Next
<1>3. s = t
  BY <1>2, OthersKeep DEF InTx
<1>i. TypeOK /\ tx[t] \in TxRecord /\ ControlInv(t) /\ tx[t].depth > 0
  BY DEF IInv, TypeOK, InTx
<1>k. ASSUME NEW r \in TxRecord, tx'[t] = r, r.depth > 0 PROVE FALSE
  BY <1>k DEF InTx
<1>r. ASSUME Restart(t) PROVE FALSE
  <2>1. /\ TxRestart(tx[t]) \in TxRecord /\ TxRestart(tx[t]).depth = tx[t].depth
    BY <1>i, TxRestartFields
  <2>2. tx'[t] = TxRestart(tx[t])
    BY <1>i, <1>r DEF Restart, TypeOK
  <2> QED
    BY <1>i, <1>k, <2>1, <2>2
<1>f. ASSUME tx' = [tx EXCEPT ![t] = TxAbort(tx[t], "failed")] PROVE FALSE
  <2>1. /\ TxAbort(tx[t], "failed") \in TxRecord
        /\ TxAbort(tx[t], "failed").depth = tx[t].depth
    BY <1>i, TxAbortFields DEF Errs
  <2>2. tx'[t] = TxAbort(tx[t], "failed")
    BY <1>i, <1>f DEF TypeOK
  <2> QED
    BY <1>i, <1>k, <2>1, <2>2
<1>b. ASSUME tx' = [tx EXCEPT ![t] = TxBegin(tx[t])] PROVE FALSE
  <2>1. /\ TxBegin(tx[t]) \in TxRecord /\ TxBegin(tx[t]).depth = tx[t].depth + 1
    BY <1>i, TxBeginFields
  <2>2. tx'[t] = TxBegin(tx[t]) /\ tx[t].depth \in Nat
    BY <1>i, <1>b DEF TypeOK, TxRecord
  <2> QED
    BY <1>i, <1>k, <2>1, <2>2
<1>u. tx' # tx
  BY DEF InTx
<1>4. CASE Client(t)
  <2>1. CASE Commit(t)
    <3>1. /\ TxCommit(tx[t]) \in TxRecord /\ TxCommit(tx[t]).depth = tx[t].depth
      BY <1>i, TxCommitFields
    <3>2. tx'[t] = TxCommit(tx[t])
      BY <1>i, <2>1 DEF Commit, TypeOK
    <3> QED
      BY <1>i, <1>k, <3>1, <3>2
  <2> QED
    BY <1>4, <1>r, <1>f, <1>b, <1>u, <2>1
    DEF Client, BeginNested, ReadLoad, Free, Listed, NotListed, Write, LoseRace, Irrevoc,
        UserAbort, MallocFails, Abort, UserRestart
<1>5. CASE Library(t)
  <2>1. ~Process(t)
    <3>1. /\ TxProcess(tx[t]) \in TxRecord /\ TxProcess(tx[t]).depth = tx[t].depth
      BY <1>i, TxProcessFields
    <3>2. Process(t) => tx'[t] = TxProcess(tx[t])
      BY <1>i DEF Process, TypeOK
    <3> QED
      BY <1>i, <1>k, <3>1, <3>2
  <2>2. ~EndNested(t)
    <3>1. EndNested(t) => tx[t].level = tx[t].depth - 1 /\ tx[t].depth > 1 /\ tx[t].depth \in Nat
      BY <1>i DEF EndNested, ControlInv, Outermost, TxRecord, InTx
    <3>2. EndNested(t) => /\ TxEnd(tx[t]) \in TxRecord
                          /\ TxEnd(tx[t]).depth = tx[t].depth - 1
      BY <1>i, <3>1, TxEndNested
    <3>3. EndNested(t) => tx'[t] = TxEnd(tx[t])
      BY <1>i DEF EndNested, TypeOK
    <3> QED
      BY <1>i, <1>k, <3>1, <3>2, <3>3
  <2> QED
    BY <1>5, <1>r, <1>b, <1>u, <2>1, <2>2
    DEF Library, Spin, Begin, ReadCheck, HandOver, Store
<1> QED
  BY <1>2, <1>3, <1>4, <1>5

(* A transaction ends in what its result says of it.                        *)
LEMMA OutcomeStepHolds == ASSUME OutcomeInv, [Next]_vars PROVE OutcomeStep
<1> SUFFICES ASSUME NEW t \in Threads, InTx(t), ~InTx(t)'
             PROVE  /\ IF irrevoc[t]
                       THEN glb' = glb + 1 /\ hist'[glb'] = Overlay(hist[glb - 1], own[t])
                       ELSE UNCHANGED <<glb, mem, hist>> /\ own[t] = NoWrites
                    /\ tx[t].retry => ~irrevoc[t]
                    /\ \A a \in frees[t] : own[t][a] = Junk <=> tx[t].err = "none"
  BY DEF OutcomeStep
<1>i. IInv /\ HolderInv(t) /\ FateInv(t) /\ TypeOK
  BY DEF OutcomeInv, IInv
<1>1. End(t)
  BY <1>i, OnlyEndLeaves
<1>2. /\ Holds(t) => /\ glb' = glb + 1 /\ loc[t] = glb /\ ~IsEven(glb)
                     /\ hist' = [g \in DOMAIN hist \cup {glb + 1} |->
                                   IF g = glb + 1 THEN mem ELSE hist[g]]
      /\ ~Holds(t) => UNCHANGED <<glb, hist>>
  BY <1>i, <1>1, OnEndIsExact
<1>3. Holds(t) <=> irrevoc[t]
  BY DEF Holds
<1>4. ASSUME irrevoc[t]
      PROVE  glb' = glb + 1 /\ hist'[glb'] = Overlay(hist[glb - 1], own[t])
  BY <1>i, <1>2, <1>3, <1>4 DEF IInv, MemoryIsVersionPlusHolder
<1>5. ASSUME ~irrevoc[t] PROVE UNCHANGED <<glb, mem, hist>> /\ own[t] = NoWrites
  BY <1>i, <1>1, <1>2, <1>3, <1>5 DEF HolderInv, End
<1>6. \A a \in frees[t] : own[t][a] = Junk <=> tx[t].err = "none"
  <2>1. HasCommitted(t) <=> tx[t].err = "none"
    BY <1>1 DEF End, HasCommitted, Outermost, InWork
  <2>2. frees[t] \subseteq Addrs
    BY <1>i DEF TypeOK
  <2> QED
    BY <1>i, <2>1, <2>2 DEF FateInv
<1> QED
  BY <1>i, <1>4, <1>5, <1>6 DEF HolderInv

(* Whoever aborts it and whenever, a transaction of tml.c is over with what *)
(* its result says: the writes of a committed or irrevocable one and none   *)
(* of any other, the frees of a committed one and none of any other.        *)
THEOREM OutcomeExact == ASSUME ~RestartIrrevoc PROVE Spec => OutcomeIsExact
<1>1. Init => OutcomeInv
  BY InitOutcomeInv
<1>2. OutcomeInv /\ [Next]_vars => OutcomeInv'
  BY NextOutcomeInv
<1>3. OutcomeInv /\ [Next]_vars => [OutcomeStep]_vars
  BY OutcomeStepHolds
<1> QED
  BY <1>1, <1>2, <1>3, PTL DEF Spec, OutcomeIsExact

--------------------------------------------------------------------------------
(***************************************************************************)
(* TML implements AtomicTM, for any number of threads, locations, values   *)
(* and transactions: under IInv every step of TML is one step of AtomicTM, *)
(* or none.                                                                *)
(***************************************************************************)

(* The mapping.  A thread's share of AtomicTM depends on its own state only. *)
Share(t) == <<Status(t), First(t), Reads(t), Writes(t), Frees(t)>>

(* A thread none of whose own variables change keeps its share.             *)
LEMMA ShareOfOthers ==
  ASSUME NEW s \in Threads, tx'[s] = tx[s], loc'[s] = loc[s], irrevoc'[s] = irrevoc[s],
         frees'[s] = frees[s], own'[s] = own[s], seen'[s] = seen[s]
  PROVE  Share(s)' = Share(s)
BY DEF Share, Status, PledgedStatus, First, Reads, Writes, Frees, Live, Holds,
   HasCommitted, InTx, Version, NoWrites

(* The threads that take no part in a step keep their shares.               *)
LEMMA SharesOfOthers ==
  ASSUME IInv, NEW t \in Threads, Client(t) \/ Library(t), NEW s \in Threads, s # t
  PROVE  /\ Status(s)' = Status(s) /\ First(s)' = First(s) /\ Reads(s)' = Reads(s)
         /\ Writes(s)' = Writes(s) /\ Frees(s)' = Frees(s)
BY OthersKeep, ShareOfOthers DEF Share

(* An acquired lock does not change the newest version.                     *)
LEMMA NewestStays ==
  ASSUME IInv, NEW t \in Threads, Client(t) \/ Library(t), hist' = hist
  PROVE  Newest' = Newest
<1>1. ASSUME AtWork(t), Acquire(t) PROVE Newest' = Newest
  <2>1. glb' = glb \/ (IsEven(glb) /\ glb' = glb + 1 /\ ~IsEven(glb'))
    BY <1>1, AcquireEffect
  <2> QED
    BY <2>1 DEF Newest, IInv, TypeOK
<1>2. ASSUME AtWork(t), LoseRace(t) PROVE Newest' = Newest
  BY <1>2 DEF LoseRace, Newest
<1>3. ASSUME NEW a \in Addrs, Free(t, a) PROVE Newest' = Newest
  BY <1>1, <1>2, <1>3 DEF Free
<1>4. ASSUME NEW a \in Addrs, NEW v \in Vals, Write(t, a, v) PROVE Newest' = Newest
  BY <1>1, <1>2, <1>4 DEF Write
<1>5. CASE Irrevoc(t)
  BY <1>1, <1>2, <1>5 DEF Irrevoc
<1>6. CASE End(t)
  <2>1. Holds(t) => glb + 1 \in DOMAIN hist'
    BY <1>6, OnEndIsExact
  <2>2. glb + 1 \notin DOMAIN hist
    BY DEF IInv, HistoryInv, TypeOK
  <2>3. glb' = glb
    BY <1>6, <2>1, <2>2, OnEndIsExact
  <2> QED
    BY <2>3 DEF Newest
<1>7. CASE glb' = glb
  BY <1>7 DEF Newest
<1>8. \/ glb' = glb \/ End(t) \/ Irrevoc(t)
      \/ \E a \in Addrs : Free(t, a)
      \/ \E a \in Addrs, v \in Vals : Write(t, a, v)
  BY DEF Client, Library, BeginNested, ReadLoad, UserAbort, MallocFails, Abort,
     UserRestart, Commit, Spin, Begin, ReadCheck, Store, Process, EndNested, lockVars
<1> QED
  BY <1>3, <1>4, <1>5, <1>6, <1>7, <1>8

(* A step that keeps every share and the store is no step of AtomicTM.      *)
LEMMA NoStep ==
  ASSUME IInv, NEW t \in Threads, Client(t) \/ Library(t), hist' = hist,
         Share(t)' = Share(t)
  PROVE  UNCHANGED TM!vars
<1>1. Newest' = Newest
  BY NewestStays
<1>2. ASSUME NEW s \in Threads
      PROVE  /\ Status(s)' = Status(s) /\ First(s)' = First(s) /\ Reads(s)' = Reads(s)
             /\ Writes(s)' = Writes(s) /\ Frees(s)' = Frees(s)
  BY SharesOfOthers DEF Share
<1> QED
  BY <1>1, <1>2 DEF TM!vars

(* A revocable transaction that fails has aborted there and then.           *)
LEMMA AbortsAtomically ==
  ASSUME IInv, NEW t \in Threads, Client(t) \/ Library(t), hist' = hist,
         InTx(t), tx[t].err = "none", ~irrevoc[t], ~irrevoc'[t], tx'[t].err # "none"
  PROVE  TM!Abort(t)
<1>1. Newest' = Newest
  BY NewestStays
<1>2. ASSUME NEW s \in Threads, s # t
      PROVE  /\ Status(s)' = Status(s) /\ First(s)' = First(s) /\ Reads(s)' = Reads(s)
             /\ Writes(s)' = Writes(s) /\ Frees(s)' = Frees(s)
  BY <1>2, SharesOfOthers
<1>3. Status(t) = "active"
  BY DEF Status, Holds
<1>4. /\ Status(t)' = "aborted" /\ First(t)' = 0 /\ Reads(t)' = {}
      /\ Writes(t)' = NoWrites /\ Frees(t)' = {}
  BY DEF Status, Holds, First, Reads, Writes, Frees, Live, NoWrites
<1>5. TM!Leave(t, "aborted")
  BY <1>2, <1>3, <1>4 DEF TM!Leave, TM!NoWrites, NoWrites
<1> QED
  BY <1>1, <1>3, <1>5 DEF TM!Abort, TM!store

(* The lock, held already or taken in this step, is AtomicTM's pledge: the  *)
(* transaction is alone with it and all it has read is in the newest        *)
(* version.                                                                 *)
LEMMA PledgesAtomically ==
  ASSUME IInv, NEW t \in Threads, Client(t), hist' = hist,
         InTx(t), tx[t].err = "none", ~tx[t].retry, ~HasCommitted(t),
         tx'[t].depth = tx[t].depth, ~HasCommitted(t)',
         irrevoc'[t] = TRUE, Version(t)' = Version(t), seen' = seen, own' = own,
         NEW st \in {"pledged", "failing"}, st = "pledged" <=> tx'[t].err = "none",
         \/ Holds(t)
         \/ IsEven(glb) /\ loc[t] = glb /\ \A s \in Threads : ~Holds(s)
  PROVE  /\ TM!Pledge(t, st) /\ Frees(t) = frees[t] /\ Frees(t)' = frees'[t]
         /\ Status(t)' = st
<1>1. Newest' = Newest
  BY NewestStays
<1>2. ASSUME NEW s \in Threads, s # t
      PROVE  /\ Status(s)' = Status(s) /\ First(s)' = First(s) /\ Reads(s)' = Reads(s)
             /\ Writes(s)' = Writes(s) /\ Frees(s)' = Frees(s)
  BY <1>2, SharesOfOthers
<1>3. Status(t) \in {"active", "pledged"} /\ Status(t)' = st
  BY DEF Status, PledgedStatus, Holds, InTx
<1>4. /\ First(t)' = First(t) /\ First(t) = Version(t)
      /\ Reads(t)' = Reads(t) /\ Reads(t) = seen[t]
      /\ Writes(t)' = Writes(t) /\ Frees(t) = frees[t] /\ Frees(t)' = frees'[t]
  BY DEF First, Reads, Writes, Frees, Live, InTx
<1>5. ASSUME NEW s \in Threads, s # t PROVE Status(s) \notin TM!Pledged
  <2>1. ~Holds(s)
    BY <1>5 DEF IInv, LockInv
  <2> QED
    BY <2>1 DEF Status, TM!Pledged
<1>6. TM!Alone(t)
  BY <1>5 DEF TM!Alone
<1>7. Version(t) = Newest
  BY DEF Version, Newest, IInv, LockInv
<1>8. TM!Explains(Newest, Reads(t))
  BY <1>4, <1>7 DEF TM!Explains, IInv, ReadsAreOneVersion
<1> QED
  BY <1>1, <1>2, <1>3, <1>4, <1>6, <1>8 DEF TM!Pledge, TM!store, TM!Running

(* What a step of the client's code is to AtomicTM.  Its writes show when   *)
(* they are stored; here it may become irrevocable, free a block, fail or   *)
(* do the first half of its commit.                                         *)
LEMMA ClientSteps ==
  ASSUME IInv, NEW t \in Threads, Client(t), ~RestartIrrevoc
  PROVE  TM!Next \/ UNCHANGED TM!vars
<1>i. AtWork(t)
  BY DEF Client, BeginNested, ReadLoad, Free, Write, Irrevoc, UserAbort, MallocFails, Abort,
     UserRestart, Commit
<1>w. /\ TypeOK /\ InTx(t) /\ pc[t] = "run" /\ tx[t] \in TxRecord /\ arg[t] = NoArg
      /\ tx[t].err = "none" /\ ~tx[t].retry /\ InWork(tx[t])
      /\ tx[t].level = tx[t].depth - 1 /\ tx[t].depth > 0 /\ tx[t].depth \in Nat
  BY <1>i, WorkFacts
<1>n. ~HasCommitted(t)
  BY <1>w, NotYetCommitted
<1>s. ASSUME tx'[t] = tx[t], irrevoc' = irrevoc, hist' = hist, seen' = seen, own' = own,
             frees' = frees, loc' = loc
      PROVE  UNCHANGED TM!vars
  <2>1. Share(t)' = Share(t)
    BY <1>s DEF Share, Status, PledgedStatus, First, Reads, Writes, Frees, Live, Holds,
       HasCommitted, InTx, Version, NoWrites
  <2> QED
    BY <1>s, <2>1, NoStep
<1>r. ASSUME Restart(t), ~irrevoc[t], irrevoc' = irrevoc, hist' = hist PROVE TM!Next
  <2>1. TxRestart(tx[t]).err = "restart"
    BY <1>w, TxRestartFields
  <2>2. tx'[t] = TxRestart(tx[t])
    BY <1>w, <1>r DEF Restart, TypeOK
  <2>3. TM!Abort(t)
    BY <1>w, <1>r, <2>1, <2>2, AbortsAtomically
  <2> QED
    BY <2>3 DEF TM!Next
<1>l. ASSUME LoseRace(t), hist' = hist PROVE TM!Next
  BY <1>l, <1>r DEF LoseRace, CasFails
<1>a. TxAbort(tx[t], "failed").err = "failed" /\ TxAbort(tx[t], "failed").depth = tx[t].depth
  BY <1>w, TxAbortFields DEF Errs
<1>v. ASSUME Acquire(t)
      PROVE  /\ Version(t)' = Version(t) /\ irrevoc'[t] = TRUE
             /\ \/ Holds(t)
                \/ IsEven(glb) /\ loc[t] = glb /\ \A s \in Threads : ~Holds(s)
  <2>1. /\ ~IsEven(glb') /\ glb' \in Nat
        /\ irrevoc' = [irrevoc EXCEPT ![t] = TRUE]
        /\ loc' = [loc EXCEPT ![t] = glb']
        /\ \/ Holds(t) /\ glb' = glb /\ loc[t] = glb
           \/ /\ \A s \in Threads : ~Holds(s)
              /\ IsEven(glb) /\ glb' = glb + 1 /\ loc[t] = glb
    BY <1>i, <1>v, AcquireEffect
  <2>2. glb \in Nat /\ loc'[t] = glb' /\ irrevoc'[t] = TRUE
    BY <1>w, <2>1 DEF TypeOK
  <2> QED
    BY <2>1, <2>2 DEF Version
<1>p. ASSUME Acquire(t), UNCHANGED <<hist, seen, own>>, tx'[t] = tx[t]
      PROVE  /\ TM!Pledge(t, "pledged") /\ Frees(t) = frees[t] /\ Frees(t)' = frees'[t]
             /\ Status(t)' = "pledged"
  <2>1. ~HasCommitted(t)' /\ tx'[t].err = "none" /\ tx'[t].depth = tx[t].depth
    BY <1>w, <1>n, <1>p DEF HasCommitted, InTx
  <2> QED
    BY <1>w, <1>n, <1>v, <1>p, <2>1, PledgesAtomically
<1>q. ASSUME Acquire(t), UNCHANGED <<hist, seen, own>>, tx'[t] = tx[t], frees' = frees
      PROVE  TM!Next
  <2>1. TM!Pledge(t, "pledged") /\ Frees(t)' = Frees(t) /\ Status(t)' = "pledged"
    BY <1>p, <1>q
  <2>2. ASSUME NEW s \in Threads PROVE Frees(s)' = Frees(s)
    BY <2>1, SharesOfOthers
  <2>3. TM!Irrevoc(t)
    BY <2>1, <2>2 DEF TM!Irrevoc
  <2> QED
    BY <2>1, <2>3 DEF TM!Next
<1>f. ASSUME UNCHANGED <<hist, seen, own>>, frees' = frees,
             tx'[t] = TxAbort(tx[t], "failed"),
             Version(t)' = Version(t), irrevoc'[t] = TRUE,
             \/ Holds(t)
             \/ IsEven(glb) /\ loc[t] = glb /\ \A s \in Threads : ~Holds(s)
      PROVE  TM!Next
  <2>0. ~HasCommitted(t)' /\ tx'[t].err = "failed" /\ tx'[t].depth = tx[t].depth
    BY <1>a, <1>f DEF HasCommitted
  <2>1. TM!Pledge(t, "failing") /\ Frees(t)' = Frees(t)
    BY <1>w, <1>n, <1>f, <2>0, PledgesAtomically
  <2>2. ASSUME NEW s \in Threads PROVE Frees(s)' = Frees(s)
    BY <2>1, SharesOfOthers
  <2>3. TM!Fail(t)
    BY <2>1, <2>2 DEF TM!Fail
  <2> QED
    BY <2>3 DEF TM!Next
<1>1. CASE BeginNested(t)
  <2>1. /\ TxBegin(tx[t]).err = "none" /\ TxBegin(tx[t]).stage = "WORK"
        /\ TxBegin(tx[t]).depth = tx[t].depth + 1
    BY <1>w, TxBeginFields
  <2>2. tx'[t] = TxBegin(tx[t])
    BY <1>w, <1>1 DEF BeginNested, TypeOK
  <2>3. UNCHANGED <<loc, irrevoc, frees, hist, seen, own>>
    BY <1>1 DEF BeginNested, histVars
  <2>4. ~HasCommitted(t)' /\ InTx(t)'
    BY <1>w, <2>1, <2>2 DEF HasCommitted, InWork, InTx
  <2>5. Share(t)' = Share(t)
    BY <1>w, <1>n, <2>1, <2>2, <2>3, <2>4
    DEF Share, Status, PledgedStatus, First, Reads, Writes, Frees, Live, Holds, NoWrites, Version
  <2> QED
    BY <2>3, <2>5, NoStep
<1>2. ASSUME NEW a \in Addrs, ReadLoad(t, a) PROVE UNCHANGED TM!vars
  BY <1>2, <1>s DEF ReadLoad, histVars
<1>3. ASSUME NEW a \in Addrs, Free(t, a) PROVE TM!Next
  <2>h. UNCHANGED <<hist, seen, own>>
    BY <1>3 DEF Free, histVars
  <2>1. CASE LoseRace(t)
    BY <1>l, <2>1, <2>h
  <2>2. CASE Acquire(t) /\ Listed(t, a)
    <3>1. frees' = [frees EXCEPT ![t] = @ \cup {a}] /\ tx' = tx
      BY <2>2 DEF Listed
    <3>2. frees'[t] = frees[t] \cup {a}
      BY <1>w, <3>1 DEF TypeOK
    <3>3. /\ TM!Pledge(t, "pledged") /\ Frees(t)' = Frees(t) \cup {a}
          /\ Status(t)' = "pledged"
      BY <1>p, <2>2, <2>h, <3>1, <3>2
    <3>4. ASSUME NEW s \in Threads, s # t PROVE Frees(s)' = Frees(s)
      BY <3>4, SharesOfOthers
    <3>5. TM!Free(t, a)
      BY <3>3, <3>4 DEF TM!Free
    <3> QED
      BY <3>3, <3>5 DEF TM!Next
  <2>3. CASE Acquire(t) /\ NotListed(t)
    <3>1. tx'[t] = TxAbort(tx[t], "failed") /\ frees' = frees
      BY <1>w, <2>3 DEF NotListed, TypeOK
    <3> QED
      BY <1>f, <1>v, <2>3, <2>h, <3>1
  <2> QED
    BY <1>3, <2>1, <2>2, <2>3 DEF Free
<1>4. ASSUME NEW a \in Addrs, NEW v \in Vals, Write(t, a, v) PROVE TM!Next
  <2>h. UNCHANGED <<hist, seen, own>>
    BY <1>4 DEF Write, histVars
  <2> QED
    BY <1>4, <1>l, <1>q, <2>h DEF Write
<1>5. CASE Irrevoc(t)
  <2>h. UNCHANGED <<hist, seen, own>>
    BY <1>5 DEF Irrevoc, histVars
  <2> QED
    BY <1>5, <1>l, <1>q, <2>h DEF Irrevoc
<1>6. CASE Abort(t)
  <2>1. /\ tx'[t] = TxAbort(tx[t], "failed")
        /\ UNCHANGED <<loc, irrevoc, hist, seen, own, frees>>
    BY <1>w, <1>6 DEF Abort, TypeOK, histVars
  <2>2. CASE irrevoc[t]
    <3>1. Holds(t) /\ Version(t)' = Version(t) /\ irrevoc'[t] = TRUE
      BY <1>w, <2>1, <2>2 DEF Holds, Version, TypeOK
    <3> QED
      BY <1>f, <2>1, <3>1
  <2>3. CASE ~irrevoc[t]
    <3>1. TM!Abort(t)
      BY <1>w, <1>a, <2>1, <2>3, AbortsAtomically
    <3> QED
      BY <3>1 DEF TM!Next
  <2> QED
    BY <2>2, <2>3
<1>7. CASE UserRestart(t)
  BY <1>7, <1>r DEF UserRestart, histVars
<1>8. CASE Commit(t)
  <2>1. /\ TxCommit(tx[t]).err = "none" /\ TxCommit(tx[t]).stage # "WORK"
        /\ TxCommit(tx[t]).depth = tx[t].depth /\ TxCommit(tx[t]).level = tx[t].level
    BY <1>w, TxCommitFields
  <2>2. tx'[t] = TxCommit(tx[t]) /\ InTx(t)'
    BY <1>w, <1>8, <2>1 DEF Commit, TypeOK, InTx
  <2>3. UNCHANGED <<loc, irrevoc, frees, hist, seen>>
    BY <1>8 DEF Commit, lockVars
  <2>4. Newest' = Newest
    BY <2>3, NewestStays
  <2>5. /\ First(t)' = First(t) /\ Reads(t)' = Reads(t) /\ Live(t) /\ Live(t)'
    BY <1>w, <2>1, <2>2, <2>3 DEF First, Reads, Live, Version
  <2>6. CASE tx[t].level = 0 /\ Holds(t)
    <3>1. HasCommitted(t)' /\ Holds(t)'
      BY <2>1, <2>2, <2>3, <2>6 DEF HasCommitted, Holds, InWork
    <3>2. /\ Status(t) = "pledged" /\ Status(t)' = "closing" /\ Frees(t)' = {}
          /\ Frees(t) = frees[t]
      BY <1>w, <1>n, <2>1, <2>2, <2>5, <2>6, <3>1 DEF Status, PledgedStatus, Frees
    <3>3. own'[t] = [a \in Addrs |-> IF a \in frees[t] THEN Junk ELSE own[t][a]]
      BY <1>w, <1>8, <2>6 DEF Commit, Reclaim, TypeOK
    <3>4. Writes(t)' = [a \in Addrs |-> IF a \in Frees(t) THEN Junk ELSE Writes(t)[a]]
      BY <2>5, <3>2, <3>3 DEF Writes
    <3>5. ASSUME NEW s \in Threads, s # t
          PROVE  /\ Status(s)' = Status(s) /\ First(s)' = First(s) /\ Reads(s)' = Reads(s)
                 /\ Writes(s)' = Writes(s) /\ Frees(s)' = Frees(s)
      BY <3>5, SharesOfOthers
    <3>6. TM!GiveBack(t)
      BY <2>3, <2>4, <2>5, <3>2, <3>4, <3>5 DEF TM!GiveBack, TM!store
    <3> QED
      BY <3>6 DEF TM!Next
  <2>7. CASE ~(tx[t].level = 0 /\ Holds(t))
    <3>1. own'[t] = own[t] /\ (~Holds(t) => frees[t] = {})
      <4>1. CASE tx[t].level # 0
        BY <1>8, <4>1 DEF Commit, IInv, HolderInv
      <4>2. CASE ~Holds(t)
        <5>1. frees[t] = {}
          BY <4>2 DEF IInv, HolderInv
        <5>2. Reclaim(t, own[t]) = own[t]
          BY <1>w, <5>1 DEF Reclaim, TypeOK
        <5> QED
          BY <1>w, <1>8, <5>1, <5>2 DEF Commit, TypeOK
      <4> QED
        BY <2>7, <4>1, <4>2
    <3>2. Holds(t)' = Holds(t) /\ (HasCommitted(t)' => ~Holds(t))
      BY <1>w, <2>1, <2>2, <2>3, <2>7 DEF Holds, HasCommitted
    <3>3. Status(t)' = Status(t) /\ Frees(t)' = Frees(t) /\ Writes(t)' = Writes(t)
      BY <1>w, <1>n, <2>1, <2>2, <2>3, <2>5, <3>1, <3>2
      DEF Status, PledgedStatus, Frees, Writes
    <3>4. Share(t)' = Share(t)
      BY <2>5, <3>3 DEF Share
    <3> QED
      BY <2>3, <3>4, NoStep
  <2> QED
    BY <2>6, <2>7
<1> QED
  BY <1>1, <1>2, <1>3, <1>4, <1>5, <1>6, <1>7, <1>8 DEF Client, UserAbort, MallocFails

(* tml_tx_begin: the version chosen is the newest one.                      *)
LEMMA BeginsAtomically ==
  ASSUME IInv, NEW t \in Threads, Begin(t)
  PROVE  TM!Begin(t)
<1>i. /\ TypeOK /\ ~InTx(t) /\ tx[t] \in TxRecord /\ UNCHANGED <<hist, seen, own, frees>>
  BY DEF IInv, TypeOK, Begin, AtBegin, ControlInv, histVars
<1>1. Newest' = Newest
  BY <1>i, NewestStays DEF Library
<1>2. ASSUME NEW s \in Threads, s # t
      PROVE  /\ Status(s)' = Status(s) /\ First(s)' = First(s) /\ Reads(s)' = Reads(s)
             /\ Writes(s)' = Writes(s) /\ Frees(s)' = Frees(s)
  BY <1>2, SharesOfOthers DEF Library
<1>3. /\ TxBegin(tx[t]).err = "none" /\ TxBegin(tx[t]).stage = "WORK"
      /\ TxBegin(tx[t]).depth = tx[t].depth + 1 /\ tx[t].depth \in Nat
  BY <1>i, TxBeginFields DEF TxRecord
<1>4. tx'[t] = TxBegin(tx[t]) /\ irrevoc'[t] = FALSE
  BY <1>i DEF Begin, TypeOK
<1>5. InTx(t)' /\ Live(t)' /\ ~Live(t) /\ ~HasCommitted(t)' /\ ~Holds(t)'
  BY <1>i, <1>3, <1>4 DEF Live, InTx, HasCommitted, InWork, Holds
<1>6. Status(t) \in {"committed", "aborted"} /\ Status(t)' = "active"
  BY <1>i, <1>3, <1>4, <1>5 DEF Status, Holds
<1>7. loc'[t] = glb /\ IsEven(glb) /\ seen[t] = {} /\ own[t] = NoWrites /\ frees[t] = {}
  BY <1>i, OutsideIsClean DEF Begin, TypeOK, IInv, ReaderInv
<1>8. First(t)' = Newest
  BY <1>5, <1>7 DEF First, Version, Newest
<1>9. Reads(t)' = Reads(t) /\ Writes(t)' = Writes(t) /\ Frees(t)' = Frees(t)
  BY <1>5, <1>7, <1>i DEF Reads, Writes, Frees, NoWrites
<1> QED
  BY <1>1, <1>2, <1>6, <1>8, <1>9, <1>i DEF TM!Begin, TM!store

(* A transaction whose client's code is running has a running one in        *)
(* AtomicTM, which began at the version it reads from.                      *)
LEMMA RunningShare ==
  ASSUME IInv, NEW t \in Threads, InTx(t), InWork(tx[t])
  PROVE  /\ Status(t) \in TM!Running /\ First(t) = Version(t) /\ Reads(t) = seen[t]
         /\ Writes(t) = own[t] /\ Frees(t) = frees[t] /\ tx[t].err = "none" /\ ~tx[t].retry
         /\ Version(t) \in DOMAIN hist /\ Version(t) \in Nat
<1>1. TypeOK /\ tx[t].err = "none" /\ ~tx[t].retry /\ ~HasCommitted(t)
  BY NotYetCommitted DEF IInv, ControlInv
<1>2. ASSUME irrevoc[t] PROVE Version(t) \in DOMAIN hist
  BY <1>1, <1>2 DEF Version, IInv, LockInv, Holds, HistoryInv, TypeOK
<1>3. ASSUME ~irrevoc[t] PROVE Version(t) \in DOMAIN hist
  BY <1>1, <1>3 DEF Version, IInv, ReaderInv, TypeOK
<1>4. Version(t) \in DOMAIN hist /\ Version(t) \in Nat
  BY <1>2, <1>3, <1>1 DEF IInv, TypeOK
<1> QED
  BY <1>1, <1>4
  DEF Status, PledgedStatus, First, Reads, Writes, Frees, Live, TM!Running

(* tml_tx_read hands over what the version chosen holds.                    *)
LEMMA ReadsAtomically ==
  ASSUME IInv, NEW t \in Threads, ReadCheck(t), HandOver(t)
  PROVE  TM!Next \/ UNCHANGED TM!vars
<1> DEFINE a == arg[t][1]
           v == arg[t][2]
<1>i. /\ TypeOK /\ InTx(t) /\ InWork(tx[t]) /\ arg[t] # NoArg
      /\ arg[t] = <<a, v>> /\ a \in Addrs /\ v \in Contents
  BY DEF IInv, TypeOK, ReadCheck, ControlInv
<1>e. UNCHANGED <<glb, mem, tx, loc, irrevoc, frees, hist, own>>
  BY DEF ReadCheck, HandOver
<1>x. /\ Status(t) \in TM!Running /\ First(t) = Version(t) /\ Reads(t) = seen[t]
      /\ Writes(t) = own[t] /\ Frees(t) = frees[t] /\ tx[t].err = "none" /\ ~tx[t].retry
      /\ Version(t) \in DOMAIN hist /\ Version(t) \in Nat
  BY <1>i, RunningShare
<1>k. /\ Status(t)' = Status(t) /\ First(t)' = First(t)
      /\ Writes(t)' = Writes(t) /\ Frees(t)' = Frees(t)
      /\ Reads(t)' = seen'[t]
  BY <1>e, <1>i, <1>x DEF Status, PledgedStatus, First, Reads, Writes, Frees, Live, Holds, InTx,
     HasCommitted, Version, NoWrites
<1>1. CASE own[t][a] # NoVal
  <2>1. seen'[t] = seen[t]
    BY <1>1, <1>i DEF HandOver, TypeOK
  <2>2. Share(t)' = Share(t)
    BY <1>x, <1>k, <2>1 DEF Share
  <2> QED
    BY <1>i, <1>e, <2>2, NoStep DEF Library
<1>2. CASE own[t][a] = NoVal
  <2>1. seen'[t] = seen[t] \cup {<<a, v>>}
    BY <1>2, <1>i DEF HandOver, TypeOK
  <2>2. ASSUME NEW s \in Threads, s # t
        PROVE  /\ Status(s)' = Status(s) /\ First(s)' = First(s) /\ Reads(s)' = Reads(s)
               /\ Writes(s)' = Writes(s) /\ Frees(s)' = Frees(s)
    BY <2>2, SharesOfOthers DEF Library
  <2>3. Reads(t)' = Reads(t) \cup {<<a, v>>}
    BY <1>x, <1>k, <2>1
  <2>4. Writes(t)[a] = NoVal
    BY <1>x, <1>2
  <2>6. ASSUME NEW p \in Reads(t) \cup {<<a, v>>} PROVE hist[Version(t)][p[1]] = p[2]
    <3>1. CASE p \in Reads(t)
      BY <1>i, <1>x, <3>1 DEF IInv, ReadsAreOneVersion
    <3>2. CASE p = <<a, v>>
      BY <1>i, <1>2, <3>2, HandedOver DEF ReadCheck, HandOver
    <3> QED
      BY <3>1, <3>2
  <2>7. Newest' = Newest
    BY <1>e DEF Newest
  <2>8. TM!Read(t, a, v)
    <3>1. \E n \in DOMAIN hist : n >= First(t) /\ TM!Explains(n, Reads(t) \cup {<<a, v>>})
      BY <1>x, <2>6 DEF TM!Explains
    <3> HIDE DEF a, v
    <3> QED
      BY <1>e, <1>x, <1>k, <2>2, <2>3, <2>4, <2>7, <3>1 DEF TM!Read, TM!store
  <2>9. \A s \in Threads : Status(s)' = Status(s)
    BY <1>k, <2>2
  <2>10. [s \in Threads |-> Status(s)]' = [s \in Threads |-> Status(s)]
    BY <2>9
  <2> QED
    BY <2>8, <2>10, <1>i DEF TM!Next
<1> QED
  BY <1>1, <1>2

(* The store of TML_WRITE is the write.                                     *)
LEMMA WritesAtomically ==
  ASSUME IInv, NEW t \in Threads, Store(t)
  PROVE  TM!Next
<1> DEFINE a == arg[t][1]
           v == arg[t][2]
<1>i. /\ TypeOK /\ InTx(t) /\ InWork(tx[t]) /\ a \in Addrs /\ v \in Contents
  BY DEF IInv, TypeOK, Store, ControlInv, NoArg
<1>e. UNCHANGED <<glb, tx, loc, irrevoc, frees, hist, seen>>
  BY DEF Store, lockVars
<1>1. ASSUME NEW s \in Threads, s # t
      PROVE  /\ Status(s)' = Status(s) /\ First(s)' = First(s) /\ Reads(s)' = Reads(s)
             /\ Writes(s)' = Writes(s) /\ Frees(s)' = Frees(s)
  BY <1>1, SharesOfOthers DEF Library
<1>x. Status(t) \in TM!Running /\ Writes(t) = own[t] /\ tx[t].err = "none"
  BY <1>i, RunningShare
<1>2. /\ Status(t)' = Status(t) /\ First(t)' = First(t) /\ Reads(t)' = Reads(t)
      /\ Frees(t)' = Frees(t) /\ Writes(t)' = own'[t]
  BY <1>e, <1>i, <1>x DEF Status, PledgedStatus, First, Reads, Writes, Frees, Live, Holds, InTx,
     HasCommitted, Version
<1>3. own'[t] = [own[t] EXCEPT ![a] = v]
  BY <1>i DEF Store, TypeOK
<1> HIDE DEF a, v
<1>4. Writes(t)' = [Writes(t) EXCEPT ![a] = v]
  BY <1>2, <1>3, <1>x
<1>5. Newest' = Newest
  BY <1>e DEF Newest
<1>6. TM!Write(t, a, v)
  BY <1>e, <1>x, <1>1, <1>2, <1>4, <1>5 DEF TM!Write, TM!store
<1>7. [s \in Threads |-> Status(s)]' = [s \in Threads |-> Status(s)]
  BY <1>1, <1>2
<1> QED
  BY <1>6, <1>7, <1>i DEF TM!Next

(* The outermost tml_tx_end: the transaction that holds the lock publishes  *)
(* what it wrote, whether it commits or has failed; one that does not has   *)
(* written nothing, and if it failed it was gone already.                   *)
LEMMA EndsAtomically ==
  ASSUME IInv, NEW t \in Threads, End(t)
  PROVE  TM!Next \/ UNCHANGED TM!vars
<1>i. /\ TypeOK /\ InTx(t) /\ tx[t] \in TxRecord /\ Outermost(tx[t])
      /\ tx[t].stage = "NONE" /\ HolderInv(t) /\ ControlInv(t)
  BY OnEndIsExact DEF IInv, TypeOK, End
<1>r. ~InTx(t)' /\ tx'[t].err = tx[t].err
  <2>1. tx'[t] = TxEnd(tx[t])
    BY <1>i DEF End, TypeOK
  <2> QED
    BY <1>i, <2>1, TxEndOutermost DEF InTx
<1>s. ASSUME NEW s \in Threads, s # t
      PROVE  /\ Status(s)' = Status(s) /\ First(s)' = First(s) /\ Reads(s)' = Reads(s)
             /\ Writes(s)' = Writes(s) /\ Frees(s)' = Frees(s)
  BY <1>s, SharesOfOthers DEF Library
<1>n. /\ Holds(t) => /\ glb' = glb + 1 /\ loc[t] = glb /\ ~IsEven(glb)
                     /\ hist' = [g \in DOMAIN hist \cup {glb + 1} |->
                                   IF g = glb + 1 THEN mem ELSE hist[g]]
      /\ ~Holds(t) => UNCHANGED <<glb, hist>>
  BY OnEndIsExact
<1>a. /\ ~Live(t)' /\ First(t)' = 0 /\ Reads(t)' = {} /\ Writes(t)' = NoWrites
      /\ Frees(t)' = {}
      /\ Status(t)' = IF tx[t].err = "none" THEN "committed" ELSE "aborted"
  BY <1>r DEF Live, First, Reads, Writes, Frees, Status, Holds, NoWrites
<1>1. CASE tx[t].err # "none" /\ ~Holds(t)
  <2>1. Share(t)' = Share(t)
    BY <1>1, <1>a, <1>i
    DEF Share, Live, First, Reads, Writes, Frees, Status, Holds, NoWrites
  <2> QED
    BY <1>i, <1>n, <1>1, <2>1, NoStep DEF Library
<1>2. CASE tx[t].err = "none" /\ ~Holds(t)
  <2>1. Status(t) = "active" /\ Writes(t) = NoWrites
    BY <1>2, <1>i DEF Live, Status, Writes, HolderInv
  <2>2. TM!Leave(t, "committed")
    BY <1>s, <1>a, <1>2 DEF TM!Leave, TM!NoWrites, NoWrites
  <2>3. TM!CommitReader(t)
    BY <1>n, <1>2, <2>1, <2>2 DEF TM!CommitReader, TM!store, TM!NoWrites, NoWrites, Newest
  <2> QED
    BY <2>3 DEF TM!Next
<1>3. CASE Holds(t)
  <2>1. /\ Writes(t) = own[t] /\ Reads(t) = seen[t]
        /\ Status(t) = IF tx[t].err = "none" THEN "closing" ELSE "failing"
    BY <1>3, <1>i
    DEF Live, Writes, Reads, Status, PledgedStatus, HasCommitted, Holds, Outermost, InWork
  <2>2. /\ glb' = glb + 1 /\ loc[t] = glb /\ ~IsEven(glb) /\ glb \in Nat
        /\ IsEven(glb + 1) /\ glb - 1 \in Nat
        /\ mem = Overlay(hist[glb - 1], own[t])
    BY <1>3, <1>i, <1>n, Parity DEF TypeOK, IInv, MemoryIsVersionPlusHolder
  <2>3. Newest = glb - 1 /\ Newest' = glb + 1 /\ Newest' > Newest
    BY <2>2 DEF Newest
  <2>4. TM!Explains(Newest, Reads(t))
    <3>1. ~tx[t].retry /\ Version(t) = glb - 1
      BY <1>3, <2>2, <1>i DEF HolderInv, Holds, Version
    <3> QED
      BY <1>i, <2>1, <2>3, <3>1 DEF TM!Explains, IInv, ReadsAreOneVersion
  <2>5. mem = [a \in Addrs |-> IF Writes(t)[a] = NoVal THEN hist[Newest][a] ELSE Writes(t)[a]]
    BY <2>1, <2>2, <2>3 DEF Overlay
  <2>6. hist' = [n \in DOMAIN hist \cup {Newest'} |-> IF n = Newest' THEN mem ELSE hist[n]]
    BY <1>n, <1>3, <2>3
  <2>7. ASSUME NEW s \in Threads, s # t PROVE Status(s) \notin TM!Pledged
    <3>1. ~Holds(s)
      BY <1>3, <2>7 DEF IInv, LockInv
    <3> QED
      BY <3>1 DEF Status, TM!Pledged
  <2>8. TM!Alone(t)
    BY <2>7 DEF TM!Alone
  <2>9. TM!Publish(t)
    BY <2>3, <2>4, <2>5, <2>6, <2>8 DEF TM!Publish
  <2>10. CASE tx[t].err = "none"
    <3>1. TM!Leave(t, "committed")
      BY <1>s, <1>a, <2>10 DEF TM!Leave, TM!NoWrites, NoWrites
    <3>2. TM!CommitWriter(t)
      BY <2>1, <2>9, <2>10, <3>1 DEF TM!CommitWriter
    <3> QED
      BY <3>2 DEF TM!Next
  <2>11. CASE tx[t].err # "none"
    <3>1. TM!Leave(t, "aborted")
      BY <1>s, <1>a, <2>11 DEF TM!Leave, TM!NoWrites, NoWrites
    <3>2. TM!LeaveTrace(t)
      BY <2>1, <2>9, <2>11, <3>1 DEF TM!LeaveTrace
    <3> QED
      BY <3>2 DEF TM!Next
  <2> QED
    BY <2>10, <2>11
<1> QED
  BY <1>1, <1>2, <1>3

(* What a step of the library is to AtomicTM.                               *)
LEMMA LibrarySteps ==
  ASSUME IInv, NEW t \in Threads, Library(t)
  PROVE  TM!Next \/ UNCHANGED TM!vars
<1>i. TypeOK /\ ControlInv(t) /\ tx[t] \in TxRecord
  BY DEF IInv, TypeOK
<1>1. CASE Spin(t)
  <2>1. ~InTx(t) /\ UNCHANGED <<tx, hist, seen, own, frees>>
    BY <1>1, <1>i DEF Spin, AtBegin, ControlInv, histVars
  <2>2. Share(t)' = Share(t)
    BY <2>1 DEF Share, Status, First, Reads, Writes, Frees, Live, Holds, InTx, NoWrites
  <2> QED
    BY <2>1, <2>2, NoStep
<1>2. CASE Begin(t)
  BY <1>2, BeginsAtomically DEF TM!Next
<1>3. CASE ReadCheck(t)
  <2>1. CASE ReadStale(t) /\ Restart(t)
    <3>1. TxRestart(tx[t]).err = "restart"
      BY <1>i, TxRestartFields
    <3>2. tx'[t] = TxRestart(tx[t])
      BY <1>i, <2>1 DEF Restart, TypeOK
    <3>3. InTx(t) /\ tx[t].err = "none" /\ ~irrevoc[t] /\ UNCHANGED <<hist, irrevoc>>
      BY <1>3, <1>i, <2>1 DEF ReadCheck, ControlInv, ReadStale
    <3>4. TM!Abort(t)
      BY <3>1, <3>2, <3>3, AbortsAtomically
    <3> QED
      BY <3>4 DEF TM!Next
  <2>2. CASE HandOver(t)
    BY <1>3, <2>2, ReadsAtomically
  <2> QED
    BY <1>3, <2>1, <2>2 DEF ReadCheck
<1>4. CASE Store(t)
  BY <1>4, WritesAtomically
<1>5. CASE Process(t)
  <2>1. /\ TxProcess(tx[t]).err = tx[t].err /\ TxProcess(tx[t]).depth = tx[t].depth
        /\ TxProcess(tx[t]).level = tx[t].level /\ TxProcess(tx[t]).stage # "WORK"
    BY <1>i, TxProcessFields
  <2>2. tx'[t] = TxProcess(tx[t]) /\ tx[t].stage # "WORK"
    BY <1>i, <1>5 DEF Process, TypeOK
  <2>3. UNCHANGED <<loc, irrevoc, frees, hist, seen, own>>
    BY <1>5 DEF Process, histVars
  <2>4. Share(t)' = Share(t)
    BY <2>1, <2>2, <2>3
    DEF Share, Status, PledgedStatus, First, Reads, Writes, Frees, Live, Holds, HasCommitted,
        InTx, InWork, NoWrites, Version
  <2> QED
    BY <2>3, <2>4, NoStep
<1>6. CASE EndNested(t)
  <2>1. InTx(t) /\ tx[t].level = tx[t].depth - 1 /\ tx[t].depth > 1 /\ tx[t].depth \in Nat
    BY <1>6, <1>i DEF EndNested, ControlInv, Outermost, TxRecord, InTx
  <2>2. TxEnd(tx[t]).err = tx[t].err /\ TxEnd(tx[t]).depth = tx[t].depth - 1
    BY <1>i, <2>1, TxEndNested
  <2>3. tx[t].err = "none" => TxEnd(tx[t]).stage = "WORK"
    BY <1>i, <1>6, TxEndResumes DEF EndNested
  <2>4. tx'[t] = TxEnd(tx[t])
    BY <1>6, <1>i DEF EndNested, TypeOK
  <2>5. UNCHANGED <<loc, irrevoc, frees, hist, seen, own>>
    BY <1>6 DEF EndNested, histVars
  <2>6. InTx(t)' /\ ~HasCommitted(t) /\ ~HasCommitted(t)' /\ tx'[t].err = tx[t].err
    BY <2>1, <2>2, <2>3, <2>4 DEF InTx, HasCommitted, InWork
  <2>7. Share(t)' = Share(t)
    BY <2>1, <2>5, <2>6
    DEF Share, Status, PledgedStatus, First, Reads, Writes, Frees, Live, Holds, NoWrites, Version
  <2> QED
    BY <2>5, <2>7, NoStep
<1>7. CASE End(t)
  BY <1>7, EndsAtomically
<1> QED
  BY <1>1, <1>2, <1>3, <1>4, <1>5, <1>6, <1>7 DEF Library

(* The threads' first state is AtomicTM's.                                  *)
LEMMA InitIsAtomic == Init => TM!Init
<1> SUFFICES ASSUME Init PROVE TM!Init
  OBVIOUS
<1>1. ASSUME NEW t \in Threads
      PROVE  /\ Status(t) = "committed" /\ First(t) = 0 /\ Reads(t) = {}
             /\ Writes(t) = NoWrites /\ Frees(t) = {}
  BY DEF Init, TxIdle, Status, First, Reads, Writes, Frees, Live, Holds, InTx
<1>2. Newest = 0
  BY Parity DEF Init, Newest, IsEven
<1>3. hist = [n \in {0} |-> [a \in Addrs |-> InitVal]]
  BY DEF Init
<1> QED
  BY <1>1, <1>2, <1>3 DEF TM!Init, TM!NoWrites, NoWrites

(* A step that changes nothing changes nothing of the mapping.              *)
LEMMA StutterIsAtomic == ASSUME UNCHANGED vars PROVE UNCHANGED TM!vars
<1>1. ASSUME NEW t \in Threads
      PROVE  /\ Status(t)' = Status(t) /\ First(t)' = First(t) /\ Reads(t)' = Reads(t)
             /\ Writes(t)' = Writes(t) /\ Frees(t)' = Frees(t)
  BY ShareOfOthers DEF vars, Share
<1>2. Newest' = Newest /\ hist' = hist
  BY DEF vars, Newest
<1> QED
  BY <1>1, <1>2 DEF TM!vars

(* tml.c is an atomic transactional memory without undo, whatever the       *)
(* threads, locations and values, for a client that does not restart a      *)
(* transaction it has made irrevocable: each step of it is a step of        *)
(* AtomicTM or none.  Aborts are the client's and the library's, of         *)
(* revocable transactions and of irrevocable ones.                          *)
THEOREM Implements == ASSUME ~RestartIrrevoc PROVE Spec => ImplementsTM
<1>1. Init => TM!Init
  BY InitIsAtomic
<1>2. IInv /\ [Next]_vars => [TM!Next]_(TM!vars)
  <2> SUFFICES ASSUME IInv, [Next]_vars PROVE TM!Next \/ UNCHANGED TM!vars
    OBVIOUS
  <2>1. CASE UNCHANGED vars \/ Finished
    BY <2>1, StutterIsAtomic DEF Finished
  <2>2. ASSUME NEW t \in Threads, Client(t) \/ Library(t)
        PROVE  TM!Next \/ UNCHANGED TM!vars
    BY <2>2, ClientSteps, LibrarySteps
  <2> QED
    BY <2>1, <2>2 DEF Next
<1> QED
  BY <1>1, <1>2, Invariance, PTL DEF Spec, ImplementsTM, TM!Spec
================================================================================
