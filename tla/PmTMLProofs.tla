------------------------------ MODULE PmTMLProofs ------------------------------
(***************************************************************************)
(* TML in persistent memory, for any finite number of threads, any         *)
(* locations and values, and any number of crashes: IInv is inductive, and *)
(* each property is read off it.                                           *)
(*                                                                         *)
(* A step of t leaves the other threads' variables alone, so what has to   *)
(* be said of them is said once, in QuietStep, for a step that leaves the  *)
(* lock and the pool alone too, and in HolderStep, for a step of whoever   *)
(* has the lock after it.  Then there is a lemma for each action.          *)
(***************************************************************************)
EXTENDS PmTML, FiniteSetTheorems, TLAPS

(* What the operators of PmTx do to the fields of a transaction's record,   *)
(* and to memory.                                                           *)

(* The record of a thread that has not begun.                               *)
LEMMA TxIdleFields ==
  /\ TxIdle \in PmRecord
  /\ TxIdle.stage = "NONE" /\ TxIdle.depth = 0 /\ TxIdle.level = 0
BY DEF PmRecord, PmStages, PmErrs, TxIdle

(* tx_begin opens a block without an error.                                 *)
LEMMA TxBeginFields ==
  ASSUME NEW x \in PmRecord
  PROVE  /\ TxBegin(x) \in PmRecord
         /\ TxBegin(x).stage = "WORK" /\ TxBegin(x).depth = x.depth + 1
         /\ TxBegin(x).retry = (x.stage = "WORK" /\ x.retry) /\ TxBegin(x).err = "none"
         /\ TxBegin(x).level = IF x.stage = "WORK" THEN x.level + 1 ELSE x.level
BY DEF PmRecord, PmStages, PmErrs, TxBegin, InWork

(* pmemobj_tx_abort changes the stage and the error.                        *)
LEMMA TxAbortFields ==
  ASSUME NEW x \in PmRecord, NEW e \in PmErrs
  PROVE  /\ TxAbort(x, e) \in PmRecord
         /\ TxAbort(x, e).stage = "ONABORT" /\ TxAbort(x, e).depth = x.depth
         /\ TxAbort(x, e).level = x.level
         /\ TxAbort(x, e).retry = x.retry /\ TxAbort(x, e).err = e
BY DEF PmRecord, PmStages, TxAbort

(* tx_restart sets the retry mark as well.                                  *)
LEMMA TxRestartFields ==
  ASSUME NEW x \in PmRecord
  PROVE  /\ TxRestart(x) \in PmRecord
         /\ TxRestart(x).stage = "ONABORT" /\ TxRestart(x).depth = x.depth
         /\ TxRestart(x).level = x.level
         /\ TxRestart(x).retry = TRUE /\ TxRestart(x).err = "restart"
<1> DEFINE y == [x EXCEPT !.retry = TRUE]
<1>1. y \in PmRecord /\ y.depth = x.depth /\ y.level = x.level /\ y.retry = TRUE
      /\ "restart" \in PmErrs
  BY DEF PmRecord, PmErrs
<1> HIDE DEF y
<1>2. TxRestart(x) = TxAbort(y, "restart")
  BY DEF TxRestart, y
<1> QED
  BY <1>1, <1>2, TxAbortFields

(* pmemobj_tx_commit and a turn of the macros' loop change the stage only.  *)
LEMMA TxStageFields ==
  ASSUME NEW x \in PmRecord
  PROVE  /\ TxCommit(x) \in PmRecord /\ TxCommit(x).stage = "ONCOMMIT"
         /\ TxCommit(x).depth = x.depth /\ TxCommit(x).retry = x.retry
         /\ TxCommit(x).err = x.err /\ TxCommit(x).level = x.level
         /\ TxProcess(x) \in PmRecord /\ TxProcess(x).stage \in {"FINALLY", "NONE"}
         /\ TxProcess(x).depth = x.depth /\ TxProcess(x).retry = x.retry
         /\ TxProcess(x).err = x.err /\ TxProcess(x).level = x.level
BY DEF PmRecord, PmStages, TxCommit, TxProcess

(* pmemobj_tx_end closes a block; the one around it works on, or fails too. *)
LEMMA TxEndFields ==
  ASSUME NEW x \in PmRecord, x.depth > 0
  PROVE  /\ TxEnd(x) \in PmRecord /\ TxEnd(x).depth = x.depth - 1
         /\ TxEnd(x).level = (IF x.level > 0 THEN x.level - 1 ELSE 0)
         /\ TxEnd(x).retry = x.retry /\ TxEnd(x).err = x.err
         /\ x.depth = 1 => TxEnd(x).stage = "NONE"
         /\ x.depth # 1 => TxEnd(x).stage = (IF x.err = "none" THEN "WORK" ELSE "ONABORT")
<1> DEFINE y == [x EXCEPT !.level = IF @ > 0 THEN @ - 1 ELSE 0, !.depth = @ - 1]
<1>l. (IF x.level > 0 THEN x.level - 1 ELSE 0) \in Nat /\ x.depth - 1 \in Nat
  BY DEF PmRecord
<1>1. /\ y \in PmRecord /\ y.depth = x.depth - 1 /\ y.retry = x.retry /\ y.err = x.err
      /\ y.level = (IF x.level > 0 THEN x.level - 1 ELSE 0)
      /\ x.err \in PmErrs
  BY <1>l DEF PmRecord
<1>2. TxEnd(x) = IF x.depth = 1 THEN [y EXCEPT !.stage = "NONE"]
                 ELSE IF x.err = "none" THEN [y EXCEPT !.stage = "WORK"]
                 ELSE TxAbort(y, x.err)
  BY DEF TxEnd, Outermost
<1> HIDE DEF y
<1>3. CASE x.depth = 1
  BY <1>1, <1>2, <1>3 DEF PmRecord, PmStages
<1>4. CASE x.depth # 1 /\ x.err = "none"
  BY <1>1, <1>2, <1>4 DEF PmRecord, PmStages
<1>5. CASE x.depth # 1 /\ x.err # "none"
  BY <1>1, <1>2, <1>5, TxAbortFields
<1> QED
  BY <1>3, <1>4, <1>5

(* Memory under changes is memory.                                          *)
LEMMA OverlayType ==
  ASSUME NEW A, NEW C, NEW n, NEW m \in [A -> C], NEW w \in [A -> C \cup {n}]
  PROVE  Overlay(m, w, n) \in [A -> C]
BY DEF Overlay

(* No changes, none of it changed.                                          *)
LEMMA OverlayNone ==
  ASSUME NEW A, NEW C, NEW n, NEW m \in [A -> C]
  PROVE  Overlay(m, [a \in A |-> n], n) = m
BY DEF Overlay

(* A location that is logged now leads back to where the log led before.    *)
LEMMA LogKeeps ==
  ASSUME NEW A, NEW C, NEW n, n \notin C, NEW m \in [A -> C], NEW u \in [A -> C \cup {n}],
         NEW a \in A
  PROVE  /\ AddRange(u, m, a, n) \in [A -> C \cup {n}]
         /\ AddRange(u, m, a, n)[a] # n
         /\ Overlay(m, AddRange(u, m, a, n), n) = Overlay(m, u, n)
BY DEF Overlay, AddRange

(* And so does the log after a store to a location that is in it.           *)
LEMMA StoreKeeps ==
  ASSUME NEW A, NEW C, NEW n, NEW m \in [A -> C], NEW u \in [A -> C \cup {n}],
         NEW a \in A, NEW v \in C, u[a] # n
  PROVE  Overlay([m EXCEPT ![a] = v], u, n) = Overlay(m, u, n)
BY DEF Overlay

(* Recovery where no lane has a log.                                        *)
LEMMA RecoverNone ==
  ASSUME NEW A, NEW C, NEW m \in [A -> C], NEW n, NEW logs,
         \A i \in DOMAIN logs : logs[i] = [a \in A |-> n]
  PROVE  Recover(m, logs, n) = m
<1>1. \A a \in A : {i \in DOMAIN logs : logs[i][a] # n} = {}
  OBVIOUS
<1> QED
  BY <1>1 DEF Recover

(* Recovery of one location that one lane at most has logged, whatever the  *)
(* lanes hold of others.                                                    *)
LEMMA RecoverAt ==
  ASSUME NEW m, NEW n, NEW logs, NEW j \in DOMAIN logs,
         NEW a \in DOMAIN m, \A i \in DOMAIN logs : i # j => logs[i][a] = n
  PROVE  Recover(m, logs, n)[a] = IF logs[j][a] = n THEN m[a] ELSE logs[j][a]
<1> DEFINE having == {i \in DOMAIN logs : logs[i][a] # n}
<1>1. Recover(m, logs, n)[a] = IF having = {} THEN m[a] ELSE logs[Max(having)][a]
  BY DEF Recover
<1>2. CASE logs[j][a] = n
  <2>1. having = {}
    BY <1>2
  <2> QED
    BY <1>1, <1>2, <2>1
<1>3. CASE logs[j][a] # n
  <2>1. having = {j}
    BY <1>3
  <2>2. Max({j}) = j
    BY DEF Max
  <2> QED
    BY <1>1, <1>3, <2>1, <2>2
<1> QED
  BY <1>2, <1>3

(* Recovery where one lane at most has a log.                               *)
LEMMA RecoverOne ==
  ASSUME NEW A, NEW C, NEW m \in [A -> C], NEW n, NEW logs, NEW j \in DOMAIN logs,
         \A i \in DOMAIN logs : i # j => logs[i] = [a \in A |-> n]
  PROVE  Recover(m, logs, n) = Overlay(m, logs[j], n)
<1>1. \A a \in A : Recover(m, logs, n)[a] = Overlay(m, logs[j], n)[a]
  <2> SUFFICES ASSUME NEW a \in A
               PROVE  Recover(m, logs, n)[a] = Overlay(m, logs[j], n)[a]
    OBVIOUS
  <2>1. \A i \in DOMAIN logs : i # j => logs[i][a] = n
    OBVIOUS
  <2> QED
    BY <2>1, RecoverAt DEF Overlay
<1> QED
  BY <1>1 DEF Recover, Overlay

(* In whatever order recovery takes the lanes, it takes each one once.      *)
LEMMA EveryLane ==
  ASSUME NEW T, IsFiniteSet(T), NEW order \in SetToSeqs(T)
  PROVE  /\ DOMAIN order \subseteq Nat /\ IsFiniteSet(DOMAIN order)
         /\ \A i \in DOMAIN order : order[i] \in T
         /\ \A t \in T : \E i \in DOMAIN order :
              order[i] = t /\ \A j \in DOMAIN order : j # i => order[j] # t
<1> DEFINE D == 1..Cardinality(T)
<1>1. Cardinality(T) \in Nat
  BY FS_CardinalityType
<1>2. order \in [D -> T] /\ \A i, j \in D : i # j => order[i] # order[j]
  BY DEF SetToSeqs
<1>3. order \in Injection(D, T)
  BY <1>2 DEF Injection, IsInjective
<1>4. Cardinality(D) = Cardinality(T) /\ IsFiniteSet(D) /\ D \subseteq Nat
  BY <1>1, FS_Interval
<1>5. order \in Surjection(D, T)
  BY <1>1, <1>3, <1>4, FS_Injection
<1> HIDE DEF D
<1>6. DOMAIN order = D /\ \A i \in D : order[i] \in T
  BY <1>2
<1>7. \A t \in T : \E i \in D : order[i] = t
  BY <1>5 DEF Surjection
<1>8. \A i, j \in D : j # i => order[j] # order[i]
  BY <1>2
<1>9. \A t \in T : \E i \in D : order[i] = t /\ \A j \in D : j # i => order[j] # t
  BY <1>7, <1>8
<1> QED
  BY <1>4, <1>6, <1>9

--------------------------------------------------------------------------------

(* The arithmetic of the lock word: one up from even is odd, and back.      *)
LEMMA Parity ==
  \A n \in Nat : /\ IsEven(n) => ~IsEven(n + 1)
                 /\ ~IsEven(n) => n - 1 \in Nat /\ IsEven(n - 1) /\ IsEven(n + 1)
BY DEF IsEven

(* A step of t changes nothing that belongs to another thread.              *)
OthersSame(t) ==
  \A s \in Threads : s # t =>
    /\ tx'[s] = tx[s] /\ loc'[s] = loc[s] /\ irrevoc'[s] = irrevoc[s]
    /\ pc'[s] = pc[s] /\ arg'[s] = arg[s] /\ undo'[s] = undo[s]
    /\ frees'[s] = frees[s] /\ seen'[s] = seen[s] /\ own'[s] = own[s]

(* Before any thread has begun, the pool is version 0 and nobody holds.     *)
LEMMA InitInv == Init => IInv
<1> SUFFICES ASSUME Init PROVE IInv
  OBVIOUS
<1> USE ConstAssumption DEF Init
<1>0. /\ [a \in Addrs |-> InitVal] \in [Addrs -> Contents]
      /\ NoLog \in [Addrs -> Contents \cup {NoVal}]
  BY DEF NoLog, Contents
<1>1. TypeOK
  <2>0. glb \in Nat /\ crashes \in 0..MaxCrashes
    OBVIOUS
  <2>1. lost \in BOOLEAN
    OBVIOUS
  <2>2. /\ tx \in [Threads -> PmRecord] /\ loc \in [Threads -> Nat]
        /\ irrevoc \in [Threads -> BOOLEAN]
        /\ pc \in [Threads -> {"idle", "begin", "run", "read", "store"}]
        /\ arg \in [Threads -> (Addrs \X Contents) \cup {NoArg}]
    BY TxIdleFields
  <2>3. /\ undo \in [Threads -> [Addrs -> Contents \cup {NoVal}]]
        /\ frees \in [Threads -> SUBSET Addrs]
        /\ own \in [Threads -> [Addrs -> Contents \cup {NoVal}]]
        /\ seen \in [Threads -> SUBSET (Addrs \X Contents)]
    BY <1>0
  <2>4. /\ mem \in [Addrs -> Contents] /\ DOMAIN hist \subseteq Nat
        /\ \A g \in DOMAIN hist : hist[g] \in [Addrs -> Contents]
    BY <1>0
  <2> QED
    BY <2>0, <2>1, <2>2, <2>3, <2>4 DEF TypeOK
<1>2. IsEven(0)
  BY DEF IsEven
<1>3. LockInv /\ HistoryInv
  BY <1>2 DEF LockInv, HistoryInv
<1>4. ASSUME NEW t \in Threads PROVE ThreadInv(t) /\ ~Holds(t)
  <2>1. /\ tx[t] = TxIdle /\ ~InTx(t) /\ ~Holds(t) /\ pc[t] = "idle" /\ arg[t] = NoArg
        /\ tx[t].stage = "NONE" /\ tx[t].depth = 0
    BY DEF InTx, Holds, TxIdle
  <2>2. ControlInv(t)
    BY <2>1 DEF ControlInv, InWork
  <2>3. LogOf(t) /\ StoreInv(t) /\ ReaderInv(t) /\ Opaque(t)
    BY <2>1 DEF LogOf, StoreInv, ReaderInv, Opaque, Outermost
  <2> QED
    BY <2>1, <2>2, <2>3 DEF ThreadInv
<1> QED
  BY <1>1, <1>3, <1>4 DEF IInv, OneHolder

--------------------------------------------------------------------------------
(* A step that leaves the lock, the pool and its history alone.             *)
LEMMA QuietStep ==
  ASSUME IInv, NEW t \in Threads, OthersSame(t), TypeOK',
         UNCHANGED <<glb, mem, hist, lost>>, Holds(t)' <=> Holds(t), ThreadInv(t)'
  PROVE  IInv'
<1>1. \A s \in Threads : Holds(s)' <=> Holds(s)
  BY DEF OthersSame, Holds, InTx
<1>2. LockInv' /\ HistoryInv' /\ OneHolder'
  BY <1>1 DEF IInv, LockInv, HistoryInv, OneHolder
<1>3. ASSUME NEW s \in Threads, s # t PROVE ThreadInv(s)'
  <2>1. /\ tx'[s] = tx[s] /\ loc'[s] = loc[s] /\ irrevoc'[s] = irrevoc[s]
        /\ pc'[s] = pc[s] /\ arg'[s] = arg[s] /\ undo'[s] = undo[s]
        /\ frees'[s] = frees[s] /\ seen'[s] = seen[s] /\ own'[s] = own[s]
    BY <1>3 DEF OthersSame
  <2>2. ThreadInv(s)
    BY DEF IInv
  <2>3. ControlInv(s)' /\ StoreInv(s)'
    BY <1>1, <2>1, <2>2 DEF ThreadInv, ControlInv, StoreInv, InTx
  <2>4. LogOf(s)'
    BY <1>1, <2>1, <2>2 DEF ThreadInv, LogOf, Committed, NoLog, Overlay
  <2>5. ReaderInv(s)' /\ Opaque(s)'
    BY <2>1, <2>2 DEF ThreadInv, ReaderInv, Opaque, Version, InTx
  <2> QED
    BY <2>3, <2>4, <2>5 DEF ThreadInv
<1> QED
  BY <1>2, <1>3 DEF IInv

(* A step of t, that has the lock afterwards, whatever it does to the pool: *)
(* another thread runs on an even version, and will not be handed what it   *)
(* loads now.                                                               *)
LEMMA HolderStep ==
  ASSUME IInv, NEW t \in Threads, OthersSame(t), TypeOK', UNCHANGED <<hist, lost>>,
         Holds(t)', ThreadInv(t)',
         \/ Holds(t) /\ glb' = glb
         \/ ~Holds(t) /\ IsEven(glb) /\ glb' = glb + 1
  PROVE  IInv'
<1>1. glb \in Nat /\ glb' \in Nat /\ ~IsEven(glb') /\ glb <= glb'
  BY DEF IInv, TypeOK, ThreadInv, LogOf
<1>2. \A s \in Threads : s # t => ~Holds(s) /\ ~Holds(s)'
  <2> SUFFICES ASSUME NEW s \in Threads, s # t PROVE ~Holds(s) /\ ~Holds(s)'
    OBVIOUS
  <2>1. ~Holds(s)
    BY DEF IInv, OneHolder, ThreadInv, LogOf
  <2> QED
    BY <2>1 DEF OthersSame, Holds, InTx
<1>3. LockInv'
  BY <1>1 DEF LockInv, ThreadInv, LogOf
<1>4. HistoryInv'
  <2>1. glb' = glb + 1 => glb' - 1 = glb
    BY <1>1
  <2> QED
    BY <1>1, <2>1 DEF IInv, HistoryInv, TypeOK, ThreadInv, LogOf
<1>5. OneHolder'
  BY <1>2 DEF OneHolder
<1>6. ASSUME NEW s \in Threads, s # t PROVE ThreadInv(s)'
  <2>1. /\ tx'[s] = tx[s] /\ loc'[s] = loc[s] /\ irrevoc'[s] = irrevoc[s]
        /\ pc'[s] = pc[s] /\ arg'[s] = arg[s] /\ undo'[s] = undo[s]
        /\ frees'[s] = frees[s] /\ seen'[s] = seen[s] /\ own'[s] = own[s]
    BY <1>6 DEF OthersSame
  <2>2. ThreadInv(s) /\ ~Holds(s) /\ ~Holds(s)' /\ loc[s] \in Nat
    BY <1>2, <1>6 DEF IInv, TypeOK
  <2>3. ControlInv(s)' /\ StoreInv(s)'
    BY <2>1, <2>2 DEF ThreadInv, ControlInv, StoreInv, InTx
  <2>4. LogOf(s)'
    BY <2>1, <2>2 DEF ThreadInv, LogOf, NoLog
  <2>5. pc[s] = "read" => InTx(s) /\ ~irrevoc[s] /\ ~tx[s].retry
    BY <2>2 DEF ThreadInv, ControlInv, Holds
  <2>6. ReaderInv(s)'
    BY <1>1, <2>1, <2>2, <2>5 DEF ThreadInv, ReaderInv, InTx
  <2>7. Opaque(s)'
    BY <2>1, <2>2 DEF ThreadInv, Opaque, Version, InTx
  <2> QED
    BY <2>3, <2>4, <2>6, <2>7 DEF ThreadInv
<1> QED
  BY <1>3, <1>4, <1>5, <1>6 DEF IInv

--------------------------------------------------------------------------------
(* After the lock operation of a step, if there is one, t has the lock: the *)
(* last version is the even number below, and t's log leads back to it.     *)
HolderNow(t) ==
  /\ glb' \in Nat /\ ~IsEven(glb') /\ glb' - 1 \in Nat
  /\ loc' \in [Threads -> Nat] /\ loc'[t] = glb'
  /\ irrevoc' \in [Threads -> BOOLEAN] /\ irrevoc'[t] = TRUE
  /\ \A s \in Threads : s # t => loc'[s] = loc[s] /\ irrevoc'[s] = irrevoc[s]
  /\ \/ Holds(t) /\ glb' = glb
     \/ ~Holds(t) /\ IsEven(glb) /\ glb' = glb + 1
  /\ ~lost
  /\ InTx(t)
  /\ hist[glb' - 1] \in [Addrs -> Contents]
  /\ mem = Overlay(hist[glb' - 1], own[t], NoVal)
  /\ Committed(t) \/ Overlay(mem, undo[t], NoVal) = hist[glb' - 1]
  /\ ~tx[t].retry => \A p \in seen[t] : p[2] = hist[glb' - 1][p[1]]

(* Without a lock operation.                                                *)
LEMMA KeepHolds ==
  ASSUME IInv, NEW t \in Threads, Holds(t), UNCHANGED lockVars
  PROVE  HolderNow(t)
<1>1. /\ TypeOK /\ LogOf(t) /\ Opaque(t) /\ InTx(t) /\ irrevoc[t]
      /\ UNCHANGED <<glb, loc, irrevoc>>
  BY DEF IInv, ThreadInv, Holds, lockVars
<1>2. glb \in Nat /\ ~IsEven(glb) /\ loc[t] = glb /\ Version(t) = glb - 1
  BY <1>1 DEF TypeOK, LogOf, Version
<1>3. glb - 1 \in Nat /\ glb - 1 \in DOMAIN hist
  BY <1>2, Parity DEF IInv, HistoryInv
<1>4. hist[glb - 1] \in [Addrs -> Contents]
  BY <1>1, <1>3 DEF TypeOK
<1>5. irrevoc[t] = TRUE /\ loc \in [Threads -> Nat] /\ irrevoc \in [Threads -> BOOLEAN]
  BY <1>1 DEF TypeOK
<1>6. /\ ~lost /\ mem = Overlay(hist[glb - 1], own[t], NoVal)
      /\ Committed(t) \/ Overlay(mem, undo[t], NoVal) = hist[glb - 1]
  BY <1>1 DEF LogOf
<1>7. ~tx[t].retry => \A p \in seen[t] : p[2] = hist[glb - 1][p[1]]
  BY <1>1, <1>2 DEF Opaque
<1> QED
  BY <1>1, <1>2, <1>3, <1>4, <1>5, <1>6, <1>7 DEF HolderNow

(* tml_try_irrevoc, when it returns: the CAS can only succeed on a free     *)
(* lock, when the pool is the very version the transaction has been reading.*)
LEMMA AcquireHolds ==
  ASSUME IInv, NEW t \in Threads, AtWork(t), Acquire(t)
  PROVE  HolderNow(t)
<1>1. /\ TypeOK /\ ThreadInv(t) /\ InTx(t) /\ InWork(tx[t]) /\ ~Committed(t)
      /\ tx[t].err = "none" /\ ~tx[t].retry
  BY DEF IInv, AtWork, ThreadInv, ControlInv, Committed
<1>2. CASE irrevoc[t]
  <2>2. UNCHANGED lockVars
    BY <1>1, <1>2 DEF Acquire, lockVars, TypeOK
  <2> QED
    BY <1>1, <1>2, <2>2, KeepHolds DEF Holds
<1>3. CASE ~irrevoc[t]
  <2>1. IsEven(loc[t]) /\ loc[t] = glb /\ ~Holds(t)
    BY <1>1, <1>3 DEF ThreadInv, ReaderInv, Acquire, CasFails, Holds
  <2>2. /\ glb' = glb + 1 /\ loc' = [loc EXCEPT ![t] = glb + 1]
        /\ irrevoc' = [irrevoc EXCEPT ![t] = TRUE]
    BY <1>3, <2>1 DEF Acquire
  <2>3. glb \in Nat /\ glb + 1 \in Nat /\ ~IsEven(glb + 1) /\ (glb + 1) - 1 = glb
    BY <1>1, <2>1, Parity DEF TypeOK
  <2>4. /\ loc' \in [Threads -> Nat] /\ loc'[t] = glb'
        /\ irrevoc' \in [Threads -> BOOLEAN] /\ irrevoc'[t] = TRUE
        /\ \A s \in Threads : s # t => loc'[s] = loc[s] /\ irrevoc'[s] = irrevoc[s]
    BY <1>1, <2>2, <2>3 DEF TypeOK
  <2>5. ~lost /\ mem = hist[glb] /\ mem \in [Addrs -> Contents] /\ undo[t] = NoLog
        /\ own[t] = NoLog
    BY <1>1, <2>1 DEF IInv, LockInv, TypeOK, ThreadInv, LogOf
  <2>6. Overlay(mem, NoLog, NoVal) = mem
    BY <2>5, OverlayNone DEF NoLog
  <2>7. \A p \in seen[t] : p[2] = hist[glb][p[1]]
    BY <1>1, <2>1 DEF ThreadInv, Opaque, Version
  <2> QED
    BY <1>1, <2>1, <2>2, <2>3, <2>4, <2>5, <2>6, <2>7 DEF HolderNow
<1> QED
  BY <1>2, <1>3

--------------------------------------------------------------------------------
(* What a step makes of the pool and t's log: nothing, or a roll back.      *)
Keeps(t) == UNCHANGED <<mem, own, undo, frees>>

(* The record a step of t, in the loop of a block, may leave.               *)
GoodRecord(t, r) ==
  /\ r \in PmRecord /\ r.depth > 0
  /\ r.stage = "WORK" => r.err = "none"
  /\ r.retry <=> r.err = "restart"
  /\ tx[t].retry => r.retry

(* pmemobj's roll back, by the holder, leaves the last version and no log.  *)
LEMMA RollBackEffect ==
  ASSUME IInv, NEW t \in Threads, RollBack(t)
  PROVE  /\ mem' \in [Addrs -> Contents] /\ mem' = Overlay(mem, undo[t], NoVal)
         /\ own' \in [Threads -> [Addrs -> Contents \cup {NoVal}]]
         /\ undo' \in [Threads -> [Addrs -> Contents \cup {NoVal}]]
         /\ frees' \in [Threads -> SUBSET Addrs]
         /\ own'[t] = NoLog /\ undo'[t] = NoLog /\ frees'[t] = {}
         /\ \A s \in Threads : s # t => own'[s] = own[s] /\ undo'[s] = undo[s]
                                        /\ frees'[s] = frees[s]
         /\ ~Holds(t) => Keeps(t)
<1>1. TypeOK /\ NoLog \in [Addrs -> Contents \cup {NoVal}]
  BY DEF IInv, NoLog
<1>2. mem' \in [Addrs -> Contents] /\ mem' = Overlay(mem, undo[t], NoVal)
  BY <1>1, OverlayType DEF TypeOK, RollBack
<1>3. /\ own' = [own EXCEPT ![t] = NoLog] /\ undo' = [undo EXCEPT ![t] = NoLog]
      /\ frees' = [frees EXCEPT ![t] = {}]
  BY DEF RollBack, Discard
<1>4. ~Holds(t) => Keeps(t)
  <2> SUFFICES ASSUME ~Holds(t) PROVE Keeps(t)
    OBVIOUS
  <2>1. undo[t] = NoLog /\ own[t] = NoLog /\ frees[t] = {}
    BY DEF IInv, ThreadInv, LogOf
  <2>2. Overlay(mem, NoLog, NoVal) = mem
    BY <1>1, OverlayNone DEF NoLog, TypeOK
  <2> QED
    BY <1>1, <1>2, <1>3, <2>1, <2>2 DEF Keeps, TypeOK
<1> QED
  BY <1>1, <1>2, <1>3, <1>4 DEF TypeOK

(* A step of t that rewrites its struct tx, and goes back to the loop of a  *)
(* block: t does not have the lock.  A transaction that restarts may have   *)
(* had loc overwritten by a CAS that failed.                                *)
LEMMA QuietRecordStep ==
  ASSUME IInv, NEW t \in Threads, InTx(t), ~Holds(t), NEW r, GoodRecord(t, r),
         tx' = [tx EXCEPT ![t] = r], pc' = [pc EXCEPT ![t] = "run"],
         arg' = [arg EXCEPT ![t] = NoArg],
         loc' \in [Threads -> Nat], \A s \in Threads : s # t => loc'[s] = loc[s],
         loc'[t] = loc[t] \/ r.retry,
         UNCHANGED <<glb, irrevoc, crashes, hist, seen, lost>>, Keeps(t)
  PROVE  IInv'
<1>1. TypeOK /\ ThreadInv(t) /\ irrevoc[t] = FALSE
  BY DEF IInv, TypeOK, Holds
<1>2. /\ \A s \in Threads : s # t => tx'[s] = tx[s] /\ pc'[s] = pc[s] /\ arg'[s] = arg[s]
      /\ tx'[t] = r /\ pc'[t] = "run" /\ arg'[t] = NoArg
      /\ r \in PmRecord
  BY <1>1 DEF TypeOK, GoodRecord
<1>3. OthersSame(t)
  BY <1>2 DEF OthersSame, Keeps
<1>4. TypeOK'
  BY <1>1, <1>2 DEF TypeOK, Keeps
<1>5. ~Holds(t)' /\ InTx(t)'
  BY <1>1, <1>2 DEF Holds, InTx, GoodRecord
<1>6. ThreadInv(t)'
  <2>1. ControlInv(t)'
    BY <1>2, <1>5 DEF ControlInv, GoodRecord, InWork
  <2>2. LogOf(t)' /\ StoreInv(t)'
    BY <1>1, <1>2, <1>5 DEF ThreadInv, LogOf, StoreInv, Keeps, NoLog
  <2>3. ReaderInv(t)' /\ Opaque(t)'
    BY <1>1, <1>2, <1>5 DEF ThreadInv, ReaderInv, Opaque, GoodRecord, Version
  <2> QED
    BY <2>1, <2>2, <2>3 DEF ThreadInv
<1> QED
  BY <1>3, <1>4, <1>5, <1>6, QuietStep DEF Keeps

(* The same of a thread that has the lock, or has just got it; its          *)
(* transaction goes on with its log, or has been rolled back.               *)
LEMMA HolderRecordStep ==
  ASSUME IInv, NEW t \in Threads, HolderNow(t), NEW r, GoodRecord(t, r),
         tx' = [tx EXCEPT ![t] = r], pc' = [pc EXCEPT ![t] = "run"],
         arg' = [arg EXCEPT ![t] = NoArg],
         UNCHANGED <<crashes, hist, seen, lost>>,
         \/ /\ Keeps(t)
            /\ Outermost(r) /\ r.stage # "WORK" =>
                 undo[t] = NoLog /\ frees[t] = {} /\ (r.err # "none" => own[t] = NoLog)
            /\ Committed(t) => Outermost(r) /\ r.stage # "WORK" /\ r.err = "none"
         \/ RollBack(t) /\ ~Committed(t)
  PROVE  IInv'
<1>1. TypeOK /\ ThreadInv(t)
  BY DEF IInv
<1>2. /\ \A s \in Threads : s # t => tx'[s] = tx[s] /\ pc'[s] = pc[s] /\ arg'[s] = arg[s]
      /\ tx'[t] = r /\ pc'[t] = "run" /\ arg'[t] = NoArg /\ r \in PmRecord
      /\ tx' \in [Threads -> PmRecord]
      /\ pc' \in [Threads -> {"idle", "begin", "run", "read", "store"}]
      /\ arg' \in [Threads -> (Addrs \X Contents) \cup {NoArg}]
  BY <1>1 DEF TypeOK, GoodRecord
<1>3. /\ mem' \in [Addrs -> Contents]
      /\ own' \in [Threads -> [Addrs -> Contents \cup {NoVal}]]
      /\ undo' \in [Threads -> [Addrs -> Contents \cup {NoVal}]]
      /\ frees' \in [Threads -> SUBSET Addrs]
      /\ \A s \in Threads : s # t => own'[s] = own[s] /\ undo'[s] = undo[s]
                                     /\ frees'[s] = frees[s]
  BY <1>1, RollBackEffect DEF TypeOK, Keeps
<1>4. OthersSame(t)
  BY <1>2, <1>3 DEF OthersSame, HolderNow
<1>5. TypeOK'
  BY <1>1, <1>2, <1>3 DEF TypeOK, HolderNow
<1>6. Holds(t)' /\ InTx(t)'
  BY <1>2 DEF Holds, InTx, GoodRecord, HolderNow
<1>7. /\ mem' = Overlay(hist[glb' - 1], own'[t], NoVal)
      /\ Committed(t)' \/ Overlay(mem', undo'[t], NoVal) = hist[glb' - 1]
  <2>1. CASE Keeps(t)
    BY <1>2, <2>1 DEF Keeps, HolderNow, Committed, InWork, RollBack
  <2>2. CASE RollBack(t) /\ ~Committed(t)
    <3>1. mem' = hist[glb' - 1] /\ own'[t] = NoLog /\ undo'[t] = NoLog
      BY <2>2, RollBackEffect DEF HolderNow
    <3>2. Overlay(mem', NoLog, NoVal) = mem'
      BY <1>3, OverlayNone DEF NoLog
    <3> QED
      BY <3>1, <3>2
  <2> QED
    BY <2>1, <2>2
<1>8. StoreInv(t)'
  BY <1>2, RollBackEffect DEF StoreInv, Keeps, InWork, NoLog
<1>9. ThreadInv(t)'
  <2>1. ControlInv(t)'
    BY <1>2, <1>6 DEF ControlInv, GoodRecord, InWork
  <2>2. LogOf(t)'
    BY <1>6, <1>7 DEF LogOf, HolderNow
  <2>3. ReaderInv(t)'
    BY <1>2, <1>6 DEF ReaderInv, HolderNow
  <2>4. Opaque(t)'
    BY <1>2 DEF Opaque, Version, GoodRecord, HolderNow
  <2> QED
    BY <1>8, <2>1, <2>2, <2>3, <2>4 DEF ThreadInv
<1> QED
  BY <1>4, <1>5, <1>6, <1>9, HolderStep DEF HolderNow

--------------------------------------------------------------------------------
(* The steps that end in the loop of a block. *)

(* What is known of a thread in the loop of a block.                        *)
LEMMA InLoop ==
  ASSUME IInv, NEW t \in Threads, pc[t] = "run"
  PROVE  /\ TypeOK /\ ThreadInv(t) /\ InTx(t) /\ tx[t] \in PmRecord /\ arg[t] = NoArg
         /\ tx[t].depth > 0 /\ tx[t].depth \in Nat /\ tx[t].err \in PmErrs
         /\ tx[t].retry <=> tx[t].err = "restart"
         /\ InWork(tx[t]) => tx[t].err = "none" /\ ~tx[t].retry /\ ~Committed(t)
         /\ ~Holds(t) => ~irrevoc[t]
BY DEF IInv, TypeOK, ThreadInv, ControlInv, InTx, PmRecord, Committed, Holds

(* Any such step that is not a lock operation, of t with the lock or        *)
(* without: it keeps the pool, or rolls it back.                            *)
LEMMA LoopStep ==
  ASSUME IInv, NEW t \in Threads, InTx(t), NEW r, GoodRecord(t, r),
         tx' = [tx EXCEPT ![t] = r], pc' = [pc EXCEPT ![t] = "run"],
         arg' = [arg EXCEPT ![t] = NoArg],
         UNCHANGED <<glb, loc, irrevoc, crashes, hist, seen, lost>>,
         \/ /\ Keeps(t)
            /\ Outermost(r) /\ r.stage # "WORK" =>
                 undo[t] = NoLog /\ frees[t] = {} /\ (r.err # "none" => own[t] = NoLog)
            /\ Committed(t) => Outermost(r) /\ r.stage # "WORK" /\ r.err = "none"
         \/ RollBack(t) /\ ~Committed(t)
  PROVE  IInv'
<1>1. CASE Holds(t)
  BY <1>1, KeepHolds, HolderRecordStep DEF lockVars
<1>2. CASE ~Holds(t)
  <2>1. Keeps(t)
    BY <1>2, RollBackEffect
  <2>2. loc' \in [Threads -> Nat]
    BY DEF IInv, TypeOK
  <2> QED
    BY <1>2, <2>1, <2>2, QuietRecordStep
<1> QED
  BY <1>1, <1>2

(* pmemobj_tx_abort at any depth: it rolls back, or leaves that to the end  *)
(* of the block inside the outermost.                                       *)
LEMMA AbortEffect ==
  ASSUME IInv, NEW t \in Threads, InTx(t), InWork(tx[t]), NEW r \in PmRecord,
         AbortTo(t, r), r.depth = tx[t].depth, r.err # "none",
         r.stage = "ONABORT", r.retry <=> r.err = "restart"
  PROVE  /\ GoodRecord(t, r)
         /\ tx' = [tx EXCEPT ![t] = r] /\ pc' = [pc EXCEPT ![t] = "run"]
         /\ \/ Keeps(t) /\ ~Outermost(r) /\ ~Committed(t)
            \/ RollBack(t) /\ ~Committed(t)
<1>1. tx[t].err = "none" /\ ~tx[t].retry /\ tx[t].depth > 0
  BY DEF IInv, TypeOK, ThreadInv, ControlInv, InTx
<1>2. GoodRecord(t, r)
  BY <1>1 DEF GoodRecord
<1> QED
  BY <1>2 DEF AbortTo, Goto, Keeps, logVars, Committed, Outermost

(* BeginNested.                                                             *)
LEMMA BeginNestedStep ==
  ASSUME IInv, NEW t \in Threads, BeginNested(t)
  PROVE  IInv'
<1> DEFINE r == TxBegin(tx[t])
<1>1. pc[t] = "run" /\ InWork(tx[t])
  BY DEF BeginNested, AtWork
<1>2. /\ r \in PmRecord /\ r.stage = "WORK" /\ r.depth = tx[t].depth + 1
      /\ r.retry = FALSE /\ r.err = "none"
  <2>1. tx[t] \in PmRecord /\ tx[t].retry = FALSE
    BY <1>1, InLoop DEF PmRecord
  <2> QED
    BY <2>1, TxBeginFields
<1>3. tx' = [tx EXCEPT ![t] = r]
  BY DEF BeginNested
<1> HIDE DEF r
<1>4. GoodRecord(t, r)
  BY <1>1, <1>2, InLoop DEF GoodRecord
<1>5. /\ pc' = [pc EXCEPT ![t] = "run"] /\ arg' = [arg EXCEPT ![t] = NoArg] /\ Keeps(t)
      /\ UNCHANGED <<glb, loc, irrevoc, crashes, hist, seen, lost>>
  BY <1>1, InLoop DEF BeginNested, TypeOK, lockVars, logVars, histVars, Keeps
<1> QED
  BY <1>1, <1>2, <1>3, <1>4, <1>5, InLoop, LoopStep

(* TML_ABORT.                                                               *)
LEMMA UserAbortStep ==
  ASSUME IInv, NEW t \in Threads, UserAbort(t)
  PROVE  IInv'
<1> DEFINE r == TxAbort(tx[t], "cancelled")
<1>1. pc[t] = "run" /\ InWork(tx[t])
  BY DEF UserAbort, AtWork
<1>2. /\ r \in PmRecord /\ r.stage = "ONABORT" /\ r.depth = tx[t].depth
      /\ r.retry = tx[t].retry /\ r.err = "cancelled"
  BY <1>1, InLoop, TxAbortFields DEF PmErrs
<1>3. AbortTo(t, r) /\ arg' = arg
      /\ UNCHANGED <<glb, loc, irrevoc, crashes, hist, seen, lost>>
  BY DEF UserAbort, lockVars
<1> HIDE DEF r
<1>4. arg' = [arg EXCEPT ![t] = NoArg]
  BY <1>1, <1>3, InLoop DEF TypeOK
<1> QED
  BY <1>1, <1>2, <1>3, <1>4, InLoop, AbortEffect, LoopStep

(* TML_RESTART, of a transaction that writes in place as well.              *)
LEMMA UserRestartStep ==
  ASSUME IInv, NEW t \in Threads, UserRestart(t)
  PROVE  IInv'
<1> DEFINE r == TxRestart(tx[t])
<1>1. pc[t] = "run" /\ InWork(tx[t])
  BY DEF UserRestart, AtWork
<1>2. /\ r \in PmRecord /\ r.stage = "ONABORT" /\ r.depth = tx[t].depth
      /\ r.retry = TRUE /\ r.err = "restart"
  BY <1>1, InLoop, TxRestartFields
<1>3. AbortTo(t, r) /\ arg' = arg
      /\ UNCHANGED <<glb, loc, irrevoc, crashes, hist, seen, lost>>
  BY DEF UserRestart, lockVars
<1> HIDE DEF r
<1>4. arg' = [arg EXCEPT ![t] = NoArg]
  BY <1>1, <1>3, InLoop DEF TypeOK
<1> QED
  BY <1>1, <1>2, <1>3, <1>4, InLoop, AbortEffect, LoopStep

(* The CAS that fails leaves loc to the holder's value and restarts.        *)
LEMMA LoseRaceStep ==
  ASSUME IInv, NEW t \in Threads, AtWork(t), LoseRace(t),
         UNCHANGED <<crashes, hist, seen, lost>>
  PROVE  IInv'
<1> DEFINE r == TxRestart(tx[t])
<1>1. pc[t] = "run" /\ InWork(tx[t]) /\ ~irrevoc[t] /\ ~Holds(t)
  BY DEF AtWork, LoseRace, CasFails, Holds
<1>2. /\ r \in PmRecord /\ r.stage = "ONABORT" /\ r.depth = tx[t].depth
      /\ r.retry = TRUE /\ r.err = "restart"
  BY <1>1, InLoop, TxRestartFields
<1>3. AbortTo(t, r) /\ arg' = arg /\ loc' = [loc EXCEPT ![t] = glb]
      /\ UNCHANGED <<glb, irrevoc>>
  BY DEF LoseRace
<1> HIDE DEF r
<1>4. /\ arg' = [arg EXCEPT ![t] = NoArg] /\ loc' \in [Threads -> Nat]
      /\ \A s \in Threads : s # t => loc'[s] = loc[s]
  BY <1>1, <1>3, InLoop DEF TypeOK
<1>5. /\ GoodRecord(t, r) /\ Keeps(t)
      /\ tx' = [tx EXCEPT ![t] = r] /\ pc' = [pc EXCEPT ![t] = "run"]
  BY <1>1, <1>2, <1>3, InLoop, AbortEffect, RollBackEffect
<1> QED
  BY <1>1, <1>2, <1>3, <1>4, <1>5, InLoop, QuietRecordStep

(* A turn of the macros' loop past stage WORK.                              *)
LEMMA ProcessStep ==
  ASSUME IInv, NEW t \in Threads, Process(t)
  PROVE  IInv'
<1> DEFINE r == TxProcess(tx[t])
<1>1. pc[t] = "run" /\ ~InWork(tx[t])
  BY DEF Process, InWork
<1>2. /\ r \in PmRecord /\ r.stage # "WORK" /\ r.depth = tx[t].depth
      /\ r.retry = tx[t].retry /\ r.err = tx[t].err
  BY <1>1, InLoop, TxStageFields
<1>3. tx' = [tx EXCEPT ![t] = r]
  BY DEF Process
<1> HIDE DEF r
<1>4. GoodRecord(t, r)
  BY <1>1, <1>2, InLoop DEF GoodRecord
<1>5. /\ pc' = [pc EXCEPT ![t] = "run"] /\ arg' = [arg EXCEPT ![t] = NoArg] /\ Keeps(t)
      /\ UNCHANGED <<glb, loc, irrevoc, crashes, hist, seen, lost>>
  BY <1>1, InLoop DEF Process, TypeOK, lockVars, logVars, histVars, Keeps
<1>6. /\ Outermost(r) => undo[t] = NoLog /\ frees[t] = {}
                         /\ (r.err # "none" => own[t] = NoLog)
      /\ Committed(t) => Outermost(r) /\ r.err = "none"
  BY <1>1, <1>2, InLoop DEF ThreadInv, StoreInv, Outermost, Committed
<1> QED
  BY <1>1, <1>2, <1>3, <1>4, <1>5, <1>6, InLoop, LoopStep

(* tml_tx_end of a nested block.                                            *)
LEMMA EndNestedStep ==
  ASSUME IInv, NEW t \in Threads, EndNested(t)
  PROVE  IInv'
<1> DEFINE r == TxEnd(tx[t])
<1>1. pc[t] = "run" /\ ~InWork(tx[t]) /\ tx[t].depth # 1 /\ ~Committed(t)
  BY DEF EndNested, InWork, Outermost, Committed
<1>2. /\ r \in PmRecord /\ r.depth = tx[t].depth - 1
      /\ r.retry = tx[t].retry /\ r.err = tx[t].err
      /\ r.stage = (IF tx[t].err = "none" THEN "WORK" ELSE "ONABORT")
  BY <1>1, InLoop, TxEndFields
<1>3. tx' = [tx EXCEPT ![t] = r]
  BY DEF EndNested
<1> HIDE DEF r
<1>4. GoodRecord(t, r)
  BY <1>1, <1>2, InLoop DEF GoodRecord
<1>5. /\ pc' = [pc EXCEPT ![t] = "run"] /\ arg' = [arg EXCEPT ![t] = NoArg]
      /\ UNCHANGED <<glb, loc, irrevoc, crashes, hist, seen, lost>>
  BY <1>1, InLoop DEF EndNested, TypeOK, lockVars
<1>6. (Keeps(t) /\ ~(Outermost(r) /\ r.stage # "WORK")) \/ RollBack(t)
  BY <1>1, <1>2, InLoop DEF EndNested, EndRollsBack, Outermost, Keeps, logVars
<1> QED
  BY <1>1, <1>2, <1>3, <1>4, <1>5, <1>6, InLoop, LoopStep

--------------------------------------------------------------------------------
(* tml_tx_begin.  A thread outside a block has no log and holds nothing; the *)
(* even value it reads is the last version.                                 *)

(* A thread at the loop of tml_tx_begin.                                    *)
LEMMA Outside ==
  ASSUME IInv, NEW t \in Threads, AtBegin(t)
  PROVE  /\ TypeOK /\ ThreadInv(t) /\ ~InTx(t) /\ ~Holds(t)
         /\ tx[t] \in PmRecord /\ tx[t].stage = "NONE" /\ tx[t].depth = 0
         /\ arg[t] = NoArg /\ seen[t] = {}
         /\ undo[t] = NoLog /\ own[t] = NoLog /\ frees[t] = {}
<1>1. TypeOK /\ ThreadInv(t) /\ pc[t] \in {"idle", "begin"} /\ tx[t] \in PmRecord
  BY DEF IInv, AtBegin, TypeOK
<1>2. ~InTx(t) /\ tx[t].depth \in Nat
  BY <1>1 DEF ThreadInv, ControlInv, PmRecord
<1> QED
  BY <1>1, <1>2 DEF ThreadInv, ControlInv, LogOf, ReaderInv, InTx, Holds

(* A turn of the loop that finds the lock taken.                            *)
LEMMA SpinStep ==
  ASSUME IInv, NEW t \in Threads, Spin(t)
  PROVE  IInv'
<1>1. AtBegin(t) /\ TypeOK
  BY DEF Spin, IInv
<1>2. /\ tx' = tx /\ pc' = [pc EXCEPT ![t] = "begin"]
      /\ irrevoc' = [irrevoc EXCEPT ![t] = FALSE] /\ loc' = [loc EXCEPT ![t] = glb]
      /\ UNCHANGED <<glb, mem, arg, undo, frees, crashes, hist, seen, own, lost>>
  BY DEF Spin, Sample, Goto, logVars, histVars
<1>3. OthersSame(t) /\ TypeOK' /\ pc'[t] = "begin"
  BY <1>1, <1>2 DEF TypeOK, OthersSame
<1>4. ~InTx(t)' /\ ~Holds(t)'
  BY <1>1, <1>2, Outside DEF InTx, Holds
<1>5. ThreadInv(t)'
  <2>1. ControlInv(t)'
    BY <1>1, <1>2, <1>3, <1>4, Outside DEF ControlInv, InWork
  <2>2. LogOf(t)' /\ StoreInv(t)' /\ ReaderInv(t)' /\ Opaque(t)'
    BY <1>1, <1>2, <1>3, <1>4, Outside
    DEF LogOf, StoreInv, ReaderInv, Opaque, Outermost, NoLog
  <2> QED
    BY <2>1, <2>2 DEF ThreadInv
<1> QED
  BY <1>1, <1>2, <1>3, <1>4, <1>5, Outside, QuietStep

(* The turn that finds it free: the version it chooses exists.              *)
LEMMA BeginStep ==
  ASSUME IInv, NEW t \in Threads, Begin(t)
  PROVE  IInv'
<1> DEFINE r == TxBegin(tx[t])
<1>1. AtBegin(t) /\ TypeOK /\ IsEven(glb) /\ glb \in Nat /\ glb \in DOMAIN hist
  BY DEF Begin, IInv, TypeOK, HistoryInv
<1>2. /\ r \in PmRecord /\ r.stage = "WORK" /\ r.depth = 1 /\ r.retry = FALSE
      /\ r.err = "none"
  <2>1. tx[t] \in PmRecord /\ tx[t].stage # "WORK" /\ tx[t].depth + 1 = 1
    BY <1>1, Outside
  <2> QED
    BY <2>1, TxBeginFields
<1>3. tx' = [tx EXCEPT ![t] = r]
  BY DEF Begin
<1> HIDE DEF r
<1>4. /\ pc' = [pc EXCEPT ![t] = "run"]
      /\ irrevoc' = [irrevoc EXCEPT ![t] = FALSE] /\ loc' = [loc EXCEPT ![t] = glb]
      /\ UNCHANGED <<glb, mem, arg, undo, frees, crashes, hist, seen, own, lost>>
  BY DEF Begin, Sample, Goto, logVars, histVars
<1>5. /\ OthersSame(t) /\ TypeOK' /\ pc'[t] = "run" /\ tx'[t] = r
      /\ irrevoc'[t] = FALSE /\ loc'[t] = glb
  BY <1>1, <1>2, <1>3, <1>4 DEF TypeOK, OthersSame
<1>6. InTx(t)' /\ ~Holds(t)'
  BY <1>2, <1>5 DEF InTx, Holds
<1>7. ThreadInv(t)'
  <2>1. ControlInv(t)'
    BY <1>1, <1>2, <1>4, <1>5, <1>6, Outside DEF ControlInv, InWork
  <2>2. LogOf(t)' /\ StoreInv(t)' /\ Opaque(t)'
    BY <1>1, <1>2, <1>4, <1>5, <1>6, Outside
    DEF LogOf, StoreInv, Opaque, Outermost, InWork, NoLog
  <2>3. ReaderInv(t)'
    BY <1>1, <1>4, <1>5, <1>6 DEF ReaderInv
  <2> QED
    BY <2>1, <2>2, <2>3 DEF ThreadInv
<1> QED
  BY <1>1, <1>4, <1>5, <1>6, <1>7, Outside, QuietStep

--------------------------------------------------------------------------------
(* Reads. *)

(* The load of TML_READ.                                                    *)
LEMMA ReadLoadStep ==
  ASSUME IInv, NEW t \in Threads, NEW a \in Addrs, ReadLoad(t, a)
  PROVE  IInv'
<1>1. pc[t] = "run" /\ InWork(tx[t])
  BY DEF ReadLoad, AtWork
<1>2. TypeOK /\ ThreadInv(t) /\ InTx(t)
  BY <1>1, InLoop
<1>3. /\ arg' = [arg EXCEPT ![t] = <<a, mem[a]>>] /\ pc' = [pc EXCEPT ![t] = "read"]
      /\ UNCHANGED <<glb, mem, tx, loc, irrevoc, undo, frees, crashes, hist, seen,
                     own, lost>>
  BY DEF ReadLoad, Goto, logVars, histVars, lockVars
<1>4. <<a, mem[a]>> \in Addrs \X Contents /\ <<a, mem[a]>> # NoArg
  BY <1>2 DEF TypeOK, NoArg
<1>5. OthersSame(t) /\ TypeOK' /\ pc'[t] = "read" /\ arg'[t] = <<a, mem[a]>>
  BY <1>2, <1>3, <1>4 DEF TypeOK, OthersSame
<1>6. InTx(t)' /\ (Holds(t)' <=> Holds(t))
  BY <1>2, <1>3 DEF InTx, Holds
<1>7. ThreadInv(t)'
  <2>1. ControlInv(t)'
    BY <1>1, <1>2, <1>3, <1>4, <1>5, <1>6 DEF ThreadInv, ControlInv, InWork
  <2>2. LogOf(t)' /\ StoreInv(t)' /\ Opaque(t)'
    BY <1>2, <1>3, <1>5, <1>6
    DEF ThreadInv, LogOf, StoreInv, Opaque, Outermost, Version, Committed, NoLog, Overlay
  <2>3. ReaderInv(t)'
    BY <1>2, <1>3, <1>5, <1>6 DEF ThreadInv, ReaderInv
  <2> QED
    BY <2>1, <2>2, <2>3 DEF ThreadInv
<1> QED
  BY <1>3, <1>5, <1>6, <1>7, QuietStep

(* What tml_tx_read lets through is what the transaction's version holds,   *)
(* or what the transaction itself wrote over it.                            *)
LEMMA HandedOver ==
  ASSUME IInv, NEW t \in Threads, pc[t] = "read", ~ReadStale(t)
  PROVE  /\ arg[t] \in Addrs \X Contents
         /\ own[t][arg[t][1]] = NoVal => arg[t][2] = hist[Version(t)][arg[t][1]]
<1>1. /\ TypeOK /\ ThreadInv(t) /\ InTx(t) /\ InWork(tx[t]) /\ ~tx[t].retry
      /\ arg[t] # NoArg
  BY DEF IInv, ThreadInv, ControlInv
<1>2. arg[t] \in Addrs \X Contents /\ arg[t][1] \in Addrs /\ glb \in Nat
  BY <1>1 DEF TypeOK
<1>3. CASE irrevoc[t]
  <2>2. /\ loc[t] = glb /\ ~IsEven(glb) /\ mem = Overlay(hist[glb - 1], own[t], NoVal)
        /\ Version(t) = glb - 1
    BY <1>1, <1>3 DEF ThreadInv, LogOf, Holds, Version
  <2>3. mem[arg[t][1]] = IF own[t][arg[t][1]] = NoVal THEN hist[glb - 1][arg[t][1]]
                         ELSE own[t][arg[t][1]]
    <3>1. glb - 1 \in DOMAIN hist /\ hist[glb - 1] \in [Addrs -> Contents]
      BY <1>1, <2>2 DEF IInv, HistoryInv, TypeOK
    <3> QED
      BY <1>2, <2>2, <3>1 DEF Overlay
  <2>4. arg[t][2] = mem[arg[t][1]]
    BY <1>1, <1>3 DEF ThreadInv, ReaderInv
  <2> QED
    BY <1>2, <2>2, <2>3, <2>4
<1>4. CASE ~irrevoc[t]
  <2>1. IsEven(loc[t]) /\ loc[t] = glb /\ Version(t) = glb
    BY <1>1, <1>4 DEF ThreadInv, ReaderInv, ReadStale, Version
  <2>2. mem = hist[glb] /\ arg[t][2] = mem[arg[t][1]]
    BY <1>1, <2>1 DEF IInv, LockInv, ThreadInv, ReaderInv
  <2> QED
    BY <1>2, <2>1, <2>2
<1> QED
  BY <1>3, <1>4

(* tml_tx_read: restart, or hand over.                                      *)
LEMMA ReadCheckStep ==
  ASSUME IInv, NEW t \in Threads, ReadCheck(t)
  PROVE  IInv'
<1>1. /\ TypeOK /\ ThreadInv(t) /\ InTx(t) /\ InWork(tx[t]) /\ tx[t] \in PmRecord
      /\ pc[t] = "read"
  BY DEF IInv, TypeOK, ReadCheck, ThreadInv, ControlInv
<1>2. /\ arg' = [arg EXCEPT ![t] = NoArg]
      /\ UNCHANGED <<glb, loc, irrevoc, crashes, hist, lost>>
  BY DEF ReadCheck, lockVars
<1>3. CASE ReadStale(t) /\ AbortTo(t, TxRestart(tx[t])) /\ UNCHANGED seen
  <2> DEFINE r == TxRestart(tx[t])
  <2>1. /\ r \in PmRecord /\ r.stage = "ONABORT" /\ r.depth = tx[t].depth
        /\ r.retry = TRUE /\ r.err = "restart" /\ AbortTo(t, r)
    BY <1>1, <1>3, TxRestartFields
  <2> HIDE DEF r
  <2>2. ~Holds(t) /\ loc' \in [Threads -> Nat]
    BY <1>1, <1>2, <1>3 DEF ReadStale, Holds, TypeOK
  <2>3. /\ GoodRecord(t, r) /\ Keeps(t)
        /\ tx' = [tx EXCEPT ![t] = r] /\ pc' = [pc EXCEPT ![t] = "run"]
    BY <1>1, <2>1, <2>2, AbortEffect, RollBackEffect
  <2> QED
    BY <1>1, <1>2, <1>3, <2>1, <2>2, <2>3, QuietRecordStep
<1>4. CASE ~ReadStale(t) /\ seen' = [seen EXCEPT ![t] = IF own[t][arg[t][1]] = NoVal
                                       THEN @ \cup {arg[t]} ELSE @]
           /\ Goto(t, "run") /\ UNCHANGED <<mem, tx, own, logVars>>
  <2>1. pc' = [pc EXCEPT ![t] = "run"] /\ UNCHANGED <<mem, tx, own, undo, frees>>
    BY <1>4 DEF Goto, logVars
  <2>2. /\ arg[t] \in Addrs \X Contents
        /\ own[t][arg[t][1]] = NoVal => arg[t][2] = hist[Version(t)][arg[t][1]]
    BY <1>1, <1>4, HandedOver
  <2>3. /\ seen' \in [Threads -> SUBSET (Addrs \X Contents)]
        /\ \A s \in Threads : s # t => seen'[s] = seen[s]
        /\ \A p \in seen'[t] : p \in seen[t] \/ (p = arg[t] /\ own[t][arg[t][1]] = NoVal)
    BY <1>1, <1>4, <2>2 DEF TypeOK
  <2>4. OthersSame(t) /\ TypeOK' /\ pc'[t] = "run" /\ arg'[t] = NoArg
    BY <1>1, <1>2, <2>1, <2>3 DEF TypeOK, OthersSame
  <2>5. InTx(t)' /\ (Holds(t)' <=> Holds(t))
    BY <1>1, <1>2, <2>1 DEF InTx, Holds
  <2>6. ThreadInv(t)'
    <3>1. ControlInv(t)'
      BY <1>1, <2>1, <2>4, <2>5 DEF ThreadInv, ControlInv, InWork
    <3>2. LogOf(t)' /\ StoreInv(t)'
      BY <1>1, <1>2, <2>1, <2>4, <2>5
      DEF ThreadInv, LogOf, StoreInv, Outermost, Committed, NoLog, Overlay
    <3>3. ReaderInv(t)'
      BY <1>1, <1>2, <2>1, <2>4, <2>5 DEF ThreadInv, ReaderInv
    <3>4. Opaque(t)'
      <4>1. Version(t)' = Version(t)
        BY <1>2 DEF Version
      <4>2. InTx(t) /\ ~tx[t].retry => \A p \in seen[t] : p[2] = hist[Version(t)][p[1]]
        BY <1>1 DEF ThreadInv, Opaque
      <4> QED
        BY <1>1, <1>2, <2>1, <2>2, <2>3, <4>1, <4>2 DEF Opaque, InTx
    <3> QED
      BY <3>1, <3>2, <3>3, <3>4 DEF ThreadInv
  <2> QED
    BY <1>2, <2>1, <2>4, <2>5, <2>6, QuietStep
<1> QED
  BY <1>3, <1>4 DEF ReadCheck

--------------------------------------------------------------------------------
(* Steps of a thread that has, or takes, the lock. *)

(* Such a step that leaves struct tx alone, and may log, store or free.     *)
LEMMA InPlaceStep ==
  ASSUME IInv, NEW t \in Threads, HolderNow(t), InWork(tx[t]), OthersSame(t), TypeOK',
         pc'[t] \in {"run", "store"}, pc'[t] = "store" <=> arg'[t] # NoArg,
         pc'[t] = "store" => undo'[t][arg'[t][1]] # NoVal,
         mem' = Overlay(hist[glb' - 1], own'[t], NoVal),
         Overlay(mem', undo'[t], NoVal) = hist[glb' - 1],
         UNCHANGED <<tx, hist, seen, lost>>
  PROVE  IInv'
<1>1. ThreadInv(t) /\ InTx(t) /\ tx[t].err = "none" /\ ~tx[t].retry
  BY DEF IInv, HolderNow, ThreadInv, ControlInv
<1>2. Holds(t)' /\ InTx(t)'
  BY <1>1 DEF Holds, InTx, HolderNow
<1>3. ControlInv(t)'
  BY <1>1, <1>2 DEF ThreadInv, ControlInv, InWork
<1>4. LogOf(t)'
  BY <1>2 DEF LogOf, HolderNow
<1>5. StoreInv(t)'
  BY <1>2 DEF StoreInv, InWork
<1>6. ReaderInv(t)'
  BY <1>2 DEF ReaderInv, HolderNow
<1>7. Opaque(t)'
  BY <1>1 DEF Opaque, Version, HolderNow
<1> QED
  BY <1>2, <1>3, <1>4, <1>5, <1>6, <1>7, HolderStep DEF HolderNow, ThreadInv

(* There is no room for the log of a write.                                 *)
LEMMA LogFailsStep ==
  ASSUME IInv, NEW t \in Threads, AtWork(t), Acquire(t), LogFails(t),
         UNCHANGED <<crashes, hist, seen, lost>>
  PROVE  IInv'
<1> DEFINE r == TxAbort(tx[t], "nomem")
<1>1. pc[t] = "run" /\ InWork(tx[t]) /\ HolderNow(t)
  BY AcquireHolds DEF AtWork
<1>2. /\ r \in PmRecord /\ r.stage = "ONABORT" /\ r.depth = tx[t].depth
      /\ r.retry = tx[t].retry /\ r.err = "nomem"
  BY <1>1, InLoop, TxAbortFields DEF PmErrs
<1>3. AbortTo(t, r) /\ arg' = arg
  BY DEF LogFails
<1> HIDE DEF r
<1>4. arg' = [arg EXCEPT ![t] = NoArg]
  BY <1>1, <1>3, InLoop DEF TypeOK
<1> QED
  BY <1>1, <1>2, <1>3, <1>4, InLoop, AbortEffect, HolderRecordStep

(* TML_WRITE_DIRECT up to its store.                                        *)
LEMMA WriteStep ==
  ASSUME IInv, NEW t \in Threads, NEW a \in Addrs, NEW v \in Vals, Write(t, a, v)
  PROVE  IInv'
<1>1. /\ AtWork(t) /\ pc[t] = "run" /\ InWork(tx[t]) /\ TypeOK /\ ~Committed(t)
      /\ UNCHANGED <<crashes, hist, seen, lost>>
  BY InLoop DEF Write, AtWork
<1>2. CASE LoseRace(t)
  BY <1>1, <1>2, LoseRaceStep
<1>3. CASE Acquire(t) /\ LogFails(t)
  BY <1>1, <1>3, LogFailsStep
<1>4. CASE Acquire(t) /\ LogRange(t, a, v)
  <2> DEFINE u == AddRange(undo[t], mem, a, NoVal)
             w == <<a, v>>
  <2>1. HolderNow(t)
    BY <1>1, <1>4, AcquireHolds
  <2>2. /\ undo' = [undo EXCEPT ![t] = u] /\ arg' = [arg EXCEPT ![t] = w]
        /\ pc' = [pc EXCEPT ![t] = "store"] /\ UNCHANGED <<mem, tx, own, frees>>
    BY <1>1, <1>4 DEF LogRange, Goto, TypeOK
  <2>3. w \in Addrs \X Contents /\ w # NoArg /\ w[1] = a
    BY DEF Contents, NoArg
  <2>4. /\ mem \in [Addrs -> Contents] /\ undo[t] \in [Addrs -> Contents \cup {NoVal}]
        /\ NoVal \notin Contents
    BY <1>1, ConstAssumption DEF TypeOK, Contents
  <2> HIDE DEF w
  <2>5. u \in [Addrs -> Contents \cup {NoVal}] /\ u[a] # NoVal
        /\ Overlay(mem, u, NoVal) = Overlay(mem, undo[t], NoVal)
    <3> DEFINE U == undo[t]
    <3>1. U \in [Addrs -> Contents \cup {NoVal}]
      BY <2>4
    <3> HIDE DEF U
    <3>2. /\ AddRange(U, mem, a, NoVal) \in [Addrs -> Contents \cup {NoVal}]
          /\ AddRange(U, mem, a, NoVal)[a] # NoVal
          /\ Overlay(mem, AddRange(U, mem, a, NoVal), NoVal) = Overlay(mem, U, NoVal)
      BY <2>4, <3>1, LogKeeps
    <3> QED
      BY <3>2 DEF U
  <2> HIDE DEF u
  <2>6. /\ OthersSame(t) /\ pc'[t] = "store" /\ arg'[t] = w /\ undo'[t] = u
        /\ own'[t] = own[t]
    BY <1>1, <2>1, <2>2 DEF TypeOK, OthersSame, HolderNow
  <2>7. TypeOK'
    BY <1>1, <2>1, <2>2, <2>3, <2>5 DEF TypeOK, HolderNow
  <2>8. /\ mem' = Overlay(hist[glb' - 1], own'[t], NoVal)
        /\ Overlay(mem', undo'[t], NoVal) = hist[glb' - 1]
    BY <1>1, <2>1, <2>2, <2>5, <2>6 DEF HolderNow
  <2> QED
    BY <1>1, <2>1, <2>2, <2>3, <2>5, <2>6, <2>7, <2>8, InPlaceStep
<1> QED
  BY <1>2, <1>3, <1>4 DEF Write

(* The store.                                                               *)
LEMMA StoreStep ==
  ASSUME IInv, NEW t \in Threads, Store(t)
  PROVE  IInv'
<1> DEFINE a == arg[t][1]
           v == arg[t][2]
           o == [own[t] EXCEPT ![a] = v]
<1>1. /\ TypeOK /\ ThreadInv(t) /\ pc[t] = "store" /\ InWork(tx[t]) /\ ~Committed(t)
      /\ Holds(t) /\ undo[t][a] # NoVal /\ a \in Addrs /\ v \in Contents
      /\ NoVal \notin Contents
  BY ConstAssumption
  DEF IInv, TypeOK, Store, ThreadInv, ControlInv, StoreInv, Committed, Contents
<1>2. /\ UNCHANGED <<glb, loc, irrevoc, tx, undo, frees, crashes, hist, seen, lost>>
      /\ mem' = [mem EXCEPT ![a] = v] /\ own' = [own EXCEPT ![t] = o]
      /\ arg' = [arg EXCEPT ![t] = NoArg] /\ pc' = [pc EXCEPT ![t] = "run"]
  BY <1>1 DEF Store, Goto, lockVars, logVars, TypeOK
<1> HIDE DEF a, v
<1>3. HolderNow(t) /\ glb' = glb
  BY <1>1, <1>2, KeepHolds DEF lockVars
<1>4. /\ mem \in [Addrs -> Contents] /\ own[t] \in [Addrs -> Contents \cup {NoVal}]
      /\ undo[t] \in [Addrs -> Contents \cup {NoVal}] /\ frees[t] \in SUBSET Addrs
      /\ hist[glb - 1] \in [Addrs -> Contents]
      /\ mem = Overlay(hist[glb - 1], own[t], NoVal)
      /\ Overlay(mem, undo[t], NoVal) = hist[glb - 1]
  BY <1>1, <1>2, <1>3 DEF TypeOK, HolderNow
<1>5. mem' \in [Addrs -> Contents] /\ o \in [Addrs -> Contents \cup {NoVal}]
  BY <1>1, <1>2, <1>4
<1>6. mem' = Overlay(hist[glb - 1], o, NoVal)
  BY <1>1, <1>2, <1>4 DEF Overlay
<1>7. Overlay(mem', undo[t], NoVal) = hist[glb - 1]
  BY <1>1, <1>2, <1>4, StoreKeeps
<1> HIDE DEF o
<1>8. /\ OthersSame(t) /\ pc'[t] = "run" /\ arg'[t] = NoArg /\ undo'[t] = undo[t]
      /\ own'[t] = o
  BY <1>1, <1>2 DEF TypeOK, OthersSame
<1>9. TypeOK'
  BY <1>1, <1>2, <1>5 DEF TypeOK
<1> QED
  BY <1>1, <1>2, <1>3, <1>6, <1>7, <1>8, <1>9, InPlaceStep

(* TML_FREE and TML_IRREVOC, that take the lock.                            *)
LEMMA AcquireStep ==
  ASSUME IInv, NEW t \in Threads, AtWork(t), Acquire(t),
         NEW F \in SUBSET Addrs, frees' = [frees EXCEPT ![t] = F],
         UNCHANGED <<mem, tx, pc, arg, undo, own, crashes, hist, seen, lost>>
  PROVE  IInv'
<1>1. pc[t] = "run" /\ InWork(tx[t]) /\ HolderNow(t) /\ TypeOK /\ ~Committed(t)
      /\ arg[t] = NoArg
  BY AcquireHolds, InLoop DEF AtWork
<1>2. OthersSame(t) /\ TypeOK'
  BY <1>1 DEF TypeOK, OthersSame, HolderNow
<1>3. /\ mem' = Overlay(hist[glb' - 1], own'[t], NoVal)
      /\ Overlay(mem', undo'[t], NoVal) = hist[glb' - 1]
  BY <1>1 DEF HolderNow
<1> QED
  BY <1>1, <1>2, <1>3, InPlaceStep

(* TML_FREE.                                                                *)
LEMMA FreeStep ==
  ASSUME IInv, NEW t \in Threads, NEW a \in Addrs, Free(t, a)
  PROVE  IInv'
<1>1. AtWork(t) /\ UNCHANGED <<crashes, hist, seen, lost>> /\ TypeOK
  BY DEF Free, IInv
<1>2. CASE LoseRace(t)
  BY <1>1, <1>2, LoseRaceStep
<1>3. CASE Acquire(t) /\ frees' = [frees EXCEPT ![t] = @ \cup {a}]
           /\ UNCHANGED <<mem, tx, pc, arg, undo, own>>
  <2>1. frees[t] \cup {a} \in SUBSET Addrs /\ frees' = [frees EXCEPT ![t] = frees[t] \cup {a}]
    BY <1>1, <1>3 DEF TypeOK
  <2> QED
    BY <1>1, <1>3, <2>1, AcquireStep
<1> QED
  BY <1>2, <1>3 DEF Free

(* TML_IRREVOC.                                                             *)
LEMMA IrrevocStep ==
  ASSUME IInv, NEW t \in Threads, Irrevoc(t)
  PROVE  IInv'
<1>1. AtWork(t) /\ UNCHANGED <<crashes, hist, seen, lost>> /\ TypeOK
  BY DEF Irrevoc, IInv
<1>2. CASE LoseRace(t)
  BY <1>1, <1>2, LoseRaceStep
<1>3. CASE Acquire(t) /\ UNCHANGED <<mem, tx, pc, arg, logVars, own>>
  <2>1. frees[t] \in SUBSET Addrs /\ frees' = [frees EXCEPT ![t] = frees[t]]
    BY <1>1, <1>3 DEF TypeOK, logVars
  <2> QED
    BY <1>1, <1>3, <2>1, AcquireStep DEF logVars
<1> QED
  BY <1>2, <1>3 DEF Irrevoc

(* pmemobj_tx_commit of the outermost block, by the holder: the pool has    *)
(* all of the transaction's writes and frees, and the log is gone.          *)
LEMMA CommitEffect ==
  ASSUME IInv, NEW t \in Threads, AtWork(t), Commit(t), Outermost(tx[t])
  PROVE  /\ mem' \in [Addrs -> Contents]
         /\ own' \in [Threads -> [Addrs -> Contents \cup {NoVal}]]
         /\ own' = [own EXCEPT ![t] = Reclaim(t, own[t])]
         /\ undo' = [undo EXCEPT ![t] = NoLog] /\ frees' = [frees EXCEPT ![t] = {}]
         /\ undo' \in [Threads -> [Addrs -> Contents \cup {NoVal}]]
         /\ frees' \in [Threads -> SUBSET Addrs]
         /\ Holds(t) => mem' = Overlay(hist[glb - 1], own'[t], NoVal)
         /\ ~Holds(t) => Keeps(t)
<1>1. /\ TypeOK /\ mem' = Reclaim(t, mem) /\ own' = [own EXCEPT ![t] = Reclaim(t, own[t])]
      /\ undo' = [undo EXCEPT ![t] = NoLog] /\ frees' = [frees EXCEPT ![t] = {}]
  BY DEF Commit, Discard, IInv
<1>2. Junk \in Contents /\ Junk # NoVal
  BY ConstAssumption DEF Contents
<1>3. /\ mem \in [Addrs -> Contents] /\ own[t] \in [Addrs -> Contents \cup {NoVal}]
      /\ own'[t] = Reclaim(t, own[t])
  BY <1>1 DEF TypeOK
<1>4. mem' \in [Addrs -> Contents] /\ Reclaim(t, own[t]) \in [Addrs -> Contents \cup {NoVal}]
  BY <1>1, <1>2, <1>3 DEF Reclaim
<1>5. /\ own' \in [Threads -> [Addrs -> Contents \cup {NoVal}]]
      /\ undo' \in [Threads -> [Addrs -> Contents \cup {NoVal}]]
      /\ frees' \in [Threads -> SUBSET Addrs]
  BY <1>1, <1>4 DEF TypeOK, NoLog
<1>6. Holds(t) => mem' = Overlay(hist[glb - 1], own'[t], NoVal)
  <2> SUFFICES ASSUME Holds(t) PROVE mem' = Overlay(hist[glb - 1], own'[t], NoVal)
    OBVIOUS
  <2>1. mem = Overlay(hist[glb - 1], own[t], NoVal) /\ hist[glb - 1] \in [Addrs -> Contents]
    <3>1. UNCHANGED lockVars
      BY DEF Commit
    <3> QED
      BY <3>1, KeepHolds DEF HolderNow, lockVars
  <2> QED
    BY <1>1, <1>2, <1>3, <2>1 DEF Overlay, Reclaim
<1>7. ~Holds(t) => Keeps(t)
  <2> SUFFICES ASSUME ~Holds(t) PROVE Keeps(t)
    OBVIOUS
  <2>1. undo[t] = NoLog /\ frees[t] = {}
    BY DEF IInv, ThreadInv, LogOf
  <2>2. Reclaim(t, mem) = mem /\ Reclaim(t, own[t]) = own[t]
    BY <1>3, <2>1 DEF Reclaim
  <2> QED
    BY <1>1, <2>1, <2>2 DEF Keeps, TypeOK
<1> QED
  BY <1>1, <1>4, <1>5, <1>6, <1>7

(* The commit of a block.                                                   *)
LEMMA CommitStep ==
  ASSUME IInv, NEW t \in Threads, Commit(t)
  PROVE  IInv'
<1> DEFINE r == TxCommit(tx[t])
<1>1. /\ AtWork(t) /\ pc[t] = "run" /\ InWork(tx[t]) /\ TypeOK /\ ThreadInv(t) /\ InTx(t)
      /\ ~Committed(t) /\ arg[t] = NoArg
  BY InLoop DEF Commit, AtWork
<1>2. /\ r \in PmRecord /\ r.stage = "ONCOMMIT" /\ r.depth = tx[t].depth
      /\ r.retry = tx[t].retry /\ r.err = tx[t].err /\ r.err = "none"
  BY <1>1, InLoop, TxStageFields
<1>3. tx' = [tx EXCEPT ![t] = r]
  BY DEF Commit
<1> HIDE DEF r
<1>4. GoodRecord(t, r) /\ tx'[t] = r
  BY <1>1, <1>2, <1>3, InLoop DEF GoodRecord, TypeOK
<1>5. /\ pc' = [pc EXCEPT ![t] = "run"] /\ arg' = [arg EXCEPT ![t] = NoArg]
      /\ UNCHANGED <<glb, loc, irrevoc, crashes, hist, seen, lost>>
  BY <1>1 DEF Commit, TypeOK, lockVars
<1>6. CASE ~Outermost(tx[t])
  <2>1. Keeps(t) /\ ~Outermost(r)
    BY <1>2, <1>6 DEF Commit, Keeps, logVars, Outermost
  <2> QED
    BY <1>1, <1>2, <1>3, <1>4, <1>5, <2>1, LoopStep
<1>7. CASE Outermost(tx[t]) /\ ~Holds(t)
  <2>1. Keeps(t) /\ loc' \in [Threads -> Nat]
    BY <1>1, <1>5, <1>7, CommitEffect DEF TypeOK
  <2> QED
    BY <1>1, <1>3, <1>4, <1>5, <1>7, <2>1, QuietRecordStep
<1>8. CASE Outermost(tx[t]) /\ Holds(t)
  <2>1. HolderNow(t) /\ glb' = glb
    BY <1>5, <1>8, KeepHolds DEF lockVars
  <2>2. /\ mem' \in [Addrs -> Contents]
        /\ own' \in [Threads -> [Addrs -> Contents \cup {NoVal}]]
        /\ own' = [own EXCEPT ![t] = Reclaim(t, own[t])]
        /\ undo' = [undo EXCEPT ![t] = NoLog] /\ frees' = [frees EXCEPT ![t] = {}]
        /\ undo' \in [Threads -> [Addrs -> Contents \cup {NoVal}]]
        /\ frees' \in [Threads -> SUBSET Addrs]
        /\ mem' = Overlay(hist[glb - 1], own'[t], NoVal)
    BY <1>1, <1>8, CommitEffect
  <2>3. /\ OthersSame(t) /\ pc'[t] = "run" /\ arg'[t] = NoArg
        /\ undo'[t] = NoLog /\ frees'[t] = {}
    BY <1>1, <1>3, <1>5, <2>2 DEF OthersSame, TypeOK
  <2>4. TypeOK'
    BY <1>1, <1>2, <1>3, <1>5, <2>2 DEF TypeOK
  <2>5. Holds(t)' /\ InTx(t)' /\ Committed(t)'
    BY <1>1, <1>2, <1>4, <1>5, <1>8 DEF Holds, InTx, Committed, Outermost, InWork
  <2>6. ThreadInv(t)'
    <3>1. ControlInv(t)'
      BY <1>2, <1>4, <2>3, <2>5 DEF ControlInv, GoodRecord, InWork
    <3>2. LogOf(t)'
      BY <1>5, <2>1, <2>2, <2>5 DEF LogOf, HolderNow
    <3>3. StoreInv(t)'
      BY <1>2, <1>4, <2>3 DEF StoreInv, NoLog
    <3>4. ReaderInv(t)'
      BY <1>5, <2>3, <2>5, <2>1 DEF ReaderInv, HolderNow
    <3>5. Opaque(t)'
      BY <1>1, <1>2, <1>4, <1>5 DEF ThreadInv, Opaque, Version
    <3> QED
      BY <3>1, <3>2, <3>3, <3>4, <3>5 DEF ThreadInv
  <2> QED
    BY <1>5, <1>8, <2>3, <2>4, <2>5, <2>6, HolderStep
<1> QED
  BY <1>6, <1>7, <1>8

--------------------------------------------------------------------------------
(* The outermost tml_tx_end. *)

(* What is known of a thread there: its transaction is committed, with all  *)
(* of its writes in the pool, or has been rolled back, and has no log.      *)
LEMMA AtEnd ==
  ASSUME IInv, NEW t \in Threads, End(t)
  PROVE  /\ TypeOK /\ ThreadInv(t) /\ InTx(t) /\ tx[t] \in PmRecord /\ arg[t] = NoArg
         /\ tx[t].depth = 1 /\ undo[t] = NoLog /\ frees[t] = {}
         /\ tx[t].err # "none" => own[t] = NoLog
         /\ tx[t].retry <=> tx[t].err = "restart"
         /\ Holds(t) => /\ loc[t] = glb /\ ~IsEven(glb) /\ ~lost
                        /\ hist[glb - 1] \in [Addrs -> Contents]
                        /\ mem = Overlay(hist[glb - 1], own[t], NoVal)
                        /\ tx[t].err # "none" => mem = hist[glb - 1]
         /\ ~Holds(t) => own[t] = NoLog /\ (tx[t].retry \/ IsEven(loc[t]))
<1>1. pc[t] = "run" /\ tx[t].depth = 1 /\ Outermost(tx[t]) /\ tx[t].stage = "NONE"
      /\ ~InWork(tx[t])
  BY DEF End, Outermost, InWork
<1>2. TypeOK /\ ThreadInv(t) /\ InTx(t) /\ tx[t] \in PmRecord /\ arg[t] = NoArg
      /\ (tx[t].retry <=> tx[t].err = "restart")
  BY <1>1, InLoop
<1>3. undo[t] = NoLog /\ frees[t] = {} /\ (tx[t].err # "none" => own[t] = NoLog)
  BY <1>1, <1>2 DEF ThreadInv, StoreInv
<1>4. Holds(t) => /\ loc[t] = glb /\ ~IsEven(glb) /\ ~lost
                  /\ hist[glb - 1] \in [Addrs -> Contents]
                  /\ mem = Overlay(hist[glb - 1], own[t], NoVal)
  BY <1>2 DEF ThreadInv, LogOf, IInv, HistoryInv, TypeOK
<1>5. Holds(t) /\ tx[t].err # "none" => mem = hist[glb - 1]
  BY <1>3, <1>4, OverlayNone DEF NoLog
<1>6. ~Holds(t) => own[t] = NoLog /\ (tx[t].retry \/ IsEven(loc[t]))
  BY <1>2 DEF ThreadInv, LogOf, ReaderInv, Holds
<1> QED
  BY <1>1, <1>2, <1>3, <1>4, <1>5, <1>6

(* What the end of a transaction does to t's own variables.                 *)
LEMMA EndEffect ==
  ASSUME IInv, NEW t \in Threads, End(t)
  PROVE  /\ OthersSame(t) /\ TypeOK' /\ ~InTx(t)' /\ ~Holds(t)' /\ ThreadInv(t)'
         /\ UNCHANGED <<mem, crashes>>
<1> DEFINE r == TxEnd(tx[t])
           l == IF Retries(tx[t]) THEN "begin" ELSE "idle"
<1>1. TypeOK /\ tx[t] \in PmRecord /\ tx[t].depth = 1 /\ InTx(t) /\ arg[t] = NoArg
      /\ undo[t] = NoLog /\ frees[t] = {}
  BY AtEnd
<1>2. r \in PmRecord /\ r.stage = "NONE" /\ r.depth = 0
  BY <1>1, TxEndFields
<1>3. /\ tx' = [tx EXCEPT ![t] = r] /\ pc' = [pc EXCEPT ![t] = l]
      /\ seen' = [seen EXCEPT ![t] = {}] /\ own' = [own EXCEPT ![t] = NoLog]
      /\ UNCHANGED <<mem, loc, irrevoc, arg, undo, frees, crashes>>
      /\ lost' = (lost \/ (irrevoc[t] /\ tx[t].retry))
  BY DEF End, Goto, logVars
<1>4. l \in {"begin", "idle"}
  OBVIOUS
<1> HIDE DEF r, l
<1>5. /\ OthersSame(t) /\ tx'[t] = r /\ pc'[t] = l /\ seen'[t] = {} /\ own'[t] = NoLog
  BY <1>1, <1>3 DEF TypeOK, OthersSame
<1>6. TypeOK'
  <2>1. /\ glb' \in Nat /\ DOMAIN hist' \subseteq Nat
        /\ \A g \in DOMAIN hist' : hist'[g] \in [Addrs -> Contents]
    BY <1>1 DEF End, OnEnd, TypeOK
  <2>2. lost' \in BOOLEAN
    BY <1>1, <1>3 DEF TypeOK
  <2>3. own' \in [Threads -> [Addrs -> Contents \cup {NoVal}]]
    BY <1>1, <1>3 DEF TypeOK, NoLog
  <2> QED
    BY <1>1, <1>2, <1>3, <1>4, <2>1, <2>2, <2>3 DEF TypeOK
<1>7. ~InTx(t)' /\ ~Holds(t)'
  BY <1>2, <1>5 DEF InTx, Holds
<1>8. ThreadInv(t)'
  <2>1. ControlInv(t)'
    BY <1>1, <1>2, <1>3, <1>4, <1>5, <1>7 DEF ControlInv, InWork
  <2>2. LogOf(t)' /\ StoreInv(t)' /\ ReaderInv(t)' /\ Opaque(t)'
    BY <1>1, <1>2, <1>3, <1>4, <1>5, <1>7
    DEF LogOf, StoreInv, ReaderInv, Opaque, Outermost, NoLog
  <2> QED
    BY <2>1, <2>2 DEF ThreadInv
<1> QED
  BY <1>3, <1>5, <1>6, <1>7, <1>8

(* tml_on_end gives the lock back: what is in the pool is the new version,  *)
(* and every other transaction runs on an older one.                        *)
LEMMA PublishInv ==
  ASSUME IInv, NEW t \in Threads, End(t), Holds(t), ~tx[t].retry
  PROVE  IInv'
<1>1. /\ TypeOK /\ OthersSame(t) /\ TypeOK' /\ ~Holds(t)' /\ ThreadInv(t)' /\ mem' = mem
      /\ loc[t] = glb /\ ~IsEven(glb) /\ ~lost /\ glb \in Nat
  BY AtEnd, EndEffect DEF TypeOK
<1>2. /\ glb' = glb + 1 /\ IsEven(glb') /\ ~lost' /\ glb' > glb
      /\ hist' = [g \in DOMAIN hist \cup {glb + 1} |-> IF g = glb + 1 THEN mem ELSE hist[g]]
  <2>1. /\ glb' = glb + 1
        /\ hist' = [g \in DOMAIN hist \cup {glb + 1} |->
                      IF g = glb + 1 THEN mem ELSE hist[g]]
    BY <1>1 DEF End, OnEnd
  <2>2. IsEven(glb + 1) /\ glb + 1 # glb /\ glb + 1 > glb
    BY <1>1, Parity
  <2>3. lost' = lost
    BY <1>1 DEF End, TypeOK
  <2> QED
    BY <1>1, <2>1, <2>2, <2>3
<1>3. \A s \in Threads : s # t => ~Holds(s) /\ ~Holds(s)'
  BY <1>1 DEF IInv, OneHolder, OthersSame, Holds, InTx
<1>4. \A g \in DOMAIN hist : g \in DOMAIN hist' /\ hist'[g] = hist[g] /\ g <= glb
                             /\ IsEven(g) /\ g \in Nat
  BY <1>1, <1>2 DEF IInv, HistoryInv, TypeOK
<1>5. LockInv'
  BY <1>1, <1>2 DEF LockInv
<1>6. HistoryInv'
  BY <1>1, <1>2, <1>4 DEF HistoryInv
<1>7. OneHolder'
  BY <1>1, <1>3 DEF OneHolder
<1>8. ASSUME NEW s \in Threads, s # t PROVE ThreadInv(s)'
  <2>1. /\ tx'[s] = tx[s] /\ loc'[s] = loc[s] /\ irrevoc'[s] = irrevoc[s]
        /\ pc'[s] = pc[s] /\ arg'[s] = arg[s] /\ undo'[s] = undo[s]
        /\ frees'[s] = frees[s] /\ seen'[s] = seen[s] /\ own'[s] = own[s]
    BY <1>1, <1>8 DEF OthersSame
  <2>2. ThreadInv(s) /\ ~Holds(s) /\ ~Holds(s)' /\ loc[s] \in Nat
    BY <1>1, <1>3, <1>8 DEF IInv, TypeOK
  <2>3. ControlInv(s)' /\ StoreInv(s)' /\ LogOf(s)'
    BY <2>1, <2>2 DEF ThreadInv, ControlInv, StoreInv, InTx, LogOf, NoLog
  <2>4. /\ pc[s] = "read" => InTx(s) /\ ~irrevoc[s] /\ ~tx[s].retry
        /\ InTx(s) /\ ~tx[s].retry =>
             ~irrevoc[s] /\ IsEven(loc[s]) /\ loc[s] \in DOMAIN hist /\ loc[s] <= glb
    BY <2>2 DEF ThreadInv, ControlInv, ReaderInv, Holds
  <2>5. ReaderInv(s)'
    BY <1>1, <1>2, <1>4, <2>1, <2>2, <2>4 DEF ThreadInv, ReaderInv, InTx
  <2>6. Opaque(s)'
    BY <1>4, <2>1, <2>2, <2>4 DEF ThreadInv, Opaque, Version, InTx
  <2> QED
    BY <2>3, <2>5, <2>6 DEF ThreadInv
<1> QED
  BY <1>1, <1>5, <1>6, <1>7, <1>8 DEF IInv

(* It leaves the lock behind: a restart of a transaction that had it, so    *)
(* the pool is the last version, but nobody will run any more.              *)
LEMMA LeftBehindInv ==
  ASSUME IInv, NEW t \in Threads, End(t), Holds(t), tx[t].retry
  PROVE  IInv'
<1>1. /\ TypeOK /\ OthersSame(t) /\ TypeOK' /\ ~Holds(t)' /\ ThreadInv(t)' /\ mem' = mem
      /\ ~IsEven(glb) /\ mem = hist[glb - 1]
  BY AtEnd, EndEffect
<1>2. UNCHANGED <<glb, hist>> /\ lost'
  BY DEF End, OnEnd, Holds
<1>3. \A s \in Threads : s # t => ~Holds(s) /\ ~Holds(s)'
  BY <1>1 DEF IInv, OneHolder, OthersSame, Holds, InTx
<1>4. LockInv' /\ HistoryInv' /\ OneHolder'
  BY <1>1, <1>2, <1>3 DEF IInv, LockInv, HistoryInv, OneHolder
<1>5. ASSUME NEW s \in Threads, s # t PROVE ThreadInv(s)'
  <2>1. /\ tx'[s] = tx[s] /\ loc'[s] = loc[s] /\ irrevoc'[s] = irrevoc[s]
        /\ pc'[s] = pc[s] /\ arg'[s] = arg[s] /\ undo'[s] = undo[s]
        /\ frees'[s] = frees[s] /\ seen'[s] = seen[s] /\ own'[s] = own[s]
    BY <1>1, <1>5 DEF OthersSame
  <2>2. ThreadInv(s) /\ ~Holds(s) /\ ~Holds(s)'
    BY <1>3, <1>5 DEF IInv
  <2>3. ControlInv(s)' /\ StoreInv(s)' /\ LogOf(s)'
    BY <2>1, <2>2 DEF ThreadInv, ControlInv, StoreInv, InTx, LogOf, NoLog
  <2>4. ReaderInv(s)' /\ Opaque(s)'
    BY <1>1, <1>2, <2>1, <2>2 DEF ThreadInv, ReaderInv, Opaque, Version, InTx
  <2> QED
    BY <2>3, <2>4 DEF ThreadInv
<1> QED
  BY <1>1, <1>4, <1>5 DEF IInv

(* tml_on_end's test (retry, then the parity of loc) releases the lock only *)
(* if t holds it.                                                           *)
LEMMA EndStep ==
  ASSUME IInv, NEW t \in Threads, End(t)
  PROVE  IInv'
<1>1. CASE Holds(t)
  BY <1>1, PublishInv, LeftBehindInv
<1>2. CASE ~Holds(t)
  <2>1. UNCHANGED <<glb, hist>>
    BY <1>2, AtEnd DEF End, OnEnd
  <2>2. lost' = lost
    BY <1>2, AtEnd DEF End, Holds, TypeOK
  <2> QED
    BY <1>2, <2>1, <2>2, EndEffect, QuietStep
<1> QED
  BY <1>1, <1>2

--------------------------------------------------------------------------------
(* A crash. *)

(* Recovery undoes the writes of the transaction that had the lock, if it   *)
(* had not committed, and does nothing otherwise.                           *)
LEMMA RecoverEffect ==
  ASSUME IInv, NEW order \in SetToSeqs(Threads)
  PROVE  /\ Recovered(order) \in [Addrs -> Contents]
         /\ (\A t \in Threads : ~Holds(t)) => Recovered(order) = mem
         /\ \A t \in Threads : Holds(t) => Recovered(order) = Overlay(mem, undo[t], NoVal)
<1> DEFINE logs == [i \in DOMAIN order |-> undo[order[i]]]
<1>1. TypeOK /\ mem \in [Addrs -> Contents] /\ DOMAIN logs = DOMAIN order
  BY DEF IInv, TypeOK
<1>2. Recovered(order) = Recover(mem, logs, NoVal)
  BY DEF Recovered
<1>3. \A i \in DOMAIN order : order[i] \in Threads
  BY DEF SetToSeqs
<1>4. \A i \in DOMAIN order : logs[i] = undo[order[i]]
  OBVIOUS
<1> HIDE DEF logs
<1>5. \A t \in Threads : ~Holds(t) => undo[t] = [a \in Addrs |-> NoVal]
  BY DEF IInv, ThreadInv, LogOf, NoLog
<1>6. CASE \A t \in Threads : ~Holds(t)
  <2>1. \A i \in DOMAIN logs : logs[i] = [a \in Addrs |-> NoVal]
    BY <1>1, <1>3, <1>4, <1>5, <1>6
  <2> QED
    BY <1>1, <1>2, <1>6, <2>1, RecoverNone
<1>7. ASSUME NEW t \in Threads, Holds(t)
      PROVE  Recovered(order) = Overlay(mem, undo[t], NoVal)
             /\ Recovered(order) \in [Addrs -> Contents]
  <2>1. PICK i \in DOMAIN order :
          order[i] = t /\ \A j \in DOMAIN order : j # i => order[j] # t
    BY EveryLane, ConstAssumption
  <2>2. \A j \in DOMAIN logs : j # i => logs[j] = [a \in Addrs |-> NoVal]
    BY <1>1, <1>3, <1>4, <1>5, <1>7, <2>1 DEF IInv, OneHolder
  <2>3. Recovered(order) = Overlay(mem, logs[i], NoVal)
    BY <1>1, <1>2, <2>1, <2>2, RecoverOne
  <2>4. undo[t] \in [Addrs -> Contents \cup {NoVal}]
    BY <1>1 DEF TypeOK
  <2> QED
    BY <1>1, <1>4, <2>1, <2>3, <2>4, OverlayType
<1> QED
  BY <1>1, <1>6, <1>7

(* After a crash the pool is a version, and nobody runs.                    *)
LEMMA CrashStep == IInv /\ Crash => IInv'
<1> SUFFICES ASSUME IInv, Crash PROVE IInv'
  OBVIOUS
<1>1. TypeOK /\ mem' \in [Addrs -> Contents]
  BY RecoverEffect DEF Crash, IInv
<1>2. TypeOK'
  <2>1. glb' \in Nat /\ crashes' \in 0..MaxCrashes
    BY <1>1, ConstAssumption DEF Crash, TypeOK
  <2>2. lost' \in BOOLEAN
    BY DEF Crash
  <2>3. /\ tx' \in [Threads -> PmRecord] /\ loc' \in [Threads -> Nat]
        /\ irrevoc' \in [Threads -> BOOLEAN]
        /\ pc' \in [Threads -> {"idle", "begin", "run", "read", "store"}]
        /\ arg' \in [Threads -> (Addrs \X Contents) \cup {NoArg}]
    BY TxIdleFields DEF Crash
  <2>4. /\ undo' \in [Threads -> [Addrs -> Contents \cup {NoVal}]]
        /\ frees' \in [Threads -> SUBSET Addrs]
        /\ own' \in [Threads -> [Addrs -> Contents \cup {NoVal}]]
        /\ seen' \in [Threads -> SUBSET (Addrs \X Contents)]
    BY DEF Crash, NoLog
  <2>5. /\ DOMAIN hist' \subseteq Nat
        /\ \A g \in DOMAIN hist' : hist'[g] \in [Addrs -> Contents]
    BY <1>1 DEF Crash
  <2> QED
    BY <1>1, <2>1, <2>2, <2>3, <2>4, <2>5 DEF TypeOK
<1>3. IsEven(0)
  BY DEF IsEven
<1>4. LockInv' /\ HistoryInv'
  BY <1>3 DEF Crash, LockInv, HistoryInv
<1>5. ASSUME NEW t \in Threads PROVE ThreadInv(t)' /\ ~Holds(t)'
  <2>1. /\ tx'[t] = TxIdle /\ pc'[t] = "idle" /\ arg'[t] = NoArg /\ seen'[t] = {}
        /\ undo'[t] = NoLog /\ own'[t] = NoLog /\ frees'[t] = {}
        /\ tx'[t].stage = "NONE" /\ tx'[t].depth = 0
    BY TxIdleFields DEF Crash
  <2>2. ~InTx(t)' /\ ~Holds(t)'
    BY <2>1 DEF InTx, Holds
  <2>3. ControlInv(t)'
    BY <2>1, <2>2 DEF ControlInv, InWork
  <2>4. LogOf(t)' /\ StoreInv(t)' /\ ReaderInv(t)' /\ Opaque(t)'
    BY <2>1, <2>2 DEF LogOf, StoreInv, ReaderInv, Opaque, Outermost, NoLog
  <2> QED
    BY <2>2, <2>3, <2>4 DEF ThreadInv
<1> QED
  BY <1>2, <1>4, <1>5 DEF IInv, OneHolder

--------------------------------------------------------------------------------
(* Every step keeps the invariant.                                          *)
LEMMA NextInv == IInv /\ [Next]_vars => IInv'
<1> SUFFICES ASSUME IInv, [Next]_vars PROVE IInv'
  OBVIOUS
<1>1. ASSUME NEW t \in Threads, Client(t) PROVE IInv'
  BY <1>1, BeginNestedStep, ReadLoadStep, FreeStep, WriteStep, IrrevocStep, UserAbortStep,
     UserRestartStep, CommitStep DEF Client
<1>2. ASSUME NEW t \in Threads, Library(t) PROVE IInv'
  BY <1>2, SpinStep, BeginStep, ReadCheckStep, StoreStep, ProcessStep, EndNestedStep,
     EndStep DEF Library
<1>3. CASE Crash
  BY <1>3, CrashStep
<1>4. CASE UNCHANGED vars
  <2>1. UNCHANGED <<glb, mem, tx, loc, irrevoc, pc, arg, undo, frees, crashes, hist, seen,
                    own, lost>>
    BY <1>4 DEF vars
  <2>2. \A t \in Threads : Holds(t)' <=> Holds(t)
    BY <2>1 DEF Holds, InTx
  <2>3. TypeOK' /\ LockInv' /\ HistoryInv' /\ OneHolder'
    BY <2>1, <2>2 DEF IInv, TypeOK, LockInv, HistoryInv, OneHolder
  <2>4. ASSUME NEW t \in Threads PROVE ThreadInv(t)'
    <3>1. ThreadInv(t) /\ (Holds(t)' <=> Holds(t)) /\ (InTx(t)' <=> InTx(t))
      BY <2>1, <2>2 DEF IInv, InTx
    <3>2. ControlInv(t)' /\ StoreInv(t)'
      BY <2>1, <3>1 DEF ThreadInv, ControlInv, StoreInv
    <3>3. LogOf(t)'
      BY <2>1, <3>1 DEF ThreadInv, LogOf, Committed, NoLog, Overlay
    <3>4. ReaderInv(t)' /\ Opaque(t)'
      BY <2>1, <3>1 DEF ThreadInv, ReaderInv, Opaque, Version
    <3> QED
      BY <3>2, <3>3, <3>4 DEF ThreadInv
  <2> QED
    BY <2>3, <2>4 DEF IInv
<1> QED
  BY <1>1, <1>2, <1>3, <1>4 DEF Next, Finished

(* IInv is an invariant of the specification.                               *)
THEOREM Invariance == Spec => []IInv
<1> QED
  BY InitInv, NextInv, PTL DEF Spec

(* pmemobj_tx_add_range_direct before every store, the roll back in place   *)
(* and the release of the log by a commit: at every moment one transaction  *)
(* at most has a log, the holder of the lock, and until it commits the log  *)
(* leads back to the last version.                                          *)
THEOREM LogRestoresLastVersion == Spec => []LogRestoresVersion
<1>1. IInv => LogRestoresVersion
  BY DEF IInv, LogRestoresVersion, ThreadInv
<1> QED
  BY <1>1, Invariance, PTL

(* One thread at a time is irrevocable, and the lock is left behind by the  *)
(* restart of an irrevocable transaction and by nothing else.               *)
THEOREM LockLoss == Spec => []LockIsLostByRestartOnly
<1>1. IInv => LockIsLostByRestartOnly
  <2> SUFFICES ASSUME IInv PROVE LockIsLostByRestartOnly
    OBVIOUS
  <2>1. \A t \in Threads : Holds(t) => ~lost
    BY DEF IInv, ThreadInv, LogOf
  <2>2. lost => ~IsEven(glb) /\ \A t \in Threads : ~Holds(t)
    BY <2>1 DEF IInv, LockInv
  <2>3. ~IsEven(glb) /\ (\A t \in Threads : ~Holds(t)) => lost
    BY DEF IInv, LockInv
  <2> QED
    BY <2>2, <2>3 DEF LockIsLostByRestartOnly, IInv
<1> QED
  BY <1>1, Invariance, PTL

(* Opacity: what TML_READ hands over in one transaction, also one that will *)
(* be aborted, is one version's.                                            *)
THEOREM Opacity == Spec => []ReadsAreOneVersion
<1>1. IInv => ReadsAreOneVersion
  BY DEF IInv, ReadsAreOneVersion, ThreadInv
<1> QED
  BY <1>1, Invariance, PTL

--------------------------------------------------------------------------------
(* What is published, and what a crash leaves. *)

(* Only tml_on_end makes the lock even, or touches the history.             *)
LEMMA OnlyEndReleases ==
  ASSUME IInv, Next, crashes' = crashes, glb' # glb, IsEven(glb')
  PROVE  \E t \in Threads : End(t)
<1>1. ~Crash /\ ~Finished
  BY DEF Crash, Finished, vars, IInv, TypeOK
<1>2. PICK t \in Threads : Client(t) \/ Library(t)
  BY <1>1 DEF Next
<1>3. ~(AtWork(t) /\ Acquire(t))
  BY AcquireHolds DEF HolderNow
<1>4. ~Client(t)
  <2> SUFFICES ASSUME Client(t) PROVE FALSE
    OBVIOUS
  <2>1. CASE BeginNested(t) \/ UserAbort(t) \/ UserRestart(t) \/ Commit(t)
    BY <2>1 DEF BeginNested, UserAbort, UserRestart, Commit, lockVars
  <2>2. CASE \E a \in Addrs : ReadLoad(t, a)
    BY <2>2 DEF ReadLoad, lockVars
  <2>3. CASE \E a \in Addrs : Free(t, a)
    BY <1>3, <2>3 DEF Free, LoseRace
  <2>4. CASE \E a \in Addrs, v \in Vals : Write(t, a, v)
    BY <1>3, <2>4 DEF Write, LoseRace
  <2>5. CASE Irrevoc(t)
    BY <1>3, <2>5 DEF Irrevoc, LoseRace
  <2> QED
    BY <2>1, <2>2, <2>3, <2>4, <2>5 DEF Client
<1>5. CASE Library(t)
  BY <1>5 DEF Library, Spin, Begin, Sample, ReadCheck, Store, Process, EndNested, lockVars
<1> QED
  BY <1>2, <1>4, <1>5

(* A release publishes the version before with all of the holder's writes   *)
(* and frees, or, after an abort, that version itself.                      *)
LEMMA PublishLemma == IInv /\ [Next]_vars => PublishStep
<1> SUFFICES ASSUME IInv, [Next]_vars, crashes' = crashes, glb' # glb, IsEven(glb')
             PROVE  \E t \in Threads :
                      /\ Holds(t) /\ ~InTx(t)' /\ glb' = glb + 1
                      /\ hist'[glb'] = IF tx[t].err = "none"
                                       THEN Overlay(hist[glb - 1], own[t], NoVal)
                                       ELSE hist[glb - 1]
                      /\ \A p \in seen[t] : hist[glb - 1][p[1]] = p[2]
  BY DEF PublishStep
<1>1. PICK t \in Threads : End(t)
  BY OnlyEndReleases DEF vars
<1>2. Holds(t) /\ ~tx[t].retry
  BY <1>1, AtEnd DEF End, OnEnd
<1>3. /\ TypeOK /\ ThreadInv(t) /\ InTx(t) /\ loc[t] = glb /\ ~IsEven(glb) /\ glb \in Nat
      /\ mem = Overlay(hist[glb - 1], own[t], NoVal)
      /\ tx[t].err # "none" => mem = hist[glb - 1]
  BY <1>1, <1>2, AtEnd DEF TypeOK
<1>4. /\ glb' = glb + 1
      /\ hist' = [g \in DOMAIN hist \cup {glb + 1} |-> IF g = glb + 1 THEN mem ELSE hist[g]]
  BY <1>1, <1>2, <1>3 DEF End, OnEnd
<1>5. hist'[glb'] = mem
  BY <1>4
<1>6. Version(t) = glb - 1
  BY <1>3 DEF Version
<1>7. \A p \in seen[t] : hist[glb - 1][p[1]] = p[2]
  BY <1>2, <1>3, <1>6 DEF ThreadInv, Opaque
<1>8. ~InTx(t)'
  BY <1>1, EndEffect
<1> QED
  BY <1>2, <1>3, <1>4, <1>5, <1>7, <1>8

(* tml_on_end after pmemobj_tx_commit or a roll back: all, or nothing.      *)
THEOREM AllOrNothing == Spec => PublishesAllOrNothing
<1> QED
  BY Invariance, PublishLemma, PTL DEF Spec, PublishesAllOrNothing

(* Recovery finds at most the log of the one transaction that had the lock. *)
LEMMA RecoverLemma == IInv /\ [Next]_vars => RecoverStep
<1> DEFINE done == {t \in Threads : Holds(t) /\ Committed(t)}
<1> SUFFICES ASSUME IInv, [Next]_vars, crashes' # crashes
             PROVE  mem' = IF IsEven(glb) THEN hist[glb]
                           ELSE IF done = {} THEN hist[glb - 1]
                           ELSE Overlay(hist[glb - 1], own[CHOOSE t \in done : TRUE], NoVal)
  BY DEF RecoverStep
<1>1. Crash
  <2>1. ~Finished /\ ~UNCHANGED vars
    BY DEF Finished, vars
  <2>2. ASSUME NEW t \in Threads PROVE ~Client(t)
    BY DEF Client, BeginNested, ReadLoad, Free, Write, Irrevoc, UserAbort, UserRestart,
           Commit
  <2>3. ASSUME NEW t \in Threads PROVE ~Library(t)
    BY DEF Library, Spin, Begin, Sample, ReadCheck, Store, Process, EndNested, End
  <2> QED
    BY <2>1, <2>2, <2>3 DEF Next
<1>2. PICK order \in SetToSeqs(Threads) : mem' = Recovered(order)
  BY <1>1 DEF Crash
<1>3. CASE \A t \in Threads : ~Holds(t)
  <2>1. mem' = mem
    BY <1>2, <1>3, RecoverEffect
  <2>2. done = {}
    BY <1>3
  <2> QED
    BY <1>3, <2>1, <2>2 DEF IInv, LockInv
<1>4. ASSUME NEW t \in Threads, Holds(t)
      PROVE  mem' = IF IsEven(glb) THEN hist[glb]
                    ELSE IF done = {} THEN hist[glb - 1]
                    ELSE Overlay(hist[glb - 1], own[CHOOSE s \in done : TRUE], NoVal)
  <2>1. /\ ~IsEven(glb) /\ mem = Overlay(hist[glb - 1], own[t], NoVal)
        /\ Committed(t) \/ Overlay(mem, undo[t], NoVal) = hist[glb - 1]
        /\ mem \in [Addrs -> Contents]
    BY <1>4 DEF IInv, ThreadInv, LogOf, TypeOK
  <2>2. mem' = Overlay(mem, undo[t], NoVal)
    BY <1>2, <1>4, RecoverEffect
  <2>3. CASE Committed(t)
    <3>1. undo[t] = NoLog
      BY <2>3 DEF IInv, ThreadInv, StoreInv, Committed
    <3>2. mem' = mem
      BY <2>1, <2>2, <3>1, OverlayNone DEF NoLog
    <3>3. done = {t}
      BY <1>4, <2>3 DEF IInv, OneHolder
    <3>4. (CHOOSE s \in {t} : TRUE) = t
      OBVIOUS
    <3> QED
      BY <2>1, <3>2, <3>3, <3>4
  <2>4. CASE ~Committed(t)
    <3>1. done = {}
      BY <1>4, <2>4 DEF IInv, OneHolder
    <3> QED
      BY <2>1, <2>2, <2>4, <3>1
  <2> QED
    BY <2>3, <2>4
<1> QED
  BY <1>3, <1>4

(* pmemobj_open after a crash at any step: the pool is the last version     *)
(* that was released, or that one with all of a transaction that committed. *)
THEOREM CrashRecovery == Spec => RecoversLatest
<1> QED
  BY Invariance, RecoverLemma, PTL DEF Spec, RecoversLatest
================================================================================
