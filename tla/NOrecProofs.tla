------------------------------ MODULE NOrecProofs ------------------------------
(***************************************************************************)
(* The safety of NOrec for any number of threads, locations, values and    *)
(* transactions: IInv is inductive, and each property is read off it.      *)
(*                                                                         *)
(* First what a step of one thread means for the others and for the lock,  *)
(* once for steps that leave shared memory alone, once for steps of the    *)
(* holder and once for the two ends of holding; then one lemma per action, *)
(* NextInv, and the theorems.  The second part proves the refinement of    *)
(* AtomicTM from them.                                                     *)
(***************************************************************************)
EXTENDS NOrecRefines, TLAPS

--------------------------------------------------------------------------------
(* What the operators of Tx do to the fields of a transaction's record.     *)

(* tx_begin: a new block, one level down if there is one around it.         *)
LEMMA TxBeginFields ==
  ASSUME NEW x \in TxRecord
  PROVE  /\ TxBegin(x) \in TxRecord
         /\ TxBegin(x).stage = "WORK" /\ TxBegin(x).depth = x.depth + 1
         /\ TxBegin(x).level = (IF x.stage = "WORK" THEN x.level + 1 ELSE 0)
         /\ TxBegin(x).retry = FALSE /\ TxBegin(x).err = "none"
BY DEF TxRecord, Stages, Errs, TxBegin, InWork

(* tx_abort changes the stage and the error, and nothing of the nesting.    *)
LEMMA TxAbortFields ==
  ASSUME NEW x \in TxRecord, NEW e \in Errs
  PROVE  /\ TxAbort(x, e) \in TxRecord
         /\ TxAbort(x, e).stage \in {"ONRETRY", "ONABORT"}
         /\ TxAbort(x, e).depth = x.depth /\ TxAbort(x, e).level = x.level
         /\ TxAbort(x, e).retry = x.retry /\ TxAbort(x, e).err = e
BY DEF TxRecord, Stages, Errs, TxAbort

(* tx_restart: the same, and the mark that End will go back to the beginning. *)
LEMMA TxRestartFields ==
  ASSUME NEW x \in TxRecord
  PROVE  /\ TxRestart(x) \in TxRecord
         /\ TxRestart(x).stage \in {"ONRETRY", "ONABORT"}
         /\ TxRestart(x).depth = x.depth /\ TxRestart(x).level = x.level
         /\ TxRestart(x).retry = TRUE /\ TxRestart(x).err = "restart"
<1> DEFINE y == [x EXCEPT !.retry = TRUE]
<1>1. /\ y \in TxRecord /\ y.depth = x.depth
      /\ y.level = x.level /\ y.retry = TRUE
  BY DEF TxRecord
<1>2. "restart" \in Errs
  BY DEF Errs
<1> HIDE DEF y
<1>3. TxRestart(x) = TxAbort(y, "restart")
  BY DEF TxRestart, y
<1> QED
  BY <1>1, <1>2, <1>3, TxAbortFields

(* tx_commit changes the stage only.                                        *)
LEMMA TxCommitFields ==
  ASSUME NEW x \in TxRecord
  PROVE  /\ TxCommit(x) \in TxRecord
         /\ TxCommit(x).stage = "ONCOMMIT"
         /\ TxCommit(x).depth = x.depth /\ TxCommit(x).level = x.level
         /\ TxCommit(x).retry = x.retry /\ TxCommit(x).err = x.err
BY DEF TxRecord, Stages, TxCommit

(* So does tx_process.                                                      *)
LEMMA TxProcessFields ==
  ASSUME NEW x \in TxRecord
  PROVE  /\ TxProcess(x) \in TxRecord
         /\ TxProcess(x).stage \in {"FINALLY", "NONE"}
         /\ TxProcess(x).depth = x.depth /\ TxProcess(x).level = x.level
         /\ TxProcess(x).retry = x.retry /\ TxProcess(x).err = x.err
BY DEF TxRecord, Stages, TxProcess

(* tx_end of the outermost block empties the stack.                         *)
LEMMA TxEndOutermost ==
  ASSUME NEW x \in TxRecord, Outermost(x)
  PROVE  /\ TxEnd(x) \in TxRecord
         /\ TxEnd(x).stage = "NONE" /\ TxEnd(x).depth = 0
         /\ TxEnd(x).level = x.level
         /\ TxEnd(x).retry = x.retry /\ TxEnd(x).err = x.err
BY DEF TxRecord, Stages, TxEnd

(* tx_end of a nested block leaves the one around it at WORK, or failing    *)
(* with the same error.                                                     *)
LEMMA TxEndNested ==
  ASSUME NEW x \in TxRecord, x.depth > 1, x.level = x.depth - 1
  PROVE  /\ TxEnd(x) \in TxRecord
         /\ TxEnd(x).stage = "WORK" => TxEnd(x).err = "none"
         /\ TxEnd(x).stage # "NONE"
         /\ TxEnd(x).depth = x.depth - 1 /\ TxEnd(x).level = x.level - 1
         /\ TxEnd(x).retry = x.retry /\ TxEnd(x).err = x.err
<1> DEFINE y == [x EXCEPT !.stage = "WORK", !.depth = @ - 1, !.level = @ - 1]
<1>1. ~Outermost(x)
  BY DEF Outermost, TxRecord
<1>2. x.depth - 1 \in Nat /\ x.level - 1 \in Nat
  BY DEF TxRecord
<1>3. /\ y \in TxRecord /\ y.stage = "WORK" /\ y.depth = x.depth - 1
      /\ y.level = x.level - 1 /\ y.retry = x.retry /\ y.err = x.err
  BY <1>2 DEF TxRecord, Stages
<1>4. x.err \in Errs
  BY DEF TxRecord
<1>5. TxEnd(x) = IF x.err = "none" THEN y ELSE TxAbort(y, x.err)
  BY <1>1 DEF TxEnd
<1> HIDE DEF y
<1>6. /\ TxAbort(y, x.err) \in TxRecord
      /\ TxAbort(y, x.err).stage \in {"ONRETRY", "ONABORT"}
      /\ TxAbort(y, x.err).depth = y.depth /\ TxAbort(y, x.err).level = y.level
      /\ TxAbort(y, x.err).retry = y.retry /\ TxAbort(y, x.err).err = x.err
  BY <1>3, <1>4, TxAbortFields
<1> QED
  BY <1>3, <1>5, <1>6

(* A nested block that has not failed hands back to the block around it.    *)
LEMMA TxEndResumes ==
  ASSUME NEW x \in TxRecord, ~Outermost(x), x.err = "none"
  PROVE  TxEnd(x).stage = "WORK"
<1> DEFINE y == [x EXCEPT !.stage = "WORK", !.depth = @ - 1, !.level = @ - 1]
<1>1. TxEnd(x) = y
  BY DEF TxEnd
<1>2. y.stage = "WORK"
  BY DEF TxRecord
<1> QED
  BY <1>1, <1>2

--------------------------------------------------------------------------------

(* The arithmetic of the lock word.                                         *)
LEMMA Parity ==
  \A n \in Nat : /\ IsEven(n) => ~IsEven(n + 1) /\ Even(n) = n /\ Even(n + 1) = n
                 /\ ~IsEven(n) => /\ n - 1 \in Nat /\ IsEven(n - 1) /\ IsEven(n + 1)
                                  /\ Even(n) = n - 1
                 /\ Even(n) \in Nat /\ IsEven(Even(n)) /\ Even(n) <= n
BY DEF IsEven, Even

(* The variables a thread has to itself.                                    *)
Mine(s) ==
  <<tx[s], loc[s], irrevoc[s], rset[s], wset[s], pc[s], caller[s], arg[s], time[s],
    todo[s], left[s], frees[s], start[s], seen[s], own[s]>>

Opaque(s) == InTx(s) /\ ~tx[s].retry => \E g \in DOMAIN hist : Snapshot(g, s)

(* What IInv says of one thread.                                            *)
PInv(s) == ControlInv(s) /\ SetsInv(s) /\ ReaderInv(s) /\ Opaque(s)

(* IInv thread by thread.                                                   *)
LEMMA IInvIsPInv ==
  IInv <=> /\ TypeOK /\ LockHasOneHolder /\ MemoryIsVersionPlusHolder /\ HistoryInv
           /\ \A s \in Threads : PInv(s)
BY DEF IInv, PInv, ReadsAreOneVersion, Opaque

(* Versions are kept: one that explained a thread still does.               *)
LEMMA SnapshotStays ==
  ASSUME NEW s \in Threads, NEW g \in DOMAIN hist, Snapshot(g, s),
         start'[s] = start[s], seen'[s] = seen[s],
         g \in DOMAIN hist', hist'[g] = hist[g]
  PROVE  Snapshot(g, s)'
BY DEF Snapshot, Explains

(* A step of another thread.  Versions are only added, memory only changes  *)
(* while the lock is odd, and the lock only moves when s does not hold it.  *)
LEMMA OthersInv ==
  ASSUME IInv, NEW s \in Threads, Mine(s)' = Mine(s),
         glb' \in Nat, glb <= glb', Holds(s) => glb' = glb,
         \A g \in DOMAIN hist : g \in DOMAIN hist' /\ hist'[g] = hist[g],
         glb' = glb /\ IsEven(glb) => mem' = mem
  PROVE  PInv(s)' /\ (Holds(s)' <=> Holds(s)) /\ HeldAt(s)' = HeldAt(s)
         /\ Copied(s)' = Copied(s)
<1>p. TypeOK /\ PInv(s) /\ HistoryInv
  BY IInvIsPInv
<1>m. /\ tx'[s] = tx[s] /\ loc'[s] = loc[s] /\ irrevoc'[s] = irrevoc[s]
      /\ rset'[s] = rset[s] /\ wset'[s] = wset[s] /\ pc'[s] = pc[s]
      /\ caller'[s] = caller[s] /\ arg'[s] = arg[s] /\ time'[s] = time[s]
      /\ todo'[s] = todo[s] /\ left'[s] = left[s] /\ frees'[s] = frees[s]
      /\ start'[s] = start[s] /\ seen'[s] = seen[s] /\ own'[s] = own[s]
  BY DEF Mine
<1>g. /\ glb \in Nat /\ \A g \in DOMAIN hist : g \in Nat /\ IsEven(g) /\ g <= glb
      /\ start[s] \in Nat
  BY <1>p DEF TypeOK, HistoryInv
<1>1. ControlInv(s)'
  BY <1>p, <1>m DEF PInv, ControlInv, InTx, InWork, NoArg
<1>2. SetsInv(s)'
  BY <1>p, <1>m DEF PInv, SetsInv, InTx, InWork, Listed, InWset, Replaying, NoWrites
<1>3. \A g \in DOMAIN hist : Snapshot(g, s) => Snapshot(g, s)'
  BY <1>m, SnapshotStays
<1>4. Opaque(s)'
  BY <1>p, <1>m, <1>3 DEF PInv, Opaque, InTx
<1>5. ReaderInv(s)'
  <2>1. InTx(s) => start[s] <= glb'
    BY <1>p, <1>g DEF PInv, ReaderInv
  <2>2. ASSUME NEW g \in Nat, g \in DOMAIN hist, g = glb'
        PROVE  glb' = glb /\ IsEven(glb) /\ mem' = mem
    BY <1>g, <2>2
  <2>3. pc[s] = "prevalidate" /\ loc[s] = glb' => arg[s][2] = mem'[arg[s][1]]
    <3> SUFFICES ASSUME pc[s] = "prevalidate", loc[s] = glb'
                 PROVE  arg[s][2] = mem'[arg[s][1]]
      OBVIOUS
    <3>1. InTx(s) /\ ~irrevoc[s] /\ ~tx[s].retry
      BY <1>p DEF PInv, ControlInv
    <3>2. loc[s] \in DOMAIN hist
      BY <1>p, <3>1 DEF PInv, ReaderInv, Snapshot
    <3> QED
      BY <1>p, <1>g, <3>2, <2>2 DEF PInv, ReaderInv
  <2>4. pc[s] = "compare" =>
          /\ time[s] \in DOMAIN hist' /\ time[s] >= start[s]
          /\ todo[s] \subseteq rset[s]
          /\ time[s] = glb' => \A e \in rset[s] \ todo[s] : mem'[e[1]] = e[2]
    BY <1>p, <1>g, <2>2 DEF PInv, ReaderInv
  <2>5. InTx(s) /\ ~tx[s].retry /\ ~irrevoc[s] /\ pc[s] \notin {"validate", "compare"} =>
          loc[s] \in DOMAIN hist /\ Snapshot(loc[s], s)
    BY <1>p DEF PInv, ReaderInv, Snapshot
  <2>6. InTx(s) /\ irrevoc[s] => loc[s] - 1 \in DOMAIN hist /\ Snapshot(loc[s] - 1, s)
    BY <1>p DEF PInv, ReaderInv, Snapshot
  <2>7. ASSUME NEW g \in DOMAIN hist, Snapshot(g, s)
        PROVE  g \in DOMAIN hist' /\ g >= start'[s] /\ \A p \in seen'[s] : hist'[g][p[1]] = p[2]
    BY <2>7, <1>m DEF Snapshot, Explains
  <2>8. InTx(s)' /\ ~tx'[s].retry /\ ~irrevoc'[s] /\ pc'[s] \notin {"validate", "compare"} =>
          /\ loc'[s] \in DOMAIN hist' /\ loc'[s] >= start'[s]
          /\ \A p \in seen'[s] : hist'[loc'[s]][p[1]] = p[2]
    BY <2>5, <2>7, <1>m DEF InTx
  <2>9. InTx(s)' /\ irrevoc'[s] =>
          /\ loc'[s] - 1 \in DOMAIN hist' /\ loc'[s] - 1 >= start'[s]
          /\ \A p \in seen'[s] : hist'[loc'[s] - 1][p[1]] = p[2]
    BY <2>6, <2>7, <1>m DEF InTx
  <2> QED
    BY <1>m, <2>1, <2>3, <2>4, <2>8, <2>9 DEF ReaderInv, InTx, Snapshot, Explains
<1>6. (Holds(s)' <=> Holds(s)) /\ HeldAt(s)' = HeldAt(s) /\ Copied(s)' = Copied(s)
  BY <1>m DEF Holds, HeldAt, Copied, Replaying, InTx
<1> QED
  BY <1>1, <1>2, <1>4, <1>5, <1>6 DEF PInv
--------------------------------------------------------------------------------
(* Only t moves. *)
OthersSame(t) == \A s \in Threads \ {t} : Mine(s)' = Mine(s)

(* A step of t at which the lock does not move: if t holds it, memory       *)
(* follows what t has copied, and else stays as it is.                      *)
LEMMA SameLockStep ==
  ASSUME IInv, NEW t \in Threads, TypeOK', OthersSame(t), UNCHANGED <<glb, hist>>,
         PInv(t)', Holds(t)' <=> Holds(t),
         ~Holds(t) => mem' = mem,
         Holds(t) => /\ HeldAt(t)' = HeldAt(t)
                     /\ mem' = Overlay(hist[glb - 1], Copied(t)')
  PROVE  IInv'
<1>1. TypeOK /\ LockHasOneHolder /\ MemoryIsVersionPlusHolder /\ HistoryInv
  BY DEF IInv
<1>2. glb' \in Nat /\ glb <= glb' /\ glb' = glb /\ hist' = hist
  BY <1>1 DEF TypeOK
<1>3. IsEven(glb) => mem' = mem
  BY <1>1 DEF LockHasOneHolder
<1>4. ASSUME NEW s \in Threads, s # t
      PROVE  PInv(s)' /\ (Holds(s)' <=> Holds(s)) /\ HeldAt(s)' = HeldAt(s)
             /\ Copied(s)' = Copied(s)
  BY <1>2, <1>3, <1>4, OthersInv DEF OthersSame
<1>5. \A s \in Threads : PInv(s)' /\ (Holds(s)' <=> Holds(s))
                         /\ (Holds(s) => HeldAt(s)' = HeldAt(s))
  BY <1>4
<1>6. LockHasOneHolder'
  BY <1>1, <1>2, <1>5 DEF LockHasOneHolder
<1>7. MemoryIsVersionPlusHolder'
  <2>1. IsEven(glb)' => mem' = hist'[glb']
    BY <1>1, <1>2, <1>3 DEF MemoryIsVersionPlusHolder
  <2>2. ASSUME NEW s \in Threads, Holds(s)'
        PROVE  mem' = Overlay(hist[glb - 1], Copied(s)')
    <3>1. CASE s = t
      BY <3>1, <2>2
    <3>2. CASE s # t
      <4>1. Holds(s) /\ Copied(s)' = Copied(s)
        BY <3>2, <1>4, <2>2
      <4>2. ~Holds(t)
        BY <4>1, <3>2, <1>1 DEF LockHasOneHolder
      <4> QED
        BY <4>1, <4>2, <1>1 DEF MemoryIsVersionPlusHolder
    <3> QED
      BY <3>1, <3>2
  <2> QED
    BY <1>2, <2>1, <2>2 DEF MemoryIsVersionPlusHolder, Overlay
<1>8. HistoryInv'
  BY <1>1, <1>2 DEF HistoryInv
<1> QED
  BY <1>5, <1>6, <1>7, <1>8 DEF IInv, PInv, ReadsAreOneVersion, Opaque

(* A step of t that also leaves memory and what t has copied alone.         *)
LEMMA QuietStep ==
  ASSUME IInv, NEW t \in Threads, TypeOK', OthersSame(t), UNCHANGED <<glb, mem, hist>>,
         PInv(t)', Holds(t)' <=> Holds(t),
         Holds(t) => HeldAt(t)' = HeldAt(t) /\ Copied(t)' = Copied(t)
  PROVE  IInv'
<1>1. Holds(t) => mem' = Overlay(hist[glb - 1], Copied(t)')
  BY DEF IInv, MemoryIsVersionPlusHolder
<1> QED
  BY <1>1, SameLockStep

(* The facts about a thread that every lemma begins with. *)
LEMMA ThreadFacts ==
  ASSUME IInv, NEW t \in Threads
  PROVE  /\ TypeOK /\ HistoryInv /\ PInv(t) /\ ControlInv(t) /\ SetsInv(t) /\ ReaderInv(t)
         /\ Opaque(t)
         /\ tx[t] \in TxRecord /\ tx[t].depth \in Nat /\ tx[t].level \in Nat
         /\ loc[t] \in Nat /\ glb \in Nat /\ start[t] \in Nat
BY IInvIsPInv DEF PInv, TypeOK, TxRecord

(* A step of t that only rewrites its struct tx and goes back to the loop   *)
(* of a block: nesting, handlers, aborts and every kind of restart.         *)
LEMMA RecordStep ==
  ASSUME IInv, NEW t \in Threads, NEW r \in TxRecord, InTx(t),
         TypeOK', OthersSame(t), UNCHANGED <<glb, mem, hist>>,
         tx'[t] = r, pc'[t] = "run", caller'[t] = "none", arg'[t] = NoArg,
         loc'[t] = loc[t], irrevoc'[t] = irrevoc[t], rset'[t] = rset[t],
         wset'[t] = wset[t], frees'[t] = frees[t], start'[t] = start[t],
         seen'[t] = seen[t], own'[t] = own[t],
         pc[t] = "run" \/ (r.retry /\ ~Replaying(t)),
         r.depth > 0, r.level = r.depth - 1,
         r.stage = "WORK" => r.err = "none",
         r.retry <=> r.err = "restart",
         tx[t].retry => r.retry,
         irrevoc[t] => ~r.retry
  PROVE  IInv'
<1>1. ControlInv(t) /\ SetsInv(t) /\ ReaderInv(t) /\ Opaque(t)
  BY ThreadFacts
<1>2. ControlInv(t)'
  BY <1>1 DEF ControlInv, InTx, InWork
<1>3. SetsInv(t)'
  BY <1>1 DEF SetsInv, InTx, Listed, InWset, Replaying
<1>4. \A g : Snapshot(g, t)' <=> Snapshot(g, t)
  BY DEF Snapshot, Explains
<1>5. Opaque(t)'
  BY <1>1, <1>4 DEF Opaque, InTx
<1>6. ReaderInv(t)'
  <2>1. InTx(t)' /\ ~tx'[t].retry /\ ~irrevoc'[t] => Snapshot(loc[t], t)
    BY <1>1 DEF ReaderInv
  <2>2. InTx(t)' /\ irrevoc'[t] => Snapshot(loc[t] - 1, t)
    BY <1>1 DEF ReaderInv
  <2> QED
    BY <1>1, <2>1, <2>2 DEF ReaderInv, InTx, Snapshot, Explains
<1>7. /\ Holds(t)' <=> Holds(t)
      /\ HeldAt(t)' = HeldAt(t) /\ Copied(t)' = Copied(t)
  BY DEF Holds, HeldAt, Copied, Replaying, InTx
<1> QED
  BY <1>2, <1>3, <1>5, <1>6, <1>7, QuietStep DEF PInv

(* Before any thread has begun, memory is version 0 and nobody holds.       *)
LEMMA InitInv == Init => IInv
<1> SUFFICES ASSUME Init PROVE IInv
  OBVIOUS
<1> USE ConstAssumption DEF Init
<1>1. TypeOK
  BY DEF TypeOK, TxIdle, TxRecord, Stages, Errs, NoArg, NoWrites, Contents, Labels, Entries
<1>2. IsEven(0) /\ Even(0) = 0
  BY DEF IsEven, Even
<1>3. ASSUME NEW t \in Threads PROVE ~InTx(t) /\ ~Holds(t) /\ ~Replaying(t)
  BY DEF InTx, Holds, Replaying, TxIdle
<1>4. LockHasOneHolder /\ ReadsAreOneVersion /\ MemoryIsVersionPlusHolder
  BY <1>2, <1>3 DEF LockHasOneHolder, ReadsAreOneVersion, MemoryIsVersionPlusHolder
<1>5. HistoryInv
  BY <1>2 DEF HistoryInv
<1>6. ASSUME NEW t \in Threads PROVE ControlInv(t) /\ SetsInv(t) /\ ReaderInv(t)
  BY <1>3 DEF ControlInv, SetsInv, ReaderInv, TxIdle, InWork, InTx
<1> QED
  BY <1>1, <1>4, <1>5, <1>6 DEF IInv

--------------------------------------------------------------------------------
(* Steps of the block macros, and aborts.                                   *)

(* Where the client's code runs: facts for every step it takes.             *)
LEMMA AtWorkFacts ==
  ASSUME IInv, NEW t \in Threads, AtWork(t)
  PROVE  /\ InTx(t) /\ pc[t] = "run" /\ caller[t] = "none" /\ arg[t] = NoArg
         /\ tx[t].stage = "WORK" /\ tx[t].err = "none" /\ ~tx[t].retry
         /\ tx[t].level = tx[t].depth - 1 /\ tx[t].depth > 0
         /\ ~Replaying(t) /\ (Holds(t) <=> irrevoc[t])
<1>1. ControlInv(t) /\ tx[t] \in TxRecord /\ NoArg = <<>> /\ TypeOK
  BY ThreadFacts DEF NoArg
<1> QED
  BY <1>1 DEF AtWork, InWork, ControlInv, InTx, Holds, Replaying, TypeOK

(* A nested block only pushes a level.                                      *)
LEMMA BeginNestedStep ==
  ASSUME IInv, NEW t \in Threads, BeginNested(t)
  PROVE  IInv'
<1>1. /\ TypeOK /\ tx[t] \in TxRecord /\ tx[t].depth \in Nat
      /\ InTx(t) /\ pc[t] = "run" /\ caller[t] = "none" /\ arg[t] = NoArg
      /\ tx[t].stage = "WORK" /\ ~tx[t].retry /\ tx[t].level = tx[t].depth - 1
  BY ThreadFacts, AtWorkFacts DEF BeginNested
<1> DEFINE r == TxBegin(tx[t])
<1>2. /\ r \in TxRecord /\ r.depth = tx[t].depth + 1 /\ r.level = tx[t].level + 1
      /\ r.retry = FALSE /\ r.err = "none"
  BY <1>1, TxBeginFields
<1>3. tx' = [tx EXCEPT ![t] = r]
  BY DEF BeginNested
<1> HIDE DEF r
<1>4. /\ UNCHANGED <<glb, mem, hist, loc, irrevoc, rset, wset, frees, start, seen, own,
                     pc, caller, arg, time, todo, left>>
  BY DEF BeginNested, lockVars, callVars, setVars, histVars
<1>5. TypeOK' /\ OthersSame(t) /\ tx'[t] = r
  BY <1>1, <1>2, <1>3, <1>4 DEF TypeOK, OthersSame, Mine
<1>6. r.depth > 0 /\ r.level = r.depth - 1
  BY <1>1, <1>2
<1> QED
  BY <1>1, <1>2, <1>4, <1>5, <1>6, RecordStep

(* Restart and abort leave the same nesting behind.                         *)
LEMMA AbortStep ==
  ASSUME IInv, NEW t \in Threads, Abort(t)
  PROVE  IInv'
<1>1. /\ TypeOK /\ tx[t] \in TxRecord
      /\ InTx(t) /\ pc[t] = "run" /\ caller[t] = "none" /\ arg[t] = NoArg
      /\ ~tx[t].retry /\ tx[t].level = tx[t].depth - 1 /\ tx[t].depth > 0
  BY ThreadFacts, AtWorkFacts DEF Abort
<1> DEFINE r == TxAbort(tx[t], "failed")
<1>2. /\ r \in TxRecord /\ r.depth = tx[t].depth /\ r.level = tx[t].level
      /\ r.retry = tx[t].retry /\ r.err = "failed" /\ r.stage # "WORK"
  BY <1>1, TxAbortFields DEF Errs
<1>3. tx' = [tx EXCEPT ![t] = r]
  BY DEF Abort
<1> HIDE DEF r
<1>4. /\ UNCHANGED <<glb, mem, hist, loc, irrevoc, rset, wset, frees, start, seen, own,
                     pc, caller, arg, time, todo, left>>
  BY DEF Abort, lockVars, callVars, setVars, histVars
<1>5. TypeOK' /\ OthersSame(t) /\ tx'[t] = r
  BY <1>1, <1>2, <1>3, <1>4 DEF TypeOK, OthersSame, Mine
<1> QED
  BY <1>1, <1>2, <1>3, <1>4, <1>5, RecordStep

(* Restart, from the client or out of the comparison of the read set.       *)
LEMMA RestartStep ==
  ASSUME IInv, NEW t \in Threads, InTx(t), InWork(tx[t]), ~irrevoc[t], ~Replaying(t),
         Restart(t),
         UNCHANGED <<lockVars, mem, setVars, histVars>>
  PROVE  IInv'
<1>1. /\ TypeOK /\ tx[t] \in TxRecord
      /\ tx[t].level = tx[t].depth - 1 /\ tx[t].depth > 0
  BY ThreadFacts DEF ControlInv, InTx
<1> DEFINE r == TxRestart(tx[t])
<1>2. /\ r \in TxRecord /\ r.depth = tx[t].depth /\ r.level = tx[t].level
      /\ r.retry = TRUE /\ r.err = "restart" /\ r.stage # "WORK"
  BY <1>1, TxRestartFields
<1>3. tx' = [tx EXCEPT ![t] = r]
  BY DEF Restart
<1> HIDE DEF r
<1>4. /\ pc' = [pc EXCEPT ![t] = "run"] /\ caller' = [caller EXCEPT ![t] = "none"]
      /\ arg' = [arg EXCEPT ![t] = NoArg] /\ time' = [time EXCEPT ![t] = 0]
      /\ todo' = [todo EXCEPT ![t] = {}] /\ left' = [left EXCEPT ![t] = <<>>]
  BY DEF Restart, Leave, Goto
<1>5. UNCHANGED <<glb, mem, hist, loc, irrevoc, rset, wset, frees, start, seen, own>>
  BY DEF lockVars, setVars, histVars
<1>6. TypeOK'
  BY <1>1, <1>2, <1>3, <1>4, <1>5 DEF TypeOK, Labels
<1>7. OthersSame(t) /\ tx'[t] = r
  BY <1>1, <1>3, <1>4, <1>5 DEF TypeOK, OthersSame, Mine
<1>8. pc'[t] = "run" /\ caller'[t] = "none" /\ arg'[t] = NoArg
  BY <1>1, <1>4 DEF TypeOK
<1> QED
  BY <1>1, <1>2, <1>5, <1>6, <1>7, <1>8, RecordStep

(* The client restarts a revocable transaction, like a conflict does.       *)
LEMMA UserRestartStep ==
  ASSUME IInv, NEW t \in Threads, UserRestart(t), ~RestartIrrevoc
  PROVE  IInv'
<1>1. InTx(t) /\ InWork(tx[t]) /\ ~Replaying(t)
  BY AtWorkFacts DEF UserRestart, AtWork
<1>2. ~irrevoc[t]
  BY ThreadFacts DEF UserRestart, TypeOK
<1> QED
  BY <1>1, <1>2, RestartStep DEF UserRestart

(* A turn of the macros' loop past stage WORK.                               *)
LEMMA ProcessStep ==
  ASSUME IInv, NEW t \in Threads, Process(t)
  PROVE  IInv'
<1>1. /\ TypeOK /\ tx[t] \in TxRecord /\ ControlInv(t) /\ SetsInv(t) /\ pc[t] = "run"
  BY ThreadFacts DEF Process
<1>2. /\ InTx(t) /\ caller[t] = "none" /\ arg[t] = NoArg
      /\ tx[t].level = tx[t].depth - 1 /\ tx[t].depth > 0
      /\ tx[t].retry <=> tx[t].err = "restart"
      /\ irrevoc[t] => ~tx[t].retry
  BY <1>1 DEF ControlInv, InTx, TypeOK
<1> DEFINE r == TxProcess(tx[t])
<1>3. /\ r \in TxRecord /\ r.depth = tx[t].depth /\ r.level = tx[t].level
      /\ r.retry = tx[t].retry /\ r.err = tx[t].err /\ r.stage # "WORK"
  BY <1>1, TxProcessFields
<1>4. tx' = [tx EXCEPT ![t] = r]
  BY DEF Process
<1> HIDE DEF r
<1>5. /\ UNCHANGED <<glb, mem, hist, loc, irrevoc, rset, wset, frees, start, seen, own,
                     pc, caller, arg, time, todo, left>>
  BY DEF Process, lockVars, callVars, setVars, histVars
<1>6. TypeOK' /\ OthersSame(t) /\ tx'[t] = r
  BY <1>1, <1>3, <1>4, <1>5 DEF TypeOK, OthersSame, Mine
<1> QED
  BY <1>1, <1>2, <1>3, <1>5, <1>6, RecordStep

(* norec_tx_end of a nested block: norec_on_end is not called.               *)
LEMMA EndNestedStep ==
  ASSUME IInv, NEW t \in Threads, EndNested(t)
  PROVE  IInv'
<1>1. /\ TypeOK /\ tx[t] \in TxRecord /\ ControlInv(t) /\ pc[t] = "run"
      /\ tx[t].depth \in Nat
  BY ThreadFacts DEF EndNested
<1>2. /\ InTx(t) /\ caller[t] = "none" /\ arg[t] = NoArg
      /\ tx[t].level = tx[t].depth - 1 /\ tx[t].depth > 0
      /\ tx[t].retry <=> tx[t].err = "restart"
      /\ irrevoc[t] => ~tx[t].retry
  BY <1>1 DEF ControlInv, InTx, TypeOK
<1>3. tx[t].depth > 1
  BY <1>1, <1>2 DEF EndNested, Outermost
<1> DEFINE r == TxEnd(tx[t])
<1>4. /\ r \in TxRecord /\ r.depth = tx[t].depth - 1 /\ r.level = tx[t].level - 1
      /\ r.retry = tx[t].retry /\ r.err = tx[t].err
      /\ r.stage = "WORK" => r.err = "none"
  BY <1>1, <1>2, <1>3, TxEndNested
<1>5. tx' = [tx EXCEPT ![t] = r]
  BY DEF EndNested
<1> HIDE DEF r
<1>6. /\ UNCHANGED <<glb, mem, hist, loc, irrevoc, rset, wset, frees, start, seen, own,
                     pc, caller, arg, time, todo, left>>
  BY DEF EndNested, lockVars, callVars, setVars, histVars
<1>7. TypeOK' /\ OthersSame(t) /\ tx'[t] = r
  BY <1>1, <1>4, <1>5, <1>6 DEF TypeOK, OthersSame, Mine
<1>8. r.depth > 0 /\ r.level = r.depth - 1
  BY <1>1, <1>2, <1>3, <1>4
<1> QED
  BY <1>1, <1>2, <1>4, <1>6, <1>7, <1>8, RecordStep

--------------------------------------------------------------------------------
(* Reading, validating and asking for the lock: a revocable transaction     *)
(* inside the library, or entering or leaving it.                           *)
LEMMA CallStep ==
  ASSUME IInv, NEW t \in Threads, InTx(t), InWork(tx[t]), ~irrevoc[t], ~Replaying(t),
         TypeOK', OthersSame(t), UNCHANGED <<glb, mem, hist>>,
         tx'[t] = tx[t], irrevoc'[t] = irrevoc[t], wset'[t] = wset[t],
         frees'[t] = frees[t], start'[t] = start[t], own'[t] = own[t],
         pc'[t] \notin {"idle", "begin", "redo"},
         pc'[t] = "run" <=> caller'[t] = "none",
         caller'[t] \in {"read", "free"} <=> arg'[t] # NoArg,
         pc'[t] \in {"prevalidate", "reload"} => caller'[t] = "read",
         pc'[t] = "cas" => caller'[t] # "read",
         caller'[t] = "commit" => tx[t].level = 0,
         caller'[t] = "read" => own[t][arg'[t][1]] = NoVal,
         seen'[t] = rset'[t],
         Opaque(t)',
         pc'[t] \notin {"validate", "compare"} => Snapshot(loc[t], t)',
         pc'[t] = "prevalidate" /\ loc'[t] = glb => arg'[t][2] = mem[arg'[t][1]],
         pc'[t] = "compare" =>
           /\ time'[t] \in DOMAIN hist /\ time'[t] >= start[t]
           /\ todo'[t] \subseteq rset'[t]
           /\ time'[t] = glb => \A e \in rset'[t] \ todo'[t] : mem[e[1]] = e[2]
  PROVE  IInv'
<1>1. ControlInv(t) /\ SetsInv(t) /\ ReaderInv(t)
  BY ThreadFacts
<1>2. ControlInv(t)'
  BY <1>1 DEF ControlInv, InTx, InWork
<1>3. SetsInv(t)'
  BY <1>1 DEF SetsInv, InTx, Listed, InWset, Replaying
<1>4. ReaderInv(t)'
  BY <1>1 DEF ReaderInv, InTx
<1>5. ~Holds(t) /\ ~Holds(t)'
  BY DEF Holds, Replaying, InTx
<1> QED
  BY <1>2, <1>3, <1>4, <1>5, QuietStep DEF PInv

(* What every step inside a call begins with.                               *)
LEMMA InCallFacts ==
  ASSUME IInv, NEW t \in Threads, caller[t] # "none"
  PROVE  /\ InTx(t) /\ InWork(tx[t]) /\ ~irrevoc[t] /\ tx[t].err = "none" /\ ~tx[t].retry
         /\ seen[t] = rset[t] /\ frees[t] = {} /\ Listed(wset[t], own[t])
         /\ \A a \in Addrs : own[t][a] # NoVal => InWset(t, a)
         /\ \E g \in DOMAIN hist : Snapshot(g, t)
         /\ pc[t] \notin {"validate", "compare"} => Snapshot(loc[t], t)
         /\ caller[t] = "commit" => tx[t].level = 0
         /\ caller[t] = "read" => own[t][arg[t][1]] = NoVal
         /\ caller[t] \in {"read", "free"} <=> arg[t] # NoArg
         /\ pc[t] \notin {"idle", "begin", "run"}
<1>1. ControlInv(t) /\ SetsInv(t) /\ ReaderInv(t) /\ Opaque(t)
  BY ThreadFacts
<1>2. /\ InWork(tx[t]) /\ ~irrevoc[t] /\ pc[t] \notin {"idle", "begin", "run"}
      /\ InTx(t) /\ tx[t].err = "none" /\ ~tx[t].retry
  BY <1>1 DEF ControlInv
<1> QED
  BY <1>1, <1>2 DEF ControlInv, SetsInv, ReaderInv, Opaque

(* A thread inside the library is in a call.                                *)
LEMMA CallsHaveCallers ==
  ASSUME IInv, NEW t \in Threads, pc[t] \notin {"idle", "begin", "run"}
  PROVE  caller[t] # "none"
BY ThreadFacts DEF ControlInv

(* Nothing of t's reads or of the versions moves.                           *)
LEMMA SnapshotsSame ==
  ASSUME NEW t \in Threads, hist' = hist, start'[t] = start[t], seen'[t] = seen[t]
  PROVE  \A g : Snapshot(g, t)' <=> Snapshot(g, t)
BY DEF Snapshot, Explains

(* A step that neither publishes nor hands over keeps what t has read one   *)
(* version.                                                                 *)
LEMMA OpaqueSame ==
  ASSUME NEW t \in Threads, hist' = hist, start'[t] = start[t], seen'[t] = seen[t],
         \E g \in DOMAIN hist : Snapshot(g, t)
  PROVE  Opaque(t)'
BY SnapshotsSame DEF Opaque

(* The load after the validation: it is of loc's version if the lock has    *)
(* not moved since, and memory is that version.                             *)
LEMMA MemoryAtLoc ==
  ASSUME IInv, NEW t \in Threads, Snapshot(loc[t], t), loc[t] = glb
  PROVE  IsEven(glb) /\ mem = hist[glb]
BY DEF IInv, HistoryInv, MemoryIsVersionPlusHolder, Snapshot

(* The load after a validation hands nothing over yet: it goes back to      *)
(* prevalidate, which looks at the lock again.                              *)
LEMMA ReloadStep ==
  ASSUME IInv, NEW t \in Threads, Reload(t)
  PROVE  IInv'
<1>1. /\ TypeOK /\ pc[t] = "reload" /\ ~Replaying(t) /\ caller[t] = "read"
  BY ThreadFacts DEF Reload, ControlInv, Replaying
<1>2. /\ InTx(t) /\ InWork(tx[t]) /\ ~irrevoc[t] /\ seen[t] = rset[t]
      /\ Snapshot(loc[t], t) /\ own[t][arg[t][1]] = NoVal /\ arg[t] # NoArg
  BY <1>1, InCallFacts
<1> DEFINE v == <<arg[t][1], mem[arg[t][1]]>>
<1>3. /\ arg' = [arg EXCEPT ![t] = v] /\ pc' = [pc EXCEPT ![t] = "prevalidate"]
      /\ UNCHANGED <<glb, loc, irrevoc, mem, tx, caller, time, todo, left, rset, wset,
                     frees, hist, start, seen, own>>
  BY DEF Reload, Goto, lockVars, setVars, histVars
<1>4. arg[t] \in Entries /\ v \in Entries
  BY <1>1, <1>2 DEF TypeOK, Entries
<1>5. v # NoArg /\ v[1] = arg[t][1] /\ v[2] = mem[v[1]]
  BY DEF NoArg
<1> HIDE DEF v
<1>6. TypeOK'
  BY <1>1, <1>3, <1>4 DEF TypeOK, Labels
<1>7. OthersSame(t) /\ pc'[t] = "prevalidate" /\ arg'[t] = v
  BY <1>1, <1>3 DEF TypeOK, OthersSame, Mine
<1>8. Snapshot(loc[t], t)' /\ Opaque(t)'
  BY <1>2, <1>3 DEF Snapshot, Explains, Opaque
<1> QED
  BY <1>1, <1>2, <1>3, <1>5, <1>6, <1>7, <1>8, CallStep

(* norec_validate's first look at the lock.                                 *)
LEMMA SampleTimeStep ==
  ASSUME IInv, NEW t \in Threads, SampleTime(t)
  PROVE  IInv'
<1>1. /\ TypeOK /\ pc[t] = "validate" /\ ~Replaying(t) /\ caller[t] # "none"
  BY ThreadFacts, CallsHaveCallers DEF SampleTime, Replaying
<1>2. /\ InTx(t) /\ InWork(tx[t]) /\ ~irrevoc[t] /\ seen[t] = rset[t]
      /\ \E g \in DOMAIN hist : Snapshot(g, t)
      /\ caller[t] = "read" => own[t][arg[t][1]] = NoVal
      /\ caller[t] \in {"read", "free"} <=> arg[t] # NoArg
      /\ caller[t] = "commit" => tx[t].level = 0
  BY <1>1, InCallFacts
<1>3. /\ time' = [time EXCEPT ![t] = glb] /\ todo' = [todo EXCEPT ![t] = rset[t]]
      /\ pc' = [pc EXCEPT ![t] = "compare"]
      /\ UNCHANGED <<glb, loc, irrevoc, mem, tx, caller, arg, left, rset, wset,
                     frees, hist, start, seen, own>>
  BY DEF SampleTime, Goto, lockVars, setVars, histVars
<1>4. glb \in DOMAIN hist /\ glb >= start[t]
  BY <1>2, ThreadFacts, Parity DEF SampleTime, HistoryInv, ReaderInv
<1>5. TypeOK'
  BY <1>1, <1>3 DEF TypeOK, Labels
<1>6. /\ OthersSame(t) /\ pc'[t] = "compare" /\ time'[t] = glb /\ todo'[t] = rset[t]
  BY <1>1, <1>3 DEF TypeOK, OthersSame, Mine
<1>7. Opaque(t)'
  BY <1>2, <1>3, OpaqueSame
<1> QED
  BY <1>1, <1>2, <1>3, <1>4, <1>5, <1>6, <1>7, CallStep

(* One entry of the read set compared: a mismatch restarts.                 *)
LEMMA CompareStep ==
  ASSUME IInv, NEW t \in Threads, Compare(t)
  PROVE  IInv'
<1>1. /\ TypeOK /\ pc[t] = "compare" /\ ~Replaying(t) /\ caller[t] # "none"
  BY ThreadFacts, CallsHaveCallers DEF Compare, Replaying
<1>2. /\ InTx(t) /\ InWork(tx[t]) /\ ~irrevoc[t] /\ seen[t] = rset[t]
      /\ \E g \in DOMAIN hist : Snapshot(g, t)
      /\ caller[t] = "read" => own[t][arg[t][1]] = NoVal
      /\ caller[t] \in {"read", "free"} <=> arg[t] # NoArg
      /\ caller[t] = "commit" => tx[t].level = 0
  BY <1>1, InCallFacts
<1>3. CASE Restart(t)
  BY <1>1, <1>2, <1>3, RestartStep DEF Compare
<1>4. ASSUME NEW e \in todo[t], mem[e[1]] = e[2], todo' = [todo EXCEPT ![t] = @ \ {e}],
             UNCHANGED <<tx, pc, caller, arg, time, left>>
      PROVE  IInv'
  <2>1. UNCHANGED <<glb, loc, irrevoc, mem, rset, wset, frees, hist, start, seen, own>>
    BY DEF Compare, lockVars, setVars, histVars
  <2>2. todo'[t] = todo[t] \ {e} /\ TypeOK' /\ OthersSame(t)
    BY <1>1, <1>4, <2>1 DEF TypeOK, OthersSame, Mine
  <2>3. /\ time[t] \in DOMAIN hist /\ time[t] >= start[t] /\ todo[t] \subseteq rset[t]
        /\ time[t] = glb => \A d \in rset[t] \ todo[t] : mem[d[1]] = d[2]
    BY <1>1, ThreadFacts DEF ReaderInv
  <2>4. Opaque(t)'
    BY <1>2, <2>1, OpaqueSame
  <2>5. /\ todo'[t] \subseteq rset[t]
        /\ time[t] = glb => \A d \in rset[t] \ todo'[t] : mem[d[1]] = d[2]
    BY <1>4, <2>2, <2>3
  <2>6. pc'[t] = "compare"
    BY <1>1, <1>4
  <2> QED
    BY <1>1, <1>2, <1>4, <2>1, <2>2, <2>3, <2>4, <2>5, <2>6, CallStep
<1> QED
  BY <1>3, <1>4 DEF Compare

(* The second look: the same glb means that no transaction has replayed     *)
(* anything while the entries were compared.                                *)
LEMMA RecheckStep ==
  ASSUME IInv, NEW t \in Threads, Recheck(t)
  PROVE  IInv'
<1>1. /\ TypeOK /\ pc[t] = "compare" /\ ~Replaying(t) /\ caller[t] # "none" /\ todo[t] = {}
  BY ThreadFacts, CallsHaveCallers DEF Recheck, Replaying
<1>2. /\ InTx(t) /\ InWork(tx[t]) /\ ~irrevoc[t] /\ seen[t] = rset[t]
      /\ \E g \in DOMAIN hist : Snapshot(g, t)
      /\ caller[t] = "read" => own[t][arg[t][1]] = NoVal
      /\ caller[t] \in {"read", "free"} <=> arg[t] # NoArg
      /\ caller[t] = "commit" => tx[t].level = 0
  BY <1>1, InCallFacts
<1>3. /\ time' = [time EXCEPT ![t] = 0]
      /\ UNCHANGED <<glb, irrevoc, mem, tx, caller, arg, todo, left, rset, wset, frees,
                     hist, start, seen, own>>
  BY DEF Recheck, setVars, histVars
<1>4. Opaque(t)'
  BY <1>2, <1>3, OpaqueSame
<1>5. CASE loc' = loc /\ Goto(t, "validate")
  <2>1. TypeOK'
    BY <1>1, <1>3, <1>5 DEF TypeOK, Labels, Goto
  <2>2. OthersSame(t) /\ pc'[t] = "validate"
    BY <1>1, <1>3, <1>5 DEF TypeOK, OthersSame, Mine, Goto
  <2> QED
    BY <1>1, <1>2, <1>3, <1>4, <2>1, <2>2, CallStep
<1>6. CASE /\ time[t] = glb /\ loc' = [loc EXCEPT ![t] = time[t]]
           /\ Goto(t, IF caller[t] = "read" THEN "reload" ELSE "cas")
  <2>1. TypeOK'
    BY <1>1, <1>3, <1>6 DEF TypeOK, Labels, Goto
  <2>2. /\ OthersSame(t) /\ loc'[t] = glb
        /\ pc'[t] = IF caller[t] = "read" THEN "reload" ELSE "cas"
    BY <1>1, <1>3, <1>6 DEF TypeOK, OthersSame, Mine, Goto
  <2>3. /\ glb \in DOMAIN hist /\ glb >= start[t]
        /\ \A e \in rset[t] : mem[e[1]] = e[2]
    BY <1>1, <1>6, ThreadFacts DEF ReaderInv
  <2>4. mem = hist[glb]
    BY <2>3, ThreadFacts DEF IInv, HistoryInv, MemoryIsVersionPlusHolder
  <2>5. Snapshot(loc[t], t)'
    BY <1>2, <1>3, <2>2, <2>3, <2>4 DEF Snapshot, Explains
  <2> QED
    BY <1>1, <1>2, <1>3, <1>4, <2>1, <2>2, <2>5, CallStep
<1> QED
  BY <1>5, <1>6 DEF Recheck

(* norec_prevalidate: the load counts only if it is of loc's version.       *)
LEMMA PrevalidateStep ==
  ASSUME IInv, NEW t \in Threads, Prevalidate(t)
  PROVE  IInv'
<1>1. /\ TypeOK /\ pc[t] = "prevalidate" /\ ~Replaying(t) /\ caller[t] = "read"
  BY ThreadFacts DEF Prevalidate, Replaying, ControlInv
<1>2. /\ InTx(t) /\ InWork(tx[t]) /\ ~irrevoc[t] /\ seen[t] = rset[t]
      /\ \E g \in DOMAIN hist : Snapshot(g, t)
      /\ Snapshot(loc[t], t)
      /\ own[t][arg[t][1]] = NoVal /\ arg[t] # NoArg
  BY <1>1, InCallFacts
<1>3. UNCHANGED <<glb, loc, irrevoc, mem, tx, wset, frees, hist, start, own>>
  BY DEF Prevalidate, lockVars
<1>4. CASE Goto(t, "validate") /\ UNCHANGED <<callVars, rset, seen>>
  <2>1. UNCHANGED <<caller, arg, time, todo, left, rset, seen>>
    BY <1>4 DEF callVars
  <2>2. TypeOK' /\ OthersSame(t) /\ pc'[t] = "validate"
    BY <1>1, <1>3, <1>4, <2>1 DEF TypeOK, Labels, Goto, OthersSame, Mine
  <2>3. Opaque(t)'
    BY <1>2, <1>3, <2>1, OpaqueSame
  <2> QED
    BY <1>1, <1>2, <1>3, <2>1, <2>2, <2>3, CallStep
<1>5. CASE /\ loc[t] = glb
           /\ rset' = [rset EXCEPT ![t] = @ \cup {arg[t]}]
           /\ Hand(t, arg[t][1], arg[t][2])
           /\ Leave(t)
  <2>1. arg[t] \in Entries /\ arg[t] = <<arg[t][1], arg[t][2]>>
    BY <1>1, <1>2 DEF TypeOK, Entries
  <2>2. seen' = [seen EXCEPT ![t] = @ \cup {arg[t]}]
    BY <1>2, <1>5, <2>1 DEF Hand
  <2>3. /\ pc' = [pc EXCEPT ![t] = "run"] /\ caller' = [caller EXCEPT ![t] = "none"]
        /\ arg' = [arg EXCEPT ![t] = NoArg] /\ time' = [time EXCEPT ![t] = 0]
        /\ todo' = [todo EXCEPT ![t] = {}] /\ left' = [left EXCEPT ![t] = <<>>]
    BY <1>5 DEF Leave, Goto
  <2>4. TypeOK'
    BY <1>1, <1>3, <1>5, <2>1, <2>2, <2>3 DEF TypeOK, Labels
  <2>5. /\ OthersSame(t) /\ pc'[t] = "run" /\ caller'[t] = "none" /\ arg'[t] = NoArg
        /\ seen'[t] = seen[t] \cup {arg[t]} /\ rset'[t] = rset[t] \cup {arg[t]}
    BY <1>1, <1>3, <1>5, <2>2, <2>3 DEF TypeOK, OthersSame, Mine
  <2>6. arg[t][2] = hist[loc[t]][arg[t][1]]
    BY <1>1, <1>2, <1>5, ThreadFacts, MemoryAtLoc DEF ReaderInv
  <2>7. Snapshot(loc[t], t)'
    BY <1>2, <1>3, <2>5, <2>6 DEF Snapshot, Explains
  <2>8. Opaque(t)'
    BY <1>3, <2>7 DEF Opaque, Snapshot, Explains
  <2> QED
    BY <1>1, <1>2, <1>3, <2>5, <2>4, <2>7, <2>8, CallStep
<1> QED
  BY <1>4, <1>5 DEF Prevalidate

(* A CAS that fails leaves whatever it found in loc, and validates.         *)
LEMMA SwapFailsStep ==
  ASSUME IInv, NEW t \in Threads, CompareAndSwap(t), glb # loc[t]
  PROVE  IInv'
<1>1. /\ TypeOK /\ pc[t] = "cas" /\ ~Replaying(t) /\ caller[t] # "none"
  BY ThreadFacts, CallsHaveCallers DEF CompareAndSwap, Replaying
<1>2. /\ InTx(t) /\ InWork(tx[t]) /\ ~irrevoc[t] /\ seen[t] = rset[t]
      /\ \E g \in DOMAIN hist : Snapshot(g, t)
      /\ caller[t] = "read" => own[t][arg[t][1]] = NoVal
      /\ caller[t] \in {"read", "free"} <=> arg[t] # NoArg
      /\ caller[t] = "commit" => tx[t].level = 0
  BY <1>1, InCallFacts
<1>3. /\ loc' = [loc EXCEPT ![t] = glb] /\ pc' = [pc EXCEPT ![t] = "validate"]
      /\ UNCHANGED <<glb, irrevoc, mem, tx, caller, arg, time, todo, left, rset, wset,
                     frees, hist, start, seen, own>>
  BY DEF CompareAndSwap, Goto, setVars, histVars
<1>4. TypeOK' /\ OthersSame(t) /\ pc'[t] = "validate"
  BY <1>1, <1>3 DEF TypeOK, Labels, OthersSame, Mine
<1>5. Opaque(t)'
  BY <1>2, <1>3, OpaqueSame
<1> QED
  BY <1>1, <1>2, <1>3, <1>4, <1>5, CallStep

(* Where the client calls in while revocable.                               *)
LEMMA CallInFacts ==
  ASSUME IInv, NEW t \in Threads, AtWork(t), ~irrevoc[t]
  PROVE  /\ TypeOK /\ InTx(t) /\ InWork(tx[t]) /\ ~Replaying(t) /\ seen[t] = rset[t]
         /\ Snapshot(loc[t], t) /\ frees[t] = {} /\ Listed(wset[t], own[t])
         /\ \A a \in Addrs : own[t][a] # NoVal => InWset(t, a)
         /\ \E g \in DOMAIN hist : Snapshot(g, t)
BY AtWorkFacts, ThreadFacts DEF AtWork, SetsInv, ReaderInv, Opaque

(* Asking for the lock: to commit, to free or to become irrevocable.        *)
LEMMA AskStep ==
  ASSUME IInv, NEW t \in Threads, AtWork(t), ~irrevoc[t],
         NEW who \in {"commit", "irrevoc", "free"}, NEW e \in Entries \cup {NoArg},
         who = "free" <=> e # NoArg,
         who = "commit" => tx[t].level = 0,
         caller' = [caller EXCEPT ![t] = who], arg' = [arg EXCEPT ![t] = e],
         Goto(t, "cas"),
         UNCHANGED <<glb, loc, irrevoc, mem, tx, time, todo, left, rset, wset,
                     frees, hist, start, seen, own>>
  PROVE  IInv'
<1>1. /\ TypeOK /\ InTx(t) /\ InWork(tx[t]) /\ ~Replaying(t) /\ seen[t] = rset[t]
      /\ Snapshot(loc[t], t) /\ \E g \in DOMAIN hist : Snapshot(g, t)
  BY CallInFacts
<1>2. TypeOK'
  BY <1>1 DEF TypeOK, Labels, Goto
<1>3. OthersSame(t) /\ pc'[t] = "cas" /\ caller'[t] = who /\ arg'[t] = e
  BY <1>1 DEF TypeOK, OthersSame, Mine, Goto
<1>4. Opaque(t)'
  BY <1>1, OpaqueSame
<1>5. Snapshot(loc[t], t)'
  BY <1>1 DEF Snapshot, Explains
<1> QED
  BY <1>1, <1>2, <1>3, <1>4, <1>5, CallStep

(* A request to become irrevocable goes to the compare-and-swap.            *)
LEMMA IrrevocStep ==
  ASSUME IInv, NEW t \in Threads, Irrevoc(t)
  PROVE  IInv'
<1>1. AtWork(t) /\ ~irrevoc[t] /\ arg[t] = NoArg /\ TypeOK
  BY AtWorkFacts, ThreadFacts DEF Irrevoc
<1>2. /\ arg' = [arg EXCEPT ![t] = NoArg]
      /\ caller' = [caller EXCEPT ![t] = "irrevoc"] /\ Goto(t, "cas")
      /\ UNCHANGED <<glb, loc, irrevoc, mem, tx, time, todo, left, rset, wset,
                     frees, hist, start, seen, own>>
  BY <1>1 DEF Irrevoc, lockVars, setVars, histVars, TypeOK
<1> QED
  BY <1>1, <1>2, AskStep

(* A load from memory by a revocable transaction.                           *)
LEMMA ReadLoadStep ==
  ASSUME IInv, NEW t \in Threads, NEW a \in Addrs, Read(t, a), ReadLoad(t, a)
  PROVE  IInv'
<1>1. AtWork(t) /\ ~irrevoc[t] /\ ~InWset(t, a)
  BY DEF Read, ReadLoad
<1>2. /\ TypeOK /\ InTx(t) /\ InWork(tx[t]) /\ ~Replaying(t) /\ seen[t] = rset[t]
      /\ Snapshot(loc[t], t) /\ \E g \in DOMAIN hist : Snapshot(g, t)
      /\ own[t][a] = NoVal
  BY <1>1, CallInFacts
<1> DEFINE e == <<a, mem[a]>>
<1>3. /\ arg' = [arg EXCEPT ![t] = e] /\ caller' = [caller EXCEPT ![t] = "read"]
      /\ pc' = [pc EXCEPT ![t] = "prevalidate"]
      /\ UNCHANGED <<glb, loc, irrevoc, mem, tx, time, todo, left, rset, wset,
                     frees, hist, start, seen, own>>
  BY DEF Read, ReadLoad, Goto, lockVars, setVars
<1>4. e \in Entries /\ e # NoArg /\ e[1] = a /\ e[2] = mem[a]
  BY <1>2 DEF TypeOK, Entries, NoArg
<1> HIDE DEF e
<1>5. TypeOK'
  BY <1>2, <1>3, <1>4 DEF TypeOK, Labels
<1>6. /\ OthersSame(t) /\ pc'[t] = "prevalidate" /\ caller'[t] = "read" /\ arg'[t] = e
  BY <1>2, <1>3 DEF TypeOK, OthersSame, Mine
<1>7. Snapshot(loc[t], t)' /\ Opaque(t)'
  BY <1>2, <1>3 DEF Snapshot, Explains, Opaque
<1> QED
  BY <1>1, <1>2, <1>3, <1>4, <1>5, <1>6, <1>7, CallStep

(* A read answered from the write set changes nothing at all.               *)
LEMMA ReadOwnWriteStep ==
  ASSUME IInv, NEW t \in Threads, NEW a \in Addrs, Read(t, a), ReadOwnWrite(t, a)
  PROVE  IInv'
<1>1. UNCHANGED vars
  BY DEF Read, ReadOwnWrite, vars, lockVars, setVars
<1>2. TypeOK' /\ OthersSame(t)
  BY <1>1, ThreadFacts DEF vars, TypeOK, OthersSame, Mine
<1>3. PInv(t)' /\ (Holds(t)' <=> Holds(t)) /\ HeldAt(t)' = HeldAt(t) /\ Copied(t)' = Copied(t)
  BY <1>1, ThreadFacts, OthersInv DEF vars, Mine
<1> QED
  BY <1>1, <1>2, <1>3, QuietStep DEF vars

--------------------------------------------------------------------------------
(* Irrevocable transactions at work.                                        *)

(* An irrevocable transaction holds the lock, and memory is the version it  *)
(* took it at with its own writes on top.                                   *)
LEMMA IrrevocFacts ==
  ASSUME IInv, NEW t \in Threads, InTx(t), irrevoc[t]
  PROVE  /\ Holds(t) /\ ~Replaying(t) /\ ~IsEven(glb) /\ loc[t] = glb
         /\ glb - 1 \in DOMAIN hist /\ glb - 1 >= start[t] /\ Explains(glb - 1, t)
         /\ mem = Overlay(hist[glb - 1], own[t])
<1>1. Holds(t) /\ ~Replaying(t)
  BY ThreadFacts DEF Holds, Replaying, ControlInv
<1>2. ~IsEven(glb) /\ glb = loc[t]
  BY <1>1 DEF IInv, LockHasOneHolder, HeldAt
<1>3. Snapshot(glb - 1, t)
  BY <1>2, ThreadFacts DEF ReaderInv
<1>4. mem = Overlay(hist[glb - 1], own[t])
  BY <1>1 DEF IInv, MemoryIsVersionPlusHolder, Copied
<1> QED
  BY <1>1, <1>2, <1>3, <1>4 DEF Snapshot

(* Its accesses go to memory, which stays the last version plus its writes. *)
LEMMA InPlaceStep ==
  ASSUME IInv, NEW t \in Threads, NEW r \in TxRecord, AtWork(t), irrevoc[t],
         TypeOK', OthersSame(t), tx'[t] = r,
         r.depth = tx[t].depth, r.level = tx[t].level, r.retry = tx[t].retry,
         r.err = tx[t].err,
         UNCHANGED <<glb, hist, loc, irrevoc, pc, caller, arg, left, start>>,
         Explains(glb - 1, t)',
         mem' = Overlay(hist[glb - 1], own'[t])
  PROVE  IInv'
<1>1. /\ Holds(t) /\ ~Replaying(t) /\ ~IsEven(glb) /\ loc[t] = glb
      /\ glb - 1 \in DOMAIN hist /\ glb - 1 >= start[t]
  BY IrrevocFacts, AtWorkFacts
<1>2. /\ InTx(t) /\ pc[t] = "run" /\ caller[t] = "none" /\ arg[t] = NoArg
      /\ tx[t].stage = "WORK" /\ tx[t].err = "none" /\ ~tx[t].retry
      /\ tx[t].level = tx[t].depth - 1 /\ tx[t].depth > 0
  BY AtWorkFacts
<1>3. ControlInv(t)'
  BY <1>2 DEF ControlInv, InTx, InWork
<1>4. SetsInv(t)'
  BY <1>2 DEF SetsInv, InTx, Replaying
<1>5. ReaderInv(t)' /\ Opaque(t)'
  <2>1. start[t] <= glb
    BY <1>2, ThreadFacts DEF ReaderInv
  <2>2. Snapshot(glb - 1, t)'
    BY <1>1 DEF Snapshot
  <2>3. Snapshot(loc[t] - 1, t)'
    BY <1>1, <2>2 DEF Snapshot, Explains
  <2>4. ReaderInv(t)'
    BY <1>2, <2>1, <2>3 DEF ReaderInv, InTx
  <2> QED
    BY <2>4, <2>2, <1>1 DEF Opaque, Snapshot, Explains
<1>6. Holds(t)' /\ HeldAt(t)' = HeldAt(t) /\ Copied(t)' = own'[t]
  BY <1>1, <1>2 DEF Holds, InTx, Replaying, HeldAt, Copied
<1> QED
  BY <1>1, <1>3, <1>4, <1>5, <1>6, SameLockStep DEF PInv

(* An irrevocable transaction reads memory: its own write, or the version   *)
(* it took the lock at.                                                     *)
LEMMA ReadInPlaceStep ==
  ASSUME IInv, NEW t \in Threads, NEW a \in Addrs, Read(t, a), ReadInPlace(t, a)
  PROVE  IInv'
<1>1. AtWork(t) /\ irrevoc[t] /\ TypeOK /\ tx[t] \in TxRecord /\ InTx(t)
  BY ThreadFacts, AtWorkFacts DEF Read, ReadInPlace
<1>2. UNCHANGED <<glb, loc, irrevoc, mem, tx, pc, caller, arg, time, todo, left, rset,
                  wset, frees, hist, start, own>>
  BY DEF Read, ReadInPlace, lockVars, setVars
<1>3. /\ Explains(glb - 1, t)
      /\ mem = Overlay(hist[glb - 1], own[t])
  BY <1>1, IrrevocFacts
<1>4. seen' = [seen EXCEPT ![t] = IF own[t][a] = NoVal THEN @ \cup {<<a, mem[a]>>} ELSE @]
  BY DEF ReadInPlace, Hand
<1>5. <<a, mem[a]>> \in Entries
  BY <1>1 DEF TypeOK, Entries
<1>6. TypeOK' /\ OthersSame(t)
  BY <1>1, <1>2, <1>4, <1>5 DEF TypeOK, OthersSame, Mine
<1>7. own[t][a] = NoVal => mem[a] = hist[glb - 1][a]
  BY <1>3 DEF Overlay
<1>8. Explains(glb - 1, t)'
  BY <1>1, <1>2, <1>3, <1>4, <1>7 DEF Explains, TypeOK
<1> QED
  BY <1>1, <1>2, <1>3, <1>6, <1>8, InPlaceStep

(* NOREC_READ, whichever of its three ways it goes.                         *)
LEMMA ReadStep ==
  ASSUME IInv, NEW t \in Threads, NEW a \in Addrs, Read(t, a)
  PROVE  IInv'
BY ReadInPlaceStep, ReadOwnWriteStep, ReadLoadStep DEF Read

--------------------------------------------------------------------------------
(* Writing, freeing and committing.                                         *)

(* A new location at the end of the write set.                              *)
LEMMA ListedAppend ==
  ASSUME NEW w, NEW u, NEW o, NEW p, NEW a \in Addrs, NEW v, NEW n \in Nat,
         DOMAIN w = 1..n, DOMAIN u = 1..(n + 1),
         u[n + 1] = <<a, v>>, \A i \in 1..n : u[i] = w[i],
         \A i \in 1..n : w[i][1] \in Addrs /\ w[i][1] # a,
         p[a] = v, \A b \in Addrs : b # a => p[b] = o[b],
         Listed(w, o)
  PROVE  Listed(u, p)
<1>1. ASSUME NEW i \in DOMAIN u PROVE p[u[i][1]] = u[i][2]
  <2>1. CASE i = n + 1
    BY <2>1
  <2>2. CASE i # n + 1
    <3>1. i \in 1..n
      BY <2>2
    <3> QED
      BY <3>1 DEF Listed
  <2> QED
    BY <2>1, <2>2
<1>2. ASSUME NEW i \in DOMAIN u, NEW j \in DOMAIN u, u[j][1] = u[i][1] PROVE j = i
  <2>1. (i \in 1..n \/ i = n + 1) /\ (j \in 1..n \/ j = n + 1)
    OBVIOUS
  <2> QED
    BY <2>1, <1>2 DEF Listed
<1> QED
  BY <1>1, <1>2 DEF Listed

(* NOREC_WRITE buffers.                                                     *)
LEMMA BufferStep ==
  ASSUME IInv, NEW t \in Threads, NEW a \in Addrs, NEW v \in Vals, Write(t, a, v),
         ~irrevoc[t]
  PROVE  IInv'
<1>1. AtWork(t) /\ ~InWset(t, a) /\ wset' = [wset EXCEPT ![t] = Append(@, <<a, v>>)]
      /\ mem' = mem
  BY DEF Write
<1>2. /\ TypeOK /\ InTx(t) /\ InWork(tx[t]) /\ ~Replaying(t) /\ seen[t] = rset[t]
      /\ Snapshot(loc[t], t) /\ frees[t] = {} /\ Listed(wset[t], own[t])
      /\ \A b \in Addrs : own[t][b] # NoVal => InWset(t, b)
      /\ \E g \in DOMAIN hist : Snapshot(g, t)
      /\ pc[t] = "run" /\ caller[t] = "none"
  BY <1>1, CallInFacts, AtWorkFacts
<1>3. /\ own' = [own EXCEPT ![t] = [own[t] EXCEPT ![a] = v]]
      /\ UNCHANGED <<glb, mem, loc, irrevoc, tx, pc, caller, arg, time, todo, left, rset,
                     frees, hist, start, seen>>
  BY <1>1 DEF Write, lockVars, callVars
<1> DEFINE u == Append(wset[t], <<a, v>>)
           p == [own[t] EXCEPT ![a] = v]
<1>0. u = Append(wset[t], <<a, v>>) /\ p = [own[t] EXCEPT ![a] = v]
  OBVIOUS
<1> HIDE DEF u, p
<1>4. wset[t] \in Seq(Addrs \X Vals) /\ own[t] \in [Addrs -> Contents \cup {NoVal}]
  BY <1>2 DEF TypeOK
<1>5. \A i \in DOMAIN wset[t] : wset[t][i][1] # a
  BY <1>1 DEF InWset
<1>7. p \in [Addrs -> Contents \cup {NoVal}] /\ \A b \in Addrs : b # a => p[b] = own[t][b]
  BY <1>0, <1>4 DEF Contents
<1>6. /\ u \in Seq(Addrs \X Vals) /\ Listed(u, p)
      /\ \E i \in DOMAIN u : u[i][1] = a
      /\ \A i \in DOMAIN wset[t] : i \in DOMAIN u /\ u[i] = wset[t][i]
  <2> DEFINE w == wset[t]
             n == Len(w)
  <2>1. /\ n \in Nat /\ DOMAIN w = 1..n /\ DOMAIN u = 1..(n + 1)
        /\ u[n + 1] = <<a, v>> /\ \A i \in 1..n : u[i] = w[i]
        /\ \A i \in 1..n : w[i] \in Addrs \X Vals
        /\ u \in Seq(Addrs \X Vals)
    BY <1>0, <1>4
  <2>2. \A i \in 1..n : w[i][1] \in Addrs /\ w[i][1] # a
    BY <1>5, <2>1
  <2>3. p[a] = v
    BY <1>0, <1>4
  <2> HIDE DEF n
  <2>4. Listed(u, p)
    BY <1>2, <1>7, <2>1, <2>2, <2>3, ListedAppend
  <2> QED
    BY <2>1, <2>4
<1>8. wset' = [wset EXCEPT ![t] = u] /\ own' = [own EXCEPT ![t] = p]
  BY <1>0, <1>1, <1>3
<1>9. TypeOK'
  <2>1. wset' \in [Threads -> Seq(Addrs \X Vals)]
    BY <1>2, <1>6, <1>8 DEF TypeOK
  <2>2. own' \in [Threads -> [Addrs -> Contents \cup {NoVal}]]
    BY <1>2, <1>7, <1>8 DEF TypeOK
  <2> QED
    BY <1>2, <1>3, <2>1, <2>2 DEF TypeOK
<1>10. OthersSame(t) /\ wset'[t] = u /\ own'[t] = p
  BY <1>2, <1>3, <1>8 DEF TypeOK, OthersSame, Mine
<1>11. SetsInv(t)'
  <2>1. \A b \in Addrs : p[b] # NoVal => \E i \in DOMAIN u : u[i][1] = b
    <3>1. ASSUME NEW b \in Addrs, b # a, p[b] # NoVal PROVE \E i \in DOMAIN u : u[i][1] = b
      BY <1>2, <1>6, <1>7, <3>1 DEF InWset
    <3> QED
      BY <3>1, <1>6
  <2> QED
    BY <1>2, <1>3, <1>6, <1>10, <2>1 DEF SetsInv, InTx, InWset, Replaying
<1>12. ControlInv(t)'
  BY <1>3, ThreadFacts DEF ControlInv, InTx, InWork
<1>13. Snapshot(loc[t], t)' /\ Opaque(t)'
  BY <1>2, <1>3 DEF Snapshot, Explains, Opaque
<1>14. ReaderInv(t)'
  BY <1>2, <1>3, <1>13, ThreadFacts DEF ReaderInv, InTx
<1>15. ~Holds(t) /\ ~Holds(t)'
  BY <1>2, <1>3 DEF Holds, Replaying, InTx, TypeOK
<1> QED
  BY <1>3, <1>9, <1>10, <1>11, <1>12, <1>13, <1>14, <1>15, QuietStep DEF PInv

(* NOREC_WRITE: buffered, or in place if irrevocable.                       *)
LEMMA WriteStep ==
  ASSUME IInv, NEW t \in Threads, NEW a \in Addrs, NEW v \in Vals, Write(t, a, v)
  PROVE  IInv'
<1> SUFFICES ASSUME irrevoc[t] PROVE IInv'
  BY BufferStep
<1>1. /\ AtWork(t) /\ mem' = [mem EXCEPT ![a] = v]
      /\ UNCHANGED wset
  BY DEF Write
<1>2. /\ own' = [own EXCEPT ![t] = [own[t] EXCEPT ![a] = v]]
      /\ UNCHANGED <<glb, loc, irrevoc, tx, pc, caller, arg, time, todo, left, rset, wset,
                     frees, hist, start, seen>>
  BY <1>1 DEF Write, lockVars, callVars
<1>3. TypeOK /\ tx[t] \in TxRecord /\ InTx(t)
  BY <1>1, ThreadFacts, AtWorkFacts
<1>4. Explains(glb - 1, t) /\ mem = Overlay(hist[glb - 1], own[t])
  BY <1>3, IrrevocFacts
<1>5. TypeOK' /\ OthersSame(t) /\ own'[t] = [own[t] EXCEPT ![a] = v]
  BY <1>1, <1>2, <1>3 DEF TypeOK, OthersSame, Mine, Contents
<1>6. v # NoVal /\ own[t] \in [Addrs -> Contents \cup {NoVal}]
  BY <1>3, ConstAssumption DEF TypeOK
<1>7. mem' = Overlay(hist[glb - 1], own'[t])
  BY <1>1, <1>4, <1>5, <1>6 DEF Overlay
<1>8. Explains(glb - 1, t)'
  BY <1>2, <1>4 DEF Explains
<1> QED
  BY <1>1, <1>2, <1>3, <1>5, <1>7, <1>8, InPlaceStep

(* NOREC_FREE: at once if irrevocable, else on the way to the lock.         *)
LEMMA FreeStep ==
  ASSUME IInv, NEW t \in Threads, NEW a \in Addrs, Free(t, a)
  PROVE  IInv'
<1>1. AtWork(t) /\ TypeOK /\ tx[t] \in TxRecord /\ InTx(t)
  BY ThreadFacts, AtWorkFacts DEF Free
<1>2. UNCHANGED <<glb, loc, irrevoc, mem, time, todo, left, rset, wset, hist, start,
                  seen, own>>
  BY DEF Free, lockVars, histVars
<1>3. CASE irrevoc[t] /\ frees' = [frees EXCEPT ![t] = @ \cup {a}] /\ UNCHANGED tx
  <2>1. UNCHANGED <<pc, caller, arg>>
    BY <1>3 DEF Free
  <2>2. TypeOK' /\ OthersSame(t)
    BY <1>1, <1>2, <1>3, <2>1 DEF TypeOK, OthersSame, Mine
  <2>3. Explains(glb - 1, t) /\ mem = Overlay(hist[glb - 1], own[t])
    BY <1>1, <1>3, IrrevocFacts
  <2>4. Explains(glb - 1, t)'
    BY <1>2, <2>3 DEF Explains
  <2> QED
    BY <1>1, <1>2, <1>3, <2>1, <2>2, <2>3, <2>4, InPlaceStep
<1>5. CASE irrevoc[t] /\ tx' = [tx EXCEPT ![t] = TxAbort(tx[t], "failed")] /\ UNCHANGED frees
  <2>1. UNCHANGED <<pc, caller, arg>>
    BY <1>5 DEF Free
  <2> QED
    BY <1>1, <1>2, <1>5, <2>1, AbortStep
    DEF Abort, lockVars, callVars, setVars, histVars
<1>4. CASE ~irrevoc[t]
  <2>1. /\ caller' = [caller EXCEPT ![t] = "free"]
        /\ arg' = [arg EXCEPT ![t] = <<a, Junk>>] /\ Goto(t, "cas")
        /\ UNCHANGED <<tx, frees>>
    BY <1>4 DEF Free
  <2>2. <<a, Junk>> \in Entries /\ <<a, Junk>> # NoArg
    BY DEF Entries, Contents, NoArg
  <2> QED
    BY <1>1, <1>2, <1>4, <2>1, <2>2, AskStep
<1> QED
  BY <1>3, <1>4, <1>5 DEF Free, ListFree

(* norec_tx_commit: at once, in place, or on to the lock.                    *)
LEMMA CommitStep ==
  ASSUME IInv, NEW t \in Threads, Commit(t)
  PROVE  IInv'
<1>1. AtWork(t) /\ TypeOK /\ tx[t] \in TxRecord /\ tx[t].level \in Nat
  BY ThreadFacts DEF Commit
<1>2. /\ InTx(t) /\ pc[t] = "run" /\ caller[t] = "none" /\ arg[t] = NoArg
      /\ tx[t].err = "none" /\ ~tx[t].retry
      /\ tx[t].level = tx[t].depth - 1 /\ tx[t].depth > 0
  BY <1>1, AtWorkFacts
<1> DEFINE r == TxCommit(tx[t])
<1>3. /\ r \in TxRecord /\ r.stage = "ONCOMMIT" /\ r.depth = tx[t].depth
      /\ r.level = tx[t].level /\ r.retry = tx[t].retry /\ r.err = tx[t].err
  BY <1>1, TxCommitFields
<1>4. UNCHANGED <<glb, loc, irrevoc, arg, time, todo, left, rset, wset, frees, hist,
                  start, seen>>
  BY DEF Commit, lockVars, setVars
<1>5. CASE tx' = [tx EXCEPT ![t] = r] /\ UNCHANGED <<mem, own, pc, caller>>
  <2> HIDE DEF r
  <2>1. TypeOK' /\ OthersSame(t) /\ tx'[t] = r
    BY <1>1, <1>3, <1>4, <1>5 DEF TypeOK, OthersSame, Mine
  <2> QED
    BY <1>2, <1>3, <1>4, <1>5, <2>1, RecordStep
<1>6. CASE /\ irrevoc[t] /\ mem' = Reclaim(t, mem)
           /\ own' = [own EXCEPT ![t] = Reclaim(t, @)]
           /\ tx' = [tx EXCEPT ![t] = r] /\ UNCHANGED <<pc, caller>>
  <2> HIDE DEF r
  <2>1. /\ mem \in [Addrs -> Contents] /\ own[t] \in [Addrs -> Contents \cup {NoVal}]
        /\ Junk \in Contents
    BY <1>1 DEF TypeOK, Contents
  <2>2. /\ Reclaim(t, mem) \in [Addrs -> Contents]
        /\ Reclaim(t, own[t]) \in [Addrs -> Contents \cup {NoVal}]
    BY <2>1 DEF Reclaim
  <2>3. TypeOK' /\ OthersSame(t) /\ tx'[t] = r /\ own'[t] = Reclaim(t, own[t])
    BY <1>1, <1>3, <1>4, <1>6, <2>2 DEF TypeOK, OthersSame, Mine
  <2>4. Explains(glb - 1, t) /\ mem = Overlay(hist[glb - 1], own[t])
    BY <1>2, <1>6, IrrevocFacts
  <2>5. mem' = Overlay(hist[glb - 1], own'[t])
    BY <1>6, <2>3, <2>4, ConstAssumption DEF Reclaim, Overlay
  <2>6. Explains(glb - 1, t)'
    BY <1>4, <2>4 DEF Explains
  <2> QED
    BY <1>1, <1>3, <1>4, <1>6, <2>3, <2>5, <2>6, InPlaceStep
<1>7. CASE /\ ~CommitsNothing(t) /\ ~irrevoc[t]
           /\ caller' = [caller EXCEPT ![t] = "commit"]
           /\ Goto(t, "cas") /\ UNCHANGED <<mem, own, tx>>
  <2>1. tx[t].level = 0
    BY <1>1, <1>7 DEF CommitsNothing
  <2>2. arg' = [arg EXCEPT ![t] = NoArg]
    BY <1>1, <1>2, <1>4 DEF TypeOK
  <2> QED
    BY <1>1, <1>4, <1>7, <2>1, <2>2, AskStep
<1> QED
  BY <1>5, <1>6, <1>7 DEF Commit

(* norec_tx_begin takes the newest version there is.                         *)
LEMMA BeginStep ==
  ASSUME IInv, NEW t \in Threads, Begin(t)
  PROVE  IInv'
<1>1. /\ TypeOK /\ HistoryInv /\ tx[t] \in TxRecord /\ ControlInv(t) /\ SetsInv(t)
      /\ glb \in Nat /\ pc[t] \in {"idle", "begin"} /\ tx[t].depth \in Nat
  BY ThreadFacts DEF Begin
<1>2. ~InTx(t) /\ caller[t] = "none" /\ arg[t] = NoArg /\ tx[t].stage = "NONE"
      /\ tx[t].depth = 0
  BY <1>1 DEF ControlInv, InTx, TypeOK
<1> DEFINE r == TxBegin(tx[t])
<1>3. /\ r \in TxRecord /\ r.stage = "WORK" /\ r.depth = 1 /\ r.level = 0
      /\ r.retry = FALSE /\ r.err = "none"
  <2>1. /\ r \in TxRecord /\ r.stage = "WORK" /\ r.depth = tx[t].depth + 1
        /\ r.level = (IF tx[t].stage = "WORK" THEN tx[t].level + 1 ELSE 0)
        /\ r.retry = FALSE /\ r.err = "none"
    BY <1>1, TxBeginFields
  <2> QED
    BY <1>2, <2>1
<1>4. /\ irrevoc' = [irrevoc EXCEPT ![t] = FALSE] /\ loc' = [loc EXCEPT ![t] = Even(glb)]
      /\ tx' = [tx EXCEPT ![t] = r] /\ start' = [start EXCEPT ![t] = Even(glb)]
      /\ pc' = [pc EXCEPT ![t] = "run"]
      /\ UNCHANGED <<glb, mem, caller, arg, time, todo, left, rset, wset, frees, hist,
                     seen, own>>
  BY DEF Begin, Goto, callVars, setVars
<1> HIDE DEF r
<1>5. Even(glb) \in Nat /\ Even(glb) <= glb /\ Even(glb) \in DOMAIN hist
  BY <1>1, Parity DEF HistoryInv
<1>6. TypeOK'
  BY <1>1, <1>3, <1>4, <1>5 DEF TypeOK, Labels
<1>7. /\ OthersSame(t) /\ irrevoc'[t] = FALSE /\ loc'[t] = Even(glb) /\ tx'[t] = r
      /\ start'[t] = Even(glb) /\ pc'[t] = "run"
  BY <1>1, <1>4 DEF TypeOK, OthersSame, Mine
<1>8. ControlInv(t)'
  BY <1>2, <1>3, <1>4, <1>7 DEF ControlInv, InTx, InWork
<1>9. /\ rset[t] = {} /\ wset[t] = <<>> /\ frees[t] = {} /\ seen[t] = {}
      /\ own[t] = NoWrites
  BY <1>1, <1>2 DEF SetsInv
<1>10. SetsInv(t)'
  <2>1. Listed(<<>>, NoWrites) /\ \A a \in Addrs : NoWrites[a] = NoVal
    BY DEF Listed, NoWrites
  <2> QED
    BY <1>2, <1>3, <1>4, <1>7, <1>9, <2>1 DEF SetsInv, InTx, Replaying, InWset
<1>11. Snapshot(loc[t], t)' /\ Opaque(t)'
  BY <1>4, <1>5, <1>7, <1>9 DEF Snapshot, Explains, Opaque
<1>12. ReaderInv(t)'
  BY <1>4, <1>5, <1>7, <1>11 DEF ReaderInv, InTx
<1>13. ~Holds(t) /\ ~Holds(t)'
  BY <1>1, <1>2, <1>7 DEF Holds, Replaying, InTx
<1> QED
  BY <1>4, <1>6, <1>7, <1>8, <1>10, <1>11, <1>12, <1>13, QuietStep DEF PInv

--------------------------------------------------------------------------------
(* The lock: taking it, replaying, giving it back.                          *)

(* The CAS succeeds on an even value whose version explains all t has read, *)
(* so nobody else holds the lock and memory is that version.                *)
LEMMA SwapSucceedsStep ==
  ASSUME IInv, NEW t \in Threads, CompareAndSwap(t), glb = loc[t]
  PROVE  IInv'
<1>1. /\ TypeOK /\ HistoryInv /\ LockHasOneHolder /\ pc[t] = "cas" /\ caller[t] # "none"
      /\ glb \in Nat /\ ReaderInv(t) /\ SetsInv(t) /\ ControlInv(t)
  BY ThreadFacts, CallsHaveCallers DEF CompareAndSwap, IInv
<1>2. /\ InTx(t) /\ InWork(tx[t]) /\ ~irrevoc[t] /\ Snapshot(loc[t], t)
      /\ Listed(wset[t], own[t])
      /\ \A a \in Addrs : own[t][a] # NoVal => InWset(t, a)
  BY <1>1, InCallFacts
<1>3. IsEven(glb) /\ mem = hist[glb]
  BY <1>2, MemoryAtLoc
<1>4. /\ glb' = glb + 1 /\ left' = [left EXCEPT ![t] = wset[t]]
      /\ pc' = [pc EXCEPT ![t] = "redo"]
      /\ UNCHANGED <<loc, irrevoc, mem, tx, caller, arg, time, todo, rset, wset, frees,
                     hist, start, seen, own>>
  BY DEF CompareAndSwap, Goto, setVars, histVars
<1>5. TypeOK'
  BY <1>1, <1>4 DEF TypeOK, Labels
<1>6. OthersSame(t) /\ pc'[t] = "redo" /\ left'[t] = wset[t]
  BY <1>1, <1>4 DEF TypeOK, OthersSame, Mine
<1>7. \A s \in Threads : ~Holds(s)
  BY <1>1, <1>3 DEF LockHasOneHolder
<1>8. ASSUME NEW s \in Threads, s # t PROVE PInv(s)' /\ ~Holds(s)'
  BY <1>1, <1>3, <1>4, <1>6, <1>7, <1>8, OthersInv DEF OthersSame
<1>9. PInv(t)'
  <2>1. ControlInv(t)'
    BY <1>1, <1>4, <1>6 DEF ControlInv, InTx, InWork
  <2>2. SetsInv(t)'
    BY <1>1, <1>2, <1>4, <1>6 DEF SetsInv, InTx, InWset, Listed, Replaying
  <2>3. Snapshot(loc[t], t)' /\ Opaque(t)'
    BY <1>2, <1>4 DEF Snapshot, Explains, Opaque
  <2>4. start[t] <= glb'
    BY <1>1, <1>2, <1>4 DEF ReaderInv, TypeOK
  <2>5. ReaderInv(t)'
    BY <1>2, <1>4, <1>6, <2>3, <2>4 DEF ReaderInv, InTx
  <2> QED
    BY <2>1, <2>2, <2>3, <2>5 DEF PInv
<1>10. Holds(t)' /\ HeldAt(t)' = glb'
  BY <1>4, <1>6 DEF Holds, HeldAt, Replaying
<1>11. LockHasOneHolder'
  BY <1>1, <1>3, <1>4, <1>8, <1>10, Parity DEF LockHasOneHolder
<1>12. MemoryIsVersionPlusHolder'
  <2>1. mem' = Overlay(hist[glb], Copied(t)')
    BY <1>1, <1>2, <1>3, <1>4, <1>6 DEF Copied, Replaying, Overlay, InWset, TypeOK
  <2>2. ~IsEven(glb)' /\ glb' - 1 = glb
    BY <1>1, <1>3, <1>4, Parity DEF IsEven
  <2>3. \A s \in Threads : Holds(s)' => s = t
    BY <1>8
  <2> QED
    BY <1>4, <2>1, <2>2, <2>3 DEF MemoryIsVersionPlusHolder, Overlay
<1>13. HistoryInv'
  <2>1. Even(glb') = glb /\ Even(glb) = glb
    BY <1>1, <1>3, <1>4, Parity
  <2>2. glb <= glb' /\ \A g \in DOMAIN hist : g \in Nat
    BY <1>1, <1>4 DEF TypeOK
  <2> QED
    BY <1>1, <1>4, <2>1, <2>2 DEF HistoryInv, Even
<1> QED
  BY <1>5, <1>8, <1>9, <1>11, <1>12, <1>13, IInvIsPInv DEF IInv, PInv, ReadsAreOneVersion, Opaque

(* What is left of a write set without its first entry.                     *)
LEMMA TailFacts ==
  ASSUME NEW w \in Seq(Addrs \X Vals), w # <<>>
  PROVE  /\ Tail(w) \in Seq(Addrs \X Vals) /\ 1 \in DOMAIN w /\ Head(w) = w[1]
         /\ w[1] \in Addrs \X Vals
         /\ \A i \in DOMAIN Tail(w) : /\ i + 1 \in DOMAIN w /\ Tail(w)[i] = w[i + 1]
                                      /\ i + 1 # 1
         /\ \A i \in DOMAIN w : i # 1 => i - 1 \in DOMAIN Tail(w) /\ Tail(w)[i - 1] = w[i]
OBVIOUS

(* One entry copied: memory follows.                                        *)
LEMMA RedoStep ==
  ASSUME IInv, NEW t \in Threads, Redo(t)
  PROVE  IInv'
<1>1. /\ TypeOK /\ pc[t] = "redo" /\ ControlInv(t) /\ SetsInv(t) /\ ReaderInv(t)
      /\ Opaque(t) /\ Holds(t) /\ Replaying(t) /\ left[t] # <<>>
  BY ThreadFacts DEF Redo, Holds, Replaying
<1> DEFINE w == left[t]
           rest == Tail(left[t])
<1>2. w \in Seq(Addrs \X Vals) /\ Listed(w, own[t]) /\ own[t] \in [Addrs -> Contents \cup {NoVal}]
  BY <1>1 DEF SetsInv, TypeOK
<1>3. /\ rest \in Seq(Addrs \X Vals) /\ 1 \in DOMAIN w /\ Head(w) = w[1]
      /\ w[1] \in Addrs \X Vals
      /\ \A i \in DOMAIN rest : i + 1 \in DOMAIN w /\ rest[i] = w[i + 1] /\ i + 1 # 1
      /\ \A i \in DOMAIN w : i # 1 => i - 1 \in DOMAIN rest /\ rest[i - 1] = w[i]
  BY <1>1, <1>2, TailFacts
<1>4. /\ mem' = [mem EXCEPT ![w[1][1]] = w[1][2]] /\ left' = [left EXCEPT ![t] = rest]
      /\ UNCHANGED <<glb, loc, irrevoc, tx, pc, caller, arg, time, todo, rset, wset, frees,
                     hist, start, seen, own>>
  BY <1>3 DEF Redo, lockVars, setVars, histVars
<1>5. w[1][1] \in Addrs /\ w[1][2] \in Vals /\ own[t][w[1][1]] = w[1][2] /\ w[1][2] # NoVal
  BY <1>2, <1>3, ConstAssumption DEF Listed
<1> HIDE DEF rest
<1>6. TypeOK'
  BY <1>1, <1>3, <1>4, <1>5 DEF TypeOK, Contents
<1>7. OthersSame(t) /\ left'[t] = rest
  BY <1>1, <1>4 DEF TypeOK, OthersSame, Mine
<1>8. Listed(rest, own[t])
  <2>1. ASSUME NEW i \in DOMAIN rest PROVE own[t][rest[i][1]] = rest[i][2]
    BY <1>2, <1>3 DEF Listed
  <2>2. ASSUME NEW i \in DOMAIN rest, NEW j \in DOMAIN rest, rest[j][1] = rest[i][1]
        PROVE  j = i
    <3>1. i \in Nat /\ j \in Nat
      BY <1>3
    <3>2. j + 1 = i + 1
      BY <1>2, <1>3, <2>2 DEF Listed
    <3> QED
      BY <3>1, <3>2
  <2> QED
    BY <2>1, <2>2 DEF Listed
<1>9. PInv(t)'
  <2>1. ControlInv(t)'
    BY <1>1, <1>4 DEF ControlInv, InTx, InWork
  <2>2. SetsInv(t)'
    BY <1>1, <1>4, <1>7, <1>8 DEF SetsInv, InTx, InWset, Replaying
  <2>4. Opaque(t)'
    BY <1>1, <1>4 DEF Opaque, InTx, Snapshot, Explains
  <2>5. ReaderInv(t)'
    BY <1>1, <1>4 DEF ReaderInv, InTx, Snapshot, Explains
  <2> QED
    BY <2>1, <2>2, <2>4, <2>5 DEF PInv
<1>10. /\ Holds(t)' /\ HeldAt(t)' = HeldAt(t)
       /\ Copied(t)' = [a \in Addrs |-> IF \E i \in DOMAIN rest : rest[i][1] = a
                                        THEN NoVal ELSE own[t][a]]
  BY <1>1, <1>4, <1>7 DEF Holds, Replaying, HeldAt, Copied
<1>11. mem = Overlay(hist[glb - 1], Copied(t)) /\ mem \in [Addrs -> Contents]
  BY <1>1 DEF IInv, MemoryIsVersionPlusHolder, TypeOK
<1>12. mem' = Overlay(hist[glb - 1], Copied(t)')
  <2> SUFFICES ASSUME NEW a \in Addrs
               PROVE  mem'[a] = Overlay(hist[glb - 1], Copied(t)')[a]
    BY <1>4, <1>11 DEF Overlay
  <2>1. CASE a = w[1][1]
    <3>1. ~\E i \in DOMAIN rest : rest[i][1] = a
      BY <1>2, <1>3, <2>1 DEF Listed
    <3> QED
      BY <1>4, <1>5, <1>10, <1>11, <2>1, <3>1 DEF Overlay
  <2>2. CASE a # w[1][1]
    <3>1. (\E i \in DOMAIN rest : rest[i][1] = a) <=> (\E i \in DOMAIN w : w[i][1] = a)
      BY <1>3, <2>2
    <3>2. Copied(t)[a] = IF \E i \in DOMAIN w : w[i][1] = a THEN NoVal ELSE own[t][a]
      BY <1>1 DEF Copied
    <3>3. Copied(t)'[a] = Copied(t)[a]
      BY <1>10, <3>1, <3>2
    <3>4. mem'[a] = mem[a]
      BY <1>4, <1>5, <1>11, <2>2
    <3> QED
      BY <1>11, <3>3, <3>4 DEF Overlay
  <2> QED
    BY <2>1, <2>2
<1> QED
  BY <1>1, <1>4, <1>6, <1>7, <1>9, <1>10, <1>12, SameLockStep

(* Having replayed everything, t keeps the lock and goes on in place.       *)
LEMMA BecomeIrrevocStep ==
  ASSUME IInv, NEW t \in Threads, BecomeIrrevoc(t)
  PROVE  IInv'
<1>1. /\ TypeOK /\ pc[t] = "redo" /\ ControlInv(t) /\ SetsInv(t) /\ ReaderInv(t)
      /\ caller[t] # "none" /\ left[t] = <<>> /\ loc[t] \in Nat
      /\ Holds(t) /\ Replaying(t)
  BY ThreadFacts, CallsHaveCallers DEF BecomeIrrevoc, Replaying, Holds
<1>2. /\ InTx(t) /\ InWork(tx[t]) /\ tx[t].err = "none" /\ ~tx[t].retry
      /\ Snapshot(loc[t], t)
      /\ caller[t] \in {"read", "free"} <=> arg[t] # NoArg
  BY <1>1, InCallFacts
<1>3. /\ loc' = [loc EXCEPT ![t] = @ + 1] /\ irrevoc' = [irrevoc EXCEPT ![t] = TRUE]
      /\ UNCHANGED <<glb, mem, rset, wset, hist, start, seen, own>>
  BY DEF BecomeIrrevoc, histVars
<1>4. /\ pc' = [pc EXCEPT ![t] = "run"] /\ caller' = [caller EXCEPT ![t] = "none"]
      /\ arg' = [arg EXCEPT ![t] = NoArg] /\ time' = [time EXCEPT ![t] = 0]
      /\ todo' = [todo EXCEPT ![t] = {}] /\ left' = [left EXCEPT ![t] = <<>>]
  BY DEF BecomeIrrevoc, Leave, Goto
<1>5. caller[t] = "free" => arg[t][1] \in Addrs
  BY <1>1, <1>2 DEF TypeOK, Entries
<1>6. PICK r \in TxRecord, f \in SUBSET Addrs :
        /\ tx' = [tx EXCEPT ![t] = r] /\ frees' = [frees EXCEPT ![t] = f]
        /\ r.depth = tx[t].depth /\ r.level = tx[t].level /\ r.retry = tx[t].retry
        /\ r.err \in {"none", "failed"} /\ (r.stage = "WORK" => r.err = "none")
  <2>1. tx[t] \in TxRecord /\ tx[t].retry \in BOOLEAN
    BY <1>1 DEF TypeOK, TxRecord
  <2>2. /\ TxAbort(tx[t], "failed") \in TxRecord
        /\ TxAbort(tx[t], "failed").depth = tx[t].depth
        /\ TxAbort(tx[t], "failed").level = tx[t].level
        /\ TxAbort(tx[t], "failed").retry = tx[t].retry
        /\ TxAbort(tx[t], "failed").err = "failed"
        /\ TxAbort(tx[t], "failed").stage # "WORK"
    BY <2>1, TxAbortFields DEF Errs
  <2>3. CASE UNCHANGED <<frees, tx>>
    <3>1. tx' = [tx EXCEPT ![t] = tx[t]] /\ frees' = [frees EXCEPT ![t] = frees[t]]
      BY <1>1, <2>3 DEF TypeOK
    <3> QED
      BY <1>1, <1>2, <2>1, <3>1 DEF TypeOK
  <2>4. CASE /\ caller[t] = "free" /\ UNCHANGED tx
             /\ frees' = [frees EXCEPT ![t] = @ \cup {arg[t][1]}]
    <3>1. tx' = [tx EXCEPT ![t] = tx[t]]
      BY <1>1, <2>4 DEF TypeOK
    <3>2. frees[t] \cup {arg[t][1]} \in SUBSET Addrs
      BY <1>1, <1>5, <2>4 DEF TypeOK
    <3> QED
      BY <1>1, <1>2, <2>1, <2>4, <3>1, <3>2 DEF TypeOK
  <2>5. CASE UNCHANGED frees /\ tx' = [tx EXCEPT ![t] = TxAbort(tx[t], "failed")]
    <3>1. frees' = [frees EXCEPT ![t] = frees[t]] /\ frees[t] \in SUBSET Addrs
      BY <1>1, <2>5 DEF TypeOK
    <3> QED
      BY <2>2, <2>5, <3>1
  <2> QED
    BY <2>3, <2>4, <2>5 DEF BecomeIrrevoc, GoOn, ListFree
<1>7. TypeOK'
  BY <1>1, <1>3, <1>4, <1>6 DEF TypeOK, Labels
<1>8. /\ OthersSame(t) /\ loc'[t] = loc[t] + 1 /\ irrevoc'[t] = TRUE /\ pc'[t] = "run"
      /\ caller'[t] = "none" /\ arg'[t] = NoArg /\ tx'[t] = r
  BY <1>1, <1>3, <1>4, <1>6 DEF TypeOK, OthersSame, Mine
<1>9. PInv(t)'
  <2>1. ControlInv(t)'
    BY <1>1, <1>2, <1>3, <1>6, <1>8 DEF ControlInv, InTx, InWork
  <2>2. SetsInv(t)'
    BY <1>2, <1>3, <1>6, <1>8 DEF SetsInv, InTx, Replaying
  <2>3. Snapshot(loc[t] - 1, t)' /\ Opaque(t)'
    BY <1>1, <1>2, <1>3, <1>8 DEF Snapshot, Explains, Opaque
  <2>4. ReaderInv(t)'
    BY <1>1, <1>2, <1>3, <1>6, <1>8, <2>3 DEF ReaderInv, InTx
  <2> QED
    BY <2>1, <2>2, <2>3, <2>4 DEF PInv
<1>10. Holds(t)' /\ HeldAt(t)' = HeldAt(t)
  BY <1>1, <1>2, <1>3, <1>6, <1>8 DEF Holds, InTx, Replaying, HeldAt
<1>11. Copied(t)' = Copied(t)
  <2>1. Copied(t)' = own[t]
    BY <1>3, <1>8 DEF Copied, Replaying
  <2>2. Copied(t) = [a \in Addrs |-> own[t][a]]
    BY <1>1 DEF Copied
  <2> QED
    BY <1>1, <2>1, <2>2 DEF TypeOK
<1> QED
  BY <1>1, <1>3, <1>7, <1>8, <1>9, <1>10, <1>11, QuietStep

(* Giving the lock back: what t has made of memory is the next version.     *)
LEMMA GiveStep ==
  ASSUME IInv, NEW t \in Threads, Holds(t), TypeOK', OthersSame(t),
         glb' = glb + 1, mem' = mem, Publish(glb + 1, mem), PInv(t)', ~Holds(t)'
  PROVE  IInv'
<1>1. TypeOK /\ HistoryInv /\ LockHasOneHolder /\ glb \in Nat
  BY ThreadFacts DEF IInv
<1>2. /\ ~IsEven(glb) /\ IsEven(glb + 1) /\ Even(glb) = glb - 1 /\ glb - 1 \in Nat
      /\ Even(glb + 1) = glb + 1 /\ ~Replaying(t)'
  BY <1>1, Parity DEF LockHasOneHolder, Holds
<1>3. /\ DOMAIN hist' = DOMAIN hist \cup {glb + 1}
      /\ hist'[glb + 1] = mem
      /\ \A g \in DOMAIN hist : g \in Nat /\ g <= glb /\ IsEven(g)
  BY <1>1 DEF Publish, HistoryInv, TypeOK
<1>4. \A g \in DOMAIN hist : g \in DOMAIN hist' /\ hist'[g] = hist[g]
  BY <1>1, <1>3 DEF Publish
<1>5. ASSUME NEW s \in Threads, s # t PROVE PInv(s)' /\ ~Holds(s)'
  <2>1. ~Holds(s)
    BY <1>1, <1>5 DEF LockHasOneHolder
  <2> QED
    BY <1>1, <1>2, <1>4, <1>5, <2>1, OthersInv DEF OthersSame
<1>6. LockHasOneHolder'
  BY <1>2, <1>5 DEF LockHasOneHolder
<1>7. MemoryIsVersionPlusHolder'
  BY <1>3, <1>5 DEF MemoryIsVersionPlusHolder
<1>8. HistoryInv'
  <2>1. \A g \in DOMAIN hist' : IsEven(g) /\ g <= glb'
    BY <1>1, <1>2, <1>3
  <2>2. Even(glb') \in DOMAIN hist'
    BY <1>2, <1>3
  <2> QED
    BY <2>1, <2>2 DEF HistoryInv, IsEven
<1> QED
  BY <1>5, <1>6, <1>7, <1>8 DEF IInv, PInv, ReadsAreOneVersion, Opaque

(* The end of norec_tx_commit's slow path.                                  *)
LEMMA ReleaseStep ==
  ASSUME IInv, NEW t \in Threads, Release(t)
  PROVE  IInv'
<1>1. /\ TypeOK /\ pc[t] = "redo" /\ ControlInv(t) /\ SetsInv(t) /\ ReaderInv(t)
      /\ caller[t] = "commit" /\ loc[t] \in Nat /\ glb \in Nat /\ tx[t] \in TxRecord
      /\ Holds(t) /\ Replaying(t)
  BY ThreadFacts DEF Release, Replaying, Holds
<1>2. /\ InTx(t) /\ InWork(tx[t]) /\ tx[t].err = "none" /\ ~tx[t].retry /\ ~irrevoc[t]
      /\ Snapshot(loc[t], t)
      /\ seen[t] = rset[t] /\ frees[t] = {} /\ Listed(wset[t], own[t])
      /\ \A a \in Addrs : own[t][a] # NoVal => InWset(t, a)
  BY <1>1, InCallFacts
<1>3. glb = loc[t] + 1
  BY <1>1 DEF IInv, LockHasOneHolder, HeldAt
<1> DEFINE r == TxCommit(tx[t])
<1>4. /\ r \in TxRecord /\ r.stage = "ONCOMMIT" /\ r.depth = tx[t].depth
      /\ r.level = tx[t].level /\ r.retry = tx[t].retry /\ r.err = tx[t].err
  BY <1>1, TxCommitFields
<1>5. /\ glb' = glb + 1 /\ Publish(glb + 1, mem) /\ tx' = [tx EXCEPT ![t] = r]
      /\ UNCHANGED <<loc, irrevoc, mem, rset, wset, frees, start, seen, own>>
  <2>1. loc[t] + 2 = glb + 1
    BY <1>1, <1>3
  <2> QED
    BY <2>1 DEF Release, setVars
<1>6. /\ pc' = [pc EXCEPT ![t] = "run"] /\ caller' = [caller EXCEPT ![t] = "none"]
      /\ arg' = [arg EXCEPT ![t] = NoArg] /\ time' = [time EXCEPT ![t] = 0]
      /\ todo' = [todo EXCEPT ![t] = {}] /\ left' = [left EXCEPT ![t] = <<>>]
  BY DEF Release, Leave, Goto
<1> HIDE DEF r
<1>7. /\ DOMAIN hist' = DOMAIN hist \cup {glb + 1} /\ hist'[glb + 1] = mem
      /\ \A g \in DOMAIN hist : g \in Nat /\ g <= glb /\ hist'[g] = hist[g]
  BY <1>1, <1>5, ThreadFacts DEF Publish, HistoryInv, TypeOK
<1>8. TypeOK'
  BY <1>1, <1>4, <1>5, <1>6, <1>7 DEF TypeOK, Labels
<1>9. /\ OthersSame(t) /\ tx'[t] = r /\ pc'[t] = "run" /\ caller'[t] = "none"
      /\ arg'[t] = NoArg
  BY <1>1, <1>5, <1>6 DEF TypeOK, OthersSame, Mine
<1>10. PInv(t)'
  <2>1. ControlInv(t)'
    BY <1>1, <1>2, <1>4, <1>5, <1>9 DEF ControlInv, InTx, InWork
  <2>2. SetsInv(t)'
    BY <1>2, <1>4, <1>5, <1>9 DEF SetsInv, InTx, InWset, Listed, Replaying
  <2>3. Snapshot(loc[t], t)'
    BY <1>2, <1>5, <1>7 DEF Snapshot, Explains
  <2>4. Opaque(t)'
    BY <2>3, <1>5 DEF Opaque, Snapshot, Explains
  <2>5. start[t] <= glb'
    BY <1>1, <1>2, <1>5 DEF ReaderInv, TypeOK
  <2>6. ReaderInv(t)'
    BY <1>2, <1>5, <1>9, <2>3, <2>5 DEF ReaderInv, InTx
  <2> QED
    BY <2>1, <2>2, <2>4, <2>6 DEF PInv
<1>11. ~Holds(t)'
  BY <1>2, <1>5, <1>9 DEF Holds, Replaying
<1> QED
  BY <1>1, <1>5, <1>8, <1>9, <1>10, <1>11, GiveStep

(* norec_tx_end of the outermost block: norec_on_end gives the lock back    *)
(* exactly when the transaction has it.                                     *)
LEMMA EndStep ==
  ASSUME IInv, NEW t \in Threads, End(t)
  PROVE  IInv'
<1>1. /\ TypeOK /\ pc[t] = "run" /\ ControlInv(t) /\ tx[t] \in TxRecord /\ Outermost(tx[t])
      /\ glb \in Nat
  BY ThreadFacts DEF End
<1>2. InTx(t) /\ caller[t] = "none" /\ arg[t] = NoArg /\ (irrevoc[t] => ~tx[t].retry)
  BY <1>1 DEF ControlInv, TypeOK
<1> DEFINE r == TxEnd(tx[t])
           next == IF Retries(tx[t]) THEN "begin" ELSE "idle"
<1>3. r \in TxRecord /\ r.stage = "NONE" /\ r.depth = 0
  BY <1>1, TxEndOutermost
<1>4. /\ tx' = [tx EXCEPT ![t] = r] /\ rset' = [rset EXCEPT ![t] = {}]
      /\ wset' = [wset EXCEPT ![t] = <<>>] /\ frees' = [frees EXCEPT ![t] = {}]
      /\ seen' = [seen EXCEPT ![t] = {}] /\ own' = [own EXCEPT ![t] = NoWrites]
      /\ pc' = [pc EXCEPT ![t] = next]
      /\ UNCHANGED <<mem, loc, irrevoc, caller, arg, time, todo, left, start>>
  BY DEF End, Goto, callVars
<1>5. next \in {"idle", "begin"} /\ NoWrites \in [Addrs -> Contents \cup {NoVal}]
  BY DEF NoWrites
<1> HIDE DEF r, next
<1>6. /\ OthersSame(t) /\ tx'[t] = r /\ rset'[t] = {} /\ wset'[t] = <<>> /\ frees'[t] = {}
      /\ seen'[t] = {} /\ own'[t] = NoWrites /\ pc'[t] = next
  BY <1>1, <1>4 DEF TypeOK, OthersSame, Mine
<1>7. PInv(t)'
  <2>1. ~InTx(t)' /\ InWork(r) = FALSE
    BY <1>3, <1>6 DEF InTx, InWork
  <2>2. ControlInv(t)'
    BY <1>2, <1>3, <1>4, <1>5, <1>6, <2>1 DEF ControlInv
  <2>3. SetsInv(t)' /\ ReaderInv(t)' /\ Opaque(t)'
    BY <1>2, <1>4, <1>5, <1>6, <2>1 DEF SetsInv, ReaderInv, Opaque, Replaying
  <2> QED
    BY <2>2, <2>3 DEF PInv
<1>8. ~Holds(t)'
  BY <1>3, <1>5, <1>6 DEF Holds, Replaying, InTx
<1>9. CASE irrevoc[t]
  <2>1. Holds(t) /\ ~IsEven(glb) /\ loc[t] = glb
    BY <1>2, <1>9, IrrevocFacts
  <2>2. glb' = glb + 1 /\ Publish(glb + 1, mem)
    BY <1>2, <1>9, <2>1 DEF End, OnEnd
  <2>3. /\ DOMAIN hist' = DOMAIN hist \cup {glb + 1} /\ hist'[glb + 1] = mem
        /\ \A g \in DOMAIN hist : g \in Nat /\ g <= glb /\ hist'[g] = hist[g]
    BY <1>1, <2>2, ThreadFacts DEF Publish, HistoryInv, TypeOK
  <2>4. TypeOK'
    BY <1>1, <1>3, <1>4, <1>5, <2>2, <2>3 DEF TypeOK, Labels
  <2> QED
    BY <1>4, <1>6, <1>7, <1>8, <2>1, <2>2, <2>4, GiveStep
<1>10. CASE ~irrevoc[t]
  <2>1. UNCHANGED <<glb, hist>>
    BY <1>10 DEF End, OnEnd
  <2>2. TypeOK'
    BY <1>1, <1>3, <1>4, <1>5, <2>1 DEF TypeOK, Labels
  <2>3. ~Holds(t)
    BY <1>1, <1>10 DEF Holds, Replaying
  <2> QED
    BY <1>4, <1>6, <1>7, <1>8, <2>1, <2>2, <2>3, QuietStep
<1> QED
  BY <1>9, <1>10

--------------------------------------------------------------------------------
(* The invariant is inductive.                                              *)
LEMMA StutterInv == ASSUME IInv, UNCHANGED vars PROVE IInv'
<1> USE DEF vars
<1>1. TypeOK' /\ LockHasOneHolder' /\ MemoryIsVersionPlusHolder' /\ HistoryInv'
  <2>1. TypeOK'
    BY DEF IInv, TypeOK
  <2>2. \A s \in Threads : /\ Holds(s)' <=> Holds(s)
                           /\ HeldAt(s)' = HeldAt(s) /\ Copied(s)' = Copied(s)
    BY DEF Holds, HeldAt, Copied, Replaying, InTx
  <2>3. LockHasOneHolder' /\ MemoryIsVersionPlusHolder' /\ HistoryInv'
    BY <2>2 DEF IInv, LockHasOneHolder, MemoryIsVersionPlusHolder, HistoryInv
  <2> QED
    BY <2>1, <2>3
<1>2. ASSUME NEW s \in Threads PROVE PInv(s)'
  BY ThreadFacts, OthersInv DEF Mine
<1> QED
  BY <1>1, <1>2 DEF IInv, PInv, ReadsAreOneVersion, Opaque

(* Every step of the specification keeps the invariant.                     *)
LEMMA NextInv == ASSUME ~RestartIrrevoc, IInv, [Next]_vars PROVE IInv'
<1>1. ASSUME NEW t \in Threads, Client(t) PROVE IInv'
  BY <1>1, BeginNestedStep, ReadStep, FreeStep, WriteStep, IrrevocStep, AbortStep,
     UserRestartStep, CommitStep DEF Client, UserAbort, MallocFails
<1>2. ASSUME NEW t \in Threads, CompareAndSwap(t) PROVE IInv'
  BY <1>2, SwapFailsStep, SwapSucceedsStep
<1>3. ASSUME NEW t \in Threads, Library(t) PROVE IInv'
  BY <1>2, <1>3, BeginStep, PrevalidateStep, ReloadStep, SampleTimeStep, CompareStep,
     RecheckStep, RedoStep, ReleaseStep, BecomeIrrevocStep, ProcessStep, EndNestedStep,
     EndStep DEF Library
<1>4. ASSUME UNCHANGED vars PROVE IInv'
  BY <1>4, StutterInv
<1> QED
  BY <1>1, <1>3, <1>4 DEF Next, Finished

(* The invariant holds for all threads, locations and values, under the     *)
(* client's one obligation: not to restart what is irrevocable.             *)
THEOREM Invariance == ASSUME ~RestartIrrevoc PROVE Spec => []IInv
<1>1. Init => IInv
  BY InitInv
<1>2. IInv /\ [Next]_vars => IInv'
  BY NextInv
<1> QED
  BY <1>1, <1>2, PTL DEF Spec

(* norec.c never leaves the lock behind, and two transactions never replay  *)
(* or write in place at the same time.                                      *)
THEOREM LockSafety == ASSUME ~RestartIrrevoc PROVE Spec => []LockHasOneHolder
<1>1. IInv => LockHasOneHolder
  BY DEF IInv
<1> QED
  BY <1>1, Invariance, PTL

(* Opacity: comparing values is enough.  Doomed or not, a transaction is    *)
(* only ever handed values of one version, no older than itself, although   *)
(* it validates entry by entry while others run.                            *)
THEOREM Opacity == ASSUME ~RestartIrrevoc PROVE Spec => []ReadsAreOneVersion
<1>1. IInv => ReadsAreOneVersion
  BY DEF IInv
<1> QED
  BY <1>1, Invariance, PTL

(* Buffered writes are invisible, and replayed ones never in a version      *)
(* before all of them are.                                                  *)
THEOREM BufferedWriting ==
  ASSUME ~RestartIrrevoc PROVE Spec => []MemoryIsVersionPlusHolder
<1>1. IInv => MemoryIsVersionPlusHolder
  BY DEF IInv
<1> QED
  BY <1>1, Invariance, PTL

(* What a commit or the end of an irrevocable transaction publishes.        *)
LEMMA PublishedBy ==
  ASSUME IInv, NEW t \in Threads, Holds(t), ~Holds(t)',
         tx[t].err = "none" \/ irrevoc[t],
         glb' = glb + 1, Publish(glb + 1, mem),
         mem = Overlay(hist[glb - 1], own[t]), Explains(glb - 1, t)
  PROVE  PublishStep
<1>1. hist'[glb'] = mem
  BY DEF Publish
<1> QED
  BY <1>1 DEF PublishStep

(* A release after the replay publishes memory, the version before with     *)
(* the write set of the holder on top.                                      *)
LEMMA ReleasePublishes ==
  ASSUME IInv, NEW t \in Threads, Release(t)
  PROVE  PublishStep
<1>1. /\ TypeOK /\ caller[t] # "none" /\ left[t] = <<>> /\ loc[t] \in Nat
      /\ pc[t] = "redo" /\ Replaying(t) /\ Holds(t)
  BY ThreadFacts DEF Release, Replaying, Holds
<1>2. glb = loc[t] + 1 /\ mem = Overlay(hist[glb - 1], Copied(t))
  BY <1>1 DEF IInv, LockHasOneHolder, MemoryIsVersionPlusHolder, HeldAt
<1>3. tx[t].err = "none" /\ ~irrevoc[t] /\ Snapshot(loc[t], t)
  BY <1>1, InCallFacts
<1>4. Copied(t) = own[t]
  BY <1>1 DEF Copied, TypeOK
<1>5. glb - 1 = loc[t] /\ loc[t] + 2 = glb + 1
  BY <1>1, <1>2
<1>6. glb' = glb + 1 /\ Publish(glb + 1, mem) /\ irrevoc' = irrevoc /\ pc'[t] = "run"
  BY <1>1, <1>5 DEF Release, Leave, Goto, TypeOK
<1>7. ~Holds(t)'
  BY <1>3, <1>6 DEF Holds, Replaying
<1> QED
  BY <1>1, <1>2, <1>3, <1>4, <1>5, <1>6, <1>7, PublishedBy DEF Snapshot

(* The end of an irrevocable transaction publishes memory in the same way.  *)
LEMMA EndPublishes ==
  ASSUME IInv, NEW t \in Threads, End(t), DOMAIN hist' # DOMAIN hist
  PROVE  PublishStep
<1>1. /\ TypeOK /\ pc[t] = "run" /\ ControlInv(t) /\ tx[t] \in TxRecord /\ Outermost(tx[t])
      /\ InTx(t) /\ irrevoc[t]
  BY ThreadFacts DEF End, OnEnd, ControlInv
<1>2. /\ Holds(t) /\ loc[t] = glb /\ Explains(glb - 1, t)
      /\ mem = Overlay(hist[glb - 1], own[t])
  BY <1>1, IrrevocFacts
<1>3. glb' = glb + 1 /\ Publish(glb + 1, mem)
  BY <1>2 DEF End, OnEnd
<1>5. ~Holds(t)'
  <2>1. tx'[t] = TxEnd(tx[t]) /\ TxEnd(tx[t]).depth = 0 /\ pc'[t] # "redo"
    BY <1>1, TxEndOutermost DEF End, Goto, TypeOK
  <2> QED
    BY <2>1 DEF Holds, Replaying, InTx
<1> QED
  BY <1>1, <1>2, <1>3, <1>5, PublishedBy

(* Nothing else adds to the history.                                        *)
LEMMA PublishStepHolds == ASSUME IInv, [Next]_vars PROVE PublishStep
<1> SUFFICES ASSUME DOMAIN hist' # DOMAIN hist PROVE PublishStep
  BY DEF PublishStep
<1>1. ASSUME NEW t \in Threads, Client(t) PROVE FALSE
  BY <1>1 DEF Client, BeginNested, Read, Free, Write, Irrevoc, UserAbort, MallocFails, Abort,
     UserRestart, Commit, histVars
<1>2. ASSUME NEW t \in Threads, Library(t) PROVE Release(t) \/ End(t)
  BY <1>2 DEF Library, Begin, Prevalidate, Reload, SampleTime, Compare, Recheck,
     CompareAndSwap, Redo, BecomeIrrevoc, Process, EndNested, histVars
<1>3. ~UNCHANGED vars /\ ~Finished
  BY DEF vars, Finished
<1> QED
  BY <1>1, <1>2, <1>3, ReleasePublishes, EndPublishes DEF Next

(* Each new version is the one before plus everything one transaction that  *)
(* did not fail has written, and everything it read was in the one before:  *)
(* no update is lost between the validation and the CAS.                    *)
THEOREM AtomicPublication == ASSUME ~RestartIrrevoc PROVE Spec => PublishesAtomically
<1>1. IInv /\ [Next]_vars => [PublishStep]_vars
  BY PublishStepHolds
<1> QED
  BY <1>1, Invariance, PTL DEF Spec, PublishesAtomically

--------------------------------------------------------------------------------
(***************************************************************************)
(* NOrec implements AtomicTM, for any number of threads, locations, values *)
(* and transactions: IInv is inductive, and under it every step of NOrec   *)
(* is one step of AtomicTM, or none.                                       *)
(***************************************************************************)

(* The other threads keep everything of their own in a step of t.           *)
LEMMA OthersKeep ==
  ASSUME TypeOK, NEW t \in Threads, Client(t) \/ Library(t)
  PROVE  OthersSame(t)
<1> SUFFICES ASSUME NEW s \in Threads, s # t PROVE Mine(s)' = Mine(s)
  BY DEF OthersSame
<1> USE DEF TypeOK, Mine, lockVars, callVars, setVars, histVars, Goto
<1>1. CASE BeginNested(t) \/ UserAbort(t) \/ MallocFails(t) \/ Commit(t) \/ Irrevoc(t)
  BY <1>1 DEF BeginNested, UserAbort, MallocFails, Abort, Commit, Irrevoc
<1>2. CASE UserRestart(t)
  BY <1>2 DEF UserRestart, Restart, Leave
<1>3. CASE \E a \in Addrs : Read(t, a)
  BY <1>3 DEF Read, ReadInPlace, ReadOwnWrite, ReadLoad, Hand
<1>4. CASE \E a \in Addrs : Free(t, a)
  BY <1>4 DEF Free, ListFree
<1>5. CASE \E a \in Addrs, v \in Vals : Write(t, a, v)
  BY <1>5 DEF Write
<1>6. CASE Begin(t) \/ Process(t) \/ EndNested(t)
  BY <1>6 DEF Begin, Process, EndNested
<1>7. CASE Prevalidate(t)
  BY <1>7 DEF Prevalidate, Hand, Leave
<1>8. CASE Reload(t) \/ SampleTime(t) \/ Recheck(t)
  BY <1>8 DEF Reload, SampleTime, Recheck
<1>9. CASE Compare(t)
  BY <1>9 DEF Compare, Restart, Leave
<1>10. CASE CompareAndSwap(t) \/ Redo(t)
  BY <1>10 DEF CompareAndSwap, Redo
<1>11. CASE Release(t)
  BY <1>11 DEF Release, Leave
<1>12. CASE BecomeIrrevoc(t)
  BY <1>12 DEF BecomeIrrevoc, GoOn, ListFree, Leave
<1>13. CASE End(t)
  BY <1>13 DEF End
<1> QED
  BY <1>1, <1>2, <1>3, <1>4, <1>5, <1>6, <1>7, <1>8, <1>9, <1>10, <1>11, <1>12, <1>13
  DEF Client, Library

--------------------------------------------------------------------------------
(***************************************************************************)
(* NOrec implements AtomicTM, for any number of threads, locations, values *)
(* and transactions: under IInv every step of NOrec is one step of         *)
(* AtomicTM, or none.                                                      *)
(***************************************************************************)

(* The mapping.  A thread's share of AtomicTM depends on its own state only. *)
Share(t) == <<Status(t), First(t), Reads(t), Writes(t), Frees(t)>>

(* A step of another thread.                                                *)
LEMMA ShareOfOthers ==
  ASSUME NEW s \in Threads, Mine(s)' = Mine(s)
  PROVE  Share(s)' = Share(s)
BY DEF Mine, Share, Status, PledgedStatus, First, Reads, Writes, Frees, Live, Pledged, Active,
   HasCommitted, InTx, InWork, NoWrites

(* The other shares in a step of t.                                         *)
LEMMA OtherShares ==
  ASSUME NEW t \in Threads, OthersSame(t)
  PROVE  \A s \in Threads : s # t =>
           /\ Status(s)' = Status(s) /\ First(s)' = First(s) /\ Reads(s)' = Reads(s)
           /\ Writes(s)' = Writes(s) /\ Frees(s)' = Frees(s)
BY ShareOfOthers DEF OthersSame, Share

(* The newest even number below the lock word is what the history ends on.  *)
LEMMA NewestStays ==
  ASSUME IInv, IInv', hist' = hist
  PROVE  Even(glb)' = Even(glb)
<1>1. /\ glb \in Nat /\ glb' \in Nat
      /\ Even(glb) \in DOMAIN hist /\ Even(glb') \in DOMAIN hist
      /\ \A g \in DOMAIN hist : g <= glb /\ g <= glb'
  BY DEF IInv, TypeOK, HistoryInv, Even
<1>2. /\ Even(glb) \in Nat /\ IsEven(Even(glb)) /\ Even(glb) <= glb
      /\ Even(glb') \in Nat /\ IsEven(Even(glb')) /\ Even(glb') <= glb'
  BY <1>1, Parity
<1>3. \A e, n \in Nat : IsEven(e) /\ e <= n => e <= Even(n)
  BY DEF IsEven, Even
<1>4. Even(glb) <= Even(glb') /\ Even(glb') <= Even(glb)
  BY <1>1, <1>2, <1>3
<1>5. Even(glb') = Even(glb)
  BY <1>2, <1>4
<1> QED
  BY <1>5 DEF Even

(* A step that keeps every share and the store is no step of AtomicTM.      *)
LEMMA NoStep ==
  ASSUME IInv, IInv', NEW t \in Threads, OthersSame(t), hist' = hist, Share(t)' = Share(t)
  PROVE  UNCHANGED TM!vars
<1>1. Even(glb)' = Even(glb)
  BY NewestStays
<1>2. ASSUME NEW s \in Threads
      PROVE  /\ Status(s)' = Status(s) /\ First(s)' = First(s) /\ Reads(s)' = Reads(s)
             /\ Writes(s)' = Writes(s) /\ Frees(s)' = Frees(s)
  BY ShareOfOthers DEF OthersSame, Share
<1> QED
  BY <1>1, <1>2 DEF TM!vars

(* What t has to show, if it goes on as it was.                             *)
LEMMA SameShare ==
  ASSUME NEW t \in Threads, InTx(t)' <=> InTx(t), HasCommitted(t)' <=> HasCommitted(t),
         tx'[t].err = tx[t].err, irrevoc'[t] = irrevoc[t], start'[t] = start[t],
         seen'[t] = seen[t], own'[t] = own[t], wset'[t] = wset[t], frees'[t] = frees[t]
  PROVE  Share(t)' = Share(t)
BY DEF Share, Status, PledgedStatus, First, Reads, Writes, Frees, Live, Pledged, Active,
   NoWrites

(* A step of t that leaves its record, its history and what it has written  *)
(* as they are: the work inside the library.                                *)
LEMMA InsideStep ==
  ASSUME IInv, IInv', NEW t \in Threads, OthersSame(t), hist' = hist,
         tx'[t] = tx[t], irrevoc'[t] = irrevoc[t], start'[t] = start[t], seen'[t] = seen[t],
         wset'[t] = wset[t], own'[t] = own[t], frees'[t] = frees[t]
  PROVE  UNCHANGED TM!vars
<1>1. (InTx(t)' <=> InTx(t)) /\ (HasCommitted(t)' <=> HasCommitted(t))
  BY DEF HasCommitted, InTx, InWork
<1> QED
  BY <1>1, SameShare, NoStep

(* Where the client's code runs, its transaction is running in AtomicTM.    *)
LEMMA RunningShare ==
  ASSUME IInv, NEW t \in Threads, InTx(t), InWork(tx[t])
  PROVE  /\ TypeOK /\ tx[t].err = "none" /\ ~HasCommitted(t)
         /\ Status(t) = IF irrevoc[t] THEN "pledged" ELSE "active"
         /\ First(t) = start[t] /\ Reads(t) = seen[t] /\ Writes(t) = own[t]
         /\ Frees(t) = IF wset[t] # <<>> THEN frees[t] ELSE {}
<1>1. TypeOK /\ tx[t].err = "none" /\ ~HasCommitted(t) /\ (~irrevoc[t] => frees[t] = {})
  BY ThreadFacts DEF HasCommitted, ControlInv, SetsInv
<1> QED
  BY <1>1 DEF Status, PledgedStatus, First, Reads, Writes, Frees, Live, Pledged, Active

(* A step after which t has nothing more to show.                           *)
LEMMA LeavesAtomically ==
  ASSUME NEW t \in Threads, OthersSame(t), ~Live(t)', NEW out, Status(t)' = out
  PROVE  TM!Leave(t, out)
<1>1. \A s \in Threads : s # t =>
        /\ Status(s)' = Status(s) /\ First(s)' = First(s) /\ Reads(s)' = Reads(s)
        /\ Writes(s)' = Writes(s) /\ Frees(s)' = Frees(s)
  BY OtherShares
<1>2. First(t)' = 0 /\ Reads(t)' = {} /\ Writes(t)' = NoWrites /\ Frees(t)' = {}
  BY DEF First, Reads, Writes, Frees, Live, NoWrites
<1> QED
  BY <1>1, <1>2 DEF TM!Leave, TM!NoWrites, NoWrites

(* A revocable transaction that fails has aborted there and then.           *)
LEMMA AbortsAtomically ==
  ASSUME IInv, IInv', NEW t \in Threads, OthersSame(t), hist' = hist,
         InTx(t), InWork(tx[t]), ~irrevoc[t], ~irrevoc'[t], tx'[t].err # "none"
  PROVE  TM!Next
<1>1. Even(glb)' = Even(glb)
  BY NewestStays
<1>2. Status(t) = "active"
  BY RunningShare
<1>3. Status(t)' = "aborted" /\ ~Live(t)'
  BY DEF Status, Live, Pledged, Active
<1>4. TM!Leave(t, "aborted")
  BY <1>3, LeavesAtomically
<1> QED
  BY <1>1, <1>2, <1>4 DEF TM!Abort, TM!store, TM!Next

(* Nobody else is pledged while t has the lock.                             *)
LEMMA HolderIsAlone ==
  ASSUME IInv, NEW t \in Threads, Holds(t)
  PROVE  TM!Alone(t) /\ glb \in Nat /\ ~IsEven(glb) /\ Even(glb) = glb - 1
<1>1. ASSUME NEW s \in Threads, s # t PROVE Status(s) \notin TM!Pledged
  <2>1. ~Pledged(s)
    BY <1>1 DEF IInv, LockHasOneHolder, Holds, Pledged
  <2> QED
    BY <2>1 DEF Status, TM!Pledged
<1>2. glb \in Nat /\ ~IsEven(glb)
  BY DEF IInv, TypeOK, LockHasOneHolder
<1> QED
  BY <1>1, <1>2, Parity DEF TM!Alone

(* A step of the holder of the lock after which it is irrevocable: it goes  *)
(* on, frees a block or fails.                                              *)
LEMMA PledgesAtomically ==
  ASSUME IInv, IInv', NEW t \in Threads, OthersSame(t), hist' = hist,
         InTx(t), InWork(tx[t]), Holds(t), Explains(glb - 1, t),
         InTx(t)', ~HasCommitted(t)', irrevoc'[t],
         start'[t] = start[t], seen'[t] = seen[t], own'[t] = own[t], wset'[t] = wset[t],
         \/ frees'[t] = frees[t]
         \/ tx'[t].err = "none" /\ \E a \in Addrs : frees'[t] = frees[t] \cup {a}
  PROVE  TM!Next
<1> DEFINE st == IF tx'[t].err = "none" THEN "pledged" ELSE "failing"
<1>1. Even(glb)' = Even(glb)
  BY NewestStays
<1>2. \A s \in Threads : s # t =>
        /\ Status(s)' = Status(s) /\ First(s)' = First(s) /\ Reads(s)' = Reads(s)
        /\ Writes(s)' = Writes(s) /\ Frees(s)' = Frees(s)
  BY OtherShares
<1>3. /\ Status(t) \in TM!Running /\ First(t) = start[t] /\ Reads(t) = seen[t]
      /\ Writes(t) = own[t] /\ Frees(t) = IF wset[t] # <<>> THEN frees[t] ELSE {}
  BY RunningShare DEF TM!Running
<1>4. /\ First(t)' = First(t) /\ Reads(t)' = Reads(t) /\ Writes(t)' = Writes(t)
      /\ Frees(t)' = IF wset[t] # <<>> THEN frees'[t] ELSE {}
      /\ Status(t)' = st
  BY <1>3 DEF Status, PledgedStatus, First, Reads, Writes, Frees, Live, Pledged
<1>5. TM!Alone(t) /\ TM!Explains(Even(glb), Reads(t))
  BY <1>3, HolderIsAlone DEF TM!Explains, Explains
<1>6. CASE tx'[t].err = "none"
  <2>1. TM!Pledge(t, "pledged")
    BY <1>1, <1>2, <1>3, <1>4, <1>5, <1>6 DEF TM!Pledge, TM!store
  <2>2. [s \in Threads |-> Status(s)]'[t] = "pledged"
    BY <1>4, <1>6
  <2>3. CASE Frees(t)' = Frees(t)
    <3>1. TM!Irrevoc(t)
      BY <1>2, <2>1, <2>3 DEF TM!Irrevoc
    <3> QED
      BY <2>2, <3>1 DEF TM!Next
  <2>4. ASSUME NEW a \in Addrs, Frees(t)' = Frees(t) \cup {a} PROVE TM!Next
    <3>1. TM!Free(t, a)
      BY <1>2, <2>1, <2>4 DEF TM!Free
    <3> QED
      BY <2>2, <3>1 DEF TM!Next
  <2> QED
    BY <1>3, <1>4, <2>3, <2>4
<1>7. CASE tx'[t].err # "none"
  <2>1. TM!Pledge(t, "failing")
    BY <1>1, <1>2, <1>3, <1>4, <1>5, <1>7 DEF TM!Pledge, TM!store
  <2>2. Frees(t)' = Frees(t)
    BY <1>3, <1>4, <1>7
  <2>3. TM!Fail(t)
    BY <1>2, <2>1, <2>2 DEF TM!Fail
  <2> QED
    BY <2>3 DEF TM!Next
<1> QED
  BY <1>6, <1>7

(* The client is handed v for the location a, out of version n.             *)
LEMMA ReadsAtomically ==
  ASSUME IInv, IInv', NEW t \in Threads, OthersSame(t), hist' = hist,
         InTx(t), InWork(tx[t]), NEW a \in Addrs, NEW v \in Contents,
         own[t][a] = NoVal, seen'[t] = seen[t] \cup {<<a, v>>},
         tx'[t] = tx[t], irrevoc'[t] = irrevoc[t], start'[t] = start[t],
         wset'[t] = wset[t], own'[t] = own[t], frees'[t] = frees[t],
         NEW n \in DOMAIN hist, n >= start[t],
         \A p \in seen'[t] : hist[n][p[1]] = p[2]
  PROVE  TM!Next
<1>1. Even(glb)' = Even(glb)
  BY NewestStays
<1>2. \A s \in Threads : s # t =>
        /\ Status(s)' = Status(s) /\ First(s)' = First(s) /\ Reads(s)' = Reads(s)
        /\ Writes(s)' = Writes(s) /\ Frees(s)' = Frees(s)
  BY OtherShares
<1>3. /\ Status(t) \in TM!Running /\ First(t) = start[t] /\ Reads(t) = seen[t]
      /\ Writes(t) = own[t] /\ tx[t].err = "none" /\ ~HasCommitted(t)
  BY RunningShare DEF TM!Running
<1>4. /\ Status(t)' = Status(t) /\ First(t)' = First(t) /\ Reads(t)' = seen'[t]
      /\ Writes(t)' = Writes(t) /\ Frees(t)' = Frees(t)
  BY <1>3 DEF Status, PledgedStatus, First, Reads, Writes, Frees, Live, Pledged, Active,
     HasCommitted, InTx, InWork
<1>5. n >= First(t) /\ TM!Explains(n, Reads(t) \cup {<<a, v>>})
  BY <1>3 DEF TM!Explains
<1>6. TM!Read(t, a, v)
  BY <1>1, <1>2, <1>3, <1>4, <1>5 DEF TM!Read, TM!store
<1>7. [s \in Threads |-> Status(s)]' = [s \in Threads |-> Status(s)]
  BY <1>2, <1>4
<1> QED
  BY <1>6, <1>7 DEF TM!Next

(* The holder of the lock gives it back with all it has written in memory.  *)
LEMMA AddsAtomically ==
  ASSUME IInv, NEW t \in Threads, Holds(t), Live(t), Publish(glb + 1, mem), glb' = glb + 1,
         mem = Overlay(hist[glb - 1], own[t]), Explains(glb - 1, t)
  PROVE  TM!Publish(t)
<1>1. TM!Alone(t) /\ glb \in Nat /\ ~IsEven(glb) /\ Even(glb) = glb - 1
  BY HolderIsAlone
<1>2. Even(glb)' = glb + 1
  <2>1. IsEven(glb + 1) /\ glb + 1 \in Nat
    BY <1>1, Parity
  <2>2. Even(glb + 1) = glb + 1
    BY <2>1, Parity
  <2> QED
    BY <2>2 DEF Even
<1>3. Reads(t) = seen[t] /\ Writes(t) = own[t]
  BY DEF Reads, Writes
<1>4. TM!Explains(Even(glb), Reads(t))
  BY <1>1, <1>3 DEF TM!Explains, Explains
<1>5. mem = [a \in Addrs |-> IF Writes(t)[a] = NoVal THEN hist[Even(glb)][a] ELSE Writes(t)[a]]
  BY <1>1, <1>3 DEF Overlay
<1>6. hist' = [n \in DOMAIN hist \cup {Even(glb)'} |-> IF n = Even(glb)' THEN mem ELSE hist[n]]
  BY <1>2 DEF Publish
<1>7. Even(glb)' > Even(glb)
  BY <1>1, <1>2
<1>8. hist' = [n \in DOMAIN hist \cup {Even(glb)'} |->
                 IF n = Even(glb)'
                 THEN [a \in Addrs |->
                         IF Writes(t)[a] = NoVal THEN hist[Even(glb)][a] ELSE Writes(t)[a]]
                 ELSE hist[n]]
  BY <1>5, <1>6
<1> QED
  BY <1>1, <1>4, <1>7, <1>8 DEF TM!Publish

--------------------------------------------------------------------------------
(* What a step of the client's code is to AtomicTM.                         *)

(* NOREC_READ in place hands over the version before, if t did not write.   *)
LEMMA ReadRefines ==
  ASSUME IInv, IInv', NEW t \in Threads, OthersSame(t), NEW a \in Addrs, Read(t, a)
  PROVE  TM!Next \/ UNCHANGED TM!vars
<1>1. /\ TypeOK /\ AtWork(t) /\ InTx(t) /\ InWork(tx[t])
      /\ UNCHANGED <<tx, irrevoc, mem, start, own, wset, frees, hist>>
  BY AtWorkFacts, ThreadFacts DEF Read, AtWork, lockVars, setVars
<1>2. CASE seen'[t] = seen[t]
  BY <1>1, <1>2, InsideStep
<1>3. CASE irrevoc[t] /\ own[t][a] = NoVal /\ seen'[t] = seen[t] \cup {<<a, mem[a]>>}
  <2>1. /\ glb - 1 \in DOMAIN hist /\ glb - 1 >= start[t] /\ Explains(glb - 1, t)
        /\ mem = Overlay(hist[glb - 1], own[t])
    BY <1>1, <1>3, IrrevocFacts
  <2>2. mem[a] = hist[glb - 1][a] /\ mem[a] \in Contents
    BY <1>1, <1>3, <2>1 DEF Overlay, TypeOK
  <2>3. \A p \in seen'[t] : hist[glb - 1][p[1]] = p[2]
    BY <1>3, <2>1, <2>2 DEF Explains
  <2> QED
    BY <1>1, <1>3, <2>1, <2>2, <2>3, ReadsAtomically
<1>4. \/ seen'[t] = seen[t]
      \/ irrevoc[t] /\ own[t][a] = NoVal /\ seen'[t] = seen[t] \cup {<<a, mem[a]>>}
  BY <1>1 DEF Read, ReadInPlace, ReadOwnWrite, ReadLoad, Hand, TypeOK
<1> QED
  BY <1>2, <1>3, <1>4

(* NOREC_WRITE, buffered or in place, is the write.                         *)
LEMMA WriteRefines ==
  ASSUME IInv, IInv', NEW t \in Threads, OthersSame(t), NEW a \in Addrs, NEW v \in Vals,
         Write(t, a, v)
  PROVE  TM!Next
<1>1. /\ TypeOK /\ AtWork(t) /\ InTx(t) /\ InWork(tx[t])
      /\ UNCHANGED <<tx, irrevoc, start, seen, frees, hist>>
      /\ own'[t] = [own[t] EXCEPT ![a] = v] /\ (irrevoc[t] => wset' = wset)
  BY AtWorkFacts, ThreadFacts DEF Write, AtWork, lockVars, TypeOK
<1>2. Even(glb)' = Even(glb)
  BY <1>1, NewestStays
<1>3. \A s \in Threads : s # t =>
        /\ Status(s)' = Status(s) /\ First(s)' = First(s) /\ Reads(s)' = Reads(s)
        /\ Writes(s)' = Writes(s) /\ Frees(s)' = Frees(s)
  BY OtherShares
<1>4. /\ Status(t) \in TM!Running /\ First(t) = start[t] /\ Reads(t) = seen[t]
      /\ Writes(t) = own[t] /\ tx[t].err = "none" /\ ~HasCommitted(t)
  BY <1>1, RunningShare DEF TM!Running
<1>5. /\ Status(t)' = Status(t) /\ First(t)' = First(t) /\ Reads(t)' = Reads(t)
      /\ Writes(t)' = own'[t] /\ Frees(t)' = Frees(t)
  BY <1>1, <1>4 DEF Status, PledgedStatus, First, Reads, Writes, Frees, Live, Pledged, Active,
     HasCommitted, InTx, InWork
<1>6. Writes(t)' = [Writes(t) EXCEPT ![a] = v]
  BY <1>1, <1>4, <1>5
<1>7. TM!Write(t, a, v)
  BY <1>1, <1>2, <1>3, <1>4, <1>5, <1>6 DEF TM!Write, TM!store
<1>8. [s \in Threads |-> Status(s)]' = [s \in Threads |-> Status(s)]
  BY <1>3, <1>5
<1> QED
  BY <1>7, <1>8 DEF TM!Next, Contents

(* A call after which an irrevocable transaction is still at work, or has   *)
(* failed.                                                                  *)
LEMMA IrrevocRefines ==
  ASSUME IInv, IInv', NEW t \in Threads, OthersSame(t), hist' = hist,
         AtWork(t), irrevoc[t], irrevoc'[t],
         start'[t] = start[t], seen'[t] = seen[t], own'[t] = own[t], wset'[t] = wset[t],
         \/ /\ tx'[t] = tx[t]
            /\ \E a \in Addrs : frees'[t] = frees[t] \cup {a}
         \/ tx'[t] = TxAbort(tx[t], "failed") /\ frees'[t] = frees[t]
  PROVE  TM!Next
<1>1. /\ InTx(t) /\ InWork(tx[t]) /\ Holds(t) /\ Explains(glb - 1, t) /\ tx[t] \in TxRecord
      /\ tx[t].err = "none" /\ tx[t].depth > 0
  BY AtWorkFacts, IrrevocFacts, ThreadFacts DEF InWork
<1>2. /\ TxAbort(tx[t], "failed").err = "failed"
      /\ TxAbort(tx[t], "failed").depth = tx[t].depth
  BY <1>1, TxAbortFields DEF Errs
<1>3. InTx(t)' /\ ~HasCommitted(t)'
  BY <1>1, <1>2 DEF InTx, HasCommitted, InWork
<1> QED
  BY <1>1, <1>3, PledgesAtomically

(* NOREC_FREE of a revocable transaction only asks for the lock.            *)
LEMMA FreeRefines ==
  ASSUME IInv, IInv', NEW t \in Threads, OthersSame(t), NEW a \in Addrs, Free(t, a)
  PROVE  TM!Next \/ UNCHANGED TM!vars
<1>1. TypeOK /\ AtWork(t) /\ UNCHANGED <<irrevoc, start, seen, own, wset, hist>>
  BY ThreadFacts DEF Free, lockVars, histVars
<1>2. CASE irrevoc[t] /\ ListFree(t, a)
  BY <1>1, <1>2, IrrevocRefines DEF ListFree, TypeOK
<1>3. CASE UNCHANGED <<tx, frees>>
  BY <1>1, <1>3, InsideStep
<1> QED
  BY <1>2, <1>3 DEF Free

(* An abort of the client's, or of the library's that is out of memory.     *)
LEMMA AbortRefines ==
  ASSUME IInv, IInv', NEW t \in Threads, OthersSame(t), Abort(t)
  PROVE  TM!Next
<1>1. /\ TypeOK /\ AtWork(t) /\ InTx(t) /\ InWork(tx[t]) /\ tx[t] \in TxRecord
      /\ UNCHANGED <<irrevoc, start, seen, own, wset, frees, hist>>
      /\ tx'[t] = TxAbort(tx[t], "failed")
  BY AtWorkFacts, ThreadFacts DEF Abort, AtWork, lockVars, setVars, histVars, TypeOK
<1>2. CASE irrevoc[t]
  BY <1>1, <1>2, IrrevocRefines
<1>3. CASE ~irrevoc[t]
  <2>1. tx'[t].err # "none"
    BY <1>1, TxAbortFields DEF Errs
  <2> QED
    BY <1>1, <1>3, <2>1, AbortsAtomically
<1> QED
  BY <1>2, <1>3

(* At the commit, a transaction that is not irrevocable and has buffered    *)
(* nothing is over; the frees of an irrevocable one are carried out.        *)
LEMMA CommitRefines ==
  ASSUME IInv, IInv', NEW t \in Threads, OthersSame(t), Commit(t)
  PROVE  TM!Next \/ UNCHANGED TM!vars
<1>1. /\ TypeOK /\ AtWork(t) /\ InTx(t) /\ InWork(tx[t]) /\ tx[t] \in TxRecord
      /\ UNCHANGED <<irrevoc, start, seen, wset, frees, hist>>
  BY AtWorkFacts, ThreadFacts DEF Commit, AtWork, lockVars, setVars
<1>2. /\ tx[t].err = "none" /\ ~HasCommitted(t)
      /\ Status(t) = IF irrevoc[t] THEN "pledged" ELSE "active"
      /\ First(t) = start[t] /\ Reads(t) = seen[t] /\ Writes(t) = own[t]
      /\ Frees(t) = IF wset[t] # <<>> THEN frees[t] ELSE {}
  BY <1>1, RunningShare
<1>3. CASE tx' = tx
  <2>1. own' = own
    <3>1. TxCommit(tx[t]).stage = "ONCOMMIT" /\ tx[t].stage = "WORK"
      BY <1>1, TxCommitFields DEF InWork
    <3>2. tx' # [tx EXCEPT ![t] = TxCommit(tx[t])]
      BY <1>1, <1>3, <3>1 DEF TypeOK
    <3> QED
      BY <3>2 DEF Commit
  <2> QED
    BY <1>1, <1>3, <2>1, InsideStep
<1>4. CASE tx' = [tx EXCEPT ![t] = TxCommit(tx[t])]
  <2>1. tx'[t] = TxCommit(tx[t])
    BY <1>1, <1>4 DEF TypeOK
  <2>2. /\ tx'[t].stage = "ONCOMMIT" /\ tx'[t].err = "none" /\ tx'[t].level = tx[t].level
        /\ tx'[t].depth = tx[t].depth
    BY <1>1, <1>2, <2>1, TxCommitFields
  <2>3. (InTx(t)' <=> InTx(t)) /\ tx' # tx
    BY <1>1, <2>2 DEF InTx, InWork
  <2>4. /\ CommitsNothing(t) => own' = own
        /\ ~CommitsNothing(t) => irrevoc[t] /\ own'[t] = Reclaim(t, own[t])
    BY <1>1, <2>3 DEF Commit, TypeOK
  <2>5. Even(glb)' = Even(glb)
    BY <1>1, NewestStays
  <2>6. CASE tx[t].level # 0
    <3>1. ~HasCommitted(t)'
      BY <2>2, <2>6 DEF HasCommitted
    <3>2. own' = own
      BY <1>1, <2>4, <2>6 DEF CommitsNothing, TxRecord
    <3>3. Share(t)' = Share(t)
      BY <1>1, <1>2, <2>2, <2>3, <3>1, <3>2, SameShare
    <3> QED
      BY <1>1, <3>3, NoStep
  <2>7. CASE irrevoc[t] /\ tx[t].level = 0
    <3>1. HasCommitted(t)'
      BY <2>2, <2>7 DEF HasCommitted, InWork
    <3>2. /\ Status(t)' = "closing" /\ First(t)' = First(t) /\ Reads(t)' = Reads(t)
          /\ Writes(t)' = own'[t] /\ Frees(t)' = {}
      BY <1>1, <1>2, <2>2, <2>3, <2>7, <3>1
      DEF Status, PledgedStatus, First, Reads, Writes, Frees, Live, Pledged
    <3>3. own'[t] = [a \in Addrs |-> IF a \in Frees(t) THEN Junk ELSE own[t][a]]
      <4>1. CASE wset[t] = <<>>
        BY <1>1, <1>2, <2>4, <4>1 DEF CommitsNothing, TypeOK
      <4>2. CASE wset[t] # <<>>
        <5>1. ~CommitsNothing(t) /\ Frees(t) = frees[t]
          BY <1>1, <1>2, <2>7, <4>2 DEF CommitsNothing
        <5> QED
          BY <2>4, <5>1 DEF Reclaim
      <4> QED
        BY <4>1, <4>2
    <3>4. Writes(t)' = [a \in Addrs |-> IF a \in Frees(t) THEN Junk ELSE Writes(t)[a]]
      BY <1>2, <3>2, <3>3
    <3>5. TM!GiveBack(t)
      BY <1>1, <1>2, <2>5, <2>7, <3>2, <3>4, OtherShares DEF TM!GiveBack, TM!store
    <3> QED
      BY <3>5 DEF TM!Next
  <2>8. CASE ~irrevoc[t] /\ tx[t].level = 0
    <3>1. wset[t] = <<>>
      BY <1>1, <2>4, <2>8 DEF CommitsNothing, TxRecord
    <3>2. own[t] = NoWrites
      <4>1. \A a \in Addrs : own[t][a] = NoVal
        BY <1>1, <2>8, <3>1, CallInFacts DEF InWset
      <4> QED
        BY <1>1, <4>1 DEF NoWrites, TypeOK
    <3>3. Status(t)' = "committed" /\ ~Live(t)'
      BY <1>1, <2>2, <2>8 DEF Status, Live, Active, Pledged, HasCommitted, InWork
    <3>4. TM!Leave(t, "committed")
      BY <3>3, LeavesAtomically
    <3>5. TM!CommitReader(t)
      BY <1>1, <1>2, <2>5, <2>8, <3>2, <3>4 DEF TM!CommitReader, TM!store, TM!NoWrites, NoWrites
    <3> QED
      BY <3>5 DEF TM!Next
  <2> QED
    BY <2>6, <2>7, <2>8
<1> QED
  BY <1>3, <1>4 DEF Commit

(* Every call of the client is a step of AtomicTM or none.                  *)
LEMMA ClientSteps ==
  ASSUME IInv, IInv', NEW t \in Threads, Client(t), ~RestartIrrevoc
  PROVE  TM!Next \/ UNCHANGED TM!vars
<1>i. AtWork(t) /\ TypeOK
  BY DEF IInv, Client, BeginNested, Read, Free, Write, Irrevoc, UserAbort, MallocFails, Abort,
     UserRestart, Commit
<1>o. OthersSame(t)
  BY <1>i, OthersKeep
<1>w. /\ InTx(t) /\ InWork(tx[t]) /\ tx[t] \in TxRecord /\ tx[t].err = "none"
      /\ ~HasCommitted(t)
  BY <1>i, AtWorkFacts, ThreadFacts DEF AtWork, HasCommitted
<1>1. CASE BeginNested(t)
  <2>1. tx'[t] = TxBegin(tx[t])
    BY <1>i, <1>1 DEF BeginNested, TypeOK
  <2>2. tx'[t].err = "none" /\ InWork(tx[t])' /\ tx'[t].depth = tx[t].depth + 1
    BY <1>w, <2>1, TxBeginFields DEF InWork
  <2>3. UNCHANGED <<irrevoc, start, seen, own, wset, frees, hist>>
    BY <1>1 DEF BeginNested, lockVars, setVars, histVars
  <2>4. (InTx(t)' <=> InTx(t)) /\ ~HasCommitted(t)'
    BY <1>w, <2>2 DEF HasCommitted, InTx, TxRecord
  <2> QED
    BY <1>i, <1>o, <1>w, <2>2, <2>3, <2>4, SameShare, NoStep
<1>2. CASE Irrevoc(t)
  BY <1>i, <1>o, <1>2, InsideStep DEF Irrevoc, lockVars, setVars, histVars
<1>3. CASE UserRestart(t)
  <2>1. /\ tx'[t] = TxRestart(tx[t]) /\ UNCHANGED <<hist, irrevoc>> /\ ~irrevoc[t]
    BY <1>i, <1>3 DEF UserRestart, Restart, lockVars, histVars, TypeOK
  <2>2. TxRestart(tx[t]).err = "restart"
    BY <1>w, TxRestartFields
  <2> QED
    BY <1>i, <1>o, <1>w, <2>1, <2>2, AbortsAtomically
<1> QED
  BY <1>i, <1>o, <1>1, <1>2, <1>3, ReadRefines, FreeRefines, WriteRefines, CommitRefines,
     AbortRefines DEF Client, UserAbort, MallocFails

--------------------------------------------------------------------------------
(* What a step of the library is to AtomicTM.                               *)

(* norec_tx_begin never waits: the version chosen is the newest one.        *)
LEMMA BeginRefines ==
  ASSUME IInv, IInv', NEW t \in Threads, OthersSame(t), Begin(t)
  PROVE  TM!Next
<1>1. /\ TypeOK /\ ~InTx(t) /\ tx[t] \in TxRecord /\ tx[t].depth \in Nat
      /\ seen[t] = {} /\ own[t] = NoWrites
  BY ThreadFacts DEF Begin, ControlInv, SetsInv
<1>2. UNCHANGED <<hist, seen, own>> /\ start'[t] = Even(glb) /\ ~irrevoc'[t]
  BY <1>1 DEF Begin, TypeOK
<1>3. tx'[t] = TxBegin(tx[t])
  BY <1>1 DEF Begin, TypeOK
<1>4. /\ TxBegin(tx[t]).err = "none" /\ TxBegin(tx[t]).stage = "WORK"
      /\ TxBegin(tx[t]).depth = tx[t].depth + 1
  BY <1>1, TxBeginFields
<1>5. Active(t)' /\ ~Pledged(t)'
  BY <1>1, <1>2, <1>3, <1>4 DEF Active, Pledged, HasCommitted, InTx, InWork
<1>6. /\ Status(t) \in {"committed", "aborted"} /\ Status(t)' = "active"
      /\ First(t)' = Even(glb) /\ Reads(t)' = Reads(t) /\ Writes(t)' = Writes(t)
      /\ Frees(t)' = Frees(t)
  BY <1>1, <1>2, <1>3, <1>4, <1>5
  DEF Status, First, Reads, Writes, Frees, Live, Active, Pledged, NoWrites
<1>7. Even(glb)' = Even(glb)
  BY <1>2, NewestStays
<1>8. TM!Begin(t)
  BY <1>2, <1>6, <1>7, OtherShares DEF TM!Begin, TM!store
<1> QED
  BY <1>8 DEF TM!Next

(* norec_rdset_add hands over what the version t runs on holds.             *)
LEMMA PrevalidateRefines ==
  ASSUME IInv, IInv', NEW t \in Threads, OthersSame(t), Prevalidate(t)
  PROVE  TM!Next \/ UNCHANGED TM!vars
<1>1. /\ TypeOK /\ caller[t] = "read" /\ pc[t] = "prevalidate" /\ ReaderInv(t)
      /\ UNCHANGED <<glb, tx, irrevoc, start, own, wset, frees, hist>>
  BY ThreadFacts DEF Prevalidate, lockVars, ControlInv
<1>2. CASE seen' = seen
  BY <1>1, <1>2, InsideStep
<1>3. CASE loc[t] = glb /\ Hand(t, arg[t][1], arg[t][2])
  <2> DEFINE a == arg[t][1]
             v == arg[t][2]
  <2>1. /\ InTx(t) /\ InWork(tx[t]) /\ Snapshot(loc[t], t) /\ own[t][a] = NoVal
        /\ arg[t] # NoArg
    BY <1>1, InCallFacts
  <2>2. a \in Addrs /\ v \in Contents
    BY <1>1, <2>1 DEF TypeOK, Entries
  <2>3. seen'[t] = seen[t] \cup {<<a, v>>}
    BY <1>1, <1>3, <2>1 DEF Hand, TypeOK
  <2>4. v = hist[loc[t]][a]
    BY <1>1, <1>3, <2>1, MemoryAtLoc DEF ReaderInv
  <2> HIDE DEF a, v
  <2>5. loc[t] \in DOMAIN hist /\ loc[t] >= start[t] /\ \A p \in seen'[t] : hist[loc[t]][p[1]] = p[2]
    BY <2>1, <2>3, <2>4 DEF Snapshot, Explains
  <2> QED
    BY <1>1, <2>1, <2>2, <2>3, <2>5, ReadsAtomically
<1> QED
  BY <1>2, <1>3 DEF Prevalidate

(* validate_rdset gives up: the transaction aborts.                         *)
LEMMA CompareRefines ==
  ASSUME IInv, IInv', NEW t \in Threads, OthersSame(t), Compare(t)
  PROVE  TM!Next \/ UNCHANGED TM!vars
<1>1. /\ TypeOK /\ caller[t] # "none" /\ tx[t] \in TxRecord
      /\ UNCHANGED <<irrevoc, start, seen, own, wset, frees, hist>>
  BY ThreadFacts, CallsHaveCallers DEF Compare, lockVars, setVars, histVars
<1>2. InTx(t) /\ InWork(tx[t]) /\ ~irrevoc[t]
  BY <1>1, InCallFacts
<1>3. CASE tx' = tx
  BY <1>1, <1>3, InsideStep
<1>4. CASE Restart(t)
  <2>1. tx'[t] = TxRestart(tx[t]) /\ TxRestart(tx[t]).err = "restart"
    BY <1>1, <1>4, TxRestartFields DEF Restart, TypeOK
  <2> QED
    BY <1>1, <1>2, <2>1, AbortsAtomically
<1> QED
  BY <1>3, <1>4 DEF Compare

(* The store to glb at the end of the replay is the commit.                 *)
LEMMA ReleaseRefines ==
  ASSUME IInv, IInv', NEW t \in Threads, OthersSame(t), Release(t)
  PROVE  TM!Next
<1>1. /\ TypeOK /\ caller[t] = "commit" /\ left[t] = <<>> /\ loc[t] \in Nat
      /\ pc[t] = "redo" /\ Replaying(t) /\ Holds(t) /\ tx[t] \in TxRecord
  BY ThreadFacts DEF Release, Replaying, Holds
<1>2. glb = loc[t] + 1 /\ mem = Overlay(hist[glb - 1], Copied(t))
  BY <1>1 DEF IInv, LockHasOneHolder, MemoryIsVersionPlusHolder, HeldAt
<1>3. /\ ~irrevoc[t] /\ Snapshot(loc[t], t) /\ InTx(t) /\ InWork(tx[t]) /\ tx[t].level = 0
  BY <1>1, InCallFacts
<1>4. Status(t) = "active" /\ Live(t) /\ tx[t].err = "none"
  BY <1>3, RunningShare DEF Live, Active
<1>5. Copied(t) = own[t]
  BY <1>1 DEF Copied, TypeOK
<1>6. glb - 1 = loc[t] /\ loc[t] + 2 = glb + 1
  BY <1>1, <1>2
<1>7. glb' = glb + 1 /\ Publish(glb + 1, mem) /\ irrevoc' = irrevoc
  BY <1>6 DEF Release
<1>8. Explains(glb - 1, t)
  BY <1>3, <1>6 DEF Snapshot
<1>9. TM!Publish(t)
  BY <1>1, <1>2, <1>4, <1>5, <1>7, <1>8, AddsAtomically
<1>10. tx'[t] = TxCommit(tx[t])
  BY <1>1 DEF Release, TypeOK
<1>11. tx'[t].err = "none" /\ tx'[t].level = 0 /\ ~InWork(tx[t])'
  BY <1>1, <1>3, <1>4, <1>10, TxCommitFields DEF InWork
<1>12. Status(t)' = "committed" /\ ~Live(t)'
  BY <1>3, <1>7, <1>11 DEF Status, Live, Active, Pledged, HasCommitted
<1>13. TM!Leave(t, "committed")
  BY <1>12, LeavesAtomically
<1>14. TM!CommitWriter(t)
  BY <1>4, <1>9, <1>13 DEF TM!CommitWriter
<1> QED
  BY <1>14 DEF TM!Next

(* norec_tx_free becomes irrevocable first, and then frees or fails.        *)
LEMMA BecomeIrrevocRefines ==
  ASSUME IInv, IInv', NEW t \in Threads, OthersSame(t), BecomeIrrevoc(t)
  PROVE  TM!Next
<1>1. /\ TypeOK /\ caller[t] # "none" /\ loc[t] \in Nat /\ tx[t] \in TxRecord
      /\ pc[t] = "redo" /\ Replaying(t) /\ Holds(t) /\ irrevoc'[t]
      /\ UNCHANGED <<start, seen, own, wset, hist>>
  BY ThreadFacts, CallsHaveCallers DEF BecomeIrrevoc, Replaying, Holds, histVars, TypeOK
<1>2. /\ InTx(t) /\ InWork(tx[t]) /\ Snapshot(loc[t], t) /\ tx[t].err = "none"
      /\ caller[t] \in {"read", "free"} <=> arg[t] # NoArg
  BY <1>1, InCallFacts
<1>3. glb = loc[t] + 1
  BY <1>1 DEF IInv, LockHasOneHolder, HeldAt
<1>4. Explains(glb - 1, t)
  <2>1. glb - 1 = loc[t]
    BY <1>1, <1>3
  <2> QED
    BY <1>2, <2>1 DEF Snapshot
<1>5. /\ TxAbort(tx[t], "failed").err = "failed"
      /\ TxAbort(tx[t], "failed").depth = tx[t].depth
  BY <1>1, TxAbortFields DEF Errs
<1>6. caller[t] = "free" => arg[t][1] \in Addrs
  BY <1>1, <1>2 DEF TypeOK, Entries
<1>7. \/ tx'[t] = tx[t] /\ frees'[t] = frees[t]
      \/ tx'[t] = tx[t] /\ \E a \in Addrs : frees'[t] = frees[t] \cup {a}
      \/ tx'[t] = TxAbort(tx[t], "failed") /\ frees'[t] = frees[t]
  BY <1>1, <1>6 DEF BecomeIrrevoc, GoOn, ListFree, TypeOK
<1>8. InTx(t)' /\ ~HasCommitted(t)'
  BY <1>2, <1>5, <1>7 DEF InTx, HasCommitted, InWork
<1> QED
  BY <1>1, <1>2, <1>4, <1>5, <1>7, <1>8, PledgesAtomically

(* The outermost norec_tx_end: an irrevocable transaction publishes what it *)
(* wrote, whether it commits or has failed; every other one was gone        *)
(* already.                                                                 *)
LEMMA EndRefines ==
  ASSUME IInv, IInv', NEW t \in Threads, OthersSame(t), End(t)
  PROVE  TM!Next \/ UNCHANGED TM!vars
<1>1. /\ TypeOK /\ ControlInv(t) /\ tx[t] \in TxRecord
      /\ Outermost(tx[t]) /\ ~InWork(tx[t]) /\ tx[t].level = 0
  BY ThreadFacts DEF End, Outermost, InWork
<1>2. InTx(t) /\ (irrevoc[t] => ~tx[t].retry)
  BY <1>1 DEF ControlInv, End
<1>3. tx'[t] = TxEnd(tx[t])
  BY <1>1 DEF End, TypeOK
<1>4. ~InTx(t)' /\ tx'[t].err = tx[t].err
  BY <1>1, <1>3, TxEndOutermost DEF InTx
<1>5. ~Live(t)' /\ Status(t)' = IF tx[t].err = "none" THEN "committed" ELSE "aborted"
  BY <1>4 DEF Live, Active, Pledged, Status
<1>6. CASE irrevoc[t]
  <2>1. /\ Holds(t) /\ ~IsEven(glb) /\ loc[t] = glb /\ Explains(glb - 1, t)
        /\ mem = Overlay(hist[glb - 1], own[t])
    BY <1>1, <1>2, <1>6, IrrevocFacts
  <2>2. glb' = glb + 1 /\ Publish(glb + 1, mem)
    BY <1>2, <1>6, <2>1 DEF End, OnEnd
  <2>3. Live(t) /\ Status(t) = IF tx[t].err = "none" THEN "closing" ELSE "failing"
    BY <1>1, <1>2, <1>6 DEF Live, Pledged, Status, PledgedStatus, HasCommitted
  <2>4. TM!Publish(t)
    BY <2>1, <2>2, <2>3, AddsAtomically
  <2>5. CASE tx[t].err = "none"
    <3>1. TM!Leave(t, "committed")
      BY <1>5, <2>5, LeavesAtomically
    <3>2. TM!CommitWriter(t)
      BY <2>3, <2>4, <2>5, <3>1 DEF TM!CommitWriter
    <3> QED
      BY <3>2 DEF TM!Next
  <2>6. CASE tx[t].err # "none"
    <3>1. TM!Leave(t, "aborted")
      BY <1>5, <2>6, LeavesAtomically
    <3>2. TM!LeaveTrace(t)
      BY <2>3, <2>4, <2>6, <3>1 DEF TM!LeaveTrace
    <3> QED
      BY <3>2 DEF TM!Next
  <2> QED
    BY <2>5, <2>6
<1>7. CASE ~irrevoc[t]
  <2>1. /\ ~Live(t) /\ Status(t) = IF tx[t].err = "none" THEN "committed" ELSE "aborted"
    BY <1>1, <1>7 DEF Live, Active, Pledged, Status, HasCommitted
  <2>2. hist' = hist
    BY <1>7 DEF End, OnEnd
  <2>3. Share(t)' = Share(t)
    BY <1>5, <2>1 DEF Share, First, Reads, Writes, Frees, Live, NoWrites
  <2> QED
    BY <1>1, <2>2, <2>3, NoStep
<1> QED
  BY <1>6, <1>7

(* Every other step of the library is invisible.                            *)
LEMMA LibrarySteps ==
  ASSUME IInv, IInv', NEW t \in Threads, Library(t)
  PROVE  TM!Next \/ UNCHANGED TM!vars
<1>i. TypeOK /\ ControlInv(t) /\ tx[t] \in TxRecord
  BY ThreadFacts
<1>o. OthersSame(t)
  BY <1>i, OthersKeep
<1>1. CASE Reload(t) \/ SampleTime(t) \/ Recheck(t) \/ CompareAndSwap(t) \/ Redo(t)
  <2>1. UNCHANGED <<tx, irrevoc, start, seen, own, wset, frees, hist>>
    BY <1>1 DEF Reload, SampleTime, Recheck, CompareAndSwap, Redo, lockVars, setVars, histVars
  <2> QED
    BY <1>i, <1>o, <2>1, InsideStep
<1>2. CASE Process(t)
  <2>1. UNCHANGED <<irrevoc, start, seen, own, wset, frees, hist>>
    BY <1>2 DEF Process, lockVars, setVars, histVars
  <2>2. tx'[t] = TxProcess(tx[t]) /\ ~InWork(tx[t])
    BY <1>i, <1>2 DEF Process, InWork, TypeOK
  <2>3. /\ tx'[t].err = tx[t].err /\ tx'[t].level = tx[t].level /\ tx'[t].depth = tx[t].depth
        /\ ~InWork(tx[t])'
    BY <1>i, <2>2, TxProcessFields DEF InWork
  <2>4. (InTx(t)' <=> InTx(t)) /\ (HasCommitted(t)' <=> HasCommitted(t))
    BY <2>2, <2>3 DEF HasCommitted, InTx
  <2> QED
    BY <1>i, <1>o, <2>1, <2>3, <2>4, SameShare, NoStep
<1>3. CASE EndNested(t)
  <2>1. UNCHANGED <<irrevoc, start, seen, own, wset, frees, hist>>
    BY <1>3 DEF EndNested, lockVars, setVars, histVars
  <2>2. tx'[t] = TxEnd(tx[t]) /\ ~Outermost(tx[t]) /\ InTx(t)
    BY <1>i, <1>3 DEF EndNested, ControlInv, TypeOK
  <2>3. tx[t].level = tx[t].depth - 1 /\ tx[t].depth > 1 /\ tx[t].depth \in Nat
    BY <1>i, <2>2 DEF ControlInv, Outermost, TxRecord, InTx
  <2>4. tx'[t].err = tx[t].err /\ tx'[t].depth = tx[t].depth - 1
    BY <1>i, <2>2, <2>3, TxEndNested
  <2>5. tx[t].err = "none" => InWork(tx[t])'
    BY <1>i, <2>2, TxEndResumes DEF InWork
  <2>6. (InTx(t)' <=> InTx(t)) /\ ~HasCommitted(t) /\ ~HasCommitted(t)'
    BY <2>2, <2>3, <2>4, <2>5 DEF HasCommitted, InTx
  <2> QED
    BY <1>i, <1>o, <2>1, <2>4, <2>6, SameShare, NoStep
<1> QED
  BY <1>i, <1>o, <1>1, <1>2, <1>3, BeginRefines, PrevalidateRefines, CompareRefines,
     ReleaseRefines, BecomeIrrevocRefines, EndRefines DEF Library

(* The threads' first state is AtomicTM's.                                  *)
LEMMA InitIsAtomic == Init => TM!Init
<1> SUFFICES ASSUME Init PROVE TM!Init
  OBVIOUS
<1>1. ASSUME NEW t \in Threads
      PROVE  /\ Status(t) = "committed" /\ First(t) = 0 /\ Reads(t) = {}
             /\ Writes(t) = NoWrites /\ Frees(t) = {}
  BY DEF Init, TxIdle, Status, First, Reads, Writes, Frees, Live, Active, Pledged, InTx
<1>2. Even(glb) = 0
  BY DEF Init, Even
<1>3. hist = [n \in {0} |-> [a \in Addrs |-> InitVal]]
  BY DEF Init
<1> QED
  BY <1>1, <1>2, <1>3 DEF TM!Init, TM!NoWrites, NoWrites

(* A step that changes nothing changes nothing of the mapping.              *)
LEMMA StutterIsAtomic == ASSUME UNCHANGED vars PROVE UNCHANGED TM!vars
<1>1. ASSUME NEW t \in Threads
      PROVE  /\ Status(t)' = Status(t) /\ First(t)' = First(t) /\ Reads(t)' = Reads(t)
             /\ Writes(t)' = Writes(t) /\ Frees(t)' = Frees(t)
  BY ShareOfOthers DEF vars, Mine, Share
<1>2. Even(glb)' = Even(glb) /\ hist' = hist
  BY DEF vars, Even
<1> QED
  BY <1>1, <1>2 DEF TM!vars

(* norec.c is an atomic transactional memory, whatever the threads,         *)
(* locations and values, for a client that does not restart a transaction   *)
(* it has made irrevocable: each step of it is a step of AtomicTM or none.  *)
(* Aborts are the client's and the library's, of revocable transactions and *)
(* of irrevocable ones.                                                     *)
THEOREM Implements == ASSUME ~RestartIrrevoc PROVE Spec => ImplementsTM
<1>1. Init => TM!Init
  BY InitIsAtomic
<1>2. IInv /\ [Next]_vars => [TM!Next]_(TM!vars)
  <2> SUFFICES ASSUME IInv, [Next]_vars PROVE TM!Next \/ UNCHANGED TM!vars
    OBVIOUS
  <2>1. CASE UNCHANGED vars \/ Finished
    BY <2>1, StutterIsAtomic DEF Finished
  <2>2. ASSUME NEW t \in Threads, Client(t) \/ Library(t)
        PROVE  TM!Next \/ UNCHANGED TM!vars
    <3>1. IInv'
      BY NextInv
    <3> QED
      BY <2>2, <3>1, ClientSteps, LibrarySteps
  <2> QED
    BY <2>1, <2>2 DEF Next
<1> QED
  BY <1>1, <1>2, Invariance, PTL DEF Spec, ImplementsTM, TM!Spec
================================================================================
