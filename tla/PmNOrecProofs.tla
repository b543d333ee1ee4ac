----------------------------- MODULE PmNOrecProofs -----------------------------
(***************************************************************************)
(* NOrec in persistent memory, for any finite number of threads, any       *)
(* locations and values, and any number of crashes: IInv is inductive, and *)
(* each property is read off it.                                           *)
(*                                                                         *)
(* What a step of t means for the other threads is said once, in           *)
(* OthersInv.  Then there is a lemma for each way a step can treat the     *)
(* lock: it leaves it (QuietStep, OrphanStep), it has it afterwards        *)
(* (HolderStep), it loses it for good (LoseStep), or it gives it back      *)
(* (GiveStep); and a lemma for each action.                                *)
(***************************************************************************)
EXTENDS PmNOrec, FiniteSetTheorems, WellFoundedInduction, TLAPS

(* What the operators of PmTx do to the fields of a transaction's record,   *)
(* and to memory.                                                           *)

(* The record of a thread that has not begun.                               *)
LEMMA TxIdleFields ==
  /\ TxIdle \in PmRecord
  /\ TxIdle.stage = "NONE" /\ TxIdle.depth = 0 /\ TxIdle.level = 0
BY DEF PmRecord, PmStages, PmErrs, TxIdle

(* tx_begin opens a block without an error.                                 *)
LEMMA TxBeginFields ==
  ASSUME NEW x \in PmRecord
  PROVE  /\ TxBegin(x) \in PmRecord
         /\ TxBegin(x).stage = "WORK" /\ TxBegin(x).depth = x.depth + 1
         /\ TxBegin(x).retry = (x.stage = "WORK" /\ x.retry) /\ TxBegin(x).err = "none"
         /\ TxBegin(x).level = IF x.stage = "WORK" THEN x.level + 1 ELSE x.level
BY DEF PmRecord, PmStages, PmErrs, TxBegin, InWork

(* pmemobj_tx_abort changes the stage and the error.                        *)
LEMMA TxAbortFields ==
  ASSUME NEW x \in PmRecord, NEW e \in PmErrs
  PROVE  /\ TxAbort(x, e) \in PmRecord
         /\ TxAbort(x, e).stage = "ONABORT" /\ TxAbort(x, e).depth = x.depth
         /\ TxAbort(x, e).level = x.level
         /\ TxAbort(x, e).retry = x.retry /\ TxAbort(x, e).err = e
BY DEF PmRecord, PmStages, TxAbort

(* tx_restart sets the retry mark as well.                                  *)
LEMMA TxRestartFields ==
  ASSUME NEW x \in PmRecord
  PROVE  /\ TxRestart(x) \in PmRecord
         /\ TxRestart(x).stage = "ONABORT" /\ TxRestart(x).depth = x.depth
         /\ TxRestart(x).level = x.level
         /\ TxRestart(x).retry = TRUE /\ TxRestart(x).err = "restart"
<1> DEFINE y == [x EXCEPT !.retry = TRUE]
<1>1. y \in PmRecord /\ y.depth = x.depth /\ y.level = x.level /\ y.retry = TRUE
      /\ "restart" \in PmErrs
  BY DEF PmRecord, PmErrs
<1> HIDE DEF y
<1>2. TxRestart(x) = TxAbort(y, "restart")
  BY DEF TxRestart, y
<1> QED
  BY <1>1, <1>2, TxAbortFields

(* pmemobj_tx_commit and a turn of the macros' loop change the stage only.  *)
LEMMA TxStageFields ==
  ASSUME NEW x \in PmRecord
  PROVE  /\ TxCommit(x) \in PmRecord /\ TxCommit(x).stage = "ONCOMMIT"
         /\ TxCommit(x).depth = x.depth /\ TxCommit(x).retry = x.retry
         /\ TxCommit(x).err = x.err /\ TxCommit(x).level = x.level
         /\ TxProcess(x) \in PmRecord /\ TxProcess(x).stage \in {"FINALLY", "NONE"}
         /\ TxProcess(x).depth = x.depth /\ TxProcess(x).retry = x.retry
         /\ TxProcess(x).err = x.err /\ TxProcess(x).level = x.level
BY DEF PmRecord, PmStages, TxCommit, TxProcess

(* pmemobj_tx_end closes a block; the one around it works on, or fails too. *)
LEMMA TxEndFields ==
  ASSUME NEW x \in PmRecord, x.depth > 0
  PROVE  /\ TxEnd(x) \in PmRecord /\ TxEnd(x).depth = x.depth - 1
         /\ TxEnd(x).level = (IF x.level > 0 THEN x.level - 1 ELSE 0)
         /\ TxEnd(x).retry = x.retry /\ TxEnd(x).err = x.err
         /\ x.depth = 1 => TxEnd(x).stage = "NONE"
         /\ x.depth # 1 => TxEnd(x).stage = (IF x.err = "none" THEN "WORK" ELSE "ONABORT")
<1> DEFINE y == [x EXCEPT !.level = IF @ > 0 THEN @ - 1 ELSE 0, !.depth = @ - 1]
<1>l. (IF x.level > 0 THEN x.level - 1 ELSE 0) \in Nat /\ x.depth - 1 \in Nat
  BY DEF PmRecord
<1>1. /\ y \in PmRecord /\ y.depth = x.depth - 1 /\ y.retry = x.retry /\ y.err = x.err
      /\ y.level = (IF x.level > 0 THEN x.level - 1 ELSE 0)
      /\ x.err \in PmErrs
  BY <1>l DEF PmRecord
<1>2. TxEnd(x) = IF x.depth = 1 THEN [y EXCEPT !.stage = "NONE"]
                 ELSE IF x.err = "none" THEN [y EXCEPT !.stage = "WORK"]
                 ELSE TxAbort(y, x.err)
  BY DEF TxEnd, Outermost
<1> HIDE DEF y
<1>3. CASE x.depth = 1
  BY <1>1, <1>2, <1>3 DEF PmRecord, PmStages
<1>4. CASE x.depth # 1 /\ x.err = "none"
  BY <1>1, <1>2, <1>4 DEF PmRecord, PmStages
<1>5. CASE x.depth # 1 /\ x.err # "none"
  BY <1>1, <1>2, <1>5, TxAbortFields
<1> QED
  BY <1>3, <1>4, <1>5

(* Memory under changes is memory.                                          *)
LEMMA OverlayType ==
  ASSUME NEW A, NEW C, NEW n, NEW m \in [A -> C], NEW w \in [A -> C \cup {n}]
  PROVE  Overlay(m, w, n) \in [A -> C]
BY DEF Overlay

(* No changes, none of it changed.                                          *)
LEMMA OverlayNone ==
  ASSUME NEW A, NEW C, NEW n, NEW m \in [A -> C]
  PROVE  Overlay(m, [a \in A |-> n], n) = m
BY DEF Overlay

(* A location that is logged now leads back to where the log led before.    *)
LEMMA LogKeeps ==
  ASSUME NEW A, NEW C, NEW n, n \notin C, NEW m \in [A -> C], NEW u \in [A -> C \cup {n}],
         NEW a \in A
  PROVE  /\ AddRange(u, m, a, n) \in [A -> C \cup {n}]
         /\ AddRange(u, m, a, n)[a] # n
         /\ Overlay(m, AddRange(u, m, a, n), n) = Overlay(m, u, n)
BY DEF Overlay, AddRange

(* Recovery of one location that one lane at most has logged, whatever the  *)
(* lanes hold of others.                                                    *)
LEMMA RecoverAt ==
  ASSUME NEW m, NEW n, NEW logs, NEW j \in DOMAIN logs,
         NEW a \in DOMAIN m, \A i \in DOMAIN logs : i # j => logs[i][a] = n
  PROVE  Recover(m, logs, n)[a] = IF logs[j][a] = n THEN m[a] ELSE logs[j][a]
<1> DEFINE having == {i \in DOMAIN logs : logs[i][a] # n}
<1>1. Recover(m, logs, n)[a] = IF having = {} THEN m[a] ELSE logs[Max(having)][a]
  BY DEF Recover
<1>2. CASE logs[j][a] = n
  <2>1. having = {}
    BY <1>2
  <2> QED
    BY <1>1, <1>2, <2>1
<1>3. CASE logs[j][a] # n
  <2>1. having = {j}
    BY <1>3
  <2>2. Max({j}) = j
    BY DEF Max
  <2> QED
    BY <1>1, <1>3, <2>1, <2>2
<1> QED
  BY <1>2, <1>3

(* A finite set of numbers has a greatest one: among the sets of those that *)
(* are not below one of them, there is a smallest.                          *)
LEMMA Greatest ==
  ASSUME NEW S \in SUBSET Nat, IsFiniteSet(S), S # {}
  PROVE  Max(S) \in S
<1> DEFINE from(n) == {k \in S : k >= n}
           above == {from(n) : n \in S}
<1>1. above \subseteq FiniteSubsetsOf(S) /\ above # {}
  <2>1. \A n \in S : from(n) \in SUBSET S /\ IsFiniteSet(from(n))
    BY FS_Subset
  <2> QED
    BY <2>1 DEF FiniteSubsetsOf
<1>2. IsWellFoundedOn(StrictSubsetOrdering(S), FiniteSubsetsOf(S))
  BY FS_StrictSubsetOrderingWellFounded
<1>3. PICK x \in above : \A y \in above : ~(<<y, x>> \in StrictSubsetOrdering(S))
  <2> HIDE DEF above
  <2> QED
    BY <1>1, <1>2, WFMin
<1>4. PICK n \in S : x = from(n)
  BY <1>3
<1>5. ASSUME NEW k \in S, ~(n >= k) PROVE FALSE
  <2>0. n \in Nat /\ k \in Nat /\ k > n /\ \A i \in S : i \in Nat
    BY <1>5
  <2>a. \A i \in S : i >= k => i >= n
    BY <2>0
  <2>b. n >= n /\ ~(n >= k)
    BY <2>0
  <2>1. from(k) \subseteq from(n) /\ n \in from(n) /\ n \notin from(k) /\ from(n) \subseteq S
    BY <2>a, <2>b
  <2>2. <<from(k), x>> \in StrictSubsetOrdering(S)
    BY <1>4, <2>1 DEF StrictSubsetOrdering
  <2> QED
    BY <1>3, <2>2
<1> QED
  BY <1>5 DEF Max

(* Whatever the lanes hold, recovery leaves a pool.                         *)
LEMMA RecoverType ==
  ASSUME NEW A, NEW C, NEW m \in [A -> C], NEW n, NEW logs,
         IsFiniteSet(DOMAIN logs), DOMAIN logs \subseteq Nat,
         \A i \in DOMAIN logs : logs[i] \in [A -> C \cup {n}]
  PROVE  Recover(m, logs, n) \in [A -> C]
<1>1. ASSUME NEW a \in A PROVE Recover(m, logs, n)[a] \in C
  <2> DEFINE having == {i \in DOMAIN logs : logs[i][a] # n}
  <2>1. Recover(m, logs, n)[a] = IF having = {} THEN m[a] ELSE logs[Max(having)][a]
    BY DEF Recover
  <2>2. having \in SUBSET Nat /\ IsFiniteSet(having)
    BY FS_Subset
  <2>3. having # {} => Max(having) \in having
    <3> HIDE DEF having
    <3> QED
      BY <2>2, Greatest
  <2>4. \A i \in having : logs[i][a] \in C
    OBVIOUS
  <2> HIDE DEF having
  <2> QED
    BY <2>1, <2>3, <2>4
<1> QED
  BY <1>1 DEF Recover

(* A location that no lane has logged stays as it is.                       *)
LEMMA RecoverUnlogged ==
  ASSUME NEW m, NEW n, NEW logs, NEW a \in DOMAIN m,
         \A i \in DOMAIN logs : logs[i][a] = n
  PROVE  Recover(m, logs, n)[a] = m[a]
<1>1. {i \in DOMAIN logs : logs[i][a] # n} = {}
  OBVIOUS
<1> QED
  BY <1>1 DEF Recover

(* In whatever order recovery takes the lanes, it takes each one once.      *)
LEMMA EveryLane ==
  ASSUME NEW T, IsFiniteSet(T), NEW order \in SetToSeqs(T)
  PROVE  /\ DOMAIN order \subseteq Nat /\ IsFiniteSet(DOMAIN order)
         /\ \A i \in DOMAIN order : order[i] \in T
         /\ \A t \in T : \E i \in DOMAIN order :
              order[i] = t /\ \A j \in DOMAIN order : j # i => order[j] # t
<1> DEFINE D == 1..Cardinality(T)
<1>1. Cardinality(T) \in Nat
  BY FS_CardinalityType
<1>2. order \in [D -> T] /\ \A i, j \in D : i # j => order[i] # order[j]
  BY DEF SetToSeqs
<1>3. order \in Injection(D, T)
  BY <1>2 DEF Injection, IsInjective
<1>4. Cardinality(D) = Cardinality(T) /\ IsFiniteSet(D) /\ D \subseteq Nat
  BY <1>1, FS_Interval
<1>5. order \in Surjection(D, T)
  BY <1>1, <1>3, <1>4, FS_Injection
<1> HIDE DEF D
<1>6. DOMAIN order = D /\ \A i \in D : order[i] \in T
  BY <1>2
<1>7. \A t \in T : \E i \in D : order[i] = t
  BY <1>5 DEF Surjection
<1>8. \A i, j \in D : j # i => order[j] # order[i]
  BY <1>2
<1>9. \A t \in T : \E i \in D : order[i] = t /\ \A j \in D : j # i => order[j] # t
  BY <1>7, <1>8
<1> QED
  BY <1>4, <1>6, <1>9

--------------------------------------------------------------------------------

(* The arithmetic of the lock word.                                         *)
LEMMA Parity ==
  \A n \in Nat : /\ IsEven(n) => ~IsEven(n + 1) /\ Even(n) = n /\ Even(n + 1) = n
                 /\ ~IsEven(n) => /\ n - 1 \in Nat /\ IsEven(n - 1) /\ IsEven(n + 1)
                                  /\ Even(n) = n - 1 /\ (n - 1) + 2 = n + 1
                 /\ Even(n) \in Nat /\ IsEven(Even(n)) /\ Even(n) <= n
BY DEF IsEven, Even

(* The variables a thread has to itself.                                    *)
Mine(s) ==
  <<tx[s], loc[s], irrevoc[s], rset[s], wset[s], pc[s], caller[s], arg[s], time[s],
    todo[s], left[s], undo[s], frees[s], start[s], seen[s], own[s]>>

OthersSame(t) == \A s \in Threads : s # t => Mine(s)' = Mine(s)

(* The facts about a thread that every lemma begins with.                   *)
LEMMA ThreadFacts ==
  ASSUME IInv, NEW t \in Threads
  PROVE  /\ TypeOK /\ HistoryInv /\ LockInv /\ OneHolder /\ LostInv /\ ThreadInv(t)
         /\ ControlInv(t) /\ SetsInv(t) /\ LogOf(t) /\ StoreInv(t) /\ ReaderInv(t)
         /\ Opaque(t)
         /\ tx[t] \in PmRecord /\ tx[t].depth \in Nat /\ tx[t].level \in Nat
         /\ tx[t].err \in PmErrs
         /\ loc[t] \in Nat /\ glb \in Nat /\ start[t] \in Nat
         /\ mem \in [Addrs -> Contents]
         /\ undo[t] \in [Addrs -> Contents \cup {NoVal}]
         /\ own[t] \in [Addrs -> Contents \cup {NoVal}]
         /\ frees[t] \in SUBSET Addrs
<1>1. TypeOK /\ ThreadInv(t)
  BY DEF IInv
<1> QED
  BY <1>1 DEF IInv, ThreadInv, TypeOK, PmRecord

(* The version below an odd lock is there.                                  *)
LEMMA VersionBelow ==
  ASSUME IInv, ~IsEven(glb)
  PROVE  glb - 1 \in DOMAIN hist /\ glb - 1 \in Nat /\ hist[glb - 1] \in [Addrs -> Contents]
<1>1. TypeOK /\ HistoryInv /\ glb \in Nat
  BY DEF IInv, TypeOK
<1>2. glb - 1 \in DOMAIN hist /\ glb - 1 \in Nat
  BY <1>1, Parity DEF HistoryInv
<1> QED
  BY <1>1, <1>2 DEF TypeOK

(* Outside the replay, what a transaction has in the pool is all it wrote.  *)
LEMMA CopiedIsOwn ==
  ASSUME NEW t \in Threads, own[t] \in [Addrs -> Contents \cup {NoVal}], ~Replaying(t)
  PROVE  Copied(t) = own[t]
<1>1. Copied(t) = [a \in Addrs |-> own[t][a]]
  BY DEF Copied
<1> QED
  BY <1>1

(* Before any thread has begun, the pool is version 0 and nobody holds.     *)
LEMMA InitInv == Init => IInv
<1> SUFFICES ASSUME Init PROVE IInv
  OBVIOUS
<1> USE ConstAssumption DEF Init
<1>0. /\ [a \in Addrs |-> InitVal] \in [Addrs -> Contents]
      /\ NoLog \in [Addrs -> Contents \cup {NoVal}]
  BY DEF NoLog, Contents
<1>1. TypeOK
  <2>0. lost \in BOOLEAN
    OBVIOUS
  <2>1. glb \in Nat /\ crashes \in 0..MaxCrashes /\ mem \in [Addrs -> Contents]
    BY <1>0
  <2>2. /\ tx \in [Threads -> PmRecord] /\ loc \in [Threads -> Nat]
        /\ irrevoc \in [Threads -> BOOLEAN] /\ rset \in [Threads -> SUBSET Entries]
        /\ pc \in [Threads -> Labels] /\ time \in [Threads -> Nat]
        /\ caller \in [Threads -> {"none", "read", "commit", "irrevoc", "free"}]
        /\ arg \in [Threads -> Entries \cup {NoArg}]
        /\ todo \in [Threads -> SUBSET Entries] /\ start \in [Threads -> Nat]
        /\ seen \in [Threads -> SUBSET Entries]
    BY TxIdleFields DEF Labels
  <2>3. wset \in [Threads -> Seq(Addrs \X Vals)] /\ left \in [Threads -> Seq(Addrs \X Vals)]
    OBVIOUS
  <2>4. /\ undo \in [Threads -> [Addrs -> Contents \cup {NoVal}]]
        /\ frees \in [Threads -> SUBSET Addrs]
        /\ own \in [Threads -> [Addrs -> Contents \cup {NoVal}]]
    BY <1>0
  <2>5. DOMAIN hist \subseteq Nat /\ \A g \in DOMAIN hist : hist[g] \in [Addrs -> Contents]
    BY <1>0
  <2> QED
    BY <2>0, <2>1, <2>2, <2>3, <2>4, <2>5 DEF TypeOK
<1>2. IsEven(0) /\ Even(0) = 0
  BY DEF IsEven, Even
<1>3. LockInv /\ HistoryInv /\ LostInv
  BY <1>2 DEF LockInv, HistoryInv, LostInv
<1>4. ASSUME NEW t \in Threads PROVE ThreadInv(t) /\ ~Holds(t)
  <2>1. /\ tx[t] = TxIdle /\ pc[t] = "idle" /\ caller[t] = "none" /\ arg[t] = NoArg
        /\ tx[t].stage = "NONE" /\ tx[t].depth = 0 /\ tx[t].level = 0
    BY TxIdleFields
  <2>2. ~InTx(t) /\ ~Replaying(t) /\ ~Holds(t)
    BY <2>1 DEF InTx, Holds, Replaying
  <2>3. ControlInv(t)
    BY <2>1, <2>2 DEF ControlInv, InWork
  <2>4. SetsInv(t) /\ LogOf(t) /\ StoreInv(t) /\ ReaderInv(t) /\ Opaque(t)
    BY <2>1, <2>2 DEF SetsInv, LogOf, StoreInv, ReaderInv, Opaque, InWork
  <2> QED
    BY <2>2, <2>3, <2>4 DEF ThreadInv
<1> QED
  BY <1>1, <1>3, <1>4 DEF IInv, OneHolder

--------------------------------------------------------------------------------
(* A step of another thread.  Versions are only added, the pool changes     *)
(* only while the lock is odd, and the lock moves, or is lost, only when s  *)
(* does not have it.                                                        *)
LEMMA OthersInv ==
  ASSUME IInv, NEW s \in Threads, Mine(s)' = Mine(s),
         glb' \in Nat, glb <= glb', lost => lost',
         \A g \in DOMAIN hist : g \in DOMAIN hist' /\ hist'[g] = hist[g],
         glb' = glb /\ IsEven(glb) => mem' = mem,
         Holds(s) => UNCHANGED <<glb, mem, lost>>
  PROVE  ThreadInv(s)' /\ (Holds(s)' <=> Holds(s))
<1>p. /\ TypeOK /\ HistoryInv /\ ThreadInv(s) /\ ControlInv(s) /\ SetsInv(s) /\ LogOf(s)
      /\ StoreInv(s) /\ ReaderInv(s) /\ Opaque(s)
  BY ThreadFacts
<1>m. /\ tx'[s] = tx[s] /\ loc'[s] = loc[s] /\ irrevoc'[s] = irrevoc[s]
      /\ rset'[s] = rset[s] /\ wset'[s] = wset[s] /\ pc'[s] = pc[s]
      /\ caller'[s] = caller[s] /\ arg'[s] = arg[s] /\ time'[s] = time[s]
      /\ todo'[s] = todo[s] /\ left'[s] = left[s] /\ undo'[s] = undo[s]
      /\ frees'[s] = frees[s]
      /\ start'[s] = start[s] /\ seen'[s] = seen[s] /\ own'[s] = own[s]
  BY DEF Mine
<1>g. /\ glb \in Nat /\ \A g \in DOMAIN hist : g \in Nat /\ IsEven(g) /\ g <= glb
      /\ start[s] \in Nat /\ loc[s] \in Nat
  BY <1>p DEF TypeOK, HistoryInv
<1>h. (Holds(s)' <=> Holds(s)) /\ Copied(s)' = Copied(s) /\ (InTx(s)' <=> InTx(s))
      /\ (Replaying(s)' <=> Replaying(s))
  BY <1>m DEF Holds, Copied, Replaying, InTx
<1>1. ControlInv(s)'
  BY <1>p, <1>m DEF ControlInv, InTx, InWork, NoArg
<1>2. SetsInv(s)'
  BY <1>p, <1>m DEF SetsInv, InTx, InWork, Listed, InWset, Replaying, NoLog
<1>3. StoreInv(s)'
  BY <1>p, <1>m DEF StoreInv, InWork, NoLog
<1>4. LogOf(s)'
  <2>1. CASE Holds(s)
    <3>1. ~IsEven(glb) /\ hist'[glb - 1] = hist[glb - 1]
      BY <1>p, <2>1, VersionBelow DEF LogOf
    <3> QED
      BY <1>p, <1>m, <1>h, <2>1, <3>1 DEF LogOf, Committed, Outermost, InWork, Overlay
  <2>2. CASE ~Holds(s) /\ pc[s] = "seal"
    <3>1. hist'[loc[s]] = hist[loc[s]] /\ hist'[loc[s] + 2] = hist[loc[s] + 2]
      BY <1>p, <2>2 DEF StoreInv
    <3> QED
      BY <1>p, <1>m, <1>h, <2>2, <3>1 DEF LogOf, Overlay
  <2>3. CASE ~Holds(s) /\ pc[s] # "seal"
    BY <1>p, <1>m, <1>h, <2>3 DEF LogOf, NoLog
  <2> QED
    BY <2>1, <2>2, <2>3
<1>5. ASSUME NEW g \in DOMAIN hist, Snapshot(g, s)
      PROVE  g \in DOMAIN hist' /\ g >= start'[s] /\ \A p \in seen'[s] : hist'[g][p[1]] = p[2]
  BY <1>5, <1>m DEF Snapshot, Explains
<1>6. Opaque(s)'
  BY <1>p, <1>m, <1>5 DEF Opaque, InTx, Snapshot, Explains
<1>7. ReaderInv(s)'
  <2>1. InTx(s) => start[s] <= glb'
    BY <1>p, <1>g DEF ReaderInv
  <2>2. ASSUME NEW g \in Nat, g \in DOMAIN hist, g = glb'
        PROVE  glb' = glb /\ IsEven(glb) /\ mem' = mem
    BY <1>g, <2>2
  <2>3. pc[s] = "prevalidate" /\ loc[s] = glb' => arg[s][2] = mem'[arg[s][1]]
    <3> SUFFICES ASSUME pc[s] = "prevalidate", loc[s] = glb'
                 PROVE  arg[s][2] = mem'[arg[s][1]]
      OBVIOUS
    <3>1. InTx(s) /\ ~irrevoc[s] /\ ~tx[s].retry
      BY <1>p DEF ControlInv
    <3>2. loc[s] \in DOMAIN hist
      BY <1>p, <3>1 DEF ReaderInv, Snapshot
    <3> QED
      BY <1>p, <1>g, <3>2, <2>2 DEF ReaderInv
  <2>4. pc[s] = "compare" =>
          /\ time[s] \in DOMAIN hist' /\ time[s] >= start[s]
          /\ todo[s] \subseteq rset[s]
          /\ time[s] = glb' => \A e \in rset[s] \ todo[s] : mem'[e[1]] = e[2]
    BY <1>p, <1>g, <2>2 DEF ReaderInv
  <2>5. InTx(s) /\ ~tx[s].retry /\ ~irrevoc[s] /\ pc[s] \notin {"validate", "compare"} =>
          loc[s] \in DOMAIN hist /\ Snapshot(loc[s], s)
    BY <1>p DEF ReaderInv, Snapshot
  <2>6. InTx(s) /\ irrevoc[s] => loc[s] - 1 \in DOMAIN hist /\ Snapshot(loc[s] - 1, s)
    BY <1>p DEF ReaderInv, Snapshot
  <2>7. InTx(s)' /\ ~tx'[s].retry /\ ~irrevoc'[s] /\ pc'[s] \notin {"validate", "compare"} =>
          /\ loc'[s] \in DOMAIN hist' /\ loc'[s] >= start'[s]
          /\ \A p \in seen'[s] : hist'[loc'[s]][p[1]] = p[2]
    BY <2>5, <1>5, <1>m DEF InTx
  <2>8. InTx(s)' /\ irrevoc'[s] =>
          /\ loc'[s] - 1 \in DOMAIN hist' /\ loc'[s] - 1 >= start'[s]
          /\ \A p \in seen'[s] : hist'[loc'[s] - 1][p[1]] = p[2]
    BY <2>6, <1>5, <1>m DEF InTx
  <2> QED
    BY <1>m, <2>1, <2>3, <2>4, <2>7, <2>8 DEF ReaderInv, InTx, Snapshot, Explains
<1> QED
  BY <1>h, <1>1, <1>2, <1>3, <1>4, <1>6, <1>7 DEF ThreadInv

--------------------------------------------------------------------------------
(* What a step does to the lock. *)

(* It leaves the lock and the pool: if a log goes, it is that of a commit   *)
(* that waited to be durable.                                               *)
LEMMA QuietStep ==
  ASSUME IInv, NEW t \in Threads, TypeOK', OthersSame(t),
         UNCHANGED <<glb, mem, hist, lost>>, ThreadInv(t)', Holds(t)' <=> Holds(t),
         pc'[t] # "seal", undo'[t] = IF pc[t] = "seal" THEN NoLog ELSE undo[t]
  PROVE  IInv'
<1>1. TypeOK /\ HistoryInv /\ LockInv /\ OneHolder /\ LostInv /\ glb \in Nat
  BY DEF IInv, TypeOK
<1>2. ASSUME NEW s \in Threads, s # t PROVE ThreadInv(s)' /\ (Holds(s)' <=> Holds(s))
  BY <1>1, <1>2, OthersInv DEF OthersSame
<1>3. \A s \in Threads : s # t => pc'[s] = pc[s] /\ undo'[s] = undo[s]
  BY DEF OthersSame, Mine
<1>4. \A s \in Threads : Holds(s)' <=> Holds(s)
  BY <1>2
<1>5. LockInv'
  <2>1. (\A s \in Threads : ~Holds(s)') => \A s \in Threads : ~Holds(s)
    BY <1>4
  <2>2. ASSUME NEW w \in Threads \ Sealing, Overlay(mem, undo[w], NoVal) = hist[glb - 1]
        PROVE  w \in Threads \ Sealing' /\ Overlay(mem', undo'[w], NoVal) = hist'[glb' - 1]
    BY <1>3, <2>2 DEF Sealing
  <2>3. ~IsEven(glb) /\ (\A s \in Threads : ~Holds(s)') =>
          lost /\ \E w \in Threads \ Sealing' : Overlay(mem', undo'[w], NoVal) = hist'[glb' - 1]
    BY <1>1, <2>1, <2>2 DEF LockInv
  <2> QED
    BY <1>1, <2>3 DEF LockInv, Sealing
<1>6. LostInv'
  <2> SUFFICES ASSUME lost
               PROVE  \E w \in Threads :
                        /\ pc'[w] # "seal" /\ Overlay(mem', undo'[w], NoVal) = hist'[glb' - 1]
                        /\ \A s \in Threads : s # w /\ pc'[s] # "seal" => undo'[s] = NoLog
    BY DEF LostInv, NoLog
  <2>1. PICK w \in Threads :
          /\ pc[w] # "seal" /\ Overlay(mem, undo[w], NoVal) = hist[glb - 1]
          /\ \A s \in Threads : s # w /\ pc[s] # "seal" => undo[s] = NoLog
    BY <1>1 DEF LostInv
  <2>2. pc'[w] # "seal" /\ Overlay(mem', undo'[w], NoVal) = hist'[glb' - 1]
    BY <1>3, <2>1
  <2>3. \A s \in Threads : s # w /\ pc'[s] # "seal" => undo'[s] = NoLog
    BY <1>3, <2>1
  <2> QED
    BY <2>2, <2>3
<1>7. HistoryInv' /\ OneHolder'
  BY <1>1, <1>4 DEF HistoryInv, OneHolder
<1> QED
  BY <1>2, <1>5, <1>6, <1>7 DEF IInv

(* The one that has lost the lock is rolled back: the pool is the last      *)
(* version, though nobody will ever run on it.                              *)
LEMMA OrphanStep ==
  ASSUME IInv, NEW t \in Threads, TypeOK', OthersSame(t), UNCHANGED <<glb, hist, lost>>,
         ThreadInv(t)', ~Holds(t), ~Holds(t)', pc[t] # "seal", pc'[t] # "seal",
         mem' = Overlay(mem, undo[t], NoVal), undo'[t] = NoLog
  PROVE  IInv'
<1>1. /\ TypeOK /\ HistoryInv /\ LockInv /\ OneHolder /\ LostInv /\ glb \in Nat
      /\ mem \in [Addrs -> Contents] /\ LogOf(t)
  BY ThreadFacts
<1>2. CASE undo[t] = NoLog
  <2>1. mem' = mem
    BY <1>1, <1>2, OverlayNone DEF NoLog
  <2> QED
    BY <1>2, <2>1, QuietStep
<1>3. CASE undo[t] # NoLog
  <2>1. lost /\ ~IsEven(glb)
    BY <1>1, <1>3 DEF LogOf, LockInv
  <2>2. /\ Overlay(mem, undo[t], NoVal) = hist[glb - 1]
        /\ \A s \in Threads : s # t /\ pc[s] # "seal" => undo[s] = NoLog
    BY <1>1, <1>3, <2>1 DEF LostInv
  <2>3. \A s \in Threads : ~Holds(s)
    BY <2>1, ThreadFacts DEF LogOf
  <2>4. ASSUME NEW s \in Threads, s # t PROVE ThreadInv(s)' /\ ~Holds(s)'
    BY <1>1, <2>1, <2>3, <2>4, OthersInv DEF OthersSame
  <2>5. \A s \in Threads : s # t => pc'[s] = pc[s] /\ undo'[s] = undo[s]
    BY DEF OthersSame, Mine
  <2>6. mem' \in [Addrs -> Contents] /\ Overlay(mem', NoLog, NoVal) = mem'
    BY OverlayNone DEF NoLog, TypeOK
  <2>7. Overlay(mem', undo'[t], NoVal) = hist'[glb' - 1]
    BY <2>2, <2>6
  <2>8. LockInv' /\ LostInv'
    BY <2>1, <2>2, <2>5, <2>7 DEF LockInv, LostInv, Sealing, NoLog
  <2>9. HistoryInv' /\ OneHolder'
    BY <1>1, <2>4 DEF HistoryInv, OneHolder
  <2> QED
    BY <2>4, <2>8, <2>9 DEF IInv
<1> QED
  BY <1>2, <1>3

(* t has the lock afterwards, whatever it does to the pool: another thread  *)
(* runs on an even version, and will not be handed what it loads now.       *)
LEMMA HolderStep ==
  ASSUME IInv, NEW t \in Threads, TypeOK', OthersSame(t), UNCHANGED <<hist, lost>>,
         Holds(t)', ThreadInv(t)',
         \/ Holds(t) /\ glb' = glb
         \/ IsEven(glb) /\ glb' = glb + 1
  PROVE  IInv'
<1>1. /\ TypeOK /\ HistoryInv /\ glb \in Nat /\ glb' \in Nat /\ glb <= glb'
      /\ ~IsEven(glb') /\ ~lost
  <2>1. TypeOK /\ HistoryInv /\ glb \in Nat /\ glb' \in Nat
    BY DEF IInv, TypeOK
  <2>2. ~IsEven(glb') /\ ~lost'
    BY DEF ThreadInv, LogOf
  <2> QED
    BY <2>1, <2>2
<1>2. \A s \in Threads : s # t => ~Holds(s)
  <2>1. \A s \in Threads : Holds(s) => ~IsEven(glb)
    BY ThreadFacts DEF LogOf
  <2> QED
    BY <2>1 DEF IInv, OneHolder
<1>3. Holds(t) => ~IsEven(glb)
  BY ThreadFacts DEF LogOf
<1>4. ASSUME NEW s \in Threads, s # t PROVE ThreadInv(s)' /\ ~Holds(s)'
  <2>1. glb' = glb => ~IsEven(glb)
    BY <1>1
  <2> QED
    BY <1>1, <1>2, <1>4, <2>1, OthersInv DEF OthersSame
<1>5. LockInv' /\ LostInv'
  BY <1>1 DEF LockInv, LostInv
<1>6. OneHolder'
  BY <1>4 DEF OneHolder
<1>7. HistoryInv'
  <2>1. Even(glb') = Even(glb)
    BY <1>1, Parity
  <2>2. \A g \in DOMAIN hist : g \in Nat /\ g <= glb'
    BY <1>1 DEF HistoryInv, TypeOK
  <2> QED
    BY <1>1, <2>1, <2>2 DEF HistoryInv, Even
<1> QED
  BY <1>4, <1>5, <1>6, <1>7 DEF IInv

(* t had the lock, and leaves it odd with nobody to give it back.           *)
LEMMA LoseStep ==
  ASSUME IInv, NEW t \in Threads, TypeOK', OthersSame(t), UNCHANGED <<glb, hist>>, lost',
         ThreadInv(t)', Holds(t), ~Holds(t)', pc'[t] # "seal",
         Overlay(mem', undo'[t], NoVal) = hist[glb - 1]
  PROVE  IInv'
<1>1. /\ TypeOK /\ HistoryInv /\ glb \in Nat /\ ~IsEven(glb) /\ ~lost
  BY ThreadFacts DEF LogOf
<1>2. \A s \in Threads : s # t => ~Holds(s)
  BY DEF IInv, OneHolder
<1>3. ASSUME NEW s \in Threads, s # t PROVE ThreadInv(s)' /\ ~Holds(s)'
  <2>1. glb' \in Nat /\ glb <= glb' /\ (lost => lost') /\ (glb' = glb /\ IsEven(glb) => mem' = mem)
    BY <1>1
  <2>2. \A g \in DOMAIN hist : g \in DOMAIN hist' /\ hist'[g] = hist[g]
    OBVIOUS
  <2>3. Mine(s)' = Mine(s) /\ ~Holds(s)
    BY <1>2, <1>3 DEF OthersSame
  <2> QED
    BY <2>1, <2>2, <2>3, OthersInv
<1>4. \A s \in Threads : s # t /\ pc'[s] # "seal" => undo'[s] = NoLog
  <2> SUFFICES ASSUME NEW s \in Threads, s # t, pc'[s] # "seal" PROVE undo'[s] = NoLog
    OBVIOUS
  <2>1. pc'[s] = pc[s] /\ undo'[s] = undo[s]
    BY DEF OthersSame, Mine
  <2> QED
    BY <1>1, <1>2, <2>1, ThreadFacts DEF LogOf
<1>5. LockInv' /\ LostInv'
  BY <1>1, <1>4 DEF LockInv, LostInv, Sealing, NoLog
<1>6. HistoryInv' /\ OneHolder'
  BY <1>1, <1>3 DEF HistoryInv, OneHolder
<1> QED
  BY <1>3, <1>5, <1>6 DEF IInv

(* t gives it back: the pool is the new version.                            *)
LEMMA GiveStep ==
  ASSUME IInv, NEW t \in Threads, TypeOK', OthersSame(t), Holds(t), ~Holds(t)',
         glb' = glb + 1, mem' = mem, lost' = lost, Publish(glb + 1, mem), ThreadInv(t)'
  PROVE  IInv'
<1>1. /\ TypeOK /\ HistoryInv /\ glb \in Nat /\ ~IsEven(glb) /\ ~lost
  BY ThreadFacts DEF LogOf
<1>2. /\ IsEven(glb') /\ Even(glb') = glb' /\ glb <= glb' /\ glb' # glb /\ glb' \in Nat
  BY <1>1, Parity
<1>3. /\ DOMAIN hist' = DOMAIN hist \cup {glb'} /\ hist'[glb'] = mem
      /\ \A g \in DOMAIN hist : g \in Nat /\ g <= glb /\ IsEven(g) /\ hist'[g] = hist[g]
  <2>1. \A g \in DOMAIN hist : g \in Nat /\ g <= glb /\ IsEven(g) /\ g # glb + 1
    BY <1>1 DEF HistoryInv, TypeOK
  <2> QED
    BY <2>1 DEF Publish
<1>4. \A s \in Threads : s # t => ~Holds(s)
  BY DEF IInv, OneHolder
<1>5. ASSUME NEW s \in Threads, s # t PROVE ThreadInv(s)' /\ ~Holds(s)'
  BY <1>2, <1>3, <1>4, <1>5, OthersInv DEF OthersSame
<1>6. LockInv' /\ LostInv'
  BY <1>1, <1>2, <1>3 DEF LockInv, LostInv
<1>7. HistoryInv'
  BY <1>1, <1>2, <1>3 DEF HistoryInv, Even
<1>8. OneHolder'
  BY <1>5 DEF OneHolder
<1> QED
  BY <1>5, <1>6, <1>7, <1>8 DEF IInv

--------------------------------------------------------------------------------
(* Steps that end in the loop of a block. *)

(* What such a step makes of the pool and t's log: nothing, or a roll back. *)
Keeps == UNCHANGED <<mem, own, undo, frees>>

(* t stays in the loop, or comes back to it.                                *)
BackToLoop(t) == (pc[t] = "run" /\ UNCHANGED <<pc, callVars>>) \/ Leave(t)

(* The record it may leave there.                                           *)
GoodRecord(t, r) ==
  /\ r \in PmRecord /\ r.depth > 0 /\ r.level = r.depth - 1
  /\ r.stage = "WORK" => r.err = "none"
  /\ r.retry <=> r.err = "restart"
  /\ tx[t].err # "none" => r.err = tx[t].err

(* pmemobj's roll back leaves no log, and nothing to be undone.             *)
LEMMA RollBackEffect ==
  ASSUME IInv, NEW t \in Threads, RollBack(t)
  PROVE  /\ mem' \in [Addrs -> Contents] /\ mem' = Overlay(mem, undo[t], NoVal)
         /\ own' \in [Threads -> [Addrs -> Contents \cup {NoVal}]]
         /\ undo' \in [Threads -> [Addrs -> Contents \cup {NoVal}]]
         /\ frees' \in [Threads -> SUBSET Addrs]
         /\ own'[t] = NoLog /\ undo'[t] = NoLog /\ frees'[t] = {}
         /\ Overlay(mem', NoLog, NoVal) = mem'
         /\ \A s \in Threads : s # t => own'[s] = own[s] /\ undo'[s] = undo[s]
                                        /\ frees'[s] = frees[s]
<1>1. TypeOK /\ NoLog \in [Addrs -> Contents \cup {NoVal}]
  BY DEF IInv, NoLog
<1>2. mem' \in [Addrs -> Contents] /\ mem' = Overlay(mem, undo[t], NoVal)
  BY <1>1, OverlayType DEF TypeOK, RollBack
<1>3. Overlay(mem', NoLog, NoVal) = mem'
  BY <1>2, OverlayNone DEF NoLog
<1>4. /\ own' = [own EXCEPT ![t] = NoLog] /\ undo' = [undo EXCEPT ![t] = NoLog]
      /\ frees' = [frees EXCEPT ![t] = {}]
  BY DEF RollBack, Discard
<1> QED
  BY <1>1, <1>2, <1>3, <1>4 DEF TypeOK

(* Leaving a call clears its variables.                                     *)
LEMMA BackEffect ==
  ASSUME IInv, NEW t \in Threads, BackToLoop(t)
  PROVE  /\ pc' \in [Threads -> Labels] /\ time' \in [Threads -> Nat]
         /\ caller' \in [Threads -> {"none", "read", "commit", "irrevoc", "free"}]
         /\ arg' \in [Threads -> Entries \cup {NoArg}]
         /\ todo' \in [Threads -> SUBSET Entries]
         /\ left' \in [Threads -> Seq(Addrs \X Vals)]
         /\ pc'[t] = "run" /\ caller'[t] = "none" /\ arg'[t] = NoArg
         /\ \A s \in Threads : s # t =>
              /\ pc'[s] = pc[s] /\ caller'[s] = caller[s] /\ arg'[s] = arg[s]
              /\ time'[s] = time[s] /\ todo'[s] = todo[s] /\ left'[s] = left[s]
<1>1. TypeOK /\ ControlInv(t)
  BY ThreadFacts
<1>2. CASE pc[t] = "run" /\ UNCHANGED <<pc, callVars>>
  BY <1>1, <1>2 DEF TypeOK, ControlInv, callVars
<1>3. CASE Leave(t)
  <2>1. /\ pc' = [pc EXCEPT ![t] = "run"] /\ caller' = [caller EXCEPT ![t] = "none"]
        /\ arg' = [arg EXCEPT ![t] = NoArg] /\ time' = [time EXCEPT ![t] = 0]
        /\ todo' = [todo EXCEPT ![t] = {}] /\ left' = [left EXCEPT ![t] = <<>>]
    BY <1>3 DEF Leave, Goto
  <2> QED
    BY <1>1, <2>1 DEF TypeOK, Labels
<1> QED
  BY <1>2, <1>3 DEF BackToLoop

(* What such a step leaves of the state.                                    *)
LEMMA LoopFrame ==
  ASSUME IInv, NEW t \in Threads, NEW r \in PmRecord, tx' = [tx EXCEPT ![t] = r],
         BackToLoop(t), Keeps \/ RollBack(t), lost' \in BOOLEAN,
         UNCHANGED <<glb, loc, irrevoc, rset, wset, crashes, hist, start, seen>>
  PROVE  /\ TypeOK' /\ OthersSame(t) /\ tx'[t] = r
         /\ pc'[t] = "run" /\ caller'[t] = "none" /\ arg'[t] = NoArg
         /\ own'[t] \in [Addrs -> Contents \cup {NoVal}]
<1>1. TypeOK
  BY DEF IInv
<1>2. /\ tx' \in [Threads -> PmRecord] /\ tx'[t] = r
      /\ \A s \in Threads : s # t => tx'[s] = tx[s]
  BY <1>1 DEF TypeOK
<1>3. /\ mem' \in [Addrs -> Contents]
      /\ own' \in [Threads -> [Addrs -> Contents \cup {NoVal}]]
      /\ undo' \in [Threads -> [Addrs -> Contents \cup {NoVal}]]
      /\ frees' \in [Threads -> SUBSET Addrs]
      /\ \A s \in Threads : s # t => own'[s] = own[s] /\ undo'[s] = undo[s]
                                     /\ frees'[s] = frees[s]
  BY <1>1, RollBackEffect DEF Keeps, TypeOK
<1>4. TypeOK'
  BY <1>1, <1>2, <1>3, BackEffect DEF TypeOK
<1>5. OthersSame(t)
  BY <1>2, <1>3, BackEffect DEF OthersSame, Mine
<1> QED
  BY <1>2, <1>3, <1>4, <1>5, BackEffect

(* An irrevocable transaction has the lock, and the pool is the last        *)
(* version with its writes on top.                                          *)
LEMMA IrrevocFacts ==
  ASSUME IInv, NEW t \in Threads, InTx(t), irrevoc[t]
  PROVE  /\ Holds(t) /\ ~Replaying(t) /\ ~IsEven(glb) /\ loc[t] = glb /\ ~lost
         /\ glb - 1 \in DOMAIN hist /\ glb - 1 >= start[t] /\ Explains(glb - 1, t)
         /\ start[t] <= glb /\ hist[glb - 1] \in [Addrs -> Contents]
         /\ mem = Overlay(hist[glb - 1], own[t], NoVal)
         /\ Committed(t) \/ Overlay(mem, undo[t], NoVal) = hist[glb - 1]
<1>1. Holds(t) /\ ~Replaying(t)
  BY ThreadFacts DEF Holds, Replaying, ControlInv
<1>2. /\ ~IsEven(glb) /\ glb = loc[t] /\ ~lost
      /\ mem = Overlay(hist[glb - 1], Copied(t), NoVal)
      /\ Committed(t) \/ Overlay(mem, undo[t], NoVal) = hist[glb - 1]
  BY <1>1, ThreadFacts DEF LogOf
<1>3. start[t] <= glb /\ Snapshot(glb - 1, t)
  BY <1>2, ThreadFacts DEF ReaderInv
<1>4. Copied(t) = own[t]
  BY <1>1, CopiedIsOwn, ThreadFacts
<1>5. hist[glb - 1] \in [Addrs -> Contents]
  BY <1>2, VersionBelow
<1> QED
  BY <1>1, <1>2, <1>3, <1>4, <1>5 DEF Snapshot

(* A step of an irrevocable transaction: the pool stays the last version    *)
(* with its writes on top, and until it commits the log leads back.         *)
LEMMA InPlaceStep ==
  ASSUME IInv, NEW t \in Threads, InTx(t), irrevoc[t], NEW r, GoodRecord(t, r),
         TypeOK', OthersSame(t), tx'[t] = r,
         pc'[t] = "run", caller'[t] = "none", arg'[t] = NoArg,
         UNCHANGED <<glb, hist, loc, irrevoc, start, lost>>,
         Explains(glb - 1, t)',
         mem' = Overlay(hist[glb - 1], own'[t], NoVal),
         Committed(t)' \/ Overlay(mem', undo'[t], NoVal) = hist[glb - 1],
         Outermost(r) /\ r.stage # "WORK" =>
           undo'[t] = NoLog /\ frees'[t] = {} /\ (r.err # "none" => own'[t] = NoLog)
  PROVE  IInv'
<1>1. /\ Holds(t) /\ ~Replaying(t) /\ ~IsEven(glb) /\ loc[t] = glb /\ ~lost
      /\ glb - 1 \in DOMAIN hist /\ glb - 1 >= start[t] /\ start[t] <= glb
  BY IrrevocFacts
<1>2. Holds(t)' /\ InTx(t)' /\ ~Replaying(t)'
  BY DEF Holds, InTx, Replaying, GoodRecord
<1>3. Copied(t)' = own'[t]
  <2>1. Copied(t)' = [a \in Addrs |-> own'[t][a]]
    BY <1>2 DEF Copied
  <2>2. own'[t] \in [Addrs -> Contents \cup {NoVal}]
    BY DEF TypeOK
  <2> QED
    BY <2>1, <2>2
<1>4. ControlInv(t)'
  BY <1>2 DEF ControlInv, GoodRecord, InWork
<1>5. SetsInv(t)'
  BY <1>2 DEF SetsInv
<1>6. LogOf(t)'
  BY <1>1, <1>2, <1>3 DEF LogOf
<1>7. StoreInv(t)'
  <2>1. r.depth \in Nat /\ r.depth > 0
    BY DEF GoodRecord, PmRecord
  <2>2. r.depth <= 1 => r.depth = 1
    BY <2>1
  <2> QED
    BY <2>2 DEF StoreInv, Outermost, InWork, NoLog
<1>8. Snapshot(glb - 1, t)'
  BY <1>1 DEF Snapshot
<1>9. ReaderInv(t)' /\ Opaque(t)'
  BY <1>1, <1>2, <1>8 DEF ReaderInv, Opaque, Snapshot, Explains
<1> QED
  BY <1>1, <1>2, <1>4, <1>5, <1>6, <1>7, <1>9, HolderStep DEF ThreadInv

(* A step of a revocable transaction that ends in the loop of a block.      *)
LEMMA RevocableLoopStep ==
  ASSUME IInv, NEW t \in Threads, InTx(t), ~irrevoc[t], ~Replaying(t), pc[t] # "seal",
         NEW r, GoodRecord(t, r), tx' = [tx EXCEPT ![t] = r], BackToLoop(t),
         pc[t] = "run" \/ r.retry,
         UNCHANGED <<glb, loc, irrevoc, rset, wset, crashes, hist, start, seen, lost>>,
         \/ /\ Keeps
            /\ Outermost(r) /\ r.stage # "WORK" =>
                 undo[t] = NoLog /\ frees[t] = {} /\ (r.err # "none" => own[t] = NoLog)
         \/ RollBack(t) /\ r.err # "none"
  PROVE  IInv'
<1>1. lost' \in BOOLEAN /\ r \in PmRecord /\ (Keeps \/ RollBack(t))
  BY ThreadFacts DEF GoodRecord, TypeOK
<1>2. /\ TypeOK' /\ OthersSame(t) /\ tx'[t] = r
      /\ pc'[t] = "run" /\ caller'[t] = "none" /\ arg'[t] = NoArg
  BY <1>1, LoopFrame
<1>3. InTx(t)' /\ ~Replaying(t)' /\ ~Holds(t) /\ ~Holds(t)' /\ r.depth \in Nat
  BY <1>1, <1>2 DEF InTx, Replaying, Holds, GoodRecord, PmRecord
<1>4. /\ seen[t] = rset[t] /\ frees[t] = {} /\ start[t] <= glb
      /\ tx[t].err = "none" => Listed(wset[t], own[t])
                               /\ \A a \in Addrs : own[t][a] # NoVal => InWset(t, a)
      /\ undo[t] = NoLog \/ (lost /\ tx[t].err = "nomem")
      /\ ~tx[t].retry /\ pc[t] = "run" => Snapshot(loc[t], t)
      /\ tx[t].retry => r.retry
  BY <1>3, ThreadFacts DEF SetsInv, ReaderInv, LogOf, ControlInv, GoodRecord
<1>5. ControlInv(t)'
  BY <1>2, <1>3 DEF ControlInv, GoodRecord, InWork
<1>6. SetsInv(t)'
  <2>1. Keeps => UNCHANGED <<own, frees>>
    BY DEF Keeps
  <2>2. r.err = "none" => Keeps /\ tx[t].err = "none"
    BY DEF GoodRecord
  <2>3. frees'[t] = {}
    BY <1>4, <2>1, RollBackEffect
  <2> QED
    BY <1>2, <1>3, <1>4, <2>1, <2>2, <2>3 DEF SetsInv, InWset, Listed
<1>7. LogOf(t)' /\ StoreInv(t)'
  <2>1. CASE Keeps
    <3>1. UNCHANGED <<own, undo, frees>>
      BY <2>1 DEF Keeps
    <3>2. undo'[t] = NoLog \/ (lost' /\ r.err = "nomem")
      BY <1>4, <3>1 DEF GoodRecord
    <3>3. r.depth <= 1 => Outermost(r)
      BY <1>3 DEF Outermost, GoodRecord
    <3>4. r.depth <= 1 /\ r.stage # "WORK" =>
            undo[t] = NoLog /\ frees[t] = {} /\ (r.err # "none" => own[t] = NoLog)
      BY <3>1, <3>3, RollBackEffect
    <3> QED
      BY <1>2, <1>3, <1>4, <3>1, <3>2, <3>4 DEF LogOf, StoreInv, InWork, NoLog
  <2>2. CASE RollBack(t)
    <3>1. own'[t] = NoLog /\ undo'[t] = NoLog /\ frees'[t] = {}
      BY <2>2, RollBackEffect
    <3> QED
      BY <1>2, <1>3, <3>1 DEF LogOf, StoreInv, NoLog
  <2> QED
    BY <2>1, <2>2
<1>8. ReaderInv(t)' /\ Opaque(t)'
  BY <1>2, <1>3, <1>4 DEF ReaderInv, Opaque, Snapshot, Explains
<1>9. ThreadInv(t)'
  BY <1>5, <1>6, <1>7, <1>8 DEF ThreadInv
<1>10. CASE Keeps
  BY <1>2, <1>3, <1>9, <1>10, QuietStep DEF Keeps
<1>11. CASE RollBack(t)
  BY <1>2, <1>3, <1>9, <1>11, RollBackEffect, OrphanStep
<1> QED
  BY <1>10, <1>11

(* The same of either kind of transaction.                                  *)
LEMMA LoopStep ==
  ASSUME IInv, NEW t \in Threads, InTx(t), ~Replaying(t), pc[t] # "seal",
         NEW r, GoodRecord(t, r), tx' = [tx EXCEPT ![t] = r], BackToLoop(t),
         pc[t] = "run" \/ r.retry,
         UNCHANGED <<glb, loc, irrevoc, rset, wset, crashes, hist, start, seen, lost>>,
         \/ /\ Keeps
            /\ Outermost(r) /\ r.stage # "WORK" =>
                 undo[t] = NoLog /\ frees[t] = {} /\ (r.err # "none" => own[t] = NoLog)
            /\ Committed(t) => Outermost(r) /\ r.stage # "WORK" /\ r.err = "none"
         \/ RollBack(t) /\ r.err # "none" /\ ~Committed(t)
  PROVE  IInv'
<1>1. CASE ~irrevoc[t]
  BY <1>1, RevocableLoopStep
<1>2. CASE irrevoc[t]
  <2>1. lost' \in BOOLEAN /\ r \in PmRecord /\ (Keeps \/ RollBack(t))
    BY ThreadFacts DEF GoodRecord, TypeOK
  <2>2. /\ TypeOK' /\ OthersSame(t) /\ tx'[t] = r
        /\ pc'[t] = "run" /\ caller'[t] = "none" /\ arg'[t] = NoArg
    BY <2>1, LoopFrame
  <2>3. /\ Explains(glb - 1, t) /\ mem = Overlay(hist[glb - 1], own[t], NoVal)
        /\ hist[glb - 1] \in [Addrs -> Contents]
        /\ Committed(t) \/ Overlay(mem, undo[t], NoVal) = hist[glb - 1]
    BY <1>2, IrrevocFacts
  <2>4. Explains(glb - 1, t)'
    BY <2>3 DEF Explains
  <2>5. /\ mem' = Overlay(hist[glb - 1], own'[t], NoVal)
        /\ Committed(t)' \/ Overlay(mem', undo'[t], NoVal) = hist[glb - 1]
        /\ Outermost(r) /\ r.stage # "WORK" =>
             undo'[t] = NoLog /\ frees'[t] = {} /\ (r.err # "none" => own'[t] = NoLog)
    <3>1. CASE Keeps /\ (Committed(t) => Outermost(r) /\ r.stage # "WORK" /\ r.err = "none")
      <4>1. Committed(t) => Committed(t)'
        BY <2>2, <3>1 DEF Committed, InWork
      <4>2. UNCHANGED <<mem, own, undo, frees>>
        BY <3>1 DEF Keeps
      <4>3. Outermost(r) /\ r.stage # "WORK" =>
              undo'[t] = NoLog /\ frees'[t] = {} /\ (r.err # "none" => own'[t] = NoLog)
        BY <4>2, RollBackEffect
      <4> QED
        BY <2>3, <4>1, <4>2, <4>3
    <3>2. CASE RollBack(t) /\ ~Committed(t)
      <4>1. mem' = hist[glb - 1] /\ own'[t] = NoLog /\ undo'[t] = NoLog /\ frees'[t] = {}
            /\ Overlay(mem', NoLog, NoVal) = mem'
        BY <2>3, <3>2, RollBackEffect
      <4> QED
        BY <4>1
    <3> QED
      BY <3>1, <3>2
  <2> QED
    BY <1>2, <2>2, <2>4, <2>5, InPlaceStep
<1> QED
  BY <1>1, <1>2

(* Where the client's code runs: facts for every step it takes.             *)
LEMMA AtWorkFacts ==
  ASSUME IInv, NEW t \in Threads, AtWork(t)
  PROVE  /\ InTx(t) /\ pc[t] = "run" /\ caller[t] = "none" /\ arg[t] = NoArg
         /\ tx[t] \in PmRecord /\ tx[t].stage = "WORK" /\ tx[t].err = "none"
         /\ ~tx[t].retry /\ tx[t].level = tx[t].depth - 1 /\ tx[t].depth > 0
         /\ ~Committed(t) /\ ~Replaying(t) /\ (Holds(t) <=> irrevoc[t])
<1>1. ControlInv(t) /\ TypeOK
  BY ThreadFacts
<1> QED
  BY <1>1, ThreadFacts
  DEF AtWork, InWork, ControlInv, InTx, Holds, Replaying, Committed, TypeOK

(* BeginNested.                                                             *)
LEMMA BeginNestedStep ==
  ASSUME IInv, NEW t \in Threads, BeginNested(t)
  PROVE  IInv'
<1> DEFINE r == TxBegin(tx[t])
<1>1. /\ InTx(t) /\ pc[t] = "run" /\ tx[t] \in PmRecord /\ tx[t].stage = "WORK"
      /\ tx[t].err = "none" /\ ~tx[t].retry /\ tx[t].level = tx[t].depth - 1
      /\ tx[t].depth > 0 /\ ~Committed(t) /\ ~Replaying(t) /\ tx[t].depth \in Nat
  BY AtWorkFacts, ThreadFacts DEF BeginNested
<1>2. /\ r \in PmRecord /\ r.stage = "WORK" /\ r.depth = tx[t].depth + 1
      /\ r.level = tx[t].level + 1 /\ r.retry = FALSE /\ r.err = "none"
  BY <1>1, TxBeginFields
<1>3. tx' = [tx EXCEPT ![t] = r]
  BY DEF BeginNested
<1> HIDE DEF r
<1>4. GoodRecord(t, r)
  BY <1>1, <1>2 DEF GoodRecord
<1>5. /\ Keeps /\ BackToLoop(t)
      /\ UNCHANGED <<glb, loc, irrevoc, rset, wset, crashes, hist, start, seen, lost>>
  BY <1>1 DEF BeginNested, Keeps, BackToLoop, lockVars, setVars, logVars, histVars
<1> QED
  BY <1>1, <1>2, <1>3, <1>4, <1>5, LoopStep

(* pmemobj_tx_abort at any depth: it rolls back, or leaves that to the end  *)
(* of the block inside the outermost.                                       *)
LEMMA AbortStep ==
  ASSUME IInv, NEW t \in Threads, InTx(t), InWork(tx[t]), ~Replaying(t), pc[t] # "seal",
         NEW r \in PmRecord, AbortTo(t, r), r.depth = tx[t].depth, r.level = tx[t].level,
         r.err # "none", r.stage = "ONABORT", r.retry <=> r.err = "restart",
         pc[t] = "run" \/ r.retry,
         UNCHANGED <<glb, loc, irrevoc, rset, wset, crashes, hist, start, seen, lost>>
  PROVE  IInv'
<1>1. tx[t].err = "none" /\ tx[t].depth > 0 /\ tx[t].level = tx[t].depth - 1
  BY ThreadFacts DEF ControlInv, InTx
<1>2. GoodRecord(t, r) /\ tx' = [tx EXCEPT ![t] = r] /\ BackToLoop(t) /\ ~Committed(t)
  BY <1>1 DEF GoodRecord, AbortTo, BackToLoop, Committed
<1>3. (Keeps /\ ~Outermost(r)) \/ RollBack(t)
  BY DEF AbortTo, Keeps, logVars, Outermost
<1> QED
  BY <1>2, <1>3, LoopStep

(* The client's abort.                                                      *)
LEMMA UserAbortStep ==
  ASSUME IInv, NEW t \in Threads, UserAbort(t)
  PROVE  IInv'
<1> DEFINE r == TxAbort(tx[t], "cancelled")
<1>1. /\ InTx(t) /\ InWork(tx[t]) /\ pc[t] = "run" /\ tx[t] \in PmRecord /\ ~tx[t].retry
      /\ ~Replaying(t)
  BY AtWorkFacts DEF UserAbort, AtWork
<1>2. /\ r \in PmRecord /\ r.depth = tx[t].depth /\ r.level = tx[t].level
      /\ r.retry = tx[t].retry /\ r.err = "cancelled" /\ r.stage = "ONABORT"
  BY <1>1, TxAbortFields DEF PmErrs
<1>3. /\ AbortTo(t, r)
      /\ UNCHANGED <<glb, loc, irrevoc, rset, wset, crashes, hist, start, seen, lost>>
  BY DEF UserAbort, lockVars, setVars
<1> HIDE DEF r
<1> QED
  BY <1>1, <1>2, <1>3, AbortStep

(* The client's restart.                                                    *)
LEMMA UserRestartStep ==
  ASSUME IInv, NEW t \in Threads, UserRestart(t)
  PROVE  IInv'
<1> DEFINE r == TxRestart(tx[t])
<1>1. /\ InTx(t) /\ InWork(tx[t]) /\ pc[t] = "run" /\ tx[t] \in PmRecord /\ ~Replaying(t)
  BY AtWorkFacts DEF UserRestart, AtWork
<1>2. /\ r \in PmRecord /\ r.depth = tx[t].depth /\ r.level = tx[t].level
      /\ r.retry = TRUE /\ r.err = "restart" /\ r.stage = "ONABORT"
  BY <1>1, TxRestartFields
<1>3. /\ AbortTo(t, r)
      /\ UNCHANGED <<glb, loc, irrevoc, rset, wset, crashes, hist, start, seen, lost>>
  BY DEF UserRestart, lockVars, setVars
<1> HIDE DEF r
<1> QED
  BY <1>1, <1>2, <1>3, AbortStep

(* A turn of the macros' loop past stage WORK.                              *)
LEMMA ProcessStep ==
  ASSUME IInv, NEW t \in Threads, Process(t)
  PROVE  IInv'
<1> DEFINE r == TxProcess(tx[t])
<1>1. /\ pc[t] = "run" /\ tx[t].stage \notin {"NONE", "WORK"} /\ tx[t] \in PmRecord
      /\ ControlInv(t) /\ StoreInv(t) /\ InTx(t) /\ ~Replaying(t)
  BY ThreadFacts DEF Process, ControlInv, Replaying
<1>2. /\ r \in PmRecord /\ r.depth = tx[t].depth /\ r.level = tx[t].level
      /\ r.retry = tx[t].retry /\ r.err = tx[t].err /\ r.stage # "WORK"
  BY <1>1, TxStageFields
<1>3. tx' = [tx EXCEPT ![t] = r]
  BY DEF Process
<1> HIDE DEF r
<1>4. GoodRecord(t, r)
  BY <1>1, <1>2 DEF GoodRecord, ControlInv, InTx
<1>5. /\ Keeps /\ BackToLoop(t)
      /\ UNCHANGED <<glb, loc, irrevoc, rset, wset, crashes, hist, start, seen, lost>>
  BY <1>1 DEF Process, Keeps, BackToLoop, lockVars, setVars, logVars, histVars
<1>6. Outermost(r) => undo[t] = NoLog /\ frees[t] = {} /\ (r.err # "none" => own[t] = NoLog)
  BY <1>1, <1>2 DEF StoreInv, Outermost, InWork
<1>7. Committed(t) => Outermost(r) /\ r.stage # "WORK" /\ r.err = "none"
  BY <1>2 DEF Committed, Outermost
<1> QED
  BY <1>1, <1>3, <1>4, <1>5, <1>6, <1>7, LoopStep

(* The end of a nested block, that rolls back on the way out of an abort.   *)
LEMMA EndNestedStep ==
  ASSUME IInv, NEW t \in Threads, EndNested(t)
  PROVE  IInv'
<1> DEFINE r == TxEnd(tx[t])
<1>1. /\ pc[t] = "run" /\ tx[t].depth # 1 /\ tx[t] \in PmRecord /\ tx[t].depth \in Nat
      /\ ControlInv(t) /\ InTx(t) /\ ~Replaying(t) /\ tx[t].level \in Nat
  BY ThreadFacts DEF EndNested, ControlInv, Replaying, Outermost
<1>2. tx[t].depth > 1 /\ tx[t].level = tx[t].depth - 1
  BY <1>1 DEF InTx, ControlInv
<1>3. /\ r \in PmRecord /\ r.depth = tx[t].depth - 1 /\ r.level = tx[t].level - 1
      /\ r.retry = tx[t].retry /\ r.err = tx[t].err
      /\ r.stage = (IF tx[t].err = "none" THEN "WORK" ELSE "ONABORT")
  <2>1. /\ r \in PmRecord /\ r.depth = tx[t].depth - 1
        /\ r.level = (IF tx[t].level > 0 THEN tx[t].level - 1 ELSE 0)
        /\ r.retry = tx[t].retry /\ r.err = tx[t].err
        /\ tx[t].depth # 1 => r.stage = (IF tx[t].err = "none" THEN "WORK" ELSE "ONABORT")
    BY <1>1, <1>2, TxEndFields
  <2> QED
    BY <1>1, <1>2, <2>1
<1>4. tx' = [tx EXCEPT ![t] = r]
  BY DEF EndNested
<1> HIDE DEF r
<1>5. GoodRecord(t, r) /\ ~Committed(t)
  BY <1>1, <1>2, <1>3 DEF GoodRecord, ControlInv, Committed, Outermost
<1>6. /\ BackToLoop(t)
      /\ UNCHANGED <<glb, loc, irrevoc, rset, wset, crashes, hist, start, seen, lost>>
  BY <1>1 DEF EndNested, BackToLoop, lockVars, setVars
<1>7. CASE EndRollsBack(tx[t])
  <2>1. RollBack(t) /\ r.err # "none"
    BY <1>3, <1>7 DEF EndNested, EndRollsBack
  <2> QED
    BY <1>1, <1>4, <1>5, <1>6, <2>1, LoopStep
<1>8. CASE ~EndRollsBack(tx[t])
  <2>1. Keeps
    BY <1>8 DEF EndNested, Keeps, logVars
  <2>2. ~(Outermost(r) /\ r.stage # "WORK")
    BY <1>1, <1>3, <1>8 DEF EndRollsBack, Outermost
  <2> QED
    BY <1>1, <1>4, <1>5, <1>6, <2>1, <2>2, LoopStep
<1> QED
  BY <1>7, <1>8

--------------------------------------------------------------------------------
(* Reading, validating and asking for the lock: a revocable transaction     *)
(* inside the library, or entering or leaving it.                           *)
LEMMA CallStep ==
  ASSUME IInv, NEW t \in Threads, InTx(t), InWork(tx[t]), ~irrevoc[t], ~Replaying(t),
         pc[t] # "seal", TypeOK', OthersSame(t), UNCHANGED <<glb, mem, hist, lost>>,
         tx'[t] = tx[t], irrevoc'[t] = irrevoc[t], wset'[t] = wset[t],
         undo'[t] = undo[t], frees'[t] = frees[t], start'[t] = start[t], own'[t] = own[t],
         pc'[t] \notin {"idle", "begin", "redo", "seal"},
         pc'[t] = "run" <=> caller'[t] = "none",
         caller'[t] \in {"read", "free"} <=> arg'[t] # NoArg,
         pc'[t] \in {"prevalidate", "reload"} => caller'[t] = "read",
         pc'[t] = "cas" => caller'[t] # "read",
         caller'[t] = "commit" => tx[t].level = 0,
         caller'[t] = "read" => own[t][arg'[t][1]] = NoVal,
         seen'[t] = rset'[t],
         Opaque(t)',
         pc'[t] \notin {"validate", "compare"} => Snapshot(loc[t], t)',
         pc'[t] = "prevalidate" /\ loc'[t] = glb => arg'[t][2] = mem[arg'[t][1]],
         pc'[t] = "compare" =>
           /\ time'[t] \in DOMAIN hist /\ time'[t] >= start[t]
           /\ todo'[t] \subseteq rset'[t]
           /\ time'[t] = glb => \A e \in rset'[t] \ todo'[t] : mem[e[1]] = e[2]
  PROVE  IInv'
<1>1. ControlInv(t) /\ SetsInv(t) /\ ReaderInv(t) /\ LogOf(t)
  BY ThreadFacts
<1>2. ControlInv(t)'
  BY <1>1 DEF ControlInv, InTx, InWork
<1>3. SetsInv(t)'
  BY <1>1 DEF SetsInv, InTx, Listed, InWset, Replaying
<1>4. ReaderInv(t)'
  BY <1>1 DEF ReaderInv, InTx
<1>5. ~Holds(t) /\ ~Holds(t)'
  BY DEF Holds, Replaying, InTx
<1>6. LogOf(t)'
  BY <1>1, <1>5 DEF LogOf, NoLog
<1>7. StoreInv(t)'
  BY DEF StoreInv, InWork
<1> QED
  BY <1>2, <1>3, <1>4, <1>5, <1>6, <1>7, QuietStep DEF ThreadInv

(* What every step inside a call begins with.                               *)
LEMMA InCallFacts ==
  ASSUME IInv, NEW t \in Threads, caller[t] # "none"
  PROVE  /\ InTx(t) /\ InWork(tx[t]) /\ ~irrevoc[t] /\ tx[t].err = "none" /\ ~tx[t].retry
         /\ seen[t] = rset[t] /\ frees[t] = {} /\ Listed(wset[t], own[t])
         /\ \A a \in Addrs : own[t][a] # NoVal => InWset(t, a)
         /\ \E g \in DOMAIN hist : Snapshot(g, t)
         /\ pc[t] \notin {"validate", "compare"} => Snapshot(loc[t], t)
         /\ caller[t] = "commit" => tx[t].level = 0
         /\ caller[t] = "read" => own[t][arg[t][1]] = NoVal
         /\ caller[t] \in {"read", "free"} <=> arg[t] # NoArg
         /\ pc[t] \notin {"idle", "begin", "run"}
<1>1. ControlInv(t) /\ SetsInv(t) /\ ReaderInv(t) /\ Opaque(t)
  BY ThreadFacts
<1>2. /\ InWork(tx[t]) /\ ~irrevoc[t] /\ pc[t] \notin {"idle", "begin", "run"}
      /\ InTx(t) /\ tx[t].err = "none" /\ ~tx[t].retry
  BY <1>1 DEF ControlInv
<1> QED
  BY <1>1, <1>2 DEF ControlInv, SetsInv, ReaderInv, Opaque

(* A thread inside the library is in a call.                                *)
LEMMA CallsHaveCallers ==
  ASSUME IInv, NEW t \in Threads, pc[t] \notin {"idle", "begin", "run"}
  PROVE  caller[t] # "none"
BY ThreadFacts DEF ControlInv

(* A step that neither publishes nor hands over keeps what t has read one   *)
(* version.                                                                 *)
LEMMA OpaqueSame ==
  ASSUME NEW t \in Threads, hist' = hist, start'[t] = start[t], seen'[t] = seen[t],
         \E g \in DOMAIN hist : Snapshot(g, t)
  PROVE  Opaque(t)'
BY DEF Opaque, Snapshot, Explains

(* A version that loc is at is even, and the pool while the lock is there.  *)
LEMMA MemoryAtLoc ==
  ASSUME IInv, NEW t \in Threads, Snapshot(loc[t], t), loc[t] = glb
  PROVE  IsEven(glb) /\ mem = hist[glb]
BY DEF IInv, HistoryInv, LockInv, Snapshot

(* The load after a validation hands nothing over yet: it goes back to      *)
(* prevalidate, which looks at the lock again.                              *)
LEMMA ReloadStep ==
  ASSUME IInv, NEW t \in Threads, Reload(t)
  PROVE  IInv'
<1>1. /\ TypeOK /\ pc[t] = "reload" /\ ~Replaying(t) /\ caller[t] = "read"
  BY ThreadFacts DEF Reload, ControlInv, Replaying
<1>2. /\ InTx(t) /\ InWork(tx[t]) /\ ~irrevoc[t] /\ seen[t] = rset[t]
      /\ Snapshot(loc[t], t) /\ own[t][arg[t][1]] = NoVal /\ arg[t] # NoArg
  BY <1>1, InCallFacts
<1> DEFINE v == <<arg[t][1], mem[arg[t][1]]>>
<1>3. /\ arg' = [arg EXCEPT ![t] = v] /\ pc' = [pc EXCEPT ![t] = "prevalidate"]
      /\ UNCHANGED <<glb, loc, irrevoc, mem, tx, caller, time, todo, left, rset, wset,
                     undo, frees, crashes, hist, start, seen, own, lost>>
  BY DEF Reload, Goto, lockVars, setVars, logVars, histVars
<1>4. arg[t] \in Entries /\ v \in Entries
  BY <1>1, <1>2 DEF TypeOK, Entries
<1>5. v # NoArg /\ v[1] = arg[t][1] /\ v[2] = mem[v[1]]
  BY DEF NoArg
<1> HIDE DEF v
<1>6. TypeOK'
  BY <1>1, <1>3, <1>4 DEF TypeOK, Labels
<1>7. OthersSame(t) /\ pc'[t] = "prevalidate" /\ arg'[t] = v
  BY <1>1, <1>3 DEF TypeOK, OthersSame, Mine
<1>8. Snapshot(loc[t], t)' /\ Opaque(t)'
  BY <1>2, <1>3 DEF Snapshot, Explains, Opaque
<1> QED
  BY <1>1, <1>2, <1>3, <1>5, <1>6, <1>7, <1>8, CallStep

(* norec_validate's first look at the lock: an odd one is looked at again.  *)
LEMMA SampleTimeStep ==
  ASSUME IInv, NEW t \in Threads, SampleTime(t)
  PROVE  IInv'
<1>1. /\ TypeOK /\ pc[t] = "validate" /\ ~Replaying(t) /\ caller[t] # "none"
  BY ThreadFacts, CallsHaveCallers DEF SampleTime, Replaying
<1>2. /\ InTx(t) /\ InWork(tx[t]) /\ ~irrevoc[t] /\ seen[t] = rset[t]
      /\ \E g \in DOMAIN hist : Snapshot(g, t)
      /\ caller[t] = "read" => own[t][arg[t][1]] = NoVal
      /\ caller[t] \in {"read", "free"} <=> arg[t] # NoArg
      /\ caller[t] = "commit" => tx[t].level = 0
  BY <1>1, InCallFacts
<1>3. UNCHANGED <<glb, loc, irrevoc, mem, tx, caller, arg, left, rset, wset,
                  undo, frees, crashes, hist, start, seen, own, lost>>
  BY DEF SampleTime, lockVars, setVars, logVars, histVars
<1>4. Opaque(t)'
  BY <1>2, <1>3, OpaqueSame
<1>5. CASE IsEven(glb)
  <2>1. /\ time' = [time EXCEPT ![t] = glb] /\ todo' = [todo EXCEPT ![t] = rset[t]]
        /\ pc' = [pc EXCEPT ![t] = "compare"]
    BY <1>5 DEF SampleTime, Goto
  <2>2. glb \in DOMAIN hist /\ glb >= start[t] /\ glb \in Nat
    BY <1>2, <1>5, ThreadFacts, Parity DEF HistoryInv, ReaderInv
  <2>3. TypeOK'
    BY <1>1, <1>3, <2>1, <2>2 DEF TypeOK, Labels
  <2>4. OthersSame(t) /\ pc'[t] = "compare" /\ time'[t] = glb /\ todo'[t] = rset[t]
    BY <1>1, <1>3, <2>1 DEF TypeOK, OthersSame, Mine
  <2> QED
    BY <1>1, <1>2, <1>3, <1>4, <2>2, <2>3, <2>4, CallStep
<1>6. CASE ~IsEven(glb)
  <2>1. UNCHANGED <<time, todo, pc>>
    BY <1>6 DEF SampleTime
  <2>2. TypeOK' /\ OthersSame(t) /\ pc'[t] = "validate"
    BY <1>1, <1>3, <2>1 DEF TypeOK, OthersSame, Mine
  <2> QED
    BY <1>1, <1>2, <1>3, <1>4, <2>1, <2>2, CallStep
<1> QED
  BY <1>5, <1>6

(* One entry of the read set compared: a mismatch restarts.                 *)
LEMMA CompareStep ==
  ASSUME IInv, NEW t \in Threads, Compare(t)
  PROVE  IInv'
<1>1. /\ TypeOK /\ pc[t] = "compare" /\ ~Replaying(t) /\ caller[t] # "none"
  BY ThreadFacts, CallsHaveCallers DEF Compare, Replaying
<1>2. /\ InTx(t) /\ InWork(tx[t]) /\ ~irrevoc[t] /\ seen[t] = rset[t]
      /\ \E g \in DOMAIN hist : Snapshot(g, t)
      /\ caller[t] = "read" => own[t][arg[t][1]] = NoVal
      /\ caller[t] \in {"read", "free"} <=> arg[t] # NoArg
      /\ caller[t] = "commit" => tx[t].level = 0
  BY <1>1, InCallFacts
<1>3. UNCHANGED <<glb, loc, irrevoc, rset, wset, crashes, hist, start, seen, lost>>
  BY DEF Compare, lockVars, setVars
<1>4. CASE AbortTo(t, TxRestart(tx[t]))
  <2> DEFINE r == TxRestart(tx[t])
  <2>1. /\ r \in PmRecord /\ r.depth = tx[t].depth /\ r.level = tx[t].level
        /\ r.retry = TRUE /\ r.err = "restart" /\ r.stage = "ONABORT"
    BY ThreadFacts, TxRestartFields
  <2>2. AbortTo(t, r)
    BY <1>4
  <2> HIDE DEF r
  <2> QED
    BY <1>1, <1>2, <1>3, <2>1, <2>2, AbortStep
<1>5. ASSUME NEW e \in todo[t], mem[e[1]] = e[2], todo' = [todo EXCEPT ![t] = @ \ {e}],
             UNCHANGED <<mem, tx, pc, caller, arg, time, left, own, logVars>>
      PROVE  IInv'
  <2>1. UNCHANGED <<mem, tx, pc, caller, arg, time, left, own, undo, frees>>
    BY <1>5 DEF logVars
  <2>2. todo'[t] = todo[t] \ {e} /\ TypeOK' /\ OthersSame(t) /\ pc'[t] = "compare"
    BY <1>1, <1>3, <1>5, <2>1 DEF TypeOK, OthersSame, Mine
  <2>3. /\ time[t] \in DOMAIN hist /\ time[t] >= start[t] /\ todo[t] \subseteq rset[t]
        /\ time[t] = glb => \A d \in rset[t] \ todo[t] : mem[d[1]] = d[2]
    BY <1>1, ThreadFacts DEF ReaderInv
  <2>4. Opaque(t)'
    BY <1>2, <1>3, OpaqueSame
  <2>5. /\ todo'[t] \subseteq rset[t]
        /\ time[t] = glb => \A d \in rset[t] \ todo'[t] : mem[d[1]] = d[2]
    BY <1>5, <2>2, <2>3
  <2> QED
    BY <1>1, <1>2, <1>3, <2>1, <2>2, <2>3, <2>4, <2>5, CallStep
<1> QED
  BY <1>4, <1>5 DEF Compare

(* The second look: the same glb means that no transaction has replayed     *)
(* anything while the entries were compared.                                *)
LEMMA RecheckStep ==
  ASSUME IInv, NEW t \in Threads, Recheck(t)
  PROVE  IInv'
<1>1. /\ TypeOK /\ pc[t] = "compare" /\ ~Replaying(t) /\ caller[t] # "none" /\ todo[t] = {}
  BY ThreadFacts, CallsHaveCallers DEF Recheck, Replaying
<1>2. /\ InTx(t) /\ InWork(tx[t]) /\ ~irrevoc[t] /\ seen[t] = rset[t]
      /\ \E g \in DOMAIN hist : Snapshot(g, t)
      /\ caller[t] = "read" => own[t][arg[t][1]] = NoVal
      /\ caller[t] \in {"read", "free"} <=> arg[t] # NoArg
      /\ caller[t] = "commit" => tx[t].level = 0
  BY <1>1, InCallFacts
<1>3. /\ time' = [time EXCEPT ![t] = 0]
      /\ UNCHANGED <<glb, irrevoc, mem, tx, caller, arg, todo, left, rset, wset, undo,
                     frees, crashes, hist, start, seen, own, lost>>
  BY DEF Recheck, setVars, logVars, histVars
<1>4. Opaque(t)'
  BY <1>2, <1>3, OpaqueSame
<1>5. CASE loc' = loc /\ Goto(t, "validate")
  <2>1. TypeOK'
    BY <1>1, <1>3, <1>5 DEF TypeOK, Labels, Goto
  <2>2. OthersSame(t) /\ pc'[t] = "validate"
    BY <1>1, <1>3, <1>5 DEF TypeOK, OthersSame, Mine, Goto
  <2> QED
    BY <1>1, <1>2, <1>3, <1>4, <2>1, <2>2, CallStep
<1>6. CASE /\ time[t] = glb /\ loc' = [loc EXCEPT ![t] = time[t]]
           /\ Goto(t, IF caller[t] = "read" THEN "reload" ELSE "cas")
  <2>1. TypeOK'
    BY <1>1, <1>3, <1>6 DEF TypeOK, Labels, Goto
  <2>2. /\ OthersSame(t) /\ loc'[t] = glb
        /\ pc'[t] = IF caller[t] = "read" THEN "reload" ELSE "cas"
    BY <1>1, <1>3, <1>6 DEF TypeOK, OthersSame, Mine, Goto
  <2>3. /\ glb \in DOMAIN hist /\ glb >= start[t]
        /\ \A e \in rset[t] : mem[e[1]] = e[2]
    BY <1>1, <1>6, ThreadFacts DEF ReaderInv
  <2>4. mem = hist[glb]
    BY <2>3, ThreadFacts DEF HistoryInv, LockInv
  <2>5. Snapshot(loc[t], t)'
    BY <1>2, <1>3, <2>2, <2>3, <2>4 DEF Snapshot, Explains
  <2> QED
    BY <1>1, <1>2, <1>3, <1>4, <2>1, <2>2, <2>5, CallStep
<1> QED
  BY <1>5, <1>6 DEF Recheck

(* norec_prevalidate: the load counts only if it is of loc's version.       *)
LEMMA PrevalidateStep ==
  ASSUME IInv, NEW t \in Threads, Prevalidate(t)
  PROVE  IInv'
<1>1. /\ TypeOK /\ pc[t] = "prevalidate" /\ ~Replaying(t) /\ caller[t] = "read"
  BY ThreadFacts DEF Prevalidate, Replaying, ControlInv
<1>2. /\ InTx(t) /\ InWork(tx[t]) /\ ~irrevoc[t] /\ seen[t] = rset[t]
      /\ \E g \in DOMAIN hist : Snapshot(g, t)
      /\ Snapshot(loc[t], t)
      /\ own[t][arg[t][1]] = NoVal /\ arg[t] # NoArg
  BY <1>1, InCallFacts
<1>3. UNCHANGED <<glb, loc, irrevoc, mem, tx, wset, undo, frees, crashes, hist, start,
                  own, lost>>
  BY DEF Prevalidate, lockVars, logVars
<1>4. CASE Goto(t, "validate") /\ UNCHANGED <<callVars, rset, seen>>
  <2>1. UNCHANGED <<caller, arg, time, todo, left, rset, seen>>
    BY <1>4 DEF callVars
  <2>2. TypeOK' /\ OthersSame(t) /\ pc'[t] = "validate"
    BY <1>1, <1>3, <1>4, <2>1 DEF TypeOK, Labels, Goto, OthersSame, Mine
  <2>3. Opaque(t)'
    BY <1>2, <1>3, <2>1, OpaqueSame
  <2> QED
    BY <1>1, <1>2, <1>3, <2>1, <2>2, <2>3, CallStep
<1>5. CASE /\ loc[t] = glb
           /\ rset' = [rset EXCEPT ![t] = @ \cup {arg[t]}]
           /\ Hand(t, arg[t][1], arg[t][2])
           /\ Leave(t)
  <2>1. arg[t] \in Entries /\ arg[t] = <<arg[t][1], arg[t][2]>>
    BY <1>1, <1>2 DEF TypeOK, Entries
  <2>2. seen' = [seen EXCEPT ![t] = @ \cup {arg[t]}]
    BY <1>2, <1>5, <2>1 DEF Hand
  <2>3. /\ pc' = [pc EXCEPT ![t] = "run"] /\ caller' = [caller EXCEPT ![t] = "none"]
        /\ arg' = [arg EXCEPT ![t] = NoArg] /\ time' = [time EXCEPT ![t] = 0]
        /\ todo' = [todo EXCEPT ![t] = {}] /\ left' = [left EXCEPT ![t] = <<>>]
    BY <1>5 DEF Leave, Goto
  <2>4. TypeOK'
    BY <1>1, <1>3, <1>5, <2>1, <2>2, <2>3 DEF TypeOK, Labels
  <2>5. /\ OthersSame(t) /\ pc'[t] = "run" /\ caller'[t] = "none" /\ arg'[t] = NoArg
        /\ seen'[t] = seen[t] \cup {arg[t]} /\ rset'[t] = rset[t] \cup {arg[t]}
    BY <1>1, <1>3, <1>5, <2>2, <2>3 DEF TypeOK, OthersSame, Mine
  <2>6. arg[t][2] = hist[loc[t]][arg[t][1]]
    BY <1>1, <1>2, <1>5, ThreadFacts, MemoryAtLoc DEF ReaderInv
  <2>7. Snapshot(loc[t], t)'
    BY <1>2, <1>3, <2>5, <2>6 DEF Snapshot, Explains
  <2>8. Opaque(t)'
    BY <1>3, <2>7 DEF Opaque, Snapshot, Explains
  <2> QED
    BY <1>1, <1>2, <1>3, <2>5, <2>4, <2>7, <2>8, CallStep
<1> QED
  BY <1>4, <1>5 DEF Prevalidate

(* A CAS that fails leaves whatever it found in loc, and validates.         *)
LEMMA SwapFailsStep ==
  ASSUME IInv, NEW t \in Threads, CompareAndSwap(t), glb # loc[t]
  PROVE  IInv'
<1>1. /\ TypeOK /\ pc[t] = "cas" /\ ~Replaying(t) /\ caller[t] # "none"
  BY ThreadFacts, CallsHaveCallers DEF CompareAndSwap, Replaying
<1>2. /\ InTx(t) /\ InWork(tx[t]) /\ ~irrevoc[t] /\ seen[t] = rset[t]
      /\ \E g \in DOMAIN hist : Snapshot(g, t)
      /\ caller[t] = "read" => own[t][arg[t][1]] = NoVal
      /\ caller[t] \in {"read", "free"} <=> arg[t] # NoArg
      /\ caller[t] = "commit" => tx[t].level = 0
  BY <1>1, InCallFacts
<1>3. /\ loc' = [loc EXCEPT ![t] = glb] /\ pc' = [pc EXCEPT ![t] = "validate"]
      /\ UNCHANGED <<glb, irrevoc, mem, tx, caller, arg, time, todo, left, rset, wset,
                     undo, frees, crashes, hist, start, seen, own, lost>>
  BY DEF CompareAndSwap, Goto, setVars, logVars, histVars
<1>4. TypeOK' /\ OthersSame(t) /\ pc'[t] = "validate"
  BY <1>1, <1>3 DEF TypeOK, Labels, OthersSame, Mine
<1>5. Opaque(t)'
  BY <1>2, <1>3, OpaqueSame
<1> QED
  BY <1>1, <1>2, <1>3, <1>4, <1>5, CallStep

(* Where the client calls in while revocable.                               *)
LEMMA CallInFacts ==
  ASSUME IInv, NEW t \in Threads, AtWork(t), ~irrevoc[t]
  PROVE  /\ TypeOK /\ InTx(t) /\ InWork(tx[t]) /\ ~Replaying(t) /\ seen[t] = rset[t]
         /\ pc[t] = "run" /\ caller[t] = "none" /\ arg[t] = NoArg
         /\ Snapshot(loc[t], t) /\ undo[t] = NoLog /\ frees[t] = {}
         /\ Listed(wset[t], own[t])
         /\ \A a \in Addrs : own[t][a] # NoVal => InWset(t, a)
         /\ \E g \in DOMAIN hist : Snapshot(g, t)
<1>1. /\ InTx(t) /\ pc[t] = "run" /\ caller[t] = "none" /\ arg[t] = NoArg
      /\ tx[t].err = "none" /\ ~tx[t].retry /\ ~Replaying(t) /\ ~Holds(t) /\ InWork(tx[t])
  BY AtWorkFacts DEF AtWork
<1>2. TypeOK /\ SetsInv(t) /\ ReaderInv(t) /\ Opaque(t) /\ LogOf(t)
  BY ThreadFacts
<1> QED
  BY <1>1, <1>2 DEF SetsInv, ReaderInv, Opaque, LogOf

(* Asking for the lock: to commit, to free or to become irrevocable.        *)
LEMMA AskStep ==
  ASSUME IInv, NEW t \in Threads, AtWork(t), ~irrevoc[t],
         NEW who \in {"commit", "irrevoc", "free"}, NEW e \in Entries \cup {NoArg},
         who = "free" <=> e # NoArg,
         who = "commit" => tx[t].level = 0,
         caller' = [caller EXCEPT ![t] = who], arg' = [arg EXCEPT ![t] = e],
         Goto(t, "cas"),
         UNCHANGED <<glb, loc, irrevoc, mem, tx, time, todo, left, rset, wset, undo,
                     frees, crashes, hist, start, seen, own, lost>>
  PROVE  IInv'
<1>1. /\ TypeOK /\ InTx(t) /\ InWork(tx[t]) /\ ~Replaying(t) /\ seen[t] = rset[t]
      /\ pc[t] = "run" /\ Snapshot(loc[t], t) /\ \E g \in DOMAIN hist : Snapshot(g, t)
  BY CallInFacts
<1>2. TypeOK'
  BY <1>1 DEF TypeOK, Labels, Goto
<1>3. OthersSame(t) /\ pc'[t] = "cas" /\ caller'[t] = who /\ arg'[t] = e
  BY <1>1 DEF TypeOK, OthersSame, Mine, Goto
<1>4. Opaque(t)'
  BY <1>1, OpaqueSame
<1>5. Snapshot(loc[t], t)'
  BY <1>1 DEF Snapshot, Explains
<1> QED
  BY <1>1, <1>2, <1>3, <1>4, <1>5, CallStep

(* A request to become irrevocable goes to the compare-and-swap.            *)
LEMMA IrrevocStep ==
  ASSUME IInv, NEW t \in Threads, Irrevoc(t)
  PROVE  IInv'
<1>1. AtWork(t) /\ ~irrevoc[t] /\ arg[t] = NoArg /\ TypeOK
  BY AtWorkFacts, ThreadFacts DEF Irrevoc
<1>2. /\ arg' = [arg EXCEPT ![t] = NoArg]
      /\ caller' = [caller EXCEPT ![t] = "irrevoc"] /\ Goto(t, "cas")
      /\ UNCHANGED <<glb, loc, irrevoc, mem, tx, time, todo, left, rset, wset, undo,
                     frees, crashes, hist, start, seen, own, lost>>
  BY <1>1 DEF Irrevoc, lockVars, setVars, logVars, histVars, TypeOK
<1> QED
  BY <1>1, <1>2, AskStep

(* NOREC_READ: in place, from the write set, or a load to be validated.     *)
LEMMA ReadStep ==
  ASSUME IInv, NEW t \in Threads, NEW a \in Addrs, Read(t, a)
  PROVE  IInv'
<1>1. /\ AtWork(t) /\ TypeOK /\ InTx(t) /\ pc[t] = "run" /\ caller[t] = "none"
      /\ arg[t] = NoArg /\ tx[t] \in PmRecord /\ tx[t].stage = "WORK"
      /\ tx[t].err = "none" /\ ~tx[t].retry /\ tx[t].level = tx[t].depth - 1
      /\ tx[t].depth > 0 /\ ~Committed(t)
  BY ThreadFacts, AtWorkFacts DEF Read
<1>2. UNCHANGED <<glb, loc, irrevoc, mem, tx, time, todo, left, rset, wset, undo, frees,
                  crashes, hist, start, own, lost>>
  BY DEF Read, lockVars, setVars, logVars
<1>3. CASE irrevoc[t] /\ Hand(t, a, mem[a]) /\ UNCHANGED <<pc, arg, caller>>
  <2>1. /\ Explains(glb - 1, t) /\ mem = Overlay(hist[glb - 1], own[t], NoVal)
        /\ hist[glb - 1] \in [Addrs -> Contents]
        /\ Committed(t) \/ Overlay(mem, undo[t], NoVal) = hist[glb - 1]
    BY <1>1, <1>3, IrrevocFacts
  <2>2. seen' = [seen EXCEPT ![t] = IF own[t][a] = NoVal THEN @ \cup {<<a, mem[a]>>} ELSE @]
    BY <1>3 DEF Hand
  <2>3. <<a, mem[a]>> \in Entries
    BY <1>1 DEF TypeOK, Entries
  <2>4. TypeOK' /\ OthersSame(t)
    BY <1>1, <1>2, <1>3, <2>2, <2>3 DEF TypeOK, OthersSame, Mine
  <2>5. own[t][a] = NoVal => mem[a] = hist[glb - 1][a]
    BY <2>1 DEF Overlay
  <2>6. Explains(glb - 1, t)'
    BY <1>1, <1>2, <2>1, <2>2, <2>5 DEF Explains, TypeOK
  <2>7. GoodRecord(t, tx[t])
    BY <1>1 DEF GoodRecord
  <2> QED
    BY <1>1, <1>2, <1>3, <2>1, <2>4, <2>6, <2>7, InPlaceStep
<1>4. CASE ~irrevoc[t] /\ InWset(t, a) /\ UNCHANGED <<pc, arg, caller, seen>>
  <2>1. TypeOK' /\ OthersSame(t)
    BY <1>1, <1>2, <1>4 DEF TypeOK, OthersSame, Mine
  <2>2. /\ InWork(tx[t]) /\ ~Replaying(t) /\ seen[t] = rset[t] /\ Snapshot(loc[t], t)
        /\ \E g \in DOMAIN hist : Snapshot(g, t)
    BY <1>1, <1>4, CallInFacts
  <2>3. Snapshot(loc[t], t)' /\ Opaque(t)'
    BY <1>2, <1>4, <2>2 DEF Snapshot, Explains, Opaque
  <2> QED
    BY <1>1, <1>2, <1>4, <2>1, <2>2, <2>3, CallStep
<1>5. CASE /\ ~irrevoc[t] /\ ~InWset(t, a)
           /\ arg' = [arg EXCEPT ![t] = <<a, mem[a]>>]
           /\ caller' = [caller EXCEPT ![t] = "read"]
           /\ Goto(t, "prevalidate")
           /\ UNCHANGED seen
  <2>1. /\ InWork(tx[t]) /\ ~Replaying(t) /\ seen[t] = rset[t] /\ Snapshot(loc[t], t)
        /\ \E g \in DOMAIN hist : Snapshot(g, t)
        /\ own[t][a] = NoVal
    BY <1>1, <1>5, CallInFacts
  <2> DEFINE e == <<a, mem[a]>>
  <2>2. arg' = [arg EXCEPT ![t] = e] /\ pc' = [pc EXCEPT ![t] = "prevalidate"]
    BY <1>5 DEF Goto
  <2>3. e \in Entries /\ e # NoArg /\ e[1] = a /\ e[2] = mem[a]
    BY <1>1 DEF TypeOK, Entries, NoArg
  <2> HIDE DEF e
  <2>4. TypeOK'
    <3>1. arg' \in [Threads -> Entries \cup {NoArg}] /\ pc' \in [Threads -> Labels]
      BY <1>1, <2>2, <2>3 DEF TypeOK, Labels
    <3>2. /\ caller' \in [Threads -> {"none", "read", "commit", "irrevoc", "free"}]
          /\ seen' = seen
      BY <1>1, <1>5 DEF TypeOK
    <3> QED
      BY <1>1, <1>2, <3>1, <3>2 DEF TypeOK
  <2>5. OthersSame(t) /\ pc'[t] = "prevalidate" /\ caller'[t] = "read" /\ arg'[t] = e
    BY <1>1, <1>2, <1>5, <2>2 DEF TypeOK, OthersSame, Mine
  <2>6. Snapshot(loc[t], t)' /\ Opaque(t)'
    BY <1>2, <1>5, <2>1 DEF Snapshot, Explains, Opaque
  <2> QED
    BY <1>1, <1>2, <1>5, <2>1, <2>3, <2>4, <2>5, <2>6, CallStep
<1> QED
  BY <1>3, <1>4, <1>5 DEF Read

--------------------------------------------------------------------------------
(* Writing, freeing and committing. *)

(* A new location at the end of the write set.                              *)
LEMMA ListedAppend ==
  ASSUME NEW w, NEW u, NEW o, NEW p, NEW a \in Addrs, NEW v, NEW n \in Nat,
         DOMAIN w = 1..n, DOMAIN u = 1..(n + 1),
         u[n + 1] = <<a, v>>, \A i \in 1..n : u[i] = w[i],
         \A i \in 1..n : w[i][1] \in Addrs /\ w[i][1] # a,
         p[a] = v, \A b \in Addrs : b # a => p[b] = o[b],
         Listed(w, o)
  PROVE  Listed(u, p)
<1>1. ASSUME NEW i \in DOMAIN u PROVE p[u[i][1]] = u[i][2]
  <2>1. CASE i = n + 1
    BY <2>1
  <2>2. CASE i # n + 1
    <3>1. i \in 1..n
      BY <2>2
    <3> QED
      BY <3>1 DEF Listed
  <2> QED
    BY <2>1, <2>2
<1>2. ASSUME NEW i \in DOMAIN u, NEW j \in DOMAIN u, u[j][1] = u[i][1] PROVE j = i
  <2>1. (i \in 1..n \/ i = n + 1) /\ (j \in 1..n \/ j = n + 1)
    OBVIOUS
  <2> QED
    BY <2>1, <1>2 DEF Listed
<1> QED
  BY <1>1, <1>2 DEF Listed

(* NOREC_WRITE of a revocable transaction buffers.                          *)
LEMMA BufferStep ==
  ASSUME IInv, NEW t \in Threads, NEW a \in Addrs, NEW v \in Vals, AtWork(t),
         ~irrevoc[t], ~InWset(t, a),
         wset' = [wset EXCEPT ![t] = Append(@, <<a, v>>)],
         own' = [own EXCEPT ![t] = [own[t] EXCEPT ![a] = v]],
         UNCHANGED <<glb, mem, loc, irrevoc, tx, pc, caller, arg, time, todo, left, rset,
                     undo, frees, crashes, hist, start, seen, lost>>
  PROVE  IInv'
<1>2. /\ TypeOK /\ InTx(t) /\ InWork(tx[t]) /\ ~Replaying(t) /\ seen[t] = rset[t]
      /\ Snapshot(loc[t], t) /\ frees[t] = {} /\ undo[t] = NoLog
      /\ Listed(wset[t], own[t])
      /\ \A b \in Addrs : own[t][b] # NoVal => InWset(t, b)
      /\ \E g \in DOMAIN hist : Snapshot(g, t)
      /\ pc[t] = "run" /\ caller[t] = "none"
  BY CallInFacts
<1> DEFINE u == Append(wset[t], <<a, v>>)
           p == [own[t] EXCEPT ![a] = v]
<1>0. u = Append(wset[t], <<a, v>>) /\ p = [own[t] EXCEPT ![a] = v]
  OBVIOUS
<1>1. wset' = [wset EXCEPT ![t] = u] /\ own' = [own EXCEPT ![t] = p]
  OBVIOUS
<1> HIDE DEF u, p
<1>4. wset[t] \in Seq(Addrs \X Vals) /\ own[t] \in [Addrs -> Contents \cup {NoVal}]
  BY <1>2 DEF TypeOK
<1>5. \A i \in DOMAIN wset[t] : wset[t][i][1] # a
  BY DEF InWset
<1>7. p \in [Addrs -> Contents \cup {NoVal}] /\ \A b \in Addrs : b # a => p[b] = own[t][b]
  BY <1>0, <1>4 DEF Contents
<1>6. /\ u \in Seq(Addrs \X Vals) /\ Listed(u, p)
      /\ \E i \in DOMAIN u : u[i][1] = a
      /\ \A i \in DOMAIN wset[t] : i \in DOMAIN u /\ u[i] = wset[t][i]
  <2> DEFINE w == wset[t]
             n == Len(w)
  <2>1. /\ n \in Nat /\ DOMAIN w = 1..n /\ DOMAIN u = 1..(n + 1)
        /\ u[n + 1] = <<a, v>> /\ \A i \in 1..n : u[i] = w[i]
        /\ \A i \in 1..n : w[i] \in Addrs \X Vals
        /\ u \in Seq(Addrs \X Vals)
    BY <1>0, <1>4
  <2>2. \A i \in 1..n : w[i][1] \in Addrs /\ w[i][1] # a
    BY <1>5, <2>1
  <2>3. p[a] = v
    BY <1>0, <1>4
  <2> HIDE DEF n
  <2>4. Listed(u, p)
    BY <1>2, <1>7, <2>1, <2>2, <2>3, ListedAppend
  <2> QED
    BY <2>1, <2>4
<1>9. TypeOK'
  <2>1. wset' \in [Threads -> Seq(Addrs \X Vals)]
    BY <1>1, <1>2, <1>6 DEF TypeOK
  <2>2. own' \in [Threads -> [Addrs -> Contents \cup {NoVal}]]
    BY <1>1, <1>2, <1>7 DEF TypeOK
  <2> QED
    BY <1>2, <2>1, <2>2 DEF TypeOK
<1>10. OthersSame(t) /\ wset'[t] = u /\ own'[t] = p
  BY <1>1, <1>2 DEF TypeOK, OthersSame, Mine
<1>11. SetsInv(t)'
  <2>1. \A b \in Addrs : p[b] # NoVal => \E i \in DOMAIN u : u[i][1] = b
    <3>1. ASSUME NEW b \in Addrs, b # a, p[b] # NoVal PROVE \E i \in DOMAIN u : u[i][1] = b
      BY <1>2, <1>6, <1>7, <3>1 DEF InWset
    <3> QED
      BY <3>1, <1>6
  <2> QED
    BY <1>2, <1>6, <1>10, <2>1 DEF SetsInv, InTx, InWset, Replaying
<1>12. ControlInv(t)'
  BY ThreadFacts DEF ControlInv, InTx, InWork
<1>13. Snapshot(loc[t], t)' /\ Opaque(t)'
  BY <1>2 DEF Snapshot, Explains, Opaque
<1>14. ReaderInv(t)'
  BY <1>2, <1>13, ThreadFacts DEF ReaderInv, InTx
<1>15. ~Holds(t) /\ ~Holds(t)'
  BY <1>2 DEF Holds, Replaying, InTx
<1>16. LogOf(t)' /\ StoreInv(t)'
  BY <1>2, <1>15 DEF LogOf, StoreInv, InWork, NoLog
<1> QED
  BY <1>2, <1>9, <1>10, <1>11, <1>12, <1>13, <1>14, <1>15, <1>16, QuietStep DEF ThreadInv

(* The log taken before a store leads from the pool after it to where the   *)
(* log led before.                                                          *)
LEMMA LoggedStore ==
  ASSUME IInv, NEW t \in Threads, NEW a \in Addrs, NEW v \in Contents,
         NEW u, u = AddRange(undo[t], mem, a, NoVal), NEW m, m = [mem EXCEPT ![a] = v]
  PROVE  /\ u \in [Addrs -> Contents \cup {NoVal}] /\ m \in [Addrs -> Contents]
         /\ Overlay(m, u, NoVal) = Overlay(mem, undo[t], NoVal)
<1> DEFINE U == undo[t]
<1>1. mem \in [Addrs -> Contents] /\ U \in [Addrs -> Contents \cup {NoVal}]
      /\ NoVal \notin Contents
  BY ThreadFacts, ConstAssumption DEF Contents
<1>2. u = AddRange(U, mem, a, NoVal)
  OBVIOUS
<1> HIDE DEF U
<1>3. /\ AddRange(U, mem, a, NoVal) \in [Addrs -> Contents \cup {NoVal}]
      /\ AddRange(U, mem, a, NoVal)[a] # NoVal
      /\ Overlay(mem, AddRange(U, mem, a, NoVal), NoVal) = Overlay(mem, U, NoVal)
  BY <1>1, LogKeeps
<1>4. /\ u \in [Addrs -> Contents \cup {NoVal}] /\ u[a] # NoVal
      /\ Overlay(mem, u, NoVal) = Overlay(mem, U, NoVal)
  BY <1>2, <1>3
<1>5. Overlay(m, u, NoVal) = Overlay(mem, u, NoVal)
  BY <1>1, <1>4 DEF Overlay
<1>6. m \in [Addrs -> Contents] /\ Overlay(m, u, NoVal) = Overlay(mem, U, NoVal)
  BY <1>1, <1>4, <1>5
<1> QED
  BY <1>4, <1>6 DEF U

(* NOREC_WRITE of an irrevocable transaction logs, then stores.             *)
LEMMA StoreStep ==
  ASSUME IInv, NEW t \in Threads, NEW a \in Addrs, NEW v \in Vals, AtWork(t), irrevoc[t],
         undo' = [undo EXCEPT ![t] = AddRange(@, mem, a, NoVal)],
         mem' = [mem EXCEPT ![a] = v],
         own' = [own EXCEPT ![t] = [own[t] EXCEPT ![a] = v]],
         UNCHANGED <<glb, loc, irrevoc, tx, pc, caller, arg, time, todo, left, rset, wset,
                     frees, crashes, hist, start, seen, lost>>
  PROVE  IInv'
<1>1. /\ TypeOK /\ InTx(t) /\ pc[t] = "run" /\ caller[t] = "none"
      /\ arg[t] = NoArg /\ tx[t] \in PmRecord /\ tx[t].stage = "WORK"
      /\ tx[t].err = "none" /\ ~tx[t].retry /\ tx[t].level = tx[t].depth - 1
      /\ tx[t].depth > 0 /\ ~Committed(t)
  BY ThreadFacts, AtWorkFacts
<1>2. /\ Explains(glb - 1, t) /\ mem = Overlay(hist[glb - 1], own[t], NoVal)
      /\ hist[glb - 1] \in [Addrs -> Contents]
      /\ Overlay(mem, undo[t], NoVal) = hist[glb - 1]
  BY <1>1, IrrevocFacts
<1>3. /\ mem \in [Addrs -> Contents] /\ own[t] \in [Addrs -> Contents \cup {NoVal}]
      /\ v \in Contents /\ v # NoVal
  BY ThreadFacts, ConstAssumption DEF Contents
<1> DEFINE u == AddRange(undo[t], mem, a, NoVal)
           p == [own[t] EXCEPT ![a] = v]
<1>4. u = AddRange(undo[t], mem, a, NoVal) /\ undo' = [undo EXCEPT ![t] = u]
  OBVIOUS
<1>5. /\ p \in [Addrs -> Contents \cup {NoVal}] /\ p[a] = v
      /\ \A b \in Addrs : b # a => p[b] = own[t][b]
  BY <1>3
<1>6. own' = [own EXCEPT ![t] = p]
  OBVIOUS
<1> HIDE DEF u, p
<1>7. /\ u \in [Addrs -> Contents \cup {NoVal}] /\ mem' \in [Addrs -> Contents]
      /\ Overlay(mem', u, NoVal) = hist[glb - 1]
  BY <1>2, <1>3, <1>4, LoggedStore
<1>8. TypeOK' /\ OthersSame(t) /\ undo'[t] = u /\ own'[t] = p
  <2>1. undo'[t] = u /\ own'[t] = p
    BY <1>1, <1>4, <1>6 DEF TypeOK
  <2>2. OthersSame(t)
    BY <1>1, <1>4, <1>6 DEF TypeOK, OthersSame, Mine
  <2>3. /\ undo' \in [Threads -> [Addrs -> Contents \cup {NoVal}]]
        /\ own' \in [Threads -> [Addrs -> Contents \cup {NoVal}]]
    BY <1>1, <1>4, <1>5, <1>6, <1>7 DEF TypeOK
  <2>4. TypeOK'
    BY <1>1, <1>7, <2>3 DEF TypeOK
  <2> QED
    BY <2>1, <2>2, <2>4
<1>9. mem' = Overlay(hist[glb - 1], p, NoVal)
  BY <1>2, <1>3, <1>5 DEF Overlay
<1>10. Explains(glb - 1, t)'
  BY <1>2 DEF Explains
<1>11. GoodRecord(t, tx[t])
  BY <1>1 DEF GoodRecord
<1> QED
  BY <1>1, <1>7, <1>8, <1>9, <1>10, <1>11, InPlaceStep

(* NOREC_WRITE: in place, or no room for the log, or buffered.              *)
LEMMA WriteStep ==
  ASSUME IInv, NEW t \in Threads, NEW a \in Addrs, NEW v \in Vals, Write(t, a, v)
  PROVE  IInv'
<1>1. /\ AtWork(t)
      /\ UNCHANGED <<glb, loc, irrevoc, rset, crashes, hist, start, seen, lost>>
  BY DEF Write, lockVars
<1>2. CASE /\ irrevoc[t]
           /\ undo' = [undo EXCEPT ![t] = AddRange(@, mem, a, NoVal)]
           /\ mem' = [mem EXCEPT ![a] = v]
           /\ own' = [own EXCEPT ![t][a] = v]
           /\ UNCHANGED <<tx, pc, callVars, wset, frees>>
  BY <1>1, <1>2, StoreStep DEF callVars
<1>3. CASE irrevoc[t] /\ AbortTo(t, TxAbort(tx[t], "nomem")) /\ UNCHANGED wset
  <2> DEFINE r == TxAbort(tx[t], "nomem")
  <2>1. /\ InTx(t) /\ InWork(tx[t]) /\ pc[t] = "run" /\ tx[t] \in PmRecord
        /\ ~tx[t].retry /\ ~Replaying(t)
    BY <1>1, AtWorkFacts DEF AtWork
  <2>2. /\ r \in PmRecord /\ r.depth = tx[t].depth /\ r.level = tx[t].level
        /\ r.retry = tx[t].retry /\ r.err = "nomem" /\ r.stage = "ONABORT"
    BY <2>1, TxAbortFields DEF PmErrs
  <2>3. AbortTo(t, r)
    BY <1>3
  <2> HIDE DEF r
  <2> QED
    BY <1>1, <1>3, <2>1, <2>2, <2>3, AbortStep
<1>4. CASE /\ ~irrevoc[t] /\ ~InWset(t, a)
           /\ wset' = [wset EXCEPT ![t] = Append(@, <<a, v>>)]
           /\ own' = [own EXCEPT ![t][a] = v]
           /\ UNCHANGED <<tx, pc, callVars, mem, logVars>>
  BY <1>1, <1>4, BufferStep DEF callVars, logVars
<1> QED
  BY <1>2, <1>3, <1>4 DEF Write

(* NOREC_FREE: at once if irrevocable, else on the way to the lock.         *)
LEMMA FreeStep ==
  ASSUME IInv, NEW t \in Threads, NEW a \in Addrs, Free(t, a)
  PROVE  IInv'
<1>1. /\ AtWork(t) /\ TypeOK /\ InTx(t) /\ pc[t] = "run" /\ caller[t] = "none"
      /\ arg[t] = NoArg /\ tx[t] \in PmRecord /\ tx[t].stage = "WORK"
      /\ tx[t].err = "none" /\ ~tx[t].retry /\ tx[t].level = tx[t].depth - 1
      /\ tx[t].depth > 0 /\ ~Committed(t)
  BY ThreadFacts, AtWorkFacts DEF Free
<1>2. UNCHANGED <<glb, loc, irrevoc, mem, tx, time, todo, left, rset, wset, undo,
                  crashes, hist, start, seen, own, lost>>
  BY DEF Free, lockVars, setVars, histVars
<1>3. CASE irrevoc[t] /\ frees' = [frees EXCEPT ![t] = @ \cup {a}]
           /\ UNCHANGED <<pc, caller, arg>>
  <2>1. TypeOK' /\ OthersSame(t)
    BY <1>1, <1>2, <1>3 DEF TypeOK, OthersSame, Mine
  <2>2. /\ Explains(glb - 1, t) /\ mem = Overlay(hist[glb - 1], own[t], NoVal)
        /\ Overlay(mem, undo[t], NoVal) = hist[glb - 1]
    BY <1>1, <1>3, IrrevocFacts
  <2>3. Explains(glb - 1, t)'
    BY <1>2, <2>2 DEF Explains
  <2>4. GoodRecord(t, tx[t])
    BY <1>1 DEF GoodRecord
  <2> QED
    BY <1>1, <1>2, <1>3, <2>1, <2>2, <2>3, <2>4, InPlaceStep
<1>4. CASE /\ ~irrevoc[t] /\ caller' = [caller EXCEPT ![t] = "free"]
           /\ arg' = [arg EXCEPT ![t] = <<a, Junk>>] /\ Goto(t, "cas") /\ UNCHANGED frees
  <2>1. <<a, Junk>> \in Entries /\ <<a, Junk>> # NoArg
    BY DEF Entries, Contents, NoArg
  <2> QED
    BY <1>1, <1>2, <1>4, <2>1, AskStep
<1> QED
  BY <1>3, <1>4 DEF Free

(* A commit without frees leaves the pool as it is.                         *)
LEMMA NothingToReclaim ==
  ASSUME IInv, NEW t \in Threads, frees[t] = {}
  PROVE  Reclaim(t, mem) = mem /\ Reclaim(t, own[t]) = own[t]
BY ThreadFacts DEF Reclaim

(* pmemobj_tx_commit where nothing is to be freed drops the log.            *)
LEMMA DropsLog ==
  ASSUME IInv, NEW t \in Threads, Outermost(tx[t]), PmCommit(t), frees[t] = {}
  PROVE  mem' = mem /\ own' = own /\ frees' = frees /\ undo' = [undo EXCEPT ![t] = NoLog]
<1>1. /\ mem' = Reclaim(t, mem) /\ own' = [own EXCEPT ![t] = Reclaim(t, own[t])]
      /\ frees' = [frees EXCEPT ![t] = {}] /\ undo' = [undo EXCEPT ![t] = NoLog]
  BY DEF PmCommit, Discard
<1>2. TypeOK
  BY ThreadFacts
<1> QED
  BY <1>1, <1>2, NothingToReclaim DEF TypeOK

(* The commit of the whole transaction by the holder of the lock: the pool  *)
(* has all of its writes and frees, and the log is gone.                    *)
LEMMA InPlaceCommit ==
  ASSUME IInv, NEW t \in Threads, AtWork(t), irrevoc[t], Outermost(tx[t]), PmCommit(t),
         UNCHANGED <<glb, loc, irrevoc, pc, caller, arg, time, todo, left, rset, wset,
                     crashes, hist, start, seen, lost>>
  PROVE  IInv'
<1>1. /\ TypeOK /\ InTx(t) /\ pc[t] = "run" /\ caller[t] = "none" /\ arg[t] = NoArg
      /\ tx[t] \in PmRecord /\ tx[t].stage = "WORK" /\ tx[t].err = "none"
      /\ ~tx[t].retry /\ tx[t].level = tx[t].depth - 1 /\ tx[t].depth > 0
  BY AtWorkFacts, ThreadFacts
<1>2. /\ Explains(glb - 1, t) /\ mem = Overlay(hist[glb - 1], own[t], NoVal)
      /\ hist[glb - 1] \in [Addrs -> Contents]
  BY <1>1, IrrevocFacts
<1> DEFINE r == TxCommit(tx[t])
           p == Reclaim(t, own[t])
<1>3. /\ r \in PmRecord /\ r.stage = "ONCOMMIT" /\ r.depth = tx[t].depth
      /\ r.level = tx[t].level /\ r.retry = tx[t].retry /\ r.err = "none"
  BY <1>1, TxStageFields
<1>4. /\ tx' = [tx EXCEPT ![t] = r] /\ mem' = Reclaim(t, mem)
      /\ own' = [own EXCEPT ![t] = p]
      /\ frees' = [frees EXCEPT ![t] = {}] /\ undo' = [undo EXCEPT ![t] = NoLog]
  BY DEF PmCommit, Discard
<1>5. Junk \in Contents /\ Junk # NoVal
  BY ConstAssumption DEF Contents
<1>6. /\ mem \in [Addrs -> Contents] /\ own[t] \in [Addrs -> Contents \cup {NoVal}]
  BY ThreadFacts
<1>7. /\ mem' \in [Addrs -> Contents] /\ p \in [Addrs -> Contents \cup {NoVal}]
      /\ mem' = Overlay(hist[glb - 1], p, NoVal)
  BY <1>2, <1>4, <1>5, <1>6 DEF Reclaim, Overlay
<1> HIDE DEF r, p
<1>8. NoLog \in [Addrs -> Contents \cup {NoVal}]
  BY DEF NoLog
<1>9. TypeOK'
  BY <1>1, <1>3, <1>4, <1>7, <1>8 DEF TypeOK
<1>10. /\ OthersSame(t) /\ tx'[t] = r /\ own'[t] = p /\ undo'[t] = NoLog
       /\ frees'[t] = {}
  BY <1>1, <1>4 DEF TypeOK, OthersSame, Mine
<1>11. GoodRecord(t, r) /\ Committed(t)'
  BY <1>1, <1>3, <1>10 DEF GoodRecord, Committed, Outermost, InWork
<1>12. Explains(glb - 1, t)'
  BY <1>2 DEF Explains
<1> QED
  BY <1>1, <1>3, <1>7, <1>9, <1>10, <1>11, <1>12, InPlaceStep

(* norec_tx_commit: a nested block's commit, one that has written nothing,  *)
(* one of an irrevocable transaction, or the way to the lock.               *)
LEMMA CommitStep ==
  ASSUME IInv, NEW t \in Threads, Commit(t)
  PROVE  IInv'
<1>1. /\ AtWork(t) /\ TypeOK /\ InTx(t) /\ pc[t] = "run" /\ caller[t] = "none"
      /\ arg[t] = NoArg /\ tx[t] \in PmRecord /\ tx[t].stage = "WORK"
      /\ tx[t].err = "none" /\ ~tx[t].retry /\ tx[t].level = tx[t].depth - 1
      /\ tx[t].depth > 0 /\ ~Committed(t) /\ ~Replaying(t) /\ tx[t].level \in Nat
  BY ThreadFacts, AtWorkFacts DEF Commit
<1>2. UNCHANGED <<glb, loc, irrevoc, arg, time, todo, left, rset, wset, crashes, hist,
                  start, seen, lost>>
  BY DEF Commit, lockVars, setVars
<1> DEFINE r == TxCommit(tx[t])
<1>3. /\ r \in PmRecord /\ r.stage = "ONCOMMIT" /\ r.depth = tx[t].depth
      /\ r.level = tx[t].level /\ r.retry = tx[t].retry /\ r.err = "none"
  BY <1>1, TxStageFields
<1>4. PmCommit(t) => tx' = [tx EXCEPT ![t] = r]
  BY DEF PmCommit
<1> HIDE DEF r
<1>5. GoodRecord(t, r)
  BY <1>1, <1>3 DEF GoodRecord
<1>6. UNCHANGED <<pc, caller>> => BackToLoop(t)
  BY <1>1, <1>2 DEF BackToLoop, callVars
<1>7. CASE PmCommit(t) /\ UNCHANGED <<pc, caller>> /\ ~Outermost(tx[t])
  <2>1. Keeps /\ ~Outermost(r)
    BY <1>3, <1>7 DEF PmCommit, Keeps, logVars, Outermost
  <2> QED
    BY <1>1, <1>2, <1>4, <1>5, <1>6, <1>7, <2>1, LoopStep
<1>8. CASE PmCommit(t) /\ UNCHANGED <<pc, caller>> /\ Outermost(tx[t]) /\ ~irrevoc[t]
  <2>1. undo[t] = NoLog /\ frees[t] = {}
    BY <1>1, <1>8, CallInFacts
  <2>2. Keeps
    BY <1>1, <1>8, <2>1, DropsLog DEF Keeps, TypeOK
  <2> QED
    BY <1>1, <1>2, <1>3, <1>4, <1>5, <1>6, <1>8, <2>1, <2>2, LoopStep
<1>9. CASE PmCommit(t) /\ UNCHANGED <<pc, caller>> /\ Outermost(tx[t]) /\ irrevoc[t]
  BY <1>1, <1>2, <1>9, InPlaceCommit
<1>10. CASE /\ ~CommitsAtOnce(t) /\ caller' = [caller EXCEPT ![t] = "commit"]
            /\ Goto(t, "cas") /\ UNCHANGED <<mem, own, tx, logVars>>
  <2>0. ~irrevoc[t]
    BY <1>10 DEF CommitsAtOnce
  <2>1. tx[t].level = 0
    <3>1. ~(tx[t].level > 0)
      BY <1>10 DEF CommitsAtOnce
    <3>2. tx[t].level \in Nat
      BY <1>1
    <3> QED
      BY <3>1, <3>2
  <2>2. arg' = [arg EXCEPT ![t] = NoArg]
    BY <1>1, <1>2 DEF TypeOK
  <2>3. UNCHANGED <<mem, own, tx, undo, frees>>
    BY <1>10 DEF logVars
  <2> QED
    BY <1>1, <1>2, <1>10, <2>0, <2>1, <2>2, <2>3, AskStep
<1> QED
  BY <1>7, <1>8, <1>9, <1>10 DEF Commit

(* The pmemobj_tx_commit that comes after the release of the lock: the pool *)
(* stays as it is, only the log that would have undone it goes.             *)
LEMMA SealStep ==
  ASSUME IInv, NEW t \in Threads, Seal(t)
  PROVE  IInv'
<1>1. /\ TypeOK /\ pc[t] = "seal" /\ caller[t] = "commit" /\ ~Replaying(t)
      /\ ControlInv(t) /\ ReaderInv(t)
  BY ThreadFacts DEF Seal, ControlInv, Replaying
<1>2. /\ InTx(t) /\ InWork(tx[t]) /\ ~irrevoc[t] /\ tx[t].err = "none" /\ ~tx[t].retry
      /\ seen[t] = rset[t] /\ frees[t] = {} /\ Listed(wset[t], own[t])
      /\ \A a \in Addrs : own[t][a] # NoVal => InWset(t, a)
      /\ \E g \in DOMAIN hist : Snapshot(g, t)
      /\ Snapshot(loc[t], t) /\ tx[t].level = 0
  BY <1>1, InCallFacts
<1>3. tx[t].depth = 1 /\ Outermost(tx[t])
  BY <1>1, <1>2, ThreadFacts DEF ControlInv, Outermost
<1> DEFINE r == TxCommit(tx[t])
<1>4. /\ r \in PmRecord /\ r.stage = "ONCOMMIT" /\ r.depth = 1
      /\ r.level = 0 /\ r.retry = FALSE /\ r.err = "none"
  BY <1>2, <1>3, TxStageFields, ThreadFacts DEF PmRecord
<1>5. tx' = [tx EXCEPT ![t] = r] /\ PmCommit(t)
  BY DEF Seal, PmCommit
<1> HIDE DEF r
<1>6. mem' = mem /\ own' = own /\ frees' = frees /\ undo' = [undo EXCEPT ![t] = NoLog]
  BY <1>2, <1>3, <1>5, DropsLog
<1>7. BackToLoop(t)
  BY DEF Seal, BackToLoop
<1>8. UNCHANGED <<glb, loc, irrevoc, rset, wset, crashes, hist, start, seen, lost>>
  BY DEF Seal, lockVars, setVars
<1>9. NoLog \in [Addrs -> Contents \cup {NoVal}]
  BY DEF NoLog
<1>10. TypeOK'
  BY <1>1, <1>4, <1>5, <1>6, <1>7, <1>8, <1>9, BackEffect DEF TypeOK
<1>11. /\ tx'[t] = r /\ undo'[t] = NoLog
       /\ pc'[t] = "run" /\ caller'[t] = "none" /\ arg'[t] = NoArg
  BY <1>1, <1>5, <1>6, <1>7, BackEffect DEF TypeOK
<1>12. OthersSame(t)
  BY <1>1, <1>5, <1>6, <1>7, <1>8, BackEffect DEF TypeOK, OthersSame, Mine
<1>13. InTx(t)' /\ ~Replaying(t)' /\ ~Holds(t) /\ ~Holds(t)'
  BY <1>1, <1>2, <1>4, <1>8, <1>11 DEF InTx, Replaying, Holds
<1>14. ControlInv(t)'
  BY <1>4, <1>11, <1>13 DEF ControlInv, InWork
<1>15. SetsInv(t)'
  BY <1>2, <1>6, <1>8, <1>11, <1>13 DEF SetsInv, Listed, InWset
<1>16. LogOf(t)' /\ StoreInv(t)'
  BY <1>2, <1>4, <1>6, <1>11, <1>13 DEF LogOf, StoreInv, NoLog
<1>17. Snapshot(loc[t], t)' /\ Opaque(t)'
  BY <1>2, <1>8 DEF Snapshot, Explains, Opaque
<1>18. ReaderInv(t)'
  BY <1>1, <1>2, <1>8, <1>11, <1>17 DEF ReaderInv
<1> QED
  BY <1>1, <1>6, <1>8, <1>10, <1>11, <1>12, <1>13, <1>14, <1>15, <1>16, <1>17, <1>18,
     QuietStep DEF ThreadInv

(* norec_tx_begin takes the newest version there is.                        *)
LEMMA BeginStep ==
  ASSUME IInv, NEW t \in Threads, Begin(t)
  PROVE  IInv'
<1>1. /\ TypeOK /\ HistoryInv /\ tx[t] \in PmRecord /\ ControlInv(t) /\ SetsInv(t)
      /\ StoreInv(t) /\ glb \in Nat /\ pc[t] \in {"idle", "begin"} /\ tx[t].depth \in Nat
  BY ThreadFacts DEF Begin
<1>2. ~InTx(t) /\ caller[t] = "none" /\ arg[t] = NoArg /\ tx[t].stage = "NONE"
      /\ tx[t].depth = 0 /\ tx[t].level = 0
  BY <1>1 DEF ControlInv, InTx, TypeOK
<1> DEFINE r == TxBegin(tx[t])
<1>3. /\ r \in PmRecord /\ r.stage = "WORK" /\ r.depth = 1 /\ r.level = 0
      /\ r.retry = FALSE /\ r.err = "none"
  <2>1. /\ r \in PmRecord /\ r.stage = "WORK" /\ r.depth = tx[t].depth + 1
        /\ r.level = (IF tx[t].stage = "WORK" THEN tx[t].level + 1 ELSE tx[t].level)
        /\ r.retry = (tx[t].stage = "WORK" /\ tx[t].retry) /\ r.err = "none"
    BY <1>1, TxBeginFields
  <2>2. (tx[t].stage = "WORK" /\ tx[t].retry) = FALSE
    BY <1>2
  <2>3. r.depth = 1 /\ r.level = 0
    BY <1>2, <2>1
  <2> QED
    BY <2>1, <2>2, <2>3
<1>4. /\ irrevoc' = [irrevoc EXCEPT ![t] = FALSE] /\ loc' = [loc EXCEPT ![t] = Even(glb)]
      /\ tx' = [tx EXCEPT ![t] = r] /\ start' = [start EXCEPT ![t] = Even(glb)]
      /\ pc' = [pc EXCEPT ![t] = "run"]
      /\ UNCHANGED <<glb, mem, caller, arg, time, todo, left, rset, wset, undo, frees,
                     crashes, hist, seen, own, lost>>
  BY DEF Begin, Goto, callVars, setVars, logVars
<1> HIDE DEF r
<1>5. Even(glb) \in Nat /\ Even(glb) <= glb /\ Even(glb) \in DOMAIN hist
  BY <1>1, Parity DEF HistoryInv
<1>6. TypeOK'
  BY <1>1, <1>3, <1>4, <1>5 DEF TypeOK, Labels
<1>7. /\ OthersSame(t) /\ irrevoc'[t] = FALSE /\ loc'[t] = Even(glb) /\ tx'[t] = r
      /\ start'[t] = Even(glb) /\ pc'[t] = "run"
  BY <1>1, <1>4 DEF TypeOK, OthersSame, Mine
<1>8. ControlInv(t)'
  BY <1>2, <1>3, <1>4, <1>7 DEF ControlInv, InTx, InWork
<1>9. /\ rset[t] = {} /\ wset[t] = <<>> /\ seen[t] = {} /\ own[t] = NoLog
      /\ undo[t] = NoLog /\ frees[t] = {}
  BY <1>1, <1>2 DEF SetsInv, StoreInv, InWork
<1>10. SetsInv(t)'
  <2>1. Listed(<<>>, NoLog) /\ \A a \in Addrs : NoLog[a] = NoVal
    BY DEF Listed, NoLog
  <2> QED
    BY <1>2, <1>3, <1>4, <1>7, <1>9, <2>1 DEF SetsInv, InTx, Replaying, InWset
<1>11. Snapshot(loc[t], t)' /\ Opaque(t)'
  BY <1>4, <1>5, <1>7, <1>9 DEF Snapshot, Explains, Opaque
<1>12. ReaderInv(t)'
  BY <1>4, <1>5, <1>7, <1>11 DEF ReaderInv, InTx
<1>13. ~Holds(t) /\ ~Holds(t)'
  BY <1>1, <1>2, <1>7 DEF Holds, Replaying, InTx
<1>14. LogOf(t)' /\ StoreInv(t)'
  BY <1>3, <1>4, <1>7, <1>9, <1>13 DEF LogOf, StoreInv, InWork, NoLog
<1> QED
  BY <1>1, <1>4, <1>6, <1>7, <1>8, <1>10, <1>11, <1>12, <1>13, <1>14, QuietStep
  DEF ThreadInv

--------------------------------------------------------------------------------
(* The lock: taking it, replaying, losing it, giving it back.               *)

(* What the holder that replays begins with.                                *)
LEMMA ReplayFacts ==
  ASSUME IInv, NEW t \in Threads, pc[t] = "redo"
  PROVE  /\ TypeOK /\ Holds(t) /\ Replaying(t) /\ InTx(t) /\ InWork(tx[t]) /\ ~irrevoc[t]
         /\ tx[t].err = "none" /\ ~tx[t].retry /\ ~Committed(t)
         /\ caller[t] # "none" /\ caller[t] # "read"
         /\ caller[t] = "free" <=> arg[t] # NoArg
         /\ seen[t] = rset[t] /\ frees[t] = {} /\ Listed(wset[t], own[t])
         /\ \A a \in Addrs : own[t][a] # NoVal => InWset(t, a)
         /\ \E g \in DOMAIN hist : Snapshot(g, t)
         /\ Snapshot(loc[t], t) /\ Listed(left[t], own[t]) /\ start[t] <= glb
         /\ glb = loc[t] + 1 /\ loc[t] = glb - 1 /\ ~IsEven(glb) /\ ~lost
         /\ glb \in Nat /\ loc[t] \in Nat
         /\ mem = Overlay(hist[glb - 1], Copied(t), NoVal)
         /\ hist[glb - 1] \in [Addrs -> Contents]
         /\ Overlay(mem, undo[t], NoVal) = hist[glb - 1]
<1>1. Replaying(t) /\ Holds(t) /\ TypeOK /\ caller[t] # "none" /\ glb \in Nat /\ loc[t] \in Nat
  BY ThreadFacts, CallsHaveCallers DEF Replaying, Holds
<1>2. /\ InTx(t) /\ InWork(tx[t]) /\ ~irrevoc[t] /\ tx[t].err = "none" /\ ~tx[t].retry
      /\ seen[t] = rset[t] /\ frees[t] = {} /\ Listed(wset[t], own[t])
      /\ \A a \in Addrs : own[t][a] # NoVal => InWset(t, a)
      /\ \E g \in DOMAIN hist : Snapshot(g, t)
      /\ Snapshot(loc[t], t)
      /\ caller[t] \in {"read", "free"} <=> arg[t] # NoArg
  BY <1>1, InCallFacts
<1>3. caller[t] # "read" /\ ~Committed(t) /\ Listed(left[t], own[t]) /\ start[t] <= glb
  BY <1>1, <1>2, ThreadFacts DEF ControlInv, Committed, SetsInv, ReaderInv
<1>4. /\ glb = loc[t] + 1 /\ ~IsEven(glb) /\ ~lost
      /\ mem = Overlay(hist[glb - 1], Copied(t), NoVal)
      /\ Overlay(mem, undo[t], NoVal) = hist[glb - 1]
  BY <1>1, <1>3, ThreadFacts DEF LogOf
<1>5. hist[glb - 1] \in [Addrs -> Contents] /\ loc[t] = glb - 1
  BY <1>1, <1>4, VersionBelow
<1> QED
  BY <1>1, <1>2, <1>3, <1>4, <1>5

(* The CAS succeeds on an even value whose version explains all t has read, *)
(* so nobody else holds the lock and the pool is that version.              *)
LEMMA SwapSucceedsStep ==
  ASSUME IInv, NEW t \in Threads, CompareAndSwap(t), glb = loc[t]
  PROVE  IInv'
<1>1. /\ TypeOK /\ pc[t] = "cas" /\ caller[t] # "none" /\ LockInv /\ LogOf(t)
      /\ glb \in Nat /\ ReaderInv(t) /\ SetsInv(t) /\ ControlInv(t) /\ StoreInv(t)
      /\ mem \in [Addrs -> Contents] /\ own[t] \in [Addrs -> Contents \cup {NoVal}]
  BY ThreadFacts, CallsHaveCallers DEF CompareAndSwap
<1>2. /\ InTx(t) /\ InWork(tx[t]) /\ ~irrevoc[t] /\ Snapshot(loc[t], t)
      /\ Listed(wset[t], own[t])
      /\ \A a \in Addrs : own[t][a] # NoVal => InWset(t, a)
  BY <1>1, InCallFacts
<1>3. IsEven(glb) /\ mem = hist[glb]
  BY <1>2, MemoryAtLoc
<1>4. /\ glb' = glb + 1 /\ left' = [left EXCEPT ![t] = wset[t]]
      /\ pc' = [pc EXCEPT ![t] = "redo"]
      /\ UNCHANGED <<loc, irrevoc, mem, tx, caller, arg, time, todo, rset, wset, undo, frees,
                     crashes, hist, start, seen, own, lost>>
  BY DEF CompareAndSwap, Goto, setVars, logVars, histVars
<1>5. TypeOK'
  BY <1>1, <1>4 DEF TypeOK, Labels
<1>6. OthersSame(t) /\ pc'[t] = "redo" /\ left'[t] = wset[t]
  BY <1>1, <1>4 DEF TypeOK, OthersSame, Mine
<1>7. Holds(t)' /\ Replaying(t)' /\ InTx(t)'
  BY <1>2, <1>4, <1>6 DEF Holds, Replaying, InTx
<1>8. ControlInv(t)'
  BY <1>1, <1>4, <1>6 DEF ControlInv, InTx, InWork
<1>9. SetsInv(t)'
  BY <1>1, <1>2, <1>4, <1>6 DEF SetsInv, InTx, InWset, Listed, Replaying
<1>10. Snapshot(loc[t], t)' /\ Opaque(t)'
  BY <1>2, <1>4 DEF Snapshot, Explains, Opaque
<1>11. start[t] <= glb'
  BY <1>1, <1>2, <1>4 DEF ReaderInv, TypeOK
<1>12. ReaderInv(t)'
  BY <1>2, <1>4, <1>6, <1>10, <1>11 DEF ReaderInv, InTx
<1>13. StoreInv(t)'
  BY <1>2, <1>4, <1>6 DEF StoreInv, InWork
<1>14. LogOf(t)'
  <2>1. ~IsEven(glb') /\ glb' - 1 = glb /\ ~lost
    BY <1>1, <1>3, <1>4, Parity DEF LockInv
  <2>2. undo[t] = NoLog
    <3>1. ~Holds(t) /\ pc[t] # "seal"
      BY <1>1, <1>2 DEF Holds, Replaying
    <3> QED
      BY <1>1, <2>1, <3>1 DEF LogOf
  <2>3. Overlay(mem, NoLog, NoVal) = mem
    BY <1>1, OverlayNone DEF NoLog
  <2>4. mem = Overlay(hist[glb], Copied(t)', NoVal)
    <3>1. Copied(t)' = [a \in Addrs |-> IF \E i \in DOMAIN wset[t] : wset[t][i][1] = a
                                        THEN NoVal ELSE own[t][a]]
      BY <1>4, <1>6, <1>7 DEF Copied
    <3>2. \A a \in Addrs : Copied(t)'[a] = NoVal
      BY <1>2, <3>1 DEF InWset
    <3> QED
      BY <1>1, <1>3, <3>2 DEF Overlay
  <2> QED
    BY <1>3, <1>4, <1>7, <2>1, <2>2, <2>3, <2>4 DEF LogOf
<1> QED
  BY <1>3, <1>4, <1>5, <1>6, <1>7, <1>8, <1>9, <1>10, <1>12, <1>13, <1>14, HolderStep
  DEF ThreadInv

(* What is left of a write set without its first entry.                     *)
LEMMA TailFacts ==
  ASSUME NEW w \in Seq(Addrs \X Vals), w # <<>>
  PROVE  /\ Tail(w) \in Seq(Addrs \X Vals) /\ 1 \in DOMAIN w /\ Head(w) = w[1]
         /\ w[1] \in Addrs \X Vals
         /\ \A i \in DOMAIN Tail(w) : /\ i + 1 \in DOMAIN w /\ Tail(w)[i] = w[i + 1]
                                      /\ i + 1 # 1
         /\ \A i \in DOMAIN w : i # 1 => i - 1 \in DOMAIN Tail(w) /\ Tail(w)[i - 1] = w[i]
OBVIOUS

(* One entry logged and copied: the pool follows, and the log leads back.   *)
LEMMA RedoStep ==
  ASSUME IInv, NEW t \in Threads, Redo(t)
  PROVE  IInv'
<1>1. /\ TypeOK /\ pc[t] = "redo" /\ left[t] # <<>> /\ Holds(t) /\ Replaying(t)
      /\ ControlInv(t) /\ SetsInv(t) /\ ReaderInv(t) /\ Opaque(t) /\ StoreInv(t)
      /\ Listed(left[t], own[t]) /\ InWork(tx[t])
      /\ glb = loc[t] + 1 /\ ~IsEven(glb) /\ ~lost
      /\ mem = Overlay(hist[glb - 1], Copied(t), NoVal)
      /\ Overlay(mem, undo[t], NoVal) = hist[glb - 1]
      /\ hist[glb - 1] \in [Addrs -> Contents] /\ mem \in [Addrs -> Contents]
  BY ThreadFacts, ReplayFacts DEF Redo
<1> DEFINE w == left[t]
           rest == Tail(left[t])
<1>2. w \in Seq(Addrs \X Vals) /\ Listed(w, own[t]) /\ own[t] \in [Addrs -> Contents \cup {NoVal}]
  BY <1>1 DEF TypeOK
<1>3. /\ rest \in Seq(Addrs \X Vals) /\ 1 \in DOMAIN w /\ Head(w) = w[1]
      /\ w[1] \in Addrs \X Vals
      /\ \A i \in DOMAIN rest : i + 1 \in DOMAIN w /\ rest[i] = w[i + 1] /\ i + 1 # 1
      /\ \A i \in DOMAIN w : i # 1 => i - 1 \in DOMAIN rest /\ rest[i - 1] = w[i]
  BY <1>1, <1>2, TailFacts
<1> DEFINE u == AddRange(undo[t], mem, w[1][1], NoVal)
           m == [mem EXCEPT ![w[1][1]] = w[1][2]]
<1>4. /\ mem' = m /\ left' = [left EXCEPT ![t] = rest] /\ undo' = [undo EXCEPT ![t] = u]
      /\ UNCHANGED <<glb, loc, irrevoc, tx, pc, caller, arg, time, todo, rset, wset, frees,
                     crashes, hist, start, seen, own, lost>>
  BY <1>3 DEF Redo, lockVars, setVars, histVars
<1>5. w[1][1] \in Addrs /\ w[1][2] \in Contents /\ own[t][w[1][1]] = w[1][2]
      /\ w[1][2] # NoVal
  BY <1>2, <1>3, ConstAssumption DEF Listed, Contents
<1>6. /\ u \in [Addrs -> Contents \cup {NoVal}] /\ m \in [Addrs -> Contents]
      /\ Overlay(m, u, NoVal) = hist[glb - 1]
      /\ m[w[1][1]] = w[1][2] /\ \A a \in Addrs : a # w[1][1] => m[a] = mem[a]
  BY <1>1, <1>5, LoggedStore
<1> HIDE DEF rest, u, m
<1>7. TypeOK'
  BY <1>1, <1>3, <1>4, <1>6 DEF TypeOK
<1>8. OthersSame(t) /\ left'[t] = rest /\ undo'[t] = u
  BY <1>1, <1>4 DEF TypeOK, OthersSame, Mine
<1>9. Listed(rest, own[t])
  <2>1. ASSUME NEW i \in DOMAIN rest PROVE own[t][rest[i][1]] = rest[i][2]
    BY <1>2, <1>3 DEF Listed
  <2>2. ASSUME NEW i \in DOMAIN rest, NEW j \in DOMAIN rest, rest[j][1] = rest[i][1]
        PROVE  j = i
    <3>1. i \in Nat /\ j \in Nat
      BY <1>3
    <3>2. j + 1 = i + 1
      BY <1>2, <1>3, <2>2 DEF Listed
    <3> QED
      BY <3>1, <3>2
  <2> QED
    BY <2>1, <2>2 DEF Listed
<1>10. /\ Holds(t)' /\ Replaying(t)'
       /\ Copied(t)' = [a \in Addrs |-> IF \E i \in DOMAIN rest : rest[i][1] = a
                                        THEN NoVal ELSE own[t][a]]
  BY <1>1, <1>4, <1>8 DEF Holds, Replaying, Copied
<1>11. m = Overlay(hist[glb - 1], Copied(t)', NoVal)
  <2> SUFFICES ASSUME NEW a \in Addrs
               PROVE  m[a] = Overlay(hist[glb - 1], Copied(t)', NoVal)[a]
    BY <1>1, <1>6 DEF Overlay
  <2>1. CASE a = w[1][1]
    <3>1. ~\E i \in DOMAIN rest : rest[i][1] = a
      BY <1>2, <1>3, <2>1 DEF Listed
    <3> QED
      BY <1>1, <1>5, <1>6, <1>10, <2>1, <3>1 DEF Overlay
  <2>2. CASE a # w[1][1]
    <3>1. (\E i \in DOMAIN rest : rest[i][1] = a) <=> (\E i \in DOMAIN w : w[i][1] = a)
      BY <1>3, <2>2
    <3>2. Copied(t)[a] = IF \E i \in DOMAIN w : w[i][1] = a THEN NoVal ELSE own[t][a]
      BY <1>1 DEF Copied
    <3>3. Copied(t)'[a] = Copied(t)[a]
      BY <1>10, <3>1, <3>2
    <3>4. m[a] = mem[a]
      BY <1>6, <2>2
    <3> QED
      BY <1>1, <3>3, <3>4 DEF Overlay
  <2> QED
    BY <2>1, <2>2
<1>12. ControlInv(t)'
  BY <1>1, <1>4 DEF ControlInv, InTx, InWork
<1>13. SetsInv(t)'
  BY <1>1, <1>4, <1>8, <1>9 DEF SetsInv, InTx, InWset, Listed, Replaying
<1>14. Opaque(t)'
  BY <1>1, <1>4 DEF Opaque, InTx, Snapshot, Explains
<1>15. ReaderInv(t)'
  BY <1>1, <1>4 DEF ReaderInv, InTx, Snapshot, Explains
<1>16. StoreInv(t)'
  BY <1>1, <1>4 DEF StoreInv, InWork
<1>17. LogOf(t)'
  BY <1>1, <1>4, <1>6, <1>8, <1>10, <1>11 DEF LogOf
<1> QED
  BY <1>1, <1>4, <1>7, <1>8, <1>10, <1>12, <1>13, <1>14, <1>15, <1>16, <1>17, HolderStep
  DEF ThreadInv

(* The log finds no room: the replay is abandoned, and as irrevoc is still  *)
(* 0 nobody will give the lock back.  The log leads back to the last        *)
(* version, now or when the outermost block ends.                           *)
LEMMA RedoFailsStep ==
  ASSUME IInv, NEW t \in Threads, RedoFails(t)
  PROVE  IInv'
<1>1. /\ TypeOK /\ pc[t] = "redo" /\ Holds(t) /\ Replaying(t) /\ InTx(t) /\ InWork(tx[t])
      /\ ~irrevoc[t] /\ tx[t].err = "none" /\ ~tx[t].retry
      /\ seen[t] = rset[t] /\ frees[t] = {} /\ \E g \in DOMAIN hist : Snapshot(g, t)
      /\ Snapshot(loc[t], t) /\ start[t] <= glb
      /\ Overlay(mem, undo[t], NoVal) = hist[glb - 1]
  BY ReplayFacts DEF RedoFails
<1>2. tx[t] \in PmRecord /\ tx[t].depth \in Nat /\ tx[t].depth > 0
      /\ tx[t].level = tx[t].depth - 1
  BY <1>1, ThreadFacts DEF ControlInv, InTx
<1> DEFINE r == TxAbort(tx[t], "nomem")
<1>3. /\ r \in PmRecord /\ r.depth = tx[t].depth /\ r.level = tx[t].level
      /\ r.retry = tx[t].retry /\ r.err = "nomem" /\ r.stage = "ONABORT"
  BY <1>2, TxAbortFields DEF PmErrs
<1>4. AbortTo(t, r) /\ lost'
  BY DEF RedoFails
<1> HIDE DEF r
<1>5. /\ tx' = [tx EXCEPT ![t] = r] /\ BackToLoop(t)
      /\ UNCHANGED <<glb, loc, irrevoc, rset, wset, crashes, hist, start, seen>>
  BY <1>4 DEF RedoFails, AbortTo, BackToLoop, lockVars, setVars
<1>6. (Keeps /\ ~Outermost(tx[t])) \/ RollBack(t)
  BY <1>4 DEF AbortTo, Keeps, logVars
<1>7. lost' \in BOOLEAN
  BY DEF RedoFails
<1>8. /\ TypeOK' /\ OthersSame(t) /\ tx'[t] = r
      /\ pc'[t] = "run" /\ caller'[t] = "none" /\ arg'[t] = NoArg
  BY <1>3, <1>5, <1>6, <1>7, LoopFrame
<1>9. /\ Overlay(mem', undo'[t], NoVal) = hist[glb - 1] /\ frees'[t] = {}
      /\ Outermost(r) => undo'[t] = NoLog /\ own'[t] = NoLog
  <2>1. CASE Keeps /\ ~Outermost(tx[t])
    BY <1>1, <1>3, <2>1 DEF Keeps, Outermost
  <2>2. CASE RollBack(t)
    BY <1>1, <2>2, RollBackEffect
  <2> QED
    BY <1>6, <2>1, <2>2
<1>10. InTx(t)' /\ ~Replaying(t)' /\ ~Holds(t)'
  BY <1>1, <1>2, <1>3, <1>5, <1>8 DEF InTx, Replaying, Holds
<1>11. ControlInv(t)'
  BY <1>1, <1>2, <1>3, <1>8, <1>10 DEF ControlInv, InWork
<1>12. SetsInv(t)'
  BY <1>1, <1>3, <1>5, <1>8, <1>9, <1>10 DEF SetsInv
<1>13. LogOf(t)'
  BY <1>3, <1>4, <1>8, <1>9, <1>10 DEF LogOf
<1>14. StoreInv(t)'
  <2>1. r.depth <= 1 => Outermost(r)
    BY <1>2, <1>3 DEF Outermost
  <2> QED
    BY <1>8, <1>9, <2>1 DEF StoreInv, NoLog
<1>15. Snapshot(loc[t], t)' /\ Opaque(t)'
  BY <1>1, <1>5 DEF Snapshot, Explains, Opaque
<1>16. ReaderInv(t)'
  BY <1>1, <1>5, <1>8, <1>15 DEF ReaderInv
<1> QED
  BY <1>1, <1>4, <1>5, <1>8, <1>9, <1>10, <1>11, <1>12, <1>13, <1>14, <1>15, <1>16, LoseStep
  DEF ThreadInv

(* Having replayed everything, t keeps the lock and goes on in place.       *)
LEMMA BecomeIrrevocStep ==
  ASSUME IInv, NEW t \in Threads, BecomeIrrevoc(t)
  PROVE  IInv'
<1>1. /\ TypeOK /\ pc[t] = "redo" /\ left[t] = <<>> /\ Holds(t) /\ Replaying(t)
      /\ InTx(t) /\ InWork(tx[t]) /\ tx[t].err = "none" /\ ~tx[t].retry
      /\ Snapshot(loc[t], t) /\ (caller[t] = "free" <=> arg[t] # NoArg)
      /\ glb = loc[t] + 1 /\ ~IsEven(glb) /\ ~lost /\ start[t] <= glb
      /\ mem = Overlay(hist[glb - 1], Copied(t), NoVal)
      /\ Overlay(mem, undo[t], NoVal) = hist[glb - 1]
      /\ glb \in Nat /\ loc[t] \in Nat
  BY ReplayFacts DEF BecomeIrrevoc
<1>2. ControlInv(t) /\ own[t] \in [Addrs -> Contents \cup {NoVal}]
  BY ThreadFacts
<1>3. /\ loc' = [loc EXCEPT ![t] = @ + 1] /\ irrevoc' = [irrevoc EXCEPT ![t] = TRUE]
      /\ frees' = IF caller[t] = "free" THEN [frees EXCEPT ![t] = @ \cup {arg[t][1]}]
                                        ELSE frees
      /\ UNCHANGED <<glb, mem, tx, rset, wset, undo, crashes, hist, start, seen, own, lost>>
  BY DEF BecomeIrrevoc, setVars, histVars
<1>4. /\ pc' = [pc EXCEPT ![t] = "run"] /\ caller' = [caller EXCEPT ![t] = "none"]
      /\ arg' = [arg EXCEPT ![t] = NoArg] /\ time' = [time EXCEPT ![t] = 0]
      /\ todo' = [todo EXCEPT ![t] = {}] /\ left' = [left EXCEPT ![t] = <<>>]
  BY DEF BecomeIrrevoc, Leave, Goto
<1>5. caller[t] = "free" => arg[t][1] \in Addrs
  <2>1. arg[t] \in Entries \cup {NoArg} /\ (caller[t] = "free" => arg[t] # NoArg)
    BY <1>1 DEF TypeOK
  <2> QED
    BY <2>1 DEF Entries
<1>6. frees' \in [Threads -> SUBSET Addrs] /\ \A s \in Threads \ {t} : frees'[s] = frees[s]
  BY <1>1, <1>3, <1>5 DEF TypeOK
<1>7. TypeOK'
  BY <1>1, <1>3, <1>4, <1>6 DEF TypeOK, Labels
<1>8. /\ loc'[t] = loc[t] + 1 /\ irrevoc'[t] = TRUE /\ pc'[t] = "run"
      /\ caller'[t] = "none" /\ arg'[t] = NoArg
  BY <1>1, <1>3, <1>4 DEF TypeOK
<1>9. OthersSame(t)
  BY <1>1, <1>3, <1>4, <1>6 DEF TypeOK, OthersSame, Mine
<1>10. Holds(t)' /\ ~Replaying(t)' /\ InTx(t)'
  BY <1>1, <1>3, <1>8 DEF Holds, InTx, Replaying
<1>11. Copied(t)' = Copied(t)
  <2>1. Copied(t)' = [a \in Addrs |-> own[t][a]]
    BY <1>3, <1>10 DEF Copied
  <2>2. Copied(t) = [a \in Addrs |-> own[t][a]]
    BY <1>1 DEF Copied
  <2> QED
    BY <2>1, <2>2
<1>12. LogOf(t)'
  BY <1>1, <1>3, <1>8, <1>10, <1>11 DEF LogOf
<1>13. ControlInv(t)'
  BY <1>1, <1>2, <1>3, <1>8 DEF ControlInv, InTx, InWork
<1>14. SetsInv(t)' /\ StoreInv(t)'
  BY <1>1, <1>3, <1>8, <1>10 DEF SetsInv, StoreInv, InWork
<1>15. Snapshot(loc[t] - 1, t)' /\ Opaque(t)'
  <2>1. loc'[t] - 1 = loc[t]
    BY <1>1, <1>8
  <2>2. Snapshot(loc[t] - 1, t)'
    BY <1>1, <1>3, <2>1 DEF Snapshot, Explains
  <2> QED
    BY <2>2 DEF Opaque, Snapshot, Explains
<1>16. ReaderInv(t)'
  BY <1>1, <1>3, <1>8, <1>15 DEF ReaderInv
<1> QED
  BY <1>1, <1>3, <1>7, <1>9, <1>10, <1>12, <1>13, <1>14, <1>15, <1>16, HolderStep
  DEF ThreadInv

(* norec_tx_commit releases the lock with its log still there: until the    *)
(* pmemobj_tx_commit, the log takes its version back to the one before.     *)
LEMMA ReleaseStep ==
  ASSUME IInv, NEW t \in Threads, Release(t)
  PROVE  IInv'
<1>1. /\ TypeOK /\ pc[t] = "redo" /\ caller[t] = "commit" /\ Holds(t)
      /\ InTx(t) /\ InWork(tx[t]) /\ ~irrevoc[t] /\ Snapshot(loc[t], t)
      /\ glb = loc[t] + 1 /\ loc[t] = glb - 1 /\ ~IsEven(glb) /\ start[t] <= glb
      /\ Overlay(mem, undo[t], NoVal) = hist[glb - 1]
      /\ glb \in Nat /\ loc[t] \in Nat /\ \E g \in DOMAIN hist : Snapshot(g, t)
      /\ mem \in [Addrs -> Contents]
  BY ReplayFacts, ThreadFacts DEF Release
<1>2. ControlInv(t) /\ SetsInv(t) /\ HistoryInv
  BY ThreadFacts
<1>3. loc[t] + 2 = glb + 1 /\ glb + 1 \in Nat
  BY <1>1
<1>4. /\ glb' = glb + 1 /\ Publish(glb + 1, mem) /\ pc' = [pc EXCEPT ![t] = "seal"]
      /\ UNCHANGED <<loc, irrevoc, mem, tx, caller, arg, time, todo, left, rset, wset, undo,
                     frees, crashes, start, seen, own, lost>>
  BY <1>3 DEF Release, Goto, callVars, setVars, logVars
<1>5. /\ DOMAIN hist' = DOMAIN hist \cup {glb + 1} /\ hist'[glb + 1] = mem
      /\ \A g \in DOMAIN hist : hist'[g] = hist[g]
  <2>1. \A g \in DOMAIN hist : g # glb + 1
    BY <1>1, <1>2 DEF HistoryInv, TypeOK
  <2> QED
    BY <1>4, <2>1 DEF Publish
<1>6. TypeOK'
  <2>1. /\ glb' \in Nat /\ DOMAIN hist' \subseteq Nat
        /\ \A g \in DOMAIN hist' : hist'[g] \in [Addrs -> Contents]
    BY <1>1, <1>3, <1>4, <1>5 DEF TypeOK
  <2>2. pc' \in [Threads -> Labels]
    BY <1>1, <1>4 DEF TypeOK, Labels
  <2> QED
    BY <1>1, <1>4, <2>1, <2>2 DEF TypeOK
<1>7. OthersSame(t) /\ pc'[t] = "seal"
  BY <1>1, <1>4 DEF TypeOK, OthersSame, Mine
<1>8. ~Holds(t)' /\ ~Replaying(t)' /\ InTx(t)'
  BY <1>1, <1>4, <1>7 DEF Holds, Replaying, InTx
<1>9. ControlInv(t)'
  BY <1>1, <1>2, <1>4, <1>7 DEF ControlInv, InTx, InWork
<1>10. SetsInv(t)'
  BY <1>1, <1>2, <1>4, <1>8 DEF SetsInv, InTx, Listed, InWset
<1>11. loc[t] \in DOMAIN hist
  BY <1>1 DEF Snapshot
<1>12. StoreInv(t)'
  BY <1>1, <1>3, <1>4, <1>5, <1>11 DEF StoreInv, InWork
<1>13. LogOf(t)'
  <2>1. hist'[loc[t] + 2] = mem /\ hist'[loc[t]] = hist[glb - 1]
    BY <1>1, <1>3, <1>5, <1>11
  <2> QED
    BY <1>1, <1>4, <1>7, <1>8, <2>1 DEF LogOf
<1>14. Snapshot(loc[t], t)' /\ Opaque(t)'
  <2>1. Snapshot(loc[t], t)'
    BY <1>1, <1>4, <1>5 DEF Snapshot, Explains
  <2> QED
    BY <2>1 DEF Opaque, Snapshot, Explains
<1>15. start[t] <= glb'
  BY <1>1, <1>4 DEF TypeOK
<1>16. ReaderInv(t)'
  BY <1>1, <1>4, <1>7, <1>14, <1>15 DEF ReaderInv
<1> QED
  BY <1>1, <1>4, <1>6, <1>7, <1>8, <1>9, <1>10, <1>12, <1>13, <1>14, <1>16, GiveStep
  DEF ThreadInv

--------------------------------------------------------------------------------
(* The outermost norec_tx_end. *)

(* What is known of a thread there: its transaction is committed, with all  *)
(* of its writes in the pool, or has been rolled back, and has no log.      *)
LEMMA AtEnd ==
  ASSUME IInv, NEW t \in Threads, End(t)
  PROVE  /\ TypeOK /\ InTx(t) /\ tx[t] \in PmRecord /\ pc[t] = "run" /\ ~Replaying(t)
         /\ caller[t] = "none" /\ arg[t] = NoArg
         /\ tx[t].depth = 1 /\ tx[t].level = 0 /\ undo[t] = NoLog /\ frees[t] = {}
         /\ tx[t].err # "none" => own[t] = NoLog
         /\ tx[t].retry <=> tx[t].err = "restart"
         /\ Holds(t) <=> irrevoc[t]
         /\ irrevoc[t] => /\ loc[t] = glb /\ ~IsEven(glb) /\ ~lost
                          /\ hist[glb - 1] \in [Addrs -> Contents]
                          /\ mem = Overlay(hist[glb - 1], own[t], NoVal)
                          /\ Explains(glb - 1, t)
                          /\ tx[t].err # "none" => mem = hist[glb - 1]
<1>1. pc[t] = "run" /\ tx[t].depth = 1 /\ tx[t].stage = "NONE" /\ ~InWork(tx[t])
  BY DEF End, Outermost, InWork
<1>2. /\ TypeOK /\ InTx(t) /\ tx[t] \in PmRecord /\ ~Replaying(t)
      /\ caller[t] = "none" /\ arg[t] = NoArg /\ tx[t].level = 0
      /\ (tx[t].retry <=> tx[t].err = "restart")
  BY <1>1, ThreadFacts DEF ControlInv, Replaying
<1>3. undo[t] = NoLog /\ frees[t] = {} /\ (tx[t].err # "none" => own[t] = NoLog)
  BY <1>1, ThreadFacts DEF StoreInv
<1>4. Holds(t) <=> irrevoc[t]
  BY <1>2 DEF Holds
<1>5. irrevoc[t] => /\ loc[t] = glb /\ ~IsEven(glb) /\ ~lost
                    /\ hist[glb - 1] \in [Addrs -> Contents]
                    /\ mem = Overlay(hist[glb - 1], own[t], NoVal)
                    /\ Explains(glb - 1, t)
  BY <1>2, IrrevocFacts
<1>6. irrevoc[t] /\ tx[t].err # "none" => mem = hist[glb - 1]
  BY <1>3, <1>5, OverlayNone DEF NoLog
<1> QED
  BY <1>1, <1>2, <1>3, <1>4, <1>5, <1>6

(* What the end of a transaction does to t's own variables.                 *)
LEMMA EndEffect ==
  ASSUME IInv, NEW t \in Threads, End(t)
  PROVE  /\ OthersSame(t) /\ TypeOK' /\ ~InTx(t)' /\ ~Holds(t)' /\ ThreadInv(t)'
         /\ mem' = mem /\ crashes' = crashes /\ undo'[t] = undo[t] /\ pc'[t] # "seal"
<1> DEFINE r == TxEnd(tx[t])
           l == IF Retries(tx[t]) THEN "begin" ELSE "idle"
<1>1. /\ TypeOK /\ tx[t] \in PmRecord /\ tx[t].depth = 1 /\ tx[t].level = 0 /\ InTx(t)
      /\ caller[t] = "none" /\ arg[t] = NoArg /\ undo[t] = NoLog /\ frees[t] = {}
  BY AtEnd
<1>2. r \in PmRecord /\ r.stage = "NONE" /\ r.depth = 0 /\ r.level = 0
  <2>1. /\ r \in PmRecord /\ r.depth = tx[t].depth - 1
        /\ r.level = (IF tx[t].level > 0 THEN tx[t].level - 1 ELSE 0)
        /\ tx[t].depth = 1 => r.stage = "NONE"
    BY <1>1, TxEndFields
  <2> QED
    BY <1>1, <2>1
<1>3. /\ tx' = [tx EXCEPT ![t] = r] /\ pc' = [pc EXCEPT ![t] = l]
      /\ rset' = [rset EXCEPT ![t] = {}] /\ wset' = [wset EXCEPT ![t] = <<>>]
      /\ seen' = [seen EXCEPT ![t] = {}] /\ own' = [own EXCEPT ![t] = NoLog]
      /\ UNCHANGED <<mem, loc, irrevoc, caller, arg, time, todo, left, undo, frees,
                     crashes, start>>
      /\ lost' = (lost \/ (irrevoc[t] /\ tx[t].retry))
  BY DEF End, OnEnd, Goto, callVars, logVars
<1>4. l \in {"begin", "idle"}
  OBVIOUS
<1> HIDE DEF r, l
<1>5. /\ tx'[t] = r /\ pc'[t] = l /\ seen'[t] = {} /\ own'[t] = NoLog
      /\ rset'[t] = {} /\ wset'[t] = <<>>
  BY <1>1, <1>3 DEF TypeOK
<1>6. OthersSame(t)
  BY <1>1, <1>3 DEF TypeOK, OthersSame, Mine
<1>7. TypeOK'
  <2>1. /\ glb' \in Nat /\ DOMAIN hist' \subseteq Nat
        /\ \A g \in DOMAIN hist' : hist'[g] \in [Addrs -> Contents]
    <3>1. loc[t] + 1 \in Nat /\ mem \in [Addrs -> Contents]
      BY <1>1 DEF TypeOK
    <3>2. CASE glb' = loc[t] + 1 /\ Publish(loc[t] + 1, mem)
      BY <1>1, <3>1, <3>2 DEF Publish, TypeOK
    <3>3. CASE UNCHANGED <<glb, hist>>
      BY <1>1, <3>3 DEF TypeOK
    <3> QED
      BY <3>2, <3>3 DEF End, OnEnd
  <2>2. lost' \in BOOLEAN
    BY <1>3
  <2>3. own' \in [Threads -> [Addrs -> Contents \cup {NoVal}]]
    BY <1>1, <1>3 DEF TypeOK, NoLog
  <2>4. pc' \in [Threads -> Labels] /\ wset' \in [Threads -> Seq(Addrs \X Vals)]
    BY <1>1, <1>3, <1>4 DEF TypeOK, Labels
  <2> QED
    BY <1>1, <1>2, <1>3, <2>1, <2>2, <2>3, <2>4 DEF TypeOK
<1>8. ~InTx(t)' /\ ~Holds(t)' /\ ~Replaying(t)'
  BY <1>2, <1>4, <1>5 DEF InTx, Holds, Replaying
<1>9. ControlInv(t)'
  BY <1>1, <1>2, <1>3, <1>4, <1>5, <1>8 DEF ControlInv, InWork
<1>10. SetsInv(t)'
  BY <1>1, <1>3, <1>5, <1>8 DEF SetsInv, NoLog
<1>11. LogOf(t)' /\ StoreInv(t)' /\ ReaderInv(t)' /\ Opaque(t)'
  BY <1>1, <1>3, <1>4, <1>5, <1>8 DEF LogOf, StoreInv, ReaderInv, Opaque, NoLog
<1> QED
  BY <1>3, <1>4, <1>5, <1>6, <1>7, <1>8, <1>9, <1>10, <1>11 DEF ThreadInv

(* norec_on_end's test (retry, then irrevoc and the parity of loc) releases *)
(* the lock only if t holds it; a restart leaves it behind.                 *)
LEMMA EndStep ==
  ASSUME IInv, NEW t \in Threads, End(t)
  PROVE  IInv'
<1>1. /\ OthersSame(t) /\ TypeOK' /\ ~Holds(t)' /\ ThreadInv(t)'
      /\ mem' = mem /\ undo'[t] = undo[t] /\ undo[t] = NoLog
      /\ pc[t] = "run" /\ pc'[t] # "seal" /\ TypeOK /\ (Holds(t) <=> irrevoc[t])
  BY AtEnd, EndEffect
<1>2. lost' = (lost \/ (irrevoc[t] /\ tx[t].retry))
  BY DEF End
<1>3. CASE irrevoc[t] /\ ~tx[t].retry
  <2>1. loc[t] = glb /\ ~IsEven(loc[t]) /\ ~lost
    BY <1>3, AtEnd
  <2>2. glb' = glb + 1 /\ Publish(glb + 1, mem)
    BY <1>3, <2>1 DEF End, OnEnd
  <2>3. lost' = lost
    BY <1>2, <1>3, <2>1, <1>1 DEF TypeOK
  <2> QED
    BY <1>1, <1>3, <2>2, <2>3, GiveStep
<1>4. CASE irrevoc[t] /\ tx[t].retry
  <2>1. UNCHANGED <<glb, hist>> /\ lost'
    BY <1>2, <1>4 DEF End, OnEnd
  <2>2. mem = hist[glb - 1] /\ mem \in [Addrs -> Contents]
    BY <1>4, AtEnd, ThreadFacts
  <2>3. Overlay(mem, NoLog, NoVal) = mem
    BY <2>2, OverlayNone DEF NoLog
  <2> QED
    BY <1>1, <1>4, <2>1, <2>2, <2>3, LoseStep
<1>5. CASE ~irrevoc[t]
  <2>1. UNCHANGED <<glb, hist>>
    BY <1>5 DEF End, OnEnd
  <2>2. lost' = lost
    BY <1>1, <1>2, <1>5 DEF TypeOK
  <2> QED
    BY <1>1, <1>5, <2>1, <2>2, QuietStep
<1> QED
  BY <1>3, <1>4, <1>5

--------------------------------------------------------------------------------
(* A crash. *)

(* What recovery makes of the pool: a location goes back to what the one    *)
(* transaction that has logged it holds.                                    *)
LEMMA RecoverEffect ==
  ASSUME IInv, NEW order \in SetToSeqs(Threads)
  PROVE  /\ Recovered(order) \in [Addrs -> Contents]
         /\ \A a \in Addrs : (\A s \in Threads : undo[s][a] = NoVal) =>
              Recovered(order)[a] = mem[a]
         /\ \A t \in Threads, a \in Addrs :
              (\A s \in Threads : s # t => undo[s][a] = NoVal) =>
                 Recovered(order)[a] = Overlay(mem, undo[t], NoVal)[a]
<1> DEFINE logs == [i \in DOMAIN order |-> undo[order[i]]]
<1>1. mem \in [Addrs -> Contents] /\ undo \in [Threads -> [Addrs -> Contents \cup {NoVal}]]
  BY DEF IInv, TypeOK
<1>0. DOMAIN mem = Addrs
  BY <1>1
<1>2. Recovered(order) = Recover(mem, logs, NoVal)
  BY DEF Recovered
<1>3. /\ DOMAIN order \subseteq Nat /\ IsFiniteSet(DOMAIN order)
      /\ \A i \in DOMAIN order : order[i] \in Threads
      /\ \A t \in Threads : \E i \in DOMAIN order :
           order[i] = t /\ \A j \in DOMAIN order : j # i => order[j] # t
  BY ConstAssumption, EveryLane
<1>4. DOMAIN logs = DOMAIN order /\ \A i \in DOMAIN order : logs[i] = undo[order[i]]
  OBVIOUS
<1> HIDE DEF logs
<1>5. \A i \in DOMAIN logs : logs[i] \in [Addrs -> Contents \cup {NoVal}]
  BY <1>1, <1>3, <1>4
<1>6. Recover(mem, logs, NoVal) \in [Addrs -> Contents]
  BY <1>1, <1>3, <1>4, <1>5, RecoverType
<1>7. ASSUME NEW a \in Addrs, \A s \in Threads : undo[s][a] = NoVal
      PROVE  Recover(mem, logs, NoVal)[a] = mem[a]
  <2>1. \A i \in DOMAIN logs : logs[i][a] = NoVal
    BY <1>3, <1>4, <1>7
  <2> QED
    BY <1>0, <2>1, RecoverUnlogged
<1>8. ASSUME NEW t \in Threads, NEW a \in Addrs,
             \A s \in Threads : s # t => undo[s][a] = NoVal
      PROVE  Recover(mem, logs, NoVal)[a] = Overlay(mem, undo[t], NoVal)[a]
  <2>1. PICK i \in DOMAIN order :
          order[i] = t /\ \A j \in DOMAIN order : j # i => order[j] # t
    BY <1>3
  <2>2. i \in DOMAIN logs /\ logs[i] = undo[t]
    BY <1>4, <2>1
  <2>3. \A j \in DOMAIN logs : j # i => logs[j][a] = NoVal
    BY <1>3, <1>4, <1>8, <2>1
  <2>4. Recover(mem, logs, NoVal)[a] = IF logs[i][a] = NoVal THEN mem[a] ELSE logs[i][a]
    BY <1>0, <2>2, <2>3, RecoverAt
  <2> QED
    BY <1>1, <2>2, <2>4 DEF Overlay
<1> QED
  BY <1>2, <1>6, <1>7, <1>8

(* After a crash the pool is a version, and nobody runs.                    *)
LEMMA CrashStep == IInv /\ Crash => IInv'
<1> SUFFICES ASSUME IInv, Crash PROVE IInv'
  OBVIOUS
<1>1. TypeOK /\ mem' \in [Addrs -> Contents]
  BY RecoverEffect DEF Crash, IInv
<1>2. TypeOK'
  <2>1. glb' \in Nat /\ crashes' \in 0..MaxCrashes
    BY <1>1, ConstAssumption DEF Crash, TypeOK
  <2>2. lost' \in BOOLEAN
    BY DEF Crash
  <2>3. /\ tx' \in [Threads -> PmRecord] /\ loc' \in [Threads -> Nat]
        /\ irrevoc' \in [Threads -> BOOLEAN] /\ rset' \in [Threads -> SUBSET Entries]
        /\ pc' \in [Threads -> Labels] /\ time' \in [Threads -> Nat]
        /\ caller' \in [Threads -> {"none", "read", "commit", "irrevoc", "free"}]
        /\ arg' \in [Threads -> Entries \cup {NoArg}]
        /\ todo' \in [Threads -> SUBSET Entries] /\ start' \in [Threads -> Nat]
        /\ seen' \in [Threads -> SUBSET Entries]
    BY TxIdleFields DEF Crash, Labels
  <2>4. /\ wset' \in [Threads -> Seq(Addrs \X Vals)]
        /\ left' \in [Threads -> Seq(Addrs \X Vals)]
    BY DEF Crash
  <2>5. /\ undo' \in [Threads -> [Addrs -> Contents \cup {NoVal}]]
        /\ frees' \in [Threads -> SUBSET Addrs]
        /\ own' \in [Threads -> [Addrs -> Contents \cup {NoVal}]]
    BY DEF Crash, NoLog
  <2>6. /\ DOMAIN hist' \subseteq Nat
        /\ \A g \in DOMAIN hist' : hist'[g] \in [Addrs -> Contents]
    BY <1>1 DEF Crash
  <2> QED
    BY <1>1, <2>1, <2>2, <2>3, <2>4, <2>5, <2>6 DEF TypeOK
<1>3. IsEven(0) /\ Even(0) = 0
  BY DEF IsEven, Even
<1>4. LockInv' /\ HistoryInv' /\ LostInv'
  BY <1>3 DEF Crash, LockInv, HistoryInv, LostInv
<1>5. ASSUME NEW t \in Threads PROVE ThreadInv(t)' /\ ~Holds(t)'
  <2>1. /\ tx'[t] = TxIdle /\ pc'[t] = "idle" /\ caller'[t] = "none" /\ arg'[t] = NoArg
        /\ rset'[t] = {} /\ wset'[t] = <<>> /\ seen'[t] = {}
        /\ undo'[t] = NoLog /\ own'[t] = NoLog /\ frees'[t] = {}
        /\ tx'[t].stage = "NONE" /\ tx'[t].depth = 0 /\ tx'[t].level = 0
    BY TxIdleFields DEF Crash
  <2>2. ~InTx(t)' /\ ~Holds(t)' /\ ~Replaying(t)'
    BY <2>1 DEF InTx, Holds, Replaying
  <2>3. ControlInv(t)'
    BY <2>1, <2>2 DEF ControlInv, InWork
  <2>4. SetsInv(t)'
    BY <2>1, <2>2 DEF SetsInv, NoLog
  <2>5. LogOf(t)' /\ StoreInv(t)' /\ ReaderInv(t)' /\ Opaque(t)'
    BY <2>1, <2>2 DEF LogOf, StoreInv, ReaderInv, Opaque, NoLog
  <2> QED
    BY <2>2, <2>3, <2>4, <2>5 DEF ThreadInv
<1> QED
  BY <1>2, <1>4, <1>5 DEF IInv, OneHolder

--------------------------------------------------------------------------------
(* A step that changes nothing.                                             *)
LEMMA StutterStep == IInv /\ UNCHANGED vars => IInv'
<1> SUFFICES ASSUME IInv, UNCHANGED vars PROVE IInv'
  OBVIOUS
<1>1. UNCHANGED <<glb, mem, tx, loc, irrevoc, rset, wset, pc, caller, arg, time, todo, left,
                  undo, frees, crashes, hist, start, seen, own, lost>>
  BY DEF vars
<1>2. TypeOK /\ LockInv /\ HistoryInv /\ OneHolder /\ LostInv
  BY DEF IInv
<1>3. TypeOK'
  BY <1>1, <1>2 DEF TypeOK
<1>4. \A t \in Threads : Holds(t)' <=> Holds(t)
  BY <1>1 DEF Holds, InTx, Replaying
<1>5. LockInv' /\ HistoryInv' /\ OneHolder' /\ LostInv'
  BY <1>1, <1>2, <1>4 DEF LockInv, HistoryInv, OneHolder, LostInv, Sealing, NoLog
<1>6. ASSUME NEW t \in Threads PROVE ThreadInv(t)'
  <2>1. Mine(t)' = Mine(t)
    BY <1>1 DEF Mine
  <2>2. glb \in Nat /\ glb' = glb /\ mem' = mem /\ hist' = hist /\ lost' = lost
    BY <1>1, <1>2 DEF TypeOK
  <2> QED
    BY <2>1, <2>2, OthersInv
<1> QED
  BY <1>3, <1>5, <1>6 DEF IInv

(* Every step keeps the invariant.                                          *)
LEMMA NextInv == IInv /\ [Next]_vars => IInv'
<1> SUFFICES ASSUME IInv, [Next]_vars PROVE IInv'
  OBVIOUS
<1>1. ASSUME NEW t \in Threads, Client(t) PROVE IInv'
  BY <1>1, BeginNestedStep, ReadStep, FreeStep, WriteStep, IrrevocStep, UserAbortStep,
     UserRestartStep, CommitStep DEF Client
<1>2. ASSUME NEW t \in Threads, Library(t) PROVE IInv'
  BY <1>2, BeginStep, PrevalidateStep, ReloadStep, SampleTimeStep, CompareStep, RecheckStep,
     SwapSucceedsStep, SwapFailsStep, RedoStep, RedoFailsStep, ReleaseStep, SealStep,
     BecomeIrrevocStep, ProcessStep, EndNestedStep, EndStep DEF Library
<1> QED
  BY <1>1, <1>2, CrashStep, StutterStep DEF Next, Finished

(* IInv is an invariant of the specification.                               *)
THEOREM Invariance == Spec => []IInv
<1> QED
  BY InitInv, NextInv, PTL DEF Spec

(* pmemobj_tx_add_range_direct before every copy and store, the roll back   *)
(* and pmemobj_tx_commit: the log of the transaction with the lock leads    *)
(* back to the last version, that of one that has released the lock to the  *)
(* version before its own, and nobody else has one.                         *)
THEOREM LogRestoresLastVersion == Spec => []LogRestoresVersion
<1>1. IInv => LogRestoresVersion
  BY DEF IInv, LogRestoresVersion, ThreadInv
<1> QED
  BY <1>1, Invariance, PTL

(* Opacity: what NOREC_READ hands over in one transaction, also one that    *)
(* will be aborted, is one version's.                                       *)
THEOREM Opacity == Spec => []ReadsAreOneVersion
<1>1. IInv => ReadsAreOneVersion
  BY DEF IInv, ReadsAreOneVersion, ThreadInv
<1> QED
  BY <1>1, Invariance, PTL

--------------------------------------------------------------------------------
(* What is published, and what a crash leaves. *)

(* Only norec_tx_commit and norec_on_end make the lock even.                *)
LEMMA OnlyHoldersRelease ==
  ASSUME IInv, Next, crashes' = crashes, glb' # glb, IsEven(glb')
  PROVE  \E t \in Threads : Release(t) \/ End(t)
<1>1. ~Crash /\ ~Finished
  BY DEF Crash, Finished, vars, IInv, TypeOK
<1>2. PICK t \in Threads : Client(t) \/ Library(t)
  BY <1>1 DEF Next
<1>3. ~Client(t)
  BY DEF Client, BeginNested, Read, Free, Write, Irrevoc, UserAbort, UserRestart, Commit,
         lockVars
<1>4. ~CompareAndSwap(t)
  <2> SUFFICES ASSUME CompareAndSwap(t) PROVE FALSE
    OBVIOUS
  <2>1. glb = loc[t] /\ glb' = glb + 1 /\ glb \in Nat
    BY ThreadFacts DEF CompareAndSwap
  <2>2. caller[t] # "none" /\ pc[t] = "cas"
    BY CallsHaveCallers DEF CompareAndSwap
  <2>3. IsEven(glb)
    BY <2>1, <2>2, InCallFacts, MemoryAtLoc
  <2> QED
    BY <2>1, <2>3, Parity
<1>5. CASE Library(t)
  BY <1>4, <1>5 DEF Library, Begin, Prevalidate, Reload, SampleTime, Compare, Recheck, Redo,
     RedoFails, Seal, BecomeIrrevoc, Process, EndNested, lockVars
<1> QED
  BY <1>2, <1>3, <1>5

(* A release publishes the version before with all of the holder's writes   *)
(* and frees, or, after an abort, that version itself.                      *)
LEMMA PublishLemma == IInv /\ [Next]_vars => PublishStep
<1> SUFFICES ASSUME IInv, [Next]_vars, crashes' = crashes, glb' # glb, IsEven(glb')
             PROVE  \E t \in Threads :
                      /\ Holds(t) /\ ~Holds(t)' /\ glb' = glb + 1
                      /\ hist'[glb'] = IF tx[t].err = "none"
                                       THEN Overlay(hist[glb - 1], own[t], NoVal)
                                       ELSE hist[glb - 1]
                      /\ Explains(glb - 1, t)
  BY DEF PublishStep
<1>1. PICK t \in Threads : Release(t) \/ End(t)
  BY OnlyHoldersRelease DEF vars
<1>2. CASE Release(t)
  <2>1. /\ pc[t] = "redo" /\ left[t] = <<>> /\ Holds(t) /\ TypeOK /\ ~irrevoc[t]
        /\ Replaying(t) /\ tx[t].err = "none" /\ Snapshot(loc[t], t)
        /\ glb = loc[t] + 1 /\ loc[t] = glb - 1 /\ glb \in Nat
        /\ mem = Overlay(hist[glb - 1], Copied(t), NoVal)
    BY <1>2, ReplayFacts DEF Release
  <2>2. loc[t] + 2 = glb + 1
    BY <2>1
  <2>3. /\ glb' = glb + 1 /\ Publish(glb + 1, mem) /\ pc' = [pc EXCEPT ![t] = "seal"]
        /\ irrevoc' = irrevoc
    BY <1>2, <2>2 DEF Release, Goto
  <2>4. hist'[glb'] = mem
    BY <2>3 DEF Publish
  <2>5. Copied(t) = own[t]
    <3>1. Copied(t) = [a \in Addrs |-> own[t][a]]
      BY <2>1 DEF Copied
    <3> QED
      BY <3>1, ThreadFacts
  <2>6. ~Holds(t)'
    BY <2>1, <2>3 DEF Holds, Replaying, TypeOK
  <2> QED
    BY <2>1, <2>3, <2>4, <2>5, <2>6 DEF Snapshot
<1>3. CASE End(t)
  <2>1. irrevoc[t] /\ ~tx[t].retry
    BY <1>3 DEF End, OnEnd
  <2>2. /\ Holds(t) /\ loc[t] = glb /\ ~IsEven(loc[t]) /\ Explains(glb - 1, t)
        /\ mem = Overlay(hist[glb - 1], own[t], NoVal)
        /\ tx[t].err # "none" => mem = hist[glb - 1]
    BY <1>3, <2>1, AtEnd
  <2>3. glb' = glb + 1 /\ Publish(glb + 1, mem)
    BY <1>3, <2>1, <2>2 DEF End, OnEnd
  <2>4. hist'[glb'] = mem
    BY <2>3 DEF Publish
  <2>5. ~Holds(t)'
    BY <1>3, EndEffect
  <2> QED
    BY <2>2, <2>3, <2>4, <2>5
<1> QED
  BY <1>1, <1>2, <1>3

(* The replay, or the stores in place, then the release: all, or nothing.   *)
THEOREM AllOrNothing == Spec => PublishesAllOrNothing
<1> QED
  BY Invariance, PublishLemma, PTL DEF Spec, PublishesAllOrNothing

(* Only Crash counts a crash.                                               *)
LEMMA OnlyCrashCounts ==
  ASSUME [Next]_vars, crashes' # crashes
  PROVE  Crash
<1>1. ~Finished /\ ~UNCHANGED vars
  BY DEF Finished, vars
<1>2. ASSUME NEW t \in Threads PROVE ~Client(t)
  BY DEF Client, BeginNested, Read, Free, Write, Irrevoc, UserAbort, UserRestart, Commit
<1>3. ASSUME NEW t \in Threads PROVE ~Library(t)
  BY DEF Library, Begin, Prevalidate, Reload, SampleTime, Compare, Recheck, CompareAndSwap,
     Redo, RedoFails, Release, Seal, BecomeIrrevoc, Process, EndNested, End
<1> QED
  BY <1>1, <1>2, <1>3 DEF Next

(* A thread that has neither the lock nor a commit to make durable has a    *)
(* log only if it has lost the lock.                                        *)
LEMMA NoLogElsewhere ==
  ASSUME IInv, ~lost, NEW t \in Threads, ~Holds(t), pc[t] # "seal"
  PROVE  undo[t] = NoLog
BY ThreadFacts DEF LogOf

(* At a location that no commit waiting to be durable has logged, recovery  *)
(* finds at most the log of the holder, or of the one that lost the lock.   *)
LEMMA RecoversElsewhere ==
  ASSUME IInv, NEW order \in SetToSeqs(Threads), NEW a \in Addrs,
         \A t \in Sealing : undo[t][a] = NoVal
  PROVE  Recovered(order)[a] = Latest[a]
<1> DEFINE done == {t \in Threads : Holds(t) /\ Committed(t)}
<1>1. Latest = IF IsEven(glb) THEN hist[glb]
               ELSE IF done = {} THEN hist[glb - 1]
               ELSE Overlay(hist[glb - 1], own[CHOOSE t \in done : TRUE], NoVal)
  BY DEF Latest
<1>2. TypeOK /\ LockInv /\ LostInv /\ mem \in [Addrs -> Contents]
  BY DEF IInv, TypeOK
<1>3. \A t \in Threads : pc[t] = "seal" => undo[t][a] = NoVal
  BY DEF Sealing
<1>4. NoLog[a] = NoVal
  BY DEF NoLog
<1>5. \A t \in Threads : Holds(t) => ~IsEven(glb) /\ ~lost
  BY ThreadFacts DEF LogOf
<1>6. CASE IsEven(glb)
  <2>1. \A s \in Threads : ~Holds(s) /\ ~lost
    BY <1>2, <1>5, <1>6 DEF LockInv
  <2>2. \A s \in Threads : undo[s][a] = NoVal
    BY <1>3, <1>4, <2>1, NoLogElsewhere
  <2>3. Recovered(order)[a] = mem[a]
    BY <2>2, RecoverEffect
  <2> QED
    BY <1>1, <1>2, <1>6, <2>3 DEF LockInv
<1>7. ASSUME NEW t \in Threads, Holds(t) PROVE Recovered(order)[a] = Latest[a]
  <2>1. \A s \in Threads : s # t => ~Holds(s)
    BY <1>7 DEF IInv, OneHolder
  <2>2. ~IsEven(glb) /\ ~lost /\ hist[glb - 1] \in [Addrs -> Contents]
    BY <1>5, <1>7, VersionBelow
  <2>3. \A s \in Threads : s # t => undo[s][a] = NoVal
    BY <1>3, <1>4, <2>1, <2>2, NoLogElsewhere
  <2>4. Recovered(order)[a] = Overlay(mem, undo[t], NoVal)[a]
    BY <2>3, RecoverEffect
  <2>5. /\ mem = Overlay(hist[glb - 1], Copied(t), NoVal)
        /\ Committed(t) \/ Overlay(mem, undo[t], NoVal) = hist[glb - 1]
    BY <1>7, ThreadFacts DEF LogOf
  <2>6. CASE Committed(t)
    <3>1. ~Replaying(t)
      BY <2>6, ReplayFacts DEF Replaying
    <3>2. InTx(t) /\ irrevoc[t]
      BY <1>7, <3>1 DEF Holds
    <3>3. undo[t] = NoLog
      BY <2>6, ThreadFacts DEF StoreInv, Committed, Outermost
    <3>4. Copied(t) = own[t]
      BY <3>1, CopiedIsOwn, ThreadFacts
    <3>5. Overlay(mem, undo[t], NoVal) = mem
      BY <1>2, <3>3, OverlayNone DEF NoLog
    <3>6. done = {t}
      BY <1>7, <2>1, <2>6
    <3>7. (CHOOSE s \in {t} : TRUE) = t
      OBVIOUS
    <3> HIDE DEF done
    <3> QED
      BY <1>1, <2>2, <2>4, <2>5, <3>4, <3>5, <3>6, <3>7
  <2>7. CASE ~Committed(t)
    <3>1. done = {}
      BY <2>1, <2>7
    <3> HIDE DEF done
    <3> QED
      BY <1>1, <2>2, <2>4, <2>5, <2>7, <3>1
  <2> QED
    BY <2>6, <2>7
<1>8. CASE ~IsEven(glb) /\ \A t \in Threads : ~Holds(t)
  <2>1. lost
    BY <1>2, <1>8 DEF LockInv
  <2>2. PICK w \in Threads :
          /\ pc[w] # "seal"
          /\ Overlay(mem, undo[w], NoVal) = hist[glb - 1]
          /\ \A s \in Threads : s # w /\ pc[s] # "seal" => undo[s] = NoLog
    BY <1>2, <2>1 DEF LostInv
  <2>3. \A s \in Threads : s # w => undo[s][a] = NoVal
    BY <1>3, <1>4, <2>2
  <2>4. Recovered(order)[a] = Overlay(mem, undo[w], NoVal)[a]
    BY <2>3, RecoverEffect
  <2>5. done = {}
    BY <1>8
  <2> HIDE DEF done
  <2> QED
    BY <1>1, <1>8, <2>2, <2>4, <2>5
<1> QED
  BY <1>6, <1>7, <1>8

(* If only one commit waits to be durable, and nobody has taken the lock    *)
(* since, recovery undoes it.                                               *)
LEMMA RecoversBefore ==
  ASSUME IInv, NEW order \in SetToSeqs(Threads), NEW t \in Threads,
         Sealing = {t}, glb = loc[t] + 2
  PROVE  Recovered(order) = hist[loc[t]]
<1>1. /\ TypeOK /\ LockInv /\ HistoryInv /\ pc[t] = "seal" /\ loc[t] \in Nat
      /\ loc[t] \in DOMAIN hist /\ hist[loc[t]] \in [Addrs -> Contents]
  <2>1. pc[t] = "seal"
    BY DEF Sealing
  <2>2. /\ TypeOK /\ LockInv /\ HistoryInv /\ loc[t] \in Nat /\ loc[t] \in DOMAIN hist
    BY <2>1, ThreadFacts DEF StoreInv
  <2> QED
    BY <2>1, <2>2 DEF TypeOK
<1>2. IsEven(glb)
  BY <1>1 DEF HistoryInv, IsEven
<1>3. \A s \in Threads : ~Holds(s) /\ ~lost
  BY <1>1, <1>2, ThreadFacts DEF LogOf, LockInv
<1>4. Overlay(hist[loc[t] + 2], undo[t], NoVal) = hist[loc[t]]
  BY <1>1, <1>3, ThreadFacts DEF LogOf
<1>5. mem = hist[loc[t] + 2]
  BY <1>1, <1>2 DEF LockInv
<1>6. \A s \in Threads : s # t => undo[s] = NoLog
  BY <1>3, NoLogElsewhere DEF Sealing
<1>7. ASSUME NEW a \in Addrs PROVE Recovered(order)[a] = hist[loc[t]][a]
  <2>1. \A s \in Threads : s # t => undo[s][a] = NoVal
    BY <1>6 DEF NoLog
  <2>2. Recovered(order)[a] = Overlay(mem, undo[t], NoVal)[a]
    BY <2>1, RecoverEffect
  <2> QED
    BY <1>4, <1>5, <2>2
<1>8. Recovered(order) \in [Addrs -> Contents]
  BY RecoverEffect
<1> QED
  BY <1>1, <1>7, <1>8

(* What recovery finds after a crash at any step.                           *)
LEMMA RecoverLemma == IInv /\ [Next]_vars => RecoverStep
<1> SUFFICES ASSUME IInv, [Next]_vars, crashes' # crashes
             PROVE  /\ \A a \in Addrs :
                         (\A t \in Sealing : undo[t][a] = NoVal) => mem'[a] = Latest[a]
                    /\ \A t \in Threads : Sealing = {t} /\ glb = loc[t] + 2 =>
                         mem' = hist[loc[t]]
  BY DEF RecoverStep
<1>1. PICK order \in SetToSeqs(Threads) : mem' = Recovered(order)
  BY OnlyCrashCounts DEF Crash
<1> QED
  BY <1>1, RecoversElsewhere, RecoversBefore

(* pmemobj_open after a crash at any step: the pool is the last version, or *)
(* that one with all of a transaction that committed, but for the locations *)
(* that a transaction had written that released the lock, and would have    *)
(* made its writes durable next.                                            *)
THEOREM CrashRecovery == Spec => RecoversAllButUnsealed
<1> QED
  BY Invariance, RecoverLemma, PTL DEF Spec, RecoversAllButUnsealed
================================================================================
