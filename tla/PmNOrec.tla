-------------------------------- MODULE PmNOrec --------------------------------
(***************************************************************************)
(* NOrec in persistent memory: pmdk_stms/algs/norec/norec.c and the access *)
(* macros of norec.h, over the transactions of libpmemobj.                 *)
(*                                                                         *)
(* Reads, validation and the CAS loop are those of the volatile NOrec; the *)
(* replay of the write set logs each location before it stores.  The two   *)
(* new orders of events: a commit gives the lock back first ("seal" is     *)
(* where the thread then stands) and makes its transaction durable second, *)
(* and a log that finds no room during the replay aborts a transaction     *)
(* that has the lock but is not yet marked irrevocable.  One action is one *)
(* access to shared memory; glb stays far below 2^31 (see NOrec).          *)
(***************************************************************************)
EXTENDS PmTx, FiniteSets

CONSTANTS
  Threads,         \* threads that have called NOREC_ENTER
  Addrs,           \* locations of the pool the transactions access
  Vals,            \* values the client writes
  Junk,            \* what a location holds once its object has been freed
  NoVal,           \* "not written", "not logged"
  InitVal,         \* initial content of every location
  MaxDepth,        \* bound: deepest nesting of transaction blocks
  MaxGlb,          \* bound: no new transaction starts once glb reaches it
                   \* (a crash counts as one version)
  MaxUses,         \* bound: locations read, written and freed by a transaction
  MaxCrashes       \* bound: crashes

ASSUME ConstAssumption ==
  /\ IsFiniteSet(Threads)
  /\ MaxDepth \in Nat \ {0}
  /\ MaxGlb \in Nat
  /\ MaxUses \in Nat
  /\ MaxCrashes \in Nat
  /\ Junk \notin Vals \cup {InitVal}
  /\ NoVal \notin Vals \cup {Junk, InitVal}

Contents == Vals \cup {Junk, InitVal}

IsEven(n) == n % 2 = 0

Even(n) == n - (n % 2)

VARIABLES
  glb,       \* the global sequence lock, not persistent
  mem,       \* the pool
  tx,        \* tx[t]: struct tx and libpmemobj's transaction of thread t
  loc,       \* loc[t]: struct tx_meta, the value of glb t runs on
  irrevoc,   \* irrevoc[t]: struct tx_meta, t reads and writes in place
  rset,      \* rset[t]: read_set, the <<location, value>> pairs t has read
  wset,      \* wset[t]: write_set, the sequence of <<location, value>>
  pc,        \* where t stands inside the library
  caller,    \* caller[t]: what norec_validate and the CAS loop return to
  arg,       \* arg[t]: <<location, value>> of the access in progress
  time,      \* time[t]: local variable of norec_validate
  todo,      \* todo[t]: entries of rset not yet compared in this pass
  left,      \* left[t]: entries of wset persist_redo_wrset has not yet copied
  undo,      \* undo[t]: the undo log of t's lane
  frees,     \* frees[t]: the objects t's commit will free
  crashes,   \* how often the machine has crashed
  \* history: read by the properties and by the client's discipline only
  hist,      \* hist[g]: the pool when glb became the even number g
  start,     \* start[t]: the newest version when t's transaction began
  seen,      \* seen[t]: <<location, value>> pairs of the pool handed out
  own,       \* own[t]: what t's transaction did to each location, or NoVal
  lost       \* the lock has been left behind by a transaction that ended

callVars == <<caller, arg, time, todo, left>>
setVars  == <<rset, wset>>
logVars  == <<undo, frees>>
lockVars == <<glb, loc, irrevoc>>
histVars == <<hist, start, seen, own, lost>>
vars     == <<glb, mem, tx, loc, irrevoc, rset, wset, pc, caller, arg, time, todo,
              left, undo, frees, crashes, hist, start, seen, own, lost>>

NoArg == <<>>
NoLog == [a \in Addrs |-> NoVal]

Init ==
  /\ glb     = 0
  /\ mem     = [a \in Addrs |-> InitVal]
  /\ tx      = [t \in Threads |-> TxIdle]
  /\ loc     = [t \in Threads |-> 0]
  /\ irrevoc = [t \in Threads |-> FALSE]
  /\ rset    = [t \in Threads |-> {}]
  /\ wset    = [t \in Threads |-> <<>>]
  /\ pc      = [t \in Threads |-> "idle"]
  /\ caller  = [t \in Threads |-> "none"]
  /\ arg     = [t \in Threads |-> NoArg]
  /\ time    = [t \in Threads |-> 0]
  /\ todo    = [t \in Threads |-> {}]
  /\ left    = [t \in Threads |-> <<>>]
  /\ undo    = [t \in Threads |-> NoLog]
  /\ frees   = [t \in Threads |-> {}]
  /\ crashes = 0
  /\ hist    = [g \in {0} |-> [a \in Addrs |-> InitVal]]
  /\ start   = [t \in Threads |-> 0]
  /\ seen    = [t \in Threads |-> {}]
  /\ own     = [t \in Threads |-> NoLog]
  /\ lost    = FALSE

--------------------------------------------------------------------------------
(* The client only follows pointers to objects that are allocated in some   *)
(* version that explains all it has read, and that it has not freed itself. *)
Explains(g, t) == \A p \in seen[t] : hist[g][p[1]] = p[2]

Uses(t) == Cardinality(seen[t]) + Cardinality({a \in Addrs : own[t][a] # NoVal})
             + Cardinality(frees[t])

CanUse(t, a) ==
  /\ Uses(t) < MaxUses
  /\ a \notin frees[t]
  /\ \E g \in DOMAIN hist :
       g >= start[t] /\ Explains(g, t) /\ Overlay(hist[g], own[t], NoVal)[a] # Junk

AtLimit == glb + 2 * crashes >= MaxGlb

AtWork(t) == pc[t] = "run" /\ InWork(tx[t])

Goto(t, label) == pc' = [pc EXCEPT ![t] = label]

InTx(t) == tx[t].depth > 0

Replaying(t) == pc[t] = "redo"

(* Has the lock and will give it back: replays its writes, or is            *)
(* irrevocable.                                                             *)
Holds(t) == Replaying(t) \/ (InTx(t) /\ irrevoc[t])

(* Return to the client's code, or longjmp into the innermost block's loop. *)
Leave(t) ==
  /\ Goto(t, "run")
  /\ caller' = [caller EXCEPT ![t] = "none"]
  /\ arg'    = [arg EXCEPT ![t] = NoArg]
  /\ time'   = [time EXCEPT ![t] = 0]
  /\ todo'   = [todo EXCEPT ![t] = {}]
  /\ left'   = [left EXCEPT ![t] = <<>>]

Hand(t, a, v) ==
  seen' = [seen EXCEPT ![t] = IF own[t][a] = NoVal THEN @ \cup {<<a, v>>} ELSE @]

--------------------------------------------------------------------------------
(* libpmemobj, as in PmTML. *)

Discard(t) ==
  /\ undo' = [undo EXCEPT ![t] = NoLog]
  /\ frees' = [frees EXCEPT ![t] = {}]

RollBack(t) ==
  /\ mem' = Overlay(mem, undo[t], NoVal)
  /\ own' = [own EXCEPT ![t] = NoLog]
  /\ Discard(t)

AbortTo(t, x) ==   \* pmemobj_tx_abort, and the longjmp
  /\ tx' = [tx EXCEPT ![t] = x]
  /\ Leave(t)
  /\ IF Outermost(tx[t]) THEN RollBack(t) ELSE UNCHANGED <<mem, own, logVars>>

Reclaim(t, m) == [a \in Addrs |-> IF a \in frees[t] THEN Junk ELSE m[a]]

PmCommit(t) ==   \* pmemobj_tx_commit
  /\ tx' = [tx EXCEPT ![t] = TxCommit(tx[t])]
  /\ IF Outermost(tx[t])
     THEN /\ mem' = Reclaim(t, mem)
          /\ own' = [own EXCEPT ![t] = Reclaim(t, @)]
          /\ Discard(t)
     ELSE UNCHANGED <<mem, own, logVars>>

--------------------------------------------------------------------------------
(* norec_tx_begin *)

BeginOnOdd(t) ==   \* mutant: glb is not rounded down
  /\ pc[t] = "begin" \/ (pc[t] = "idle" /\ ~AtLimit)
  /\ irrevoc' = [irrevoc EXCEPT ![t] = FALSE]
  /\ loc' = [loc EXCEPT ![t] = glb]
  /\ tx' = [tx EXCEPT ![t] = TxBegin(tx[t])]
  /\ start' = [start EXCEPT ![t] = Even(glb)]
  /\ Goto(t, "run")
  /\ UNCHANGED <<glb, mem, callVars, setVars, logVars, crashes, hist, seen, own, lost>>

Begin(t) ==
  /\ pc[t] = "begin" \/ (pc[t] = "idle" /\ ~AtLimit)
  /\ irrevoc' = [irrevoc EXCEPT ![t] = FALSE]
  /\ loc' = [loc EXCEPT ![t] = Even(glb)]
  /\ tx' = [tx EXCEPT ![t] = TxBegin(tx[t])]
  /\ start' = [start EXCEPT ![t] = Even(glb)]
  /\ Goto(t, "run")
  /\ UNCHANGED <<glb, mem, callVars, setVars, logVars, crashes, hist, seen, own, lost>>

BeginNested(t) ==
  /\ AtWork(t)
  /\ tx[t].depth < MaxDepth
  /\ tx' = [tx EXCEPT ![t] = TxBegin(tx[t])]
  /\ UNCHANGED <<lockVars, mem, pc, callVars, setVars, logVars, crashes, histVars>>

--------------------------------------------------------------------------------
(* NOREC_READ *)

InWset(t, a) == \E i \in DOMAIN wset[t] : wset[t][i][1] = a

Read(t, a) ==
  /\ AtWork(t)
  /\ CanUse(t, a)
  /\ \/ /\ irrevoc[t]
        /\ Hand(t, a, mem[a])
        /\ UNCHANGED <<pc, arg, caller>>
     \/ /\ ~irrevoc[t] /\ InWset(t, a)
        /\ UNCHANGED <<pc, arg, caller, seen>>
     \/ /\ ~irrevoc[t] /\ ~InWset(t, a)
        /\ arg' = [arg EXCEPT ![t] = <<a, mem[a]>>]
        /\ caller' = [caller EXCEPT ![t] = "read"]
        /\ Goto(t, "prevalidate")
        /\ UNCHANGED seen
  /\ UNCHANGED <<lockVars, mem, tx, time, todo, left, setVars, logVars, crashes,
                 hist, start, own, lost>>

(* norec_prevalidate, and norec_rdset_add when nothing has moved. *)
Prevalidate(t) ==
  /\ pc[t] = "prevalidate"
  /\ \/ /\ loc[t] # glb
        /\ Goto(t, "validate")
        /\ UNCHANGED <<callVars, rset, seen>>
     \/ /\ loc[t] = glb
        /\ rset' = [rset EXCEPT ![t] = @ \cup {arg[t]}]
        /\ Hand(t, arg[t][1], arg[t][2])
        /\ Leave(t)
  /\ UNCHANGED <<lockVars, mem, tx, wset, logVars, crashes, hist, start, own, lost>>

Reload(t) ==
  /\ pc[t] = "reload"
  /\ arg' = [arg EXCEPT ![t] = <<@[1], mem[@[1]]>>]
  /\ Goto(t, "prevalidate")
  /\ UNCHANGED <<lockVars, mem, tx, caller, time, todo, left, setVars, logVars,
                 crashes, histVars>>

--------------------------------------------------------------------------------
(* norec_validate and validate_rdset. *)

SampleTime(t) ==
  /\ pc[t] = "validate"
  /\ IF IsEven(glb)
     THEN /\ time' = [time EXCEPT ![t] = glb]
          /\ todo' = [todo EXCEPT ![t] = rset[t]]
          /\ Goto(t, "compare")
     ELSE UNCHANGED <<time, todo, pc>>   \* "if (IS_ODD(time)) continue"
  /\ UNCHANGED <<lockVars, mem, tx, caller, arg, left, setVars, logVars, crashes,
                 histVars>>

Compare(t) ==
  /\ pc[t] = "compare"
  /\ \E e \in todo[t] :
       \/ /\ mem[e[1]] = e[2]
          /\ todo' = [todo EXCEPT ![t] = @ \ {e}]
          /\ UNCHANGED <<mem, tx, pc, caller, arg, time, left, own, logVars>>
       \/ /\ mem[e[1]] # e[2]
          /\ AbortTo(t, TxRestart(tx[t]))
  /\ UNCHANGED <<lockVars, setVars, crashes, hist, start, seen, lost>>

Recheck(t) ==
  /\ pc[t] = "compare"
  /\ todo[t] = {}
  /\ IF time[t] = glb
     THEN /\ loc' = [loc EXCEPT ![t] = time[t]]
          /\ Goto(t, IF caller[t] = "read" THEN "reload" ELSE "cas")
     ELSE /\ Goto(t, "validate")
          /\ UNCHANGED loc
  /\ time' = [time EXCEPT ![t] = 0]
  /\ UNCHANGED <<glb, irrevoc, mem, tx, caller, arg, todo, left, setVars, logVars,
                 crashes, histVars>>

--------------------------------------------------------------------------------
(* The CAS loop of norec_tx_commit and norec_try_irrevoc, and the replay.   *)

CompareAndSwap(t) ==
  /\ pc[t] = "cas"
  /\ \/ /\ glb = loc[t]
        /\ glb' = loc[t] + 1
        /\ left' = [left EXCEPT ![t] = wset[t]]
        /\ Goto(t, "redo")
        /\ UNCHANGED loc
     \/ /\ glb # loc[t]
        /\ loc' = [loc EXCEPT ![t] = glb]
        /\ Goto(t, "validate")
        /\ UNCHANGED <<glb, left>>
  /\ UNCHANGED <<irrevoc, mem, tx, caller, arg, time, todo, setVars, logVars, crashes,
                 histVars>>

RedoUnlogged(t) ==   \* mutant: the range is not added before the copy
  /\ pc[t] = "redo"
  /\ left[t] # <<>>
  /\ mem' = [mem EXCEPT ![Head(left[t])[1]] = Head(left[t])[2]]
  /\ left' = [left EXCEPT ![t] = Tail(@)]
  /\ UNCHANGED <<lockVars, tx, pc, caller, arg, time, todo, setVars, logVars, crashes,
                 histVars>>

(* One turn of persist_redo_wrset: log, then copy. *)
Redo(t) ==
  /\ pc[t] = "redo"
  /\ left[t] # <<>>
  /\ LET e == Head(left[t])
     IN  /\ undo' = [undo EXCEPT ![t] = AddRange(@, mem, e[1], NoVal)]
         /\ mem' = [mem EXCEPT ![e[1]] = e[2]]
  /\ left' = [left EXCEPT ![t] = Tail(@)]
  /\ UNCHANGED <<lockVars, tx, pc, caller, arg, time, todo, setVars, frees, crashes,
                 histVars>>

(* Or there is no room for the log, and the transaction is aborted with the *)
(* lock taken and irrevoc still 0: norec_on_end will not release it.        *)
RedoFails(t) ==
  /\ pc[t] = "redo"
  /\ left[t] # <<>>
  /\ AbortTo(t, TxAbort(tx[t], "nomem"))
  /\ lost' = TRUE
  /\ UNCHANGED <<lockVars, setVars, crashes, hist, start, seen>>

(* glb has become the even number g with the pool as m: history only. *)
Publish(g, m) ==
  hist' = [h \in DOMAIN hist \cup {g} |-> IF h = g THEN m ELSE hist[h]]

(* norec_tx_commit: "glb = tx->loc + 2". *)
Release(t) ==
  /\ pc[t] = "redo"
  /\ left[t] = <<>>
  /\ caller[t] = "commit"
  /\ glb' = loc[t] + 2
  /\ Publish(loc[t] + 2, mem)
  /\ Goto(t, "seal")
  /\ UNCHANGED <<loc, irrevoc, mem, tx, callVars, setVars, logVars, crashes, start, seen,
                 own, lost>>

(* and the pmemobj_tx_commit after it. *)
Seal(t) ==
  /\ pc[t] = "seal"
  /\ PmCommit(t)
  /\ Leave(t)
  /\ UNCHANGED <<lockVars, setVars, crashes, hist, start, seen, lost>>

(* The end of norec_try_irrevoc, and pmemobj_tx_free when norec_tx_free     *)
(* called it.                                                               *)
BecomeIrrevoc(t) ==
  /\ pc[t] = "redo"
  /\ left[t] = <<>>
  /\ caller[t] # "commit"
  /\ loc' = [loc EXCEPT ![t] = @ + 1]
  /\ irrevoc' = [irrevoc EXCEPT ![t] = TRUE]
  /\ frees' = IF caller[t] = "free" THEN [frees EXCEPT ![t] = @ \cup {arg[t][1]}]
                                    ELSE frees
  /\ Leave(t)
  /\ UNCHANGED <<glb, mem, tx, setVars, undo, crashes, histVars>>

--------------------------------------------------------------------------------
(* NOREC_WRITE.  An irrevocable transaction logs and stores, or finds no    *)
(* room for the log; another one buffers, each location once (see NOrec).   *)
Write(t, a, v) ==
  /\ AtWork(t)
  /\ CanUse(t, a)
  /\ \/ /\ irrevoc[t]
        /\ undo' = [undo EXCEPT ![t] = AddRange(@, mem, a, NoVal)]
        /\ mem' = [mem EXCEPT ![a] = v]
        /\ own' = [own EXCEPT ![t][a] = v]
        /\ UNCHANGED <<tx, pc, callVars, wset, frees>>
     \/ /\ irrevoc[t]
        /\ AbortTo(t, TxAbort(tx[t], "nomem"))
        /\ UNCHANGED wset
     \/ /\ ~irrevoc[t] /\ ~InWset(t, a)
        /\ wset' = [wset EXCEPT ![t] = Append(@, <<a, v>>)]
        /\ own' = [own EXCEPT ![t][a] = v]
        /\ UNCHANGED <<tx, pc, callVars, mem, logVars>>
  /\ UNCHANGED <<lockVars, rset, crashes, hist, start, seen, lost>>

(* NOREC_FREE and NOREC_IRREVOC. *)
Free(t, a) ==
  /\ AtWork(t)
  /\ CanUse(t, a)
  /\ \/ /\ irrevoc[t]
        /\ frees' = [frees EXCEPT ![t] = @ \cup {a}]
        /\ UNCHANGED <<pc, caller, arg>>
     \/ /\ ~irrevoc[t]
        /\ caller' = [caller EXCEPT ![t] = "free"]
        /\ arg' = [arg EXCEPT ![t] = <<a, Junk>>]
        /\ Goto(t, "cas")
        /\ UNCHANGED frees
  /\ UNCHANGED <<lockVars, mem, tx, time, todo, left, setVars, undo, crashes, histVars>>

Irrevoc(t) ==
  /\ AtWork(t)
  /\ ~irrevoc[t]
  /\ caller' = [caller EXCEPT ![t] = "irrevoc"]
  /\ Goto(t, "cas")
  /\ UNCHANGED <<lockVars, mem, tx, arg, time, todo, left, setVars, logVars, crashes,
                 histVars>>

UserAbort(t) ==
  /\ AtWork(t)
  /\ AbortTo(t, TxAbort(tx[t], "cancelled"))
  /\ UNCHANGED <<lockVars, setVars, crashes, hist, start, seen, lost>>

UserRestart(t) ==
  /\ AtWork(t)
  /\ AbortTo(t, TxRestart(tx[t]))
  /\ UNCHANGED <<lockVars, setVars, crashes, hist, start, seen, lost>>

--------------------------------------------------------------------------------
(* norec_tx_commit of a block that is done. *)

CommitsAtOnce(t) == tx[t].level > 0 \/ wset[t] = <<>> \/ irrevoc[t]

Commit(t) ==
  /\ AtWork(t)
  /\ \/ /\ CommitsAtOnce(t)
        /\ PmCommit(t)
        /\ UNCHANGED <<pc, caller>>
     \/ /\ ~CommitsAtOnce(t)
        /\ caller' = [caller EXCEPT ![t] = "commit"]
        /\ Goto(t, "cas")
        /\ UNCHANGED <<mem, own, tx, logVars>>
  /\ UNCHANGED <<lockVars, arg, time, todo, left, setVars, crashes, hist, start, seen,
                 lost>>

(* A turn of the macros' loop in ONABORT, ONCOMMIT or FINALLY. *)
Process(t) ==
  /\ pc[t] = "run"
  /\ tx[t].stage \notin {"NONE", "WORK"}
  /\ tx' = [tx EXCEPT ![t] = TxProcess(tx[t])]
  /\ UNCHANGED <<lockVars, mem, pc, callVars, setVars, logVars, crashes, histVars>>

EndNested(t) ==
  /\ pc[t] = "run"
  /\ tx[t].stage = "NONE" /\ ~Outermost(tx[t])
  /\ tx' = [tx EXCEPT ![t] = TxEnd(tx[t])]
  /\ IF EndRollsBack(tx[t]) THEN RollBack(t) ELSE UNCHANGED <<mem, own, logVars>>
  /\ UNCHANGED <<lockVars, pc, callVars, setVars, crashes, hist, start, seen, lost>>

OnEndKeepsSets(t) ==   \* mutant: the sets are emptied by a commit only
  /\ rset' = [rset EXCEPT ![t] = IF tx[t].retry THEN @ ELSE {}]
  /\ wset' = [wset EXCEPT ![t] = IF tx[t].retry THEN @ ELSE <<>>]
  /\ IF ~tx[t].retry /\ irrevoc[t] /\ ~IsEven(loc[t])
     THEN glb' = loc[t] + 1 /\ Publish(loc[t] + 1, mem)
     ELSE UNCHANGED <<glb, hist>>

(* norec_on_end *)
OnEnd(t) ==
  /\ rset' = [rset EXCEPT ![t] = {}]
  /\ wset' = [wset EXCEPT ![t] = <<>>]
  /\ IF ~tx[t].retry /\ irrevoc[t] /\ ~IsEven(loc[t])
     THEN glb' = loc[t] + 1 /\ Publish(loc[t] + 1, mem)
     ELSE UNCHANGED <<glb, hist>>

End(t) ==
  /\ pc[t] = "run"
  /\ tx[t].stage = "NONE" /\ Outermost(tx[t])
  /\ tx' = [tx EXCEPT ![t] = TxEnd(tx[t])]
  /\ OnEnd(t)
  /\ seen' = [seen EXCEPT ![t] = {}]
  /\ own' = [own EXCEPT ![t] = NoLog]
  /\ lost' = (lost \/ (irrevoc[t] /\ tx[t].retry))
  /\ Goto(t, IF Retries(tx[t]) THEN "begin" ELSE "idle")
  /\ UNCHANGED <<mem, loc, irrevoc, callVars, logVars, crashes, start>>

--------------------------------------------------------------------------------
RecoverNothing(order) == mem   \* mutant: the pool is opened as it was left

Recovered(order) == Recover(mem, [i \in DOMAIN order |-> undo[order[i]]], NoVal)

(* The machine stops and the program is started again on the pool. *)
Crash ==
  /\ crashes < MaxCrashes
  /\ crashes' = crashes + 1
  /\ \E order \in SetToSeqs(Threads) : mem' = Recovered(order)
  /\ glb'     = 0
  /\ tx'      = [t \in Threads |-> TxIdle]
  /\ loc'     = [t \in Threads |-> 0]
  /\ irrevoc' = [t \in Threads |-> FALSE]
  /\ rset'    = [t \in Threads |-> {}]
  /\ wset'    = [t \in Threads |-> <<>>]
  /\ pc'      = [t \in Threads |-> "idle"]
  /\ caller'  = [t \in Threads |-> "none"]
  /\ arg'     = [t \in Threads |-> NoArg]
  /\ time'    = [t \in Threads |-> 0]
  /\ todo'    = [t \in Threads |-> {}]
  /\ left'    = [t \in Threads |-> <<>>]
  /\ undo'    = [t \in Threads |-> NoLog]
  /\ frees'   = [t \in Threads |-> {}]
  /\ hist'    = [g \in {0} |-> mem']
  /\ start'   = [t \in Threads |-> 0]
  /\ seen'    = [t \in Threads |-> {}]
  /\ own'     = [t \in Threads |-> NoLog]
  /\ lost'    = FALSE

--------------------------------------------------------------------------------
Client(t) ==
  \/ BeginNested(t)
  \/ \E a \in Addrs : Read(t, a) \/ Free(t, a)
  \/ \E a \in Addrs, v \in Vals : Write(t, a, v)
  \/ Irrevoc(t)
  \/ UserAbort(t) \/ UserRestart(t)
  \/ Commit(t)

Library(t) ==
  \/ Begin(t)
  \/ Prevalidate(t) \/ Reload(t)
  \/ SampleTime(t) \/ Compare(t) \/ Recheck(t)
  \/ CompareAndSwap(t)
  \/ Redo(t) \/ RedoFails(t)
  \/ Release(t) \/ Seal(t) \/ BecomeIrrevoc(t)
  \/ Process(t)
  \/ EndNested(t) \/ End(t)

(* The threads have run all the transactions the bound allows. *)
Finished ==
  /\ AtLimit
  /\ \A t \in Threads : pc[t] = "idle"
  /\ UNCHANGED vars

Next == (\E t \in Threads : Client(t) \/ Library(t)) \/ Crash \/ Finished

Spec == Init /\ [][Next]_vars

--------------------------------------------------------------------------------
(* Properties. *)

Labels == {"idle", "begin", "run", "prevalidate", "reload", "validate", "compare",
           "cas", "redo", "seal"}

Entries == Addrs \X Contents

TypeOK ==
  /\ glb \in Nat /\ crashes \in 0..MaxCrashes /\ lost \in BOOLEAN
  /\ mem \in [Addrs -> Contents]
  /\ tx \in [Threads -> PmRecord]
  /\ loc \in [Threads -> Nat]
  /\ irrevoc \in [Threads -> BOOLEAN]
  /\ rset \in [Threads -> SUBSET Entries]
  /\ wset \in [Threads -> Seq(Addrs \X Vals)]
  /\ pc \in [Threads -> Labels]
  /\ caller \in [Threads -> {"none", "read", "commit", "irrevoc", "free"}]
  /\ arg \in [Threads -> Entries \cup {NoArg}]
  /\ time \in [Threads -> Nat]
  /\ todo \in [Threads -> SUBSET Entries]
  /\ left \in [Threads -> Seq(Addrs \X Vals)]
  /\ undo \in [Threads -> [Addrs -> Contents \cup {NoVal}]]
  /\ frees \in [Threads -> SUBSET Addrs]
  /\ DOMAIN hist \subseteq Nat
  /\ \A g \in DOMAIN hist : hist[g] \in [Addrs -> Contents]
  /\ start \in [Threads -> Nat]
  /\ seen \in [Threads -> SUBSET Entries]
  /\ own \in [Threads -> [Addrs -> Contents \cup {NoVal}]]

(* pmemobj_tx_commit of the whole transaction has returned. *)
Committed(t) == Outermost(tx[t]) /\ ~InWork(tx[t]) /\ tx[t].err = "none"

Sealing == {t \in Threads : pc[t] = "seal"}

(* What a transaction has in the pool: all its writes, once irrevocable;    *)
(* those the replay has copied.                                             *)
Copied(t) ==
  [a \in Addrs |-> IF Replaying(t) /\ \E i \in DOMAIN left[t] : left[t][i][1] = a
                   THEN NoVal ELSE own[t][a]]

(* The pool is the last version under the writes of the one transaction     *)
(* that holds the lock, and until that one commits its log takes the pool   *)
(* back.  Nobody else has a log, except who has just released the lock:     *)
(* his takes his version back to the one before; and who lost the lock in a *)
(* nested block's replay, until the outermost block has rolled him back.    *)
(* The lock is odd without a holder only when it is lost.                   *)
LockInv ==
  /\ lost => ~IsEven(glb)
  /\ IsEven(glb) => mem = hist[glb]
  /\ ~IsEven(glb) /\ (\A t \in Threads : ~Holds(t)) =>
       lost /\ \E t \in Threads \ Sealing : Overlay(mem, undo[t], NoVal) = hist[glb - 1]

LogOf(t) ==
  IF Holds(t)
  THEN /\ glb = IF Replaying(t) THEN loc[t] + 1 ELSE loc[t]
       /\ ~IsEven(glb) /\ ~lost
       /\ mem = Overlay(hist[glb - 1], Copied(t), NoVal)
       /\ Committed(t) \/ Overlay(mem, undo[t], NoVal) = hist[glb - 1]
  ELSE IF pc[t] = "seal"
  THEN Overlay(hist[loc[t] + 2], undo[t], NoVal) = hist[loc[t]]
  ELSE /\ undo[t] = NoLog \/ (lost /\ tx[t].err = "nomem")
       /\ frees[t] = {}

LogRestoresVersion == TypeOK /\ LockInv /\ \A t \in Threads : LogOf(t)

(* Opacity: all a transaction has read is explained by one version no older *)
(* than itself.                                                             *)
Snapshot(g, t) == g \in DOMAIN hist /\ g >= start[t] /\ Explains(g, t)
Opaque(t) == InTx(t) /\ ~tx[t].retry => \E g \in DOMAIN hist : Snapshot(g, t)
ReadsAreOneVersion == \A t \in Threads : Opaque(t)

(* What a crash should leave: the last version, and all of a transaction    *)
(* that has committed but not yet released the lock.                        *)
Latest ==
  IF IsEven(glb) THEN hist[glb]
  ELSE LET done == {t \in Threads : Holds(t) /\ Committed(t)}
       IN  IF done = {} THEN hist[glb - 1]
           ELSE Overlay(hist[glb - 1], own[CHOOSE t \in done : TRUE], NoVal)

(* It does, unless a transaction has released the lock and not yet          *)
(* committed (between norec.c:281 and norec.c:284).  Then every location    *)
(* that one wrote goes back to what it was before, though others may have   *)
(* read it, or written and committed it since; the rest is as it should be, *)
(* and if nobody has taken the lock since, what is left is the version      *)
(* before.                                                                  *)
RecoverStep ==
  crashes' # crashes =>
    /\ \A a \in Addrs :
         (\A t \in Sealing : undo[t][a] = NoVal) => mem'[a] = Latest[a]
    /\ \A t \in Threads : Sealing = {t} /\ glb = loc[t] + 2 => mem' = hist[loc[t]]
RecoversAllButUnsealed == [][RecoverStep]_vars

(* A version is all of a transaction's writes, or none when it was aborted  *)
(* with the lock, and nothing it read is older than the version before.     *)
PublishStep ==
  crashes' = crashes /\ glb' # glb /\ IsEven(glb') =>
    \E t \in Threads :
      /\ Holds(t) /\ ~Holds(t)' /\ glb' = glb + 1
      /\ hist'[glb'] = IF tx[t].err = "none"
                       THEN Overlay(hist[glb - 1], own[t], NoVal) ELSE hist[glb - 1]
      /\ Explains(glb - 1, t)
PublishesAllOrNothing == [][PublishStep]_vars

--------------------------------------------------------------------------------
(* The invariant the proofs are made with.                                  *)

(* Control, as for the volatile NOrec; but a transaction that has the lock  *)
(* may be restarted, or fail.                                               *)
ControlInv(t) ==
  /\ InTx(t) <=> pc[t] \notin {"idle", "begin"}
  /\ pc[t] \in {"idle", "begin", "run"} <=> caller[t] = "none"
  /\ caller[t] \in {"read", "free"} <=> arg[t] # NoArg
  /\ pc[t] \in {"prevalidate", "reload"} => caller[t] = "read"
  /\ pc[t] \in {"cas", "redo"} => caller[t] # "read"
  /\ pc[t] = "seal" => caller[t] = "commit"
  /\ caller[t] # "none" => InWork(tx[t]) /\ ~irrevoc[t]
  /\ caller[t] = "commit" => tx[t].level = 0
  /\ ~InTx(t) => tx[t].stage = "NONE" /\ tx[t].level = 0
  /\ InTx(t) => tx[t].level = tx[t].depth - 1
  /\ InWork(tx[t]) => tx[t].err = "none"
  /\ InTx(t) => (tx[t].retry <=> tx[t].err = "restart")

(* Entries of a write set: each location once, with what the transaction    *)
(* has written to it.                                                       *)
Listed(w, o) ==
  \A i \in DOMAIN w : /\ o[w[i][1]] = w[i][2]
                      /\ \A j \in DOMAIN w : w[j][1] = w[i][1] => j = i

(* The read set is all the client of a revocable transaction has read, and, *)
(* until it fails, its write set all it has written; what is left to replay *)
(* is of that.                                                              *)
SetsInv(t) ==
  /\ ~InTx(t) => rset[t] = {} /\ wset[t] = <<>> /\ seen[t] = {} /\ own[t] = NoLog
  /\ InTx(t) /\ ~irrevoc[t] => seen[t] = rset[t] /\ frees[t] = {}
  /\ InTx(t) /\ ~irrevoc[t] /\ tx[t].err = "none" =>
       /\ Listed(wset[t], own[t])
       /\ \A a \in Addrs : own[t][a] # NoVal => InWset(t, a)
  /\ caller[t] = "read" => own[t][arg[t][1]] = NoVal
  /\ Replaying(t) => Listed(left[t], own[t])

(* A transaction that is over, committed or rolled back, keeps no log and,  *)
(* if it failed, no write; the two versions between which a commit waits to *)
(* be durable exist.                                                        *)
StoreInv(t) ==
  /\ tx[t].depth <= 1 /\ ~InWork(tx[t]) =>
       undo[t] = NoLog /\ frees[t] = {} /\ (tx[t].err # "none" => own[t] = NoLog)
  /\ pc[t] = "seal" => loc[t] \in DOMAIN hist /\ loc[t] + 2 \in DOMAIN hist

(* As for the volatile NOrec: a revocable transaction that is not in        *)
(* norec_validate runs on a version, and what it has just loaded is of that *)
(* version if the lock has not moved; in norec_validate, the entries        *)
(* compared so far are in the pool as long as glb is what it was.           *)
ReaderInv(t) ==
  /\ InTx(t) => start[t] <= glb
  /\ InTx(t) /\ ~tx[t].retry /\ ~irrevoc[t] /\ pc[t] \notin {"validate", "compare"} =>
       Snapshot(loc[t], t)
  /\ InTx(t) /\ irrevoc[t] => Snapshot(loc[t] - 1, t)
  /\ pc[t] = "prevalidate" /\ loc[t] = glb => arg[t][2] = mem[arg[t][1]]
  /\ pc[t] = "compare" =>
       /\ time[t] \in DOMAIN hist /\ time[t] >= start[t]
       /\ todo[t] \subseteq rset[t]
       /\ time[t] = glb => \A e \in rset[t] \ todo[t] : mem[e[1]] = e[2]

HistoryInv ==
  /\ \A g \in DOMAIN hist : IsEven(g) /\ g <= glb
  /\ Even(glb) \in DOMAIN hist

OneHolder == \A s, t \in Threads : Holds(s) /\ Holds(t) => s = t

(* The lock is lost by one thread: its log, if it is not rolled back yet,   *)
(* is the only one but those of commits that wait to be durable.            *)
LostInv ==
  lost => \E w \in Threads :
            /\ pc[w] # "seal"
            /\ Overlay(mem, undo[w], NoVal) = hist[glb - 1]
            /\ \A s \in Threads : s # w /\ pc[s] # "seal" => undo[s] = NoLog

ThreadInv(t) ==
  ControlInv(t) /\ SetsInv(t) /\ LogOf(t) /\ StoreInv(t) /\ ReaderInv(t) /\ Opaque(t)

IInv ==
  /\ TypeOK /\ LockInv /\ HistoryInv /\ OneHolder /\ LostInv
  /\ \A t \in Threads : ThreadInv(t)
================================================================================
