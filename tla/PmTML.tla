--------------------------------- MODULE PmTML ---------------------------------
(***************************************************************************)
(* TML in persistent memory: pmdk_stms/algs/tml/tml.c and the access       *)
(* macros of tml.h, over the transactions of libpmemobj.                   *)
(*                                                                         *)
(* The lock protocol is that of the volatile TML.  What is new is that the *)
(* old content of a location is logged before it is overwritten: an abort  *)
(* of the outermost block puts it back, a commit throws the log away, and  *)
(* after a crash whatever log is left is applied before anybody runs.  glb *)
(* and the thread-local variables do not survive a crash.  One action is   *)
(* one access to shared memory; a call of libpmemobj by the thread that    *)
(* holds the lock is one step.                                             *)
(***************************************************************************)
EXTENDS PmTx

CONSTANTS
  Threads,         \* threads that have called TML_ENTER
  Addrs,           \* locations of the pool the transactions access
  Vals,            \* values the client writes
  Junk,            \* what a location holds once its object has been freed
  NoVal,           \* "not written", "not logged"
  InitVal,         \* initial content of every location
  MaxDepth,        \* bound: deepest nesting of transaction blocks
  MaxGlb,          \* bound: no new transaction starts once glb reaches it
                   \* (a crash counts as one version)
  MaxCrashes       \* bound: crashes

ASSUME ConstAssumption ==
  /\ IsFiniteSet(Threads)
  /\ MaxDepth \in Nat \ {0}
  /\ MaxGlb \in Nat
  /\ MaxCrashes \in Nat
  /\ Junk \notin Vals \cup {InitVal}
  /\ NoVal \notin Vals \cup {Junk, InitVal}

Contents == Vals \cup {Junk, InitVal}

IsEven(n) == n % 2 = 0

VARIABLES
  glb,       \* the global sequence lock, not persistent
  mem,       \* the pool
  tx,        \* tx[t]: struct tx and libpmemobj's transaction of thread t
  loc,       \* loc[t]: struct tx_meta, the value of glb t runs on
  irrevoc,   \* irrevoc[t]: struct tx_meta, t may write in place
  pc,        \* where t stands inside the library
  arg,       \* arg[t]: <<location, value>> of the access in progress, if any
  undo,      \* undo[t]: the undo log of t's lane
  frees,     \* frees[t]: the objects t's commit will free
  crashes,   \* how often the machine has crashed
  \* history: read by the properties and by the client's discipline only
  hist,      \* hist[g]: the pool when glb became the even number g
  seen,      \* seen[t]: <<location, value>> pairs handed to the client of t
  own,       \* own[t]: what t's transaction did to each location, or NoVal
  lost       \* an irrevocable transaction has been restarted since the start

lockVars == <<glb, loc, irrevoc>>
logVars  == <<undo, frees>>
histVars == <<hist, seen, own, lost>>
vars     == <<glb, mem, tx, loc, irrevoc, pc, arg, undo, frees, crashes,
              hist, seen, own, lost>>

NoArg  == <<>>
NoLog  == [a \in Addrs |-> NoVal]

Init ==
  /\ glb     = 0
  /\ mem     = [a \in Addrs |-> InitVal]
  /\ tx      = [t \in Threads |-> TxIdle]
  /\ loc     = [t \in Threads |-> 0]
  /\ irrevoc = [t \in Threads |-> FALSE]
  /\ pc      = [t \in Threads |-> "idle"]
  /\ arg     = [t \in Threads |-> NoArg]
  /\ undo    = [t \in Threads |-> NoLog]
  /\ frees   = [t \in Threads |-> {}]
  /\ crashes = 0
  /\ hist    = [g \in {0} |-> [a \in Addrs |-> InitVal]]
  /\ seen    = [t \in Threads |-> {}]
  /\ own     = [t \in Threads |-> NoLog]
  /\ lost    = FALSE

--------------------------------------------------------------------------------
(* The client only follows pointers to objects that are allocated in the    *)
(* version it runs on and that it has not freed itself.                     *)
Version(t) == IF IsEven(loc[t]) THEN loc[t] ELSE loc[t] - 1

CanUse(t, a) ==
  Overlay(hist[Version(t)], own[t], NoVal)[a] # Junk /\ a \notin frees[t]

AtLimit == glb + 2 * crashes >= MaxGlb

AtWork(t) == pc[t] = "run" /\ InWork(tx[t])

Goto(t, label) == pc' = [pc EXCEPT ![t] = label]

InTx(t) == tx[t].depth > 0

Holds(t) == InTx(t) /\ irrevoc[t]

--------------------------------------------------------------------------------
(* libpmemobj.  The outermost block's transaction is undone, or becomes     *)
(* durable with its frees; a nested one's is left to the block around it.   *)

Discard(t) ==
  /\ undo' = [undo EXCEPT ![t] = NoLog]
  /\ frees' = [frees EXCEPT ![t] = {}]

RollBack(t) ==
  /\ mem' = Overlay(mem, undo[t], NoVal)
  /\ own' = [own EXCEPT ![t] = NoLog]
  /\ Discard(t)

AbortTo(t, x) ==   \* pmemobj_tx_abort, and the longjmp
  /\ tx' = [tx EXCEPT ![t] = x]
  /\ Goto(t, "run")
  /\ IF Outermost(tx[t]) THEN RollBack(t) ELSE UNCHANGED <<mem, own, logVars>>

Reclaim(t, m) == [a \in Addrs |-> IF a \in frees[t] THEN Junk ELSE m[a]]

--------------------------------------------------------------------------------
(* tml_tx_begin of an outermost block: Spin is a turn of its loop that      *)
(* finds glb odd, Begin the one that finds it even.                         *)

AtBegin(t) == pc[t] = "begin" \/ (pc[t] = "idle" /\ ~AtLimit)

Sample(t) ==
  /\ irrevoc' = [irrevoc EXCEPT ![t] = FALSE]
  /\ loc' = [loc EXCEPT ![t] = glb]
  /\ UNCHANGED <<glb, mem, arg, logVars, crashes, histVars>>

Spin(t) ==
  /\ AtBegin(t)
  /\ ~IsEven(glb)
  /\ Sample(t)
  /\ Goto(t, "begin")
  /\ tx' = tx

Begin(t) ==
  /\ AtBegin(t)
  /\ IsEven(glb)
  /\ Sample(t)
  /\ tx' = [tx EXCEPT ![t] = TxBegin(tx[t])]
  /\ Goto(t, "run")

BeginNested(t) ==
  /\ AtWork(t)
  /\ tx[t].depth < MaxDepth
  /\ tx' = [tx EXCEPT ![t] = TxBegin(tx[t])]
  /\ UNCHANGED <<lockVars, mem, pc, arg, logVars, crashes, histVars>>

--------------------------------------------------------------------------------
(* TML_READ: the load, then tml_tx_read.  A revocable transaction has no    *)
(* log, so its restart only jumps.                                          *)

ReadLoad(t, a) ==
  /\ AtWork(t)
  /\ CanUse(t, a)
  /\ arg' = [arg EXCEPT ![t] = <<a, mem[a]>>]
  /\ Goto(t, "read")
  /\ UNCHANGED <<lockVars, mem, tx, logVars, crashes, histVars>>

ReadStaleIfFree(t) ==   \* mutant: only a version newer than loc is stale
  ~irrevoc[t] /\ IsEven(loc[t]) /\ IsEven(glb) /\ glb # loc[t]

ReadStale(t) == ~irrevoc[t] /\ IsEven(loc[t]) /\ glb # loc[t]

ReadCheck(t) ==
  /\ pc[t] = "read"
  /\ \/ /\ ReadStale(t)
        /\ AbortTo(t, TxRestart(tx[t]))
        /\ UNCHANGED seen
     \/ /\ ~ReadStale(t)
        /\ seen' = [seen EXCEPT ![t] = IF own[t][arg[t][1]] = NoVal
                                       THEN @ \cup {arg[t]} ELSE @]
        /\ Goto(t, "run")
        /\ UNCHANGED <<mem, tx, own, logVars>>
  /\ arg' = [arg EXCEPT ![t] = NoArg]
  /\ UNCHANGED <<lockVars, crashes, hist, lost>>

--------------------------------------------------------------------------------
(* tml_try_irrevoc: it returns with the lock, or its CAS fails, leaves what *)
(* it found in loc, and restarts.                                           *)

CasFailsIfTaken(t) ==   \* mutant: the lock is taken whatever version it shows
  ~irrevoc[t] /\ IsEven(loc[t]) /\ ~IsEven(glb)

CasFails(t) == ~irrevoc[t] /\ IsEven(loc[t]) /\ glb # loc[t]

Acquire(t) ==
  /\ ~CasFails(t)
  /\ IF ~irrevoc[t] /\ IsEven(loc[t])
     THEN /\ glb' = loc[t] + 1
          /\ loc' = [loc EXCEPT ![t] = @ + 1]
     ELSE UNCHANGED <<glb, loc>>
  /\ irrevoc' = [irrevoc EXCEPT ![t] = TRUE]

LoseRace(t) ==
  /\ CasFails(t)
  /\ loc' = [loc EXCEPT ![t] = glb]
  /\ AbortTo(t, TxRestart(tx[t]))
  /\ UNCHANGED <<glb, irrevoc, arg>>

StoreWithoutLog(t, a, v) ==   \* mutant: the range is not added before the store
  /\ arg' = [arg EXCEPT ![t] = <<a, v>>]
  /\ Goto(t, "store")
  /\ UNCHANGED <<mem, tx, own, logVars>>

(* pmemobj_tx_add_range_direct, on the way to the store. *)
LogRange(t, a, v) ==
  /\ undo' = [undo EXCEPT ![t] = AddRange(@, mem, a, NoVal)]
  /\ arg' = [arg EXCEPT ![t] = <<a, v>>]
  /\ Goto(t, "store")
  /\ UNCHANGED <<mem, tx, own, frees>>

(* There is no room for the log: libpmemobj aborts the transaction. *)
LogFails(t) == AbortTo(t, TxAbort(tx[t], "nomem")) /\ UNCHANGED arg

(* TML_WRITE_DIRECT up to the store, and the store. *)
Write(t, a, v) ==
  /\ AtWork(t)
  /\ CanUse(t, a)
  /\ \/ Acquire(t) /\ LogRange(t, a, v)
     \/ Acquire(t) /\ LogFails(t)
     \/ LoseRace(t)
  /\ UNCHANGED <<crashes, hist, seen, lost>>

Store(t) ==
  /\ pc[t] = "store"
  /\ mem' = [mem EXCEPT ![arg[t][1]] = arg[t][2]]
  /\ own' = [own EXCEPT ![t][arg[t][1]] = arg[t][2]]
  /\ arg' = [arg EXCEPT ![t] = NoArg]
  /\ Goto(t, "run")
  /\ UNCHANGED <<lockVars, tx, logVars, crashes, hist, seen, lost>>

(* tml_tx_free: pmemobj_tx_free frees when the transaction commits. *)
Free(t, a) ==
  /\ AtWork(t)
  /\ CanUse(t, a)
  /\ \/ /\ Acquire(t)
        /\ frees' = [frees EXCEPT ![t] = @ \cup {a}]
        /\ UNCHANGED <<mem, tx, pc, arg, undo, own>>
     \/ LoseRace(t)
  /\ UNCHANGED <<crashes, hist, seen, lost>>

(* TML_IRREVOC *)
Irrevoc(t) ==
  /\ AtWork(t)
  /\ \/ Acquire(t) /\ UNCHANGED <<mem, tx, pc, arg, logVars, own>>
     \/ LoseRace(t)
  /\ UNCHANGED <<crashes, hist, seen, lost>>

(* TML_ABORT and TML_RESTART *)
UserAbort(t) ==
  /\ AtWork(t)
  /\ AbortTo(t, TxAbort(tx[t], "cancelled"))
  /\ UNCHANGED <<lockVars, arg, crashes, hist, seen, lost>>

UserRestart(t) ==
  /\ AtWork(t)
  /\ AbortTo(t, TxRestart(tx[t]))
  /\ UNCHANGED <<lockVars, arg, crashes, hist, seen, lost>>

--------------------------------------------------------------------------------
(* tml_tx_process of a block that is done: pmemobj_tx_commit. *)
Commit(t) ==
  /\ AtWork(t)
  /\ tx' = [tx EXCEPT ![t] = TxCommit(tx[t])]
  /\ IF Outermost(tx[t])
     THEN /\ mem' = Reclaim(t, mem)
          /\ own' = [own EXCEPT ![t] = Reclaim(t, @)]
          /\ Discard(t)
     ELSE UNCHANGED <<mem, own, logVars>>
  /\ UNCHANGED <<lockVars, pc, arg, crashes, hist, seen, lost>>

(* A turn of the macros' loop in ONABORT, ONCOMMIT or FINALLY. *)
Process(t) ==
  /\ pc[t] = "run"
  /\ tx[t].stage \notin {"NONE", "WORK"}
  /\ tx' = [tx EXCEPT ![t] = TxProcess(tx[t])]
  /\ UNCHANGED <<lockVars, mem, pc, arg, logVars, crashes, histVars>>

(* tml_tx_end of a nested block; pmemobj_tx_end passes a failure on. *)
EndNested(t) ==
  /\ pc[t] = "run"
  /\ tx[t].stage = "NONE" /\ ~Outermost(tx[t])
  /\ tx' = [tx EXCEPT ![t] = TxEnd(tx[t])]
  /\ IF EndRollsBack(tx[t]) THEN RollBack(t) ELSE UNCHANGED <<mem, own, logVars>>
  /\ UNCHANGED <<lockVars, pc, arg, crashes, hist, seen, lost>>

OnEndOfCommit(t) ==   \* mutant: the end of an aborted transaction keeps the lock
  IF tx[t].err # "none" \/ IsEven(loc[t])
  THEN UNCHANGED <<glb, hist>>
  ELSE /\ glb' = loc[t] + 1
       /\ hist' = [g \in DOMAIN hist \cup {loc[t] + 1} |->
                     IF g = loc[t] + 1 THEN mem ELSE hist[g]]

(* tml_on_end *)
OnEnd(t) ==
  IF tx[t].retry \/ IsEven(loc[t])
  THEN UNCHANGED <<glb, hist>>
  ELSE /\ glb' = loc[t] + 1
       /\ hist' = [g \in DOMAIN hist \cup {loc[t] + 1} |->
                     IF g = loc[t] + 1 THEN mem ELSE hist[g]]

End(t) ==
  /\ pc[t] = "run"
  /\ tx[t].stage = "NONE" /\ Outermost(tx[t])
  /\ tx' = [tx EXCEPT ![t] = TxEnd(tx[t])]
  /\ OnEnd(t)
  /\ seen' = [seen EXCEPT ![t] = {}]
  /\ own' = [own EXCEPT ![t] = NoLog]
  /\ lost' = (lost \/ (irrevoc[t] /\ tx[t].retry))
  /\ Goto(t, IF Retries(tx[t]) THEN "begin" ELSE "idle")
  /\ UNCHANGED <<mem, loc, irrevoc, arg, logVars, crashes>>

--------------------------------------------------------------------------------
RecoverNothing(order) == mem   \* mutant: the pool is opened as it was left

Recovered(order) == Recover(mem, [i \in DOMAIN order |-> undo[order[i]]], NoVal)

(* The machine stops and the program is started again on the pool: the      *)
(* statics and thread-local variables are zero again.                       *)
Crash ==
  /\ crashes < MaxCrashes
  /\ crashes' = crashes + 1
  /\ \E order \in SetToSeqs(Threads) : mem' = Recovered(order)
  /\ glb'     = 0
  /\ tx'      = [t \in Threads |-> TxIdle]
  /\ loc'     = [t \in Threads |-> 0]
  /\ irrevoc' = [t \in Threads |-> FALSE]
  /\ pc'      = [t \in Threads |-> "idle"]
  /\ arg'     = [t \in Threads |-> NoArg]
  /\ undo'    = [t \in Threads |-> NoLog]
  /\ frees'   = [t \in Threads |-> {}]
  /\ hist'    = [g \in {0} |-> mem']
  /\ seen'    = [t \in Threads |-> {}]
  /\ own'     = [t \in Threads |-> NoLog]
  /\ lost'    = FALSE

--------------------------------------------------------------------------------
Client(t) ==
  \/ BeginNested(t)
  \/ \E a \in Addrs : ReadLoad(t, a) \/ Free(t, a)
  \/ \E a \in Addrs, v \in Vals : Write(t, a, v)
  \/ Irrevoc(t)
  \/ UserAbort(t) \/ UserRestart(t)
  \/ Commit(t)

Library(t) ==
  \/ Spin(t) \/ Begin(t)
  \/ ReadCheck(t)
  \/ Store(t)
  \/ Process(t)
  \/ EndNested(t) \/ End(t)

(* The threads have run all the transactions the bound allows. *)
Finished ==
  /\ AtLimit
  /\ \A t \in Threads : pc[t] = "idle"
  /\ UNCHANGED vars

Next == (\E t \in Threads : Client(t) \/ Library(t)) \/ Crash \/ Finished

Spec == Init /\ [][Next]_vars

--------------------------------------------------------------------------------
(* Properties. *)

(* pmemobj_tx_commit of the whole transaction has returned. *)
Committed(t) == Outermost(tx[t]) /\ ~InWork(tx[t]) /\ tx[t].err = "none"

TypeOK ==
  /\ glb \in Nat /\ crashes \in 0..MaxCrashes /\ lost \in BOOLEAN
  /\ mem \in [Addrs -> Contents]
  /\ tx \in [Threads -> PmRecord]
  /\ loc \in [Threads -> Nat]
  /\ irrevoc \in [Threads -> BOOLEAN]
  /\ pc \in [Threads -> {"idle", "begin", "run", "read", "store"}]
  /\ arg \in [Threads -> (Addrs \X Contents) \cup {NoArg}]
  /\ undo \in [Threads -> [Addrs -> Contents \cup {NoVal}]]
  /\ frees \in [Threads -> SUBSET Addrs]
  /\ DOMAIN hist \subseteq Nat
  /\ \A g \in DOMAIN hist : hist[g] \in [Addrs -> Contents]
  /\ seen \in [Threads -> SUBSET (Addrs \X Contents)]
  /\ own \in [Threads -> [Addrs -> Contents \cup {NoVal}]]

(* The log of the transaction that holds the lock, and of any other.        *)
LogOf(t) ==
  IF Holds(t)
  THEN /\ loc[t] = glb /\ ~IsEven(glb) /\ ~lost
       /\ mem = Overlay(hist[glb - 1], own[t], NoVal)
       /\ Committed(t) \/ Overlay(mem, undo[t], NoVal) = hist[glb - 1]
  ELSE undo[t] = NoLog /\ own[t] = NoLog /\ frees[t] = {}

LockInv ==
  /\ lost => ~IsEven(glb)
  /\ IsEven(glb) => mem = hist[glb]
  /\ ~IsEven(glb) /\ (\A t \in Threads : ~Holds(t)) => lost /\ mem = hist[glb - 1]

(* One transaction at most has written to the pool or logged anything, the  *)
(* one that holds the lock; the pool is the last version under its writes,  *)
(* and until it commits its log takes the pool back to that version.        *)
LogRestoresVersion == TypeOK /\ LockInv /\ \A t \in Threads : LogOf(t)

(* Two threads never hold the lock, and between them they lose it in one    *)
(* way: a client restarts an irrevocable transaction, and tml_on_end, which *)
(* returns early on the retry mark (tml.c:73), leaves the lock odd with     *)
(* nobody to release it.  No commit, abort, failed log or lost race for the *)
(* lock does; once lost, it stays lost until the machine is restarted.      *)
OneHolder == \A s, t \in Threads : Holds(s) /\ Holds(t) => s = t

LockIsLostByRestartOnly ==
  /\ OneHolder
  /\ lost <=> ~IsEven(glb) /\ \A t \in Threads : ~Holds(t)

(* Opacity, as for the volatile TML, though transactions are now aborted    *)
(* and rolled back in place.                                                *)
Opaque(t) ==
  InTx(t) /\ ~tx[t].retry => \A p \in seen[t] : p[2] = hist[Version(t)][p[1]]
ReadsAreOneVersion == \A t \in Threads : Opaque(t)

(* A crash leaves the last version anybody can have seen, or that version   *)
(* and all of a transaction that has committed but not yet released the     *)
(* lock (tml.c:79, after pmemobj_tx_commit).                                *)
RecoverStep ==
  crashes' # crashes =>
    mem' = IF IsEven(glb) THEN hist[glb]
           ELSE LET done == {t \in Threads : Holds(t) /\ Committed(t)}
                IN  IF done = {} THEN hist[glb - 1]
                    ELSE Overlay(hist[glb - 1], own[CHOOSE t \in done : TRUE], NoVal)
RecoversLatest == [][RecoverStep]_vars

(* The holder publishes all of its writes when it has committed, having     *)
(* read nothing older than the version before, and otherwise exactly the    *)
(* version before.                                                          *)
PublishStep ==
  crashes' = crashes /\ glb' # glb /\ IsEven(glb') =>
    \E t \in Threads :
      /\ Holds(t) /\ ~InTx(t)' /\ glb' = glb + 1
      /\ hist'[glb'] = IF tx[t].err = "none"
                       THEN Overlay(hist[glb - 1], own[t], NoVal) ELSE hist[glb - 1]
      /\ \A p \in seen[t] : hist[glb - 1][p[1]] = p[2]
PublishesAllOrNothing == [][PublishStep]_vars

--------------------------------------------------------------------------------
(* The invariant the proofs are made with.                                  *)

(* Control, as for the volatile TML. *)
ControlInv(t) ==
  /\ InTx(t) <=> pc[t] \notin {"idle", "begin"}
  /\ ~InTx(t) => tx[t].stage = "NONE"
  /\ pc[t] \in {"read", "store"} <=> arg[t] # NoArg
  /\ pc[t] \in {"read", "store"} => InWork(tx[t])
  /\ InWork(tx[t]) => tx[t].err = "none"
  /\ InTx(t) => (tx[t].retry <=> tx[t].err = "restart")

(* A location is logged before it is stored to; a transaction that is over, *)
(* committed or rolled back, keeps no log and, if it failed, no write.      *)
StoreInv(t) ==
  /\ pc[t] = "store" => Holds(t) /\ undo[t][arg[t][1]] # NoVal
  /\ Outermost(tx[t]) /\ ~InWork(tx[t]) =>
       undo[t] = NoLog /\ frees[t] = {} /\ (tx[t].err # "none" => own[t] = NoLog)

(* A revocable transaction runs on a version; what it has just loaded is of *)
(* that version if the lock has not moved since.                            *)
ReaderInv(t) ==
  /\ ~InTx(t) => seen[t] = {}
  /\ InTx(t) /\ ~irrevoc[t] /\ ~tx[t].retry =>
       IsEven(loc[t]) /\ loc[t] \in DOMAIN hist /\ loc[t] <= glb
  /\ pc[t] = "read" /\ (irrevoc[t] \/ loc[t] = glb) => arg[t][2] = mem[arg[t][1]]

HistoryInv ==
  /\ \A g \in DOMAIN hist : IsEven(g) /\ g <= glb
  /\ (IF IsEven(glb) THEN glb ELSE glb - 1) \in DOMAIN hist

ThreadInv(t) == ControlInv(t) /\ LogOf(t) /\ StoreInv(t) /\ ReaderInv(t) /\ Opaque(t)

IInv == TypeOK /\ LockInv /\ HistoryInv /\ OneHolder /\ \A t \in Threads : ThreadInv(t)
================================================================================
