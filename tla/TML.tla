---------------------------------- MODULE TML ----------------------------------
(***************************************************************************)
(* Transactional mutex lock: volatile_stms/algs/tml/tml.c and the access   *)
(* macros of tml.h, run by a set of threads over shared memory.            *)
(*                                                                         *)
(* A thread takes the sequence lock glb the first time it writes and then  *)
(* writes in place; everybody else reads without locking and restarts when *)
(* glb has moved.  One action is one access to shared memory: a load, a    *)
(* store or a compare-and-swap (the build is -O0 on x86, where a plain     *)
(* store is only delayed past later loads of other locations, and the only *)
(* stores a decision rests on are ordered by the CAS or the release).      *)
(***************************************************************************)
EXTENDS Tx

CONSTANTS
  Threads,         \* threads that have called TML_ENTER
  Addrs,           \* shared locations the transactions access
  Vals,            \* values the client writes
  Junk,            \* what a location holds once free() has taken it
  NoVal,           \* "this transaction did not write the location"
  InitVal,         \* initial content of every location
  MaxDepth,        \* deepest nesting of transaction blocks
  MaxGlb,          \* bound: no new transaction starts once glb reaches it
  RestartIrrevoc   \* does the client call TML_RESTART after it became irrevocable

ASSUME ConstAssumption ==
  /\ MaxDepth \in {1, 2}       \* deeper nesting kills the process: see TxLife
  /\ MaxGlb \in Nat
  /\ InitVal \in Vals
  /\ Junk \notin Vals
  /\ NoVal \notin Vals \cup {Junk}
  /\ RestartIrrevoc \in BOOLEAN

Contents == Vals \cup {Junk}

IsEven(n) == n % 2 = 0

VARIABLES
  glb,       \* the global sequence lock
  mem,       \* shared memory
  tx,        \* tx[t]: the struct tx of thread t
  loc,       \* loc[t]: struct tx_meta, the value of glb t runs on
  irrevoc,   \* irrevoc[t]: struct tx_meta, t may write in place
  pc,        \* where t stands inside the library
  arg,       \* arg[t]: <<location, value>> of the access in progress, if any
  frees,     \* frees[t]: the locations on t's free_list
  \* history: read by the properties and by the client's discipline only
  hist,      \* hist[g]: memory when glb became the even number g
  seen,      \* seen[t]: <<location, value>> pairs handed to the client of t
  own        \* own[t]: what t's transaction did to each location, or NoVal

lockVars == <<glb, loc, irrevoc>>
histVars == <<hist, seen, own>>
vars     == <<glb, mem, tx, loc, irrevoc, pc, arg, frees, hist, seen, own>>

NoArg == <<>>

NoWrites == [a \in Addrs |-> NoVal]

Overlay(m, w) == [a \in Addrs |-> IF w[a] = NoVal THEN m[a] ELSE w[a]]

Init ==
  /\ glb     = 0
  /\ mem     = [a \in Addrs |-> InitVal]
  /\ tx      = [t \in Threads |-> TxIdle]
  /\ loc     = [t \in Threads |-> 0]
  /\ irrevoc = [t \in Threads |-> FALSE]
  /\ pc      = [t \in Threads |-> "idle"]
  /\ arg     = [t \in Threads |-> NoArg]
  /\ frees   = [t \in Threads |-> {}]
  /\ hist    = [g \in {0} |-> [a \in Addrs |-> InitVal]]
  /\ seen    = [t \in Threads |-> {}]
  /\ own     = [t \in Threads |-> NoWrites]

--------------------------------------------------------------------------------
(* The version of memory thread t runs on, and the client's discipline: a   *)
(* transaction only follows pointers to blocks that are allocated in what   *)
(* it sees and that it has not freed itself.                                *)

Version(t) == IF IsEven(loc[t]) THEN loc[t] ELSE loc[t] - 1

CanUse(t, a) == Overlay(hist[Version(t)], own[t])[a] # Junk /\ a \notin frees[t]

(* The client's code runs: the block of the macros is at stage WORK. *)
AtWork(t) == pc[t] = "run" /\ InWork(tx[t])

Goto(t, label) == pc' = [pc EXCEPT ![t] = label]

(* tml_tx_restart: longjmp back into the loop of the innermost block. *)
Restart(t) == tx' = [tx EXCEPT ![t] = TxRestart(tx[t])] /\ Goto(t, "run")

--------------------------------------------------------------------------------
(* tml_tx_begin of an outermost block, first time or back at the retry      *)
(* label.  Spin is a turn of its loop that finds glb odd, Begin the turn    *)
(* that finds it even and goes on into tx_begin.                            *)

AtBegin(t) == pc[t] = "begin" \/ (pc[t] = "idle" /\ glb < MaxGlb)

Spin(t) ==
  /\ AtBegin(t)
  /\ ~IsEven(glb)
  /\ irrevoc' = [irrevoc EXCEPT ![t] = FALSE]
  /\ loc' = [loc EXCEPT ![t] = glb]
  /\ Goto(t, "begin")
  /\ UNCHANGED <<glb, mem, tx, arg, frees, histVars>>

Begin(t) ==
  /\ AtBegin(t)
  /\ IsEven(glb)
  /\ irrevoc' = [irrevoc EXCEPT ![t] = FALSE]
  /\ loc' = [loc EXCEPT ![t] = glb]
  /\ tx' = [tx EXCEPT ![t] = TxBegin(tx[t])]
  /\ Goto(t, "run")
  /\ UNCHANGED <<glb, mem, arg, frees, histVars>>

BeginNested(t) ==
  /\ AtWork(t)
  /\ tx[t].depth < MaxDepth
  /\ tx' = [tx EXCEPT ![t] = TxBegin(tx[t])]
  /\ UNCHANGED <<glb, mem, loc, irrevoc, pc, arg, frees, histVars>>

--------------------------------------------------------------------------------
(* TML_READ: the load comes first, then tml_tx_read decides whether the     *)
(* client may have what was loaded.                                         *)

ReadLoad(t, a) ==
  /\ AtWork(t)
  /\ CanUse(t, a)
  /\ arg' = [arg EXCEPT ![t] = <<a, mem[a]>>]
  /\ Goto(t, "read")
  /\ UNCHANGED <<glb, mem, tx, loc, irrevoc, frees, histVars>>

ReadStaleIfFree(t) ==   \* mutant: a lock that is held is not taken for a change
  ~irrevoc[t] /\ IsEven(loc[t]) /\ IsEven(glb) /\ glb # loc[t]

ReadStale(t) == ~irrevoc[t] /\ IsEven(loc[t]) /\ glb # loc[t]

HandOver(t) ==
  /\ ~ReadStale(t)
  /\ seen' = [seen EXCEPT ![t] = IF own[t][arg[t][1]] = NoVal
                                 THEN @ \cup {arg[t]} ELSE @]
  /\ Goto(t, "run")
  /\ tx' = tx

ReadCheck(t) ==
  /\ pc[t] = "read"
  /\ \/ ReadStale(t) /\ Restart(t) /\ UNCHANGED seen
     \/ HandOver(t)
  /\ arg' = [arg EXCEPT ![t] = NoArg]
  /\ UNCHANGED <<glb, mem, loc, irrevoc, frees, hist, own>>

--------------------------------------------------------------------------------
(* tml_try_irrevoc, then whatever its caller does next when it returns.     *)
(* The CAS that fails stores the lock it found in loc, then restarts.       *)

CasNeverFails(t) == FALSE   \* mutant: a plain store instead of the CAS

CasFails(t) == ~irrevoc[t] /\ IsEven(loc[t]) /\ glb # loc[t]

AcquireForgets(t) ==   \* mutant: the transaction is not marked irrevocable
  /\ ~CasFails(t)
  /\ IF ~irrevoc[t] /\ IsEven(loc[t])
     THEN glb' = loc[t] + 1 /\ loc' = [loc EXCEPT ![t] = @ + 1]
     ELSE UNCHANGED <<glb, loc>>
  /\ UNCHANGED irrevoc

Acquire(t) ==
  /\ ~CasFails(t)
  /\ IF ~irrevoc[t] /\ IsEven(loc[t])
     THEN /\ glb' = loc[t] + 1
          /\ loc' = [loc EXCEPT ![t] = @ + 1]
     ELSE UNCHANGED <<glb, loc>>
  /\ irrevoc' = [irrevoc EXCEPT ![t] = TRUE]

LoseRaceMarked(t) ==   \* mutant: marked irrevocable before the CAS is tried
  /\ CasFails(t)
  /\ loc' = [loc EXCEPT ![t] = glb]
  /\ irrevoc' = [irrevoc EXCEPT ![t] = TRUE]
  /\ Restart(t)
  /\ UNCHANGED <<glb, arg, frees>>

LoseRace(t) ==
  /\ CasFails(t)
  /\ loc' = [loc EXCEPT ![t] = glb]
  /\ Restart(t)
  /\ UNCHANGED <<glb, irrevoc, arg, frees>>

(* TML_WRITE up to the store, and the store.  *)
Write(t, a, v) ==
  /\ AtWork(t)
  /\ CanUse(t, a)
  /\ \/ /\ Acquire(t)
        /\ arg' = [arg EXCEPT ![t] = <<a, v>>]
        /\ Goto(t, "store")
        /\ UNCHANGED <<tx, frees>>
     \/ LoseRace(t)
  /\ UNCHANGED <<mem, histVars>>

Store(t) ==
  /\ pc[t] = "store"
  /\ mem' = [mem EXCEPT ![arg[t][1]] = arg[t][2]]
  /\ own' = [own EXCEPT ![t][arg[t][1]] = arg[t][2]]
  /\ arg' = [arg EXCEPT ![t] = NoArg]
  /\ Goto(t, "run")
  /\ UNCHANGED <<lockVars, tx, frees, hist, seen>>

(* tx_free: the block goes on free_list, to be reclaimed by the commit.  If *)
(* the list cannot grow, tx_free aborts a transaction that has already been *)
(* made irrevocable.                                                        *)
Listed(t, a) == frees' = [frees EXCEPT ![t] = @ \cup {a}] /\ UNCHANGED tx

NotListed(t) ==
  /\ tx' = [tx EXCEPT ![t] = TxAbort(tx[t], "failed")]
  /\ UNCHANGED frees

(* TML_FREE *)
Free(t, a) ==
  /\ AtWork(t)
  /\ CanUse(t, a)
  /\ \/ /\ Acquire(t)
        /\ Listed(t, a) \/ NotListed(t)
        /\ UNCHANGED <<pc, arg>>
     \/ LoseRace(t)
  /\ UNCHANGED <<mem, histVars>>

(* TML_IRREVOC called by the client. *)
Irrevoc(t) ==
  /\ AtWork(t)
  /\ \/ Acquire(t) /\ UNCHANGED <<tx, pc, arg, frees>>
     \/ LoseRace(t)
  /\ UNCHANGED <<mem, histVars>>

--------------------------------------------------------------------------------
(* tx_abort at any point of the client's code, irrevocable or not.  Nothing *)
(* is undone; what was written in place stays.                              *)
Abort(t) ==
  /\ AtWork(t)
  /\ tx' = [tx EXCEPT ![t] = TxAbort(tx[t], "failed")]
  /\ UNCHANGED <<glb, mem, loc, irrevoc, pc, arg, frees, histVars>>

(* TML_ABORT, and TML_MALLOC or TML_ZALLOC without memory.  What            *)
(* follows when a nested tx_begin finds none ends in a crash (TxLife).      *)
UserAbort(t) == Abort(t)
MallocFails(t) == Abort(t)

(* TML_RESTART called by the client. *)

UserRestart(t) ==
  /\ AtWork(t)
  /\ irrevoc[t] => RestartIrrevoc
  /\ Restart(t)
  /\ UNCHANGED <<glb, mem, loc, irrevoc, arg, frees, histVars>>

--------------------------------------------------------------------------------
(* The client's block is done: tml_tx_process calls tml_tx_commit, which    *)
(* at level 0 gives the free_list back to the allocator.                    *)

Reclaim(t, m) == [a \in Addrs |-> IF a \in frees[t] THEN Junk ELSE m[a]]

CommitForgetsFrees(t) ==   \* mutant: the free_list is not given back
  /\ AtWork(t)
  /\ tx' = [tx EXCEPT ![t] = TxCommit(tx[t])]
  /\ UNCHANGED <<lockVars, mem, pc, arg, frees, histVars>>

Commit(t) ==
  /\ AtWork(t)
  /\ tx' = [tx EXCEPT ![t] = TxCommit(tx[t])]
  /\ IF tx[t].level = 0
     THEN /\ mem' = Reclaim(t, mem)
          /\ own' = [own EXCEPT ![t] = Reclaim(t, @)]
     ELSE UNCHANGED <<mem, own>>
  /\ UNCHANGED <<lockVars, pc, arg, frees, hist, seen>>

(* A turn of the macros' loop in ONRETRY, ONABORT, ONCOMMIT or FINALLY. *)
Process(t) ==
  /\ pc[t] = "run"
  /\ tx[t].stage \notin {"NONE", "WORK"}
  /\ tx' = [tx EXCEPT ![t] = TxProcess(tx[t])]
  /\ UNCHANGED <<glb, mem, loc, irrevoc, pc, arg, frees, histVars>>

(* tml_tx_end of a nested block. *)
EndNested(t) ==
  /\ pc[t] = "run"
  /\ tx[t].stage = "NONE"
  /\ ~Outermost(tx[t])
  /\ tx' = [tx EXCEPT ![t] = TxEnd(tx[t])]
  /\ UNCHANGED <<glb, mem, loc, irrevoc, pc, arg, frees, histVars>>

(* tml_on_end, called by the outermost tml_tx_end. *)
OnEndOfCommit(t) ==   \* mutant: the lock is released after a commit only
  IF tx[t].err # "none" \/ IsEven(loc[t])
  THEN UNCHANGED <<glb, hist>>
  ELSE /\ glb' = loc[t] + 1
       /\ hist' = [g \in DOMAIN hist \cup {loc[t] + 1} |->
                     IF g = loc[t] + 1 THEN mem ELSE hist[g]]

OnEnd(t) ==
  IF tx[t].retry \/ IsEven(loc[t])
  THEN UNCHANGED <<glb, hist>>
  ELSE /\ glb' = loc[t] + 1
       /\ hist' = [g \in DOMAIN hist \cup {loc[t] + 1} |->
                     IF g = loc[t] + 1 THEN mem ELSE hist[g]]

End(t) ==
  /\ pc[t] = "run"
  /\ tx[t].stage = "NONE"
  /\ Outermost(tx[t])
  /\ tx' = [tx EXCEPT ![t] = TxEnd(tx[t])]
  /\ OnEnd(t)
  /\ frees' = [frees EXCEPT ![t] = {}]
  /\ seen' = [seen EXCEPT ![t] = {}]
  /\ own' = [own EXCEPT ![t] = NoWrites]
  /\ Goto(t, IF Retries(tx[t]) THEN "begin" ELSE "idle")
  /\ UNCHANGED <<mem, loc, irrevoc, arg>>

--------------------------------------------------------------------------------
Client(t) ==
  \/ BeginNested(t)
  \/ \E a \in Addrs : ReadLoad(t, a) \/ Free(t, a)
  \/ \E a \in Addrs, v \in Vals : Write(t, a, v)
  \/ Irrevoc(t)
  \/ UserAbort(t) \/ MallocFails(t)
  \/ UserRestart(t)
  \/ Commit(t)

Library(t) ==
  \/ Spin(t)
  \/ Begin(t)
  \/ ReadCheck(t)
  \/ Store(t)
  \/ Process(t)
  \/ EndNested(t)
  \/ End(t)

(* The threads have run all the transactions the bound allows. *)
Finished ==
  /\ glb >= MaxGlb
  /\ \A t \in Threads : pc[t] = "idle"
  /\ UNCHANGED vars

Next == (\E t \in Threads : Client(t) \/ Library(t)) \/ Finished

Spec == Init /\ [][Next]_vars

(* The operating system schedules every thread, so a step inside the        *)
(* library is taken; a client's blocks are finite and an irrevocable        *)
(* transaction is never sent back to its beginning, so it gets to the end   *)
(* of each of them.                                                         *)
Fairness ==
  \A t \in Threads :
    /\ WF_vars(Library(t))
    /\ \A d \in 1..MaxDepth :
         SF_vars(irrevoc[t] /\ tx[t].depth = d /\ Commit(t))

FairSpec == Spec /\ Fairness

--------------------------------------------------------------------------------
(* Properties. *)

InTx(t) == tx[t].depth > 0

Holds(t) == InTx(t) /\ irrevoc[t]

(* Type invariant of the lock, the transactions and the history. *)
TypeOK ==
  /\ glb \in Nat
  /\ mem \in [Addrs -> Contents]
  /\ tx \in [Threads -> TxRecord]
  /\ loc \in [Threads -> Nat]
  /\ irrevoc \in [Threads -> BOOLEAN]
  /\ pc \in [Threads -> {"idle", "begin", "run", "read", "store"}]
  /\ arg \in [Threads -> (Addrs \X Contents) \cup {NoArg}]
  /\ \A t \in Threads : pc[t] \in {"read", "store"} <=> arg[t] # NoArg
  /\ frees \in [Threads -> SUBSET Addrs]
  /\ DOMAIN hist \subseteq Nat
  /\ \A g \in DOMAIN hist : hist[g] \in [Addrs -> Contents]
  /\ seen \in [Threads -> SUBSET (Addrs \X Contents)]
  /\ own \in [Threads -> [Addrs -> Contents \cup {NoVal}]]

(* The lock word is odd exactly while one transaction is irrevocable, and   *)
(* that one knows it; no transaction leaves with the lock (tml.c:131        *)
(* "release the lock on end") and none is freed of it early.                *)
LockInv ==
  /\ ~IsEven(glb) => \E t \in Threads : Holds(t)
  /\ \A t \in Threads : Holds(t) => ~IsEven(glb) /\ loc[t] = glb
  /\ \A s, t \in Threads : Holds(s) /\ Holds(t) => s = t
LockHasOneHolder == TypeOK /\ LockInv

(* Opacity: everything the client of a transaction was ever handed, in a    *)
(* transaction that will be restarted as in one that commits, comes from    *)
(* one committed version of memory, the one tml_tx_begin chose.  (Once it   *)
(* restarts it is handed nothing more, and loc may be another's.)           *)
ReadsAreOneVersion ==
  \A t \in Threads : InTx(t) /\ ~tx[t].retry =>
    \A p \in seen[t] : p[2] = hist[Version(t)][p[1]]

(* In-place writing: memory is the last committed version, changed only by  *)
(* what the one irrevocable transaction wrote or gave back.                 *)
MemoryIsVersionPlusHolder ==
  /\ IsEven(glb) => mem = hist[glb]
  /\ \A t \in Threads : Holds(t) => mem = Overlay(hist[glb - 1], own[t])

(* A version is published by the outermost end of the transaction that      *)
(* holds the lock: it is the previous version plus all of its writes, and   *)
(* all it read was in that previous version (no lost update).               *)
PublishStep ==
  DOMAIN hist' # DOMAIN hist =>
    \E t \in Threads :
      /\ Holds(t) /\ ~InTx(t)'
      /\ glb' = glb + 1
      /\ hist'[glb'] = Overlay(hist[glb - 1], own[t])
      /\ \A p \in seen[t] : hist[glb - 1][p[1]] = p[2]
PublishesAtomically == [][PublishStep]_vars

(* What the macros leave behind is what they report, though nothing can be  *)
(* undone (tx_abort, tx.c:73-99, only frees what was allocated).  A restart *)
(* has written nothing.  A success has changed memory by all its writes and *)
(* given back every block it freed.  A failure has changed nothing if it    *)
(* never became irrevocable; if it did, whoever aborted it (TML_ABORT, or   *)
(* tx_malloc and tx_free out of memory), exactly what it wrote so far is    *)
(* there to stay, and no block it freed is given back.                      *)
OutcomeStep ==
  \A t \in Threads : InTx(t) /\ ~InTx(t)' =>
    /\ IF irrevoc[t]
       THEN glb' = glb + 1 /\ hist'[glb'] = Overlay(hist[glb - 1], own[t])
       ELSE UNCHANGED <<glb, mem, hist>> /\ own[t] = NoWrites
    /\ tx[t].retry => ~irrevoc[t]
    /\ \A a \in frees[t] : own[t][a] = Junk <=> tx[t].err = "none"
OutcomeIsExact == [][OutcomeStep]_vars

(* The lock is always given back, by a transaction that aborts in place as  *)
(* by one that commits.                                                     *)
LockIsReleased == ~IsEven(glb) ~> IsEven(glb)

(* A thread the others leave alone gets out of the loop of tml_tx_begin.    *)
LeftAlone(t) == \A s \in Threads \ {t} : ~InTx(s)
ObstructionFree ==
  \A t \in Threads : <>[]LeftAlone(t) => []<>(pc[t] # "begin")

--------------------------------------------------------------------------------
(* The invariant the proofs are made with: what relates the pieces of a     *)
(* thread's state, and thread to lock, between any two steps.               *)

(* Control: inside a block exactly when something is on the stack, and no   *)
(* error is pending while the client's code runs.                           *)
ControlInv(t) ==
  /\ InTx(t) <=> pc[t] \notin {"idle", "begin"}
  /\ ~InTx(t) => tx[t].stage = "NONE"
  /\ InTx(t) => tx[t].level = tx[t].depth - 1
  /\ pc[t] \in {"read", "store"} => InWork(tx[t])
  /\ InWork(tx[t]) => tx[t].err = "none"
  /\ InTx(t) => (tx[t].retry <=> tx[t].err = "restart")

(* Only the irrevocable transaction has anything in memory, and it is       *)
(* never the one that is being restarted.                                   *)
HolderInv(t) ==
  /\ InTx(t) /\ tx[t].retry => ~irrevoc[t]
  /\ own[t] # NoWrites => Holds(t)
  /\ frees[t] # {} => Holds(t)
  /\ pc[t] = "store" => Holds(t)

(* A revocable transaction runs on a committed version.  If the lock has    *)
(* not moved since, what it has just loaded is of that version; what the    *)
(* irrevocable one has loaded is what memory holds.                         *)
ReaderInv(t) ==
  /\ ~InTx(t) => seen[t] = {}
  /\ InTx(t) /\ ~irrevoc[t] /\ ~tx[t].retry =>
       IsEven(loc[t]) /\ loc[t] \in DOMAIN hist /\ loc[t] <= glb
  /\ pc[t] = "read" /\ (irrevoc[t] \/ loc[t] = glb) =>
       arg[t][2] = mem[arg[t][1]]

HistoryInv ==
  /\ \A g \in DOMAIN hist : IsEven(g) /\ g <= glb
  /\ ~IsEven(glb) => glb - 1 \in DOMAIN hist
  /\ IsEven(glb) => glb \in DOMAIN hist

IInv ==
  /\ TypeOK
  /\ LockInv
  /\ ReadsAreOneVersion
  /\ MemoryIsVersionPlusHolder
  /\ HistoryInv
  /\ \A t \in Threads : ControlInv(t) /\ HolderInv(t) /\ ReaderInv(t)

(* tml_tx_commit has run in the outermost block. *)
HasCommitted(t) == InTx(t) /\ tx[t].err = "none" /\ tx[t].level = 0 /\ ~InWork(tx[t])

(* What the proof of OutcomeIsExact needs besides IInv: a transaction has   *)
(* given back what it freed if its outermost block has committed, and       *)
(* nothing otherwise.                                                       *)
FateInv(t) ==
  /\ pc[t] = "store" => arg[t][2] # Junk
  /\ IF HasCommitted(t)
     THEN \A a \in frees[t] : own[t][a] = Junk
     ELSE \A a \in Addrs : own[t][a] # Junk

OutcomeInv == IInv /\ \A t \in Threads : FateInv(t)
===============================================================================
