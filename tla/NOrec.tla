--------------------------------- MODULE NOrec ---------------------------------
(***************************************************************************)
(* NOrec: volatile_stms/algs/norec/norec.c and the access macros of        *)
(* norec.h, run by a set of threads over shared memory.                    *)
(*                                                                         *)
(* Writes are buffered and replayed by the commit under the sequence lock  *)
(* glb; reads are remembered by value and compared with memory again       *)
(* whenever glb has moved.  A transaction may also become irrevocable: it  *)
(* replays its writes, keeps the lock and goes on in place.  One action is *)
(* one access to shared memory (-O0 on x86: see TML).                      *)
(***************************************************************************)
EXTENDS Tx, Sequences

CONSTANTS
  Threads,         \* threads that have called NOREC_ENTER
  Addrs,           \* shared locations the transactions access
  Vals,            \* values the client writes
  Junk,            \* what a location holds once free() has taken it
  NoVal,           \* "this transaction did not write the location"
  InitVal,         \* initial content of every location
  IntLimit,        \* 2^31: what an int is too small for
  MaxDepth,        \* deepest nesting of transaction blocks
  MaxGlb,          \* bound: no new transaction starts once glb reaches it
  RestartIrrevoc   \* does the client call NOREC_RESTART after it became irrevocable

ASSUME ConstAssumption ==
  /\ MaxDepth \in {1, 2}       \* deeper nesting kills the process: see TxLife
  /\ MaxGlb \in Nat
  /\ IntLimit \in Nat \ {0}
  /\ Junk \notin Vals \cup {InitVal}
  /\ NoVal \notin Vals \cup {InitVal, Junk}
  /\ RestartIrrevoc \in BOOLEAN

Contents == Vals \cup {InitVal, Junk}

IsEven(n) == n % 2 = 0

(* "time == glb" with int time = glb: the low 32 bits, sign-extended, are   *)
(* the 64-bit value only below IntLimit.                                    *)
FitsNoInt(n) == n < 2   \* mutant: the comparison fails from the first commit on

FitsInt(n) == n < IntLimit

VARIABLES
  glb,       \* the global sequence lock
  mem,       \* shared memory
  tx,        \* tx[t]: the struct tx of thread t
  loc,       \* loc[t]: struct tx_meta, the value of glb t runs on
  irrevoc,   \* irrevoc[t]: struct tx_meta, t reads and writes in place
  rset,      \* rset[t]: read_set, the <<location, value>> pairs t has read
  wset,      \* wset[t]: write_set, the sequence of <<location, value>>
  pc,        \* where t stands inside the library
  caller,    \* caller[t]: what norec_validate and the CAS loop return to
  arg,       \* arg[t]: <<location, value>> of the access in progress
  time,      \* time[t]: local variable of norec_validate
  todo,      \* todo[t]: entries of rset not yet compared in this pass
  left,      \* left[t]: entries of wset redo_wrset has not yet copied
  frees,     \* frees[t]: the locations on t's free_list
  \* history: read by the properties and by the client's discipline only
  hist,      \* hist[g]: memory when glb became the even number g
  start,     \* start[t]: the newest version when t's transaction began
  seen,      \* seen[t]: <<location, value>> pairs of memory handed to the client
  own        \* own[t]: what t's transaction did to each location, or NoVal

callVars == <<caller, arg, time, todo, left>>
setVars  == <<rset, wset, frees>>
lockVars == <<glb, loc, irrevoc>>
histVars == <<hist, start, seen, own>>
vars     == <<glb, mem, tx, loc, irrevoc, rset, wset, pc, caller, arg, time,
              todo, left, frees, hist, start, seen, own>>

NoArg    == <<>>
NoWrites == [a \in Addrs |-> NoVal]

Overlay(m, w) == [a \in Addrs |-> IF w[a] = NoVal THEN m[a] ELSE w[a]]

Init ==
  /\ glb     = 0
  /\ mem     = [a \in Addrs |-> InitVal]
  /\ tx      = [t \in Threads |-> TxIdle]
  /\ loc     = [t \in Threads |-> 0]
  /\ irrevoc = [t \in Threads |-> FALSE]
  /\ rset    = [t \in Threads |-> {}]
  /\ wset    = [t \in Threads |-> <<>>]
  /\ pc      = [t \in Threads |-> "idle"]
  /\ caller  = [t \in Threads |-> "none"]
  /\ arg     = [t \in Threads |-> NoArg]
  /\ time    = [t \in Threads |-> 0]
  /\ todo    = [t \in Threads |-> {}]
  /\ left    = [t \in Threads |-> <<>>]
  /\ frees   = [t \in Threads |-> {}]
  /\ hist    = [g \in {0} |-> [a \in Addrs |-> InitVal]]
  /\ start   = [t \in Threads |-> 0]
  /\ seen    = [t \in Threads |-> {}]
  /\ own     = [t \in Threads |-> NoWrites]

--------------------------------------------------------------------------------
Even(n) == n - (n % 2)

(* The client's discipline: a transaction only follows pointers to blocks   *)
(* that are allocated in some version that explains all it has read, and    *)
(* that it has not freed itself.                                            *)
Explains(g, t) == \A p \in seen[t] : hist[g][p[1]] = p[2]

CanUse(t, a) ==
  /\ a \notin frees[t]
  /\ \E g \in DOMAIN hist :
       g >= start[t] /\ Explains(g, t) /\ Overlay(hist[g], own[t])[a] # Junk

(* The client's code runs: the block of the macros is at stage WORK. *)
AtWork(t) == pc[t] = "run" /\ InWork(tx[t])

Goto(t, label) == pc' = [pc EXCEPT ![t] = label]

(* Return to the client's code, or longjmp into the innermost block's loop. *)
Leave(t) ==
  /\ Goto(t, "run")
  /\ caller' = [caller EXCEPT ![t] = "none"]
  /\ arg'    = [arg EXCEPT ![t] = NoArg]
  /\ time'   = [time EXCEPT ![t] = 0]
  /\ todo'   = [todo EXCEPT ![t] = {}]
  /\ left'   = [left EXCEPT ![t] = <<>>]

Restart(t) == tx' = [tx EXCEPT ![t] = TxRestart(tx[t])] /\ Leave(t)

(* The client gets v for the location a: history only. *)
Hand(t, a, v) ==
  seen' = [seen EXCEPT ![t] = IF own[t][a] = NoVal THEN @ \cup {<<a, v>>} ELSE @]

--------------------------------------------------------------------------------
(* norec_tx_begin: never waits for the lock. *)

Begin(t) ==
  /\ pc[t] = "begin" \/ (pc[t] = "idle" /\ glb < MaxGlb)
  /\ irrevoc' = [irrevoc EXCEPT ![t] = FALSE]
  /\ loc' = [loc EXCEPT ![t] = Even(glb)]
  /\ tx' = [tx EXCEPT ![t] = TxBegin(tx[t])]
  /\ start' = [start EXCEPT ![t] = Even(glb)]
  /\ Goto(t, "run")
  /\ UNCHANGED <<glb, mem, callVars, setVars, hist, seen, own>>

BeginNested(t) ==
  /\ AtWork(t)
  /\ tx[t].depth < MaxDepth
  /\ tx' = [tx EXCEPT ![t] = TxBegin(tx[t])]
  /\ UNCHANGED <<lockVars, mem, pc, callVars, setVars, histVars>>

--------------------------------------------------------------------------------
(* NOREC_READ: memory if irrevocable, else the transaction's own write if   *)
(* there is one, else a load that counts once glb is what loc says.         *)

InWset(t, a) == \E i \in DOMAIN wset[t] : wset[t][i][1] = a

ReadInPlace(t, a) ==
  /\ irrevoc[t]
  /\ Hand(t, a, mem[a])
  /\ UNCHANGED <<pc, arg, caller>>

ReadOwnWrite(t, a) ==
  /\ ~irrevoc[t]
  /\ InWset(t, a)
  /\ UNCHANGED <<pc, arg, caller, seen>>

ReadLoad(t, a) ==
  /\ ~irrevoc[t]
  /\ ~InWset(t, a)
  /\ arg' = [arg EXCEPT ![t] = <<a, mem[a]>>]
  /\ caller' = [caller EXCEPT ![t] = "read"]
  /\ Goto(t, "prevalidate")
  /\ UNCHANGED seen

Read(t, a) ==
  /\ AtWork(t)
  /\ CanUse(t, a)
  /\ ReadInPlace(t, a) \/ ReadOwnWrite(t, a) \/ ReadLoad(t, a)
  /\ UNCHANGED <<lockVars, mem, tx, time, todo, left, setVars, hist, start, own>>

(* norec_prevalidate, and norec_rdset_add when nothing has moved. *)
Prevalidate(t) ==
  /\ pc[t] = "prevalidate"
  /\ \/ /\ loc[t] # glb
        /\ Goto(t, "validate")
        /\ UNCHANGED <<callVars, rset, seen>>
     \/ /\ loc[t] = glb
        /\ rset' = [rset EXCEPT ![t] = @ \cup {arg[t]}]
        /\ Hand(t, arg[t][1], arg[t][2])
        /\ Leave(t)
  /\ UNCHANGED <<lockVars, mem, tx, wset, frees, hist, start, own>>

(* The load after a successful norec_validate. *)
Reload(t) ==
  /\ pc[t] = "reload"
  /\ arg' = [arg EXCEPT ![t] = <<@[1], mem[@[1]]>>]
  /\ Goto(t, "prevalidate")
  /\ UNCHANGED <<lockVars, mem, tx, caller, time, todo, left, setVars, histVars>>

--------------------------------------------------------------------------------
(* norec_validate: wait for an even glb, compare the read set with memory   *)
(* entry by entry, and accept if glb is still the same.                     *)

SampleTime(t) ==
  /\ pc[t] = "validate"
  /\ IsEven(glb)
  /\ time' = [time EXCEPT ![t] = glb]
  /\ todo' = [todo EXCEPT ![t] = rset[t]]
  /\ Goto(t, "compare")
  /\ UNCHANGED <<lockVars, mem, tx, caller, arg, left, setVars, histVars>>

(* One turn of validate_rdset. *)
Compare(t) ==
  /\ pc[t] = "compare"
  /\ \E e \in todo[t] :
       \/ /\ mem[e[1]] = e[2]
          /\ todo' = [todo EXCEPT ![t] = @ \ {e}]
          /\ UNCHANGED <<tx, pc, caller, arg, time, left>>
       \/ /\ mem[e[1]] # e[2]
          /\ Restart(t)
  /\ UNCHANGED <<lockVars, mem, setVars, histVars>>

RecheckNoReload(t) ==   \* mutant: the value loaded before the validation is kept
  /\ pc[t] = "compare"
  /\ todo[t] = {}
  /\ IF time[t] = glb /\ FitsInt(glb)
     THEN /\ loc' = [loc EXCEPT ![t] = time[t]]
          /\ Goto(t, IF caller[t] = "read" THEN "prevalidate" ELSE "cas")
     ELSE /\ Goto(t, "validate")
          /\ UNCHANGED loc
  /\ time' = [time EXCEPT ![t] = 0]
  /\ UNCHANGED <<glb, irrevoc, mem, tx, caller, arg, todo, left, setVars, histVars>>

(* The read set held; look at glb once more. *)
Recheck(t) ==
  /\ pc[t] = "compare"
  /\ todo[t] = {}
  /\ IF time[t] = glb /\ FitsInt(glb)
     THEN /\ loc' = [loc EXCEPT ![t] = time[t]]
          /\ Goto(t, IF caller[t] = "read" THEN "reload" ELSE "cas")
     ELSE /\ Goto(t, "validate")
          /\ UNCHANGED loc
  /\ time' = [time EXCEPT ![t] = 0]
  /\ UNCHANGED <<glb, irrevoc, mem, tx, caller, arg, todo, left, setVars, histVars>>

--------------------------------------------------------------------------------
(* The loop "while (!CAS(&glb, &loc, loc + 1)) norec_validate()" shared by  *)
(* norec_tx_commit and norec_try_irrevoc.  A CAS that fails leaves what it  *)
(* found in loc, which may be another transaction's odd value.              *)

SwapOnly(t) ==   \* mutant: the lock is taken without a look at its value
  /\ pc[t] = "cas"
  /\ glb' = loc[t] + 1
  /\ left' = [left EXCEPT ![t] = wset[t]]
  /\ Goto(t, "redo")
  /\ UNCHANGED <<loc, irrevoc, mem, tx, caller, arg, time, todo, setVars, histVars>>

CompareAndSwap(t) ==
  /\ pc[t] = "cas"
  /\ \/ /\ glb = loc[t]
        /\ glb' = loc[t] + 1
        /\ left' = [left EXCEPT ![t] = wset[t]]
        /\ Goto(t, "redo")
        /\ UNCHANGED loc
     \/ /\ glb # loc[t]
        /\ loc' = [loc EXCEPT ![t] = glb]
        /\ Goto(t, "validate")
        /\ UNCHANGED <<glb, left>>
  /\ UNCHANGED <<irrevoc, mem, tx, caller, arg, time, todo, setVars, histVars>>

(* One turn of redo_wrset. *)
Redo(t) ==
  /\ pc[t] = "redo"
  /\ left[t] # <<>>
  /\ mem' = [mem EXCEPT ![Head(left[t])[1]] = Head(left[t])[2]]
  /\ left' = [left EXCEPT ![t] = Tail(@)]
  /\ UNCHANGED <<lockVars, tx, pc, caller, arg, time, todo, setVars, histVars>>

(* glb has become the even number g with memory m: history only. *)
Publish(g, m) ==
  hist' = [h \in DOMAIN hist \cup {g} |-> IF h = g THEN m ELSE hist[h]]

(* The end of norec_tx_commit's slow path. Nothing is on the free_list of   *)
(* a transaction that is not irrevocable.                                   *)
Release(t) ==
  /\ pc[t] = "redo"
  /\ left[t] = <<>>
  /\ caller[t] = "commit"
  /\ glb' = loc[t] + 2
  /\ Publish(loc[t] + 2, mem)
  /\ tx' = [tx EXCEPT ![t] = TxCommit(tx[t])]
  /\ Leave(t)
  /\ UNCHANGED <<loc, irrevoc, mem, setVars, start, seen, own>>

(* tx_free: the block goes on free_list.  If the list cannot grow, tx_free  *)
(* aborts a transaction that has already been made irrevocable.             *)
ListFree(t, a) ==
  \/ /\ frees' = [frees EXCEPT ![t] = @ \cup {a}]
     /\ UNCHANGED tx
  \/ /\ tx' = [tx EXCEPT ![t] = TxAbort(tx[t], "failed")]
     /\ UNCHANGED frees

GoOn(t) ==
  IF caller[t] = "free" THEN ListFree(t, arg[t][1]) ELSE UNCHANGED <<frees, tx>>

BecomeIrrevocAtOldLoc(t) ==   \* mutant: loc is not counted up
  /\ pc[t] = "redo"
  /\ left[t] = <<>>
  /\ caller[t] # "commit"
  /\ irrevoc' = [irrevoc EXCEPT ![t] = TRUE]
  /\ GoOn(t)
  /\ Leave(t)
  /\ UNCHANGED <<glb, loc, mem, rset, wset, histVars>>

(* The end of norec_try_irrevoc, and tx_free when norec_tx_free called it. *)
BecomeIrrevoc(t) ==
  /\ pc[t] = "redo"
  /\ left[t] = <<>>
  /\ caller[t] # "commit"
  /\ loc' = [loc EXCEPT ![t] = @ + 1]
  /\ irrevoc' = [irrevoc EXCEPT ![t] = TRUE]
  /\ GoOn(t)
  /\ Leave(t)
  /\ UNCHANGED <<glb, mem, rset, wset, histVars>>

--------------------------------------------------------------------------------
(* NOREC_WRITE.  The client writes a buffered location once: a second write *)
(* makes tx_vector_empty free the first value again (norec.c:154).          *)
Write(t, a, v) ==
  /\ AtWork(t)
  /\ CanUse(t, a)
  /\ \/ /\ irrevoc[t]
        /\ mem' = [mem EXCEPT ![a] = v]
        /\ UNCHANGED wset
     \/ /\ ~irrevoc[t]
        /\ ~InWset(t, a)
        /\ wset' = [wset EXCEPT ![t] = Append(@, <<a, v>>)]
        /\ UNCHANGED mem
  /\ own' = [own EXCEPT ![t][a] = v]
  /\ UNCHANGED <<lockVars, tx, pc, callVars, rset, frees, hist, start, seen>>

(* NOREC_FREE and NOREC_IRREVOC. *)
Free(t, a) ==
  /\ AtWork(t)
  /\ CanUse(t, a)
  /\ \/ /\ irrevoc[t]
        /\ ListFree(t, a)
        /\ UNCHANGED <<pc, caller, arg>>
     \/ /\ ~irrevoc[t]
        /\ caller' = [caller EXCEPT ![t] = "free"]
        /\ arg' = [arg EXCEPT ![t] = <<a, Junk>>]
        /\ Goto(t, "cas")
        /\ UNCHANGED <<tx, frees>>
  /\ UNCHANGED <<lockVars, mem, time, todo, left, rset, wset, histVars>>

Irrevoc(t) ==
  /\ AtWork(t)
  /\ ~irrevoc[t]
  /\ caller' = [caller EXCEPT ![t] = "irrevoc"]
  /\ Goto(t, "cas")
  /\ UNCHANGED <<lockVars, mem, tx, arg, time, todo, left, setVars, histVars>>

(* tx_abort at any point of the client's code, irrevocable or not.  Nothing *)
(* is undone; what was replayed or written in place stays.                  *)
Abort(t) ==
  /\ AtWork(t)
  /\ tx' = [tx EXCEPT ![t] = TxAbort(tx[t], "failed")]
  /\ UNCHANGED <<lockVars, mem, pc, callVars, setVars, histVars>>

(* NOREC_ABORT, and NOREC_MALLOC or NOREC_ZALLOC without memory.  What      *)
(* follows when a nested tx_begin finds none ends in a crash (TxLife).      *)
UserAbort(t) == Abort(t)
MallocFails(t) == Abort(t)

UserRestart(t) ==
  /\ AtWork(t)
  /\ irrevoc[t] => RestartIrrevoc
  /\ Restart(t)
  /\ UNCHANGED <<lockVars, mem, setVars, histVars>>

--------------------------------------------------------------------------------
(* norec_tx_commit, called by norec_tx_process when the block is done: at   *)
(* once if the block is nested or nothing was buffered, at once but with    *)
(* the free_list given back if irrevocable, else through the CAS loop.      *)

Reclaim(t, m) == [a \in Addrs |-> IF a \in frees[t] THEN Junk ELSE m[a]]

CommitsUnlessRead(t) ==   \* mutant: the length of the wrong set is tested
  tx[t].level > 0 \/ rset[t] = {}

CommitsNothing(t) == tx[t].level > 0 \/ wset[t] = <<>>

Commit(t) ==
  /\ AtWork(t)
  /\ \/ /\ CommitsNothing(t)
        /\ tx' = [tx EXCEPT ![t] = TxCommit(tx[t])]
        /\ UNCHANGED <<mem, own, pc, caller>>
     \/ /\ ~CommitsNothing(t) /\ irrevoc[t]
        /\ mem' = Reclaim(t, mem)
        /\ own' = [own EXCEPT ![t] = Reclaim(t, @)]
        /\ tx' = [tx EXCEPT ![t] = TxCommit(tx[t])]
        /\ UNCHANGED <<pc, caller>>
     \/ /\ ~CommitsNothing(t) /\ ~irrevoc[t]
        /\ caller' = [caller EXCEPT ![t] = "commit"]
        /\ Goto(t, "cas")
        /\ UNCHANGED <<mem, own, tx>>
  /\ UNCHANGED <<lockVars, arg, time, todo, left, setVars, hist, start, seen>>

(* A turn of the macros' loop in ONRETRY, ONABORT, ONCOMMIT or FINALLY. *)
Process(t) ==
  /\ pc[t] = "run"
  /\ tx[t].stage \notin {"NONE", "WORK"}
  /\ tx' = [tx EXCEPT ![t] = TxProcess(tx[t])]
  /\ UNCHANGED <<lockVars, mem, pc, callVars, setVars, histVars>>

EndNested(t) ==
  /\ pc[t] = "run"
  /\ tx[t].stage = "NONE"
  /\ ~Outermost(tx[t])
  /\ tx' = [tx EXCEPT ![t] = TxEnd(tx[t])]
  /\ UNCHANGED <<lockVars, mem, pc, callVars, setVars, histVars>>

OnEndOfCommit(t) ==   \* mutant: the lock is released after a commit only
  IF tx[t].err = "none" /\ irrevoc[t] /\ ~IsEven(loc[t])
  THEN glb' = loc[t] + 1 /\ Publish(loc[t] + 1, mem)
  ELSE UNCHANGED <<glb, hist>>

(* norec_on_end, called by the outermost norec_tx_end. *)
OnEnd(t) ==
  IF ~tx[t].retry /\ irrevoc[t] /\ ~IsEven(loc[t])
  THEN glb' = loc[t] + 1 /\ Publish(loc[t] + 1, mem)
  ELSE UNCHANGED <<glb, hist>>

End(t) ==
  /\ pc[t] = "run"
  /\ tx[t].stage = "NONE"
  /\ Outermost(tx[t])
  /\ tx' = [tx EXCEPT ![t] = TxEnd(tx[t])]
  /\ rset' = [rset EXCEPT ![t] = {}]
  /\ wset' = [wset EXCEPT ![t] = <<>>]
  /\ frees' = [frees EXCEPT ![t] = {}]
  /\ OnEnd(t)
  /\ seen' = [seen EXCEPT ![t] = {}]
  /\ own' = [own EXCEPT ![t] = NoWrites]
  /\ Goto(t, IF Retries(tx[t]) THEN "begin" ELSE "idle")
  /\ UNCHANGED <<mem, loc, irrevoc, callVars, start>>

--------------------------------------------------------------------------------
Client(t) ==
  \/ BeginNested(t)
  \/ \E a \in Addrs : Read(t, a) \/ Free(t, a)
  \/ \E a \in Addrs, v \in Vals : Write(t, a, v)
  \/ Irrevoc(t)
  \/ UserAbort(t) \/ MallocFails(t)
  \/ UserRestart(t)
  \/ Commit(t)

Library(t) ==
  \/ Begin(t)
  \/ Prevalidate(t)
  \/ Reload(t)
  \/ SampleTime(t)
  \/ Compare(t)
  \/ Recheck(t)
  \/ CompareAndSwap(t)
  \/ Redo(t)
  \/ Release(t)
  \/ BecomeIrrevoc(t)
  \/ Process(t)
  \/ EndNested(t)
  \/ End(t)

(* The threads have run all the transactions the bound allows. *)
Finished ==
  /\ glb >= MaxGlb
  /\ \A t \in Threads : pc[t] = "idle"
  /\ UNCHANGED vars

Next == (\E t \in Threads : Client(t) \/ Library(t)) \/ Finished

Spec == Init /\ [][Next]_vars

(* Every thread is scheduled; a client's blocks are finite and an           *)
(* irrevocable transaction is never sent back to its beginning.             *)
Fairness ==
  \A t \in Threads :
    /\ WF_vars(Library(t))
    /\ \A d \in 1..MaxDepth :
         SF_vars(irrevoc[t] /\ tx[t].depth = d /\ Commit(t))

FairSpec == Spec /\ Fairness

--------------------------------------------------------------------------------
(* Properties. *)

InTx(t) == tx[t].depth > 0

Replaying(t) == pc[t] = "redo"

Holds(t) == Replaying(t) \/ (InTx(t) /\ irrevoc[t])

Labels == {"idle", "begin", "run", "prevalidate", "reload", "validate", "compare",
           "cas", "redo"}

Entries == Addrs \X Contents

(* Type invariant. *)
TypeOK ==
  /\ glb \in Nat
  /\ mem \in [Addrs -> Contents]
  /\ tx \in [Threads -> TxRecord]
  /\ loc \in [Threads -> Nat]
  /\ irrevoc \in [Threads -> BOOLEAN]
  /\ rset \in [Threads -> SUBSET Entries]
  /\ wset \in [Threads -> Seq(Addrs \X Vals)]
  /\ pc \in [Threads -> Labels]
  /\ caller \in [Threads -> {"none", "read", "commit", "irrevoc", "free"}]
  /\ arg \in [Threads -> Entries \cup {NoArg}]
  /\ time \in [Threads -> Nat]
  /\ todo \in [Threads -> SUBSET Entries]
  /\ left \in [Threads -> Seq(Addrs \X Vals)]
  /\ frees \in [Threads -> SUBSET Addrs]
  /\ DOMAIN hist \subseteq Nat
  /\ \A g \in DOMAIN hist : hist[g] \in [Addrs -> Contents]
  /\ start \in [Threads -> Nat]
  /\ seen \in [Threads -> SUBSET Entries]
  /\ own \in [Threads -> [Addrs -> Contents \cup {NoVal}]]

(* What glb is while t has the lock, as t knows it. *)
HeldAt(t) == IF Replaying(t) THEN loc[t] + 1 ELSE loc[t]

(* The lock word is odd exactly while one transaction replays its writes or *)
(* is irrevocable, and loc tells that one the value it has to release; it   *)
(* is back to even when the transaction ends (norec.c:319).                 *)
LockHasOneHolder ==
  /\ ~IsEven(glb) => \E t \in Threads : Holds(t)
  /\ \A t \in Threads : Holds(t) => ~IsEven(glb) /\ glb = HeldAt(t)
  /\ \A s, t \in Threads : Holds(s) /\ Holds(t) => s = t

(* A version that explains all t has read, and is no older than t. *)
Snapshot(g, t) == g \in DOMAIN hist /\ g >= start[t] /\ Explains(g, t)

(* Opacity: everything the client of a transaction was handed, whether the  *)
(* transaction will commit or not, is explained by one committed version,   *)
(* and by one that is no older than the transaction.                        *)
ReadsAreOneVersion ==
  \A t \in Threads : InTx(t) /\ ~tx[t].retry => \E g \in DOMAIN hist : Snapshot(g, t)

(* What t, which has the lock, has in memory: the writes its replay has     *)
(* copied so far, or all it has written.                                    *)
Copied(t) ==
  IF Replaying(t)
  THEN [a \in Addrs |-> IF \E i \in DOMAIN left[t] : left[t][i][1] = a
                        THEN NoVal ELSE own[t][a]]
  ELSE own[t]

(* Memory is the last committed version, changed only by the one holder of  *)
(* the lock: buffered writes are invisible until they are copied.           *)
MemoryIsVersionPlusHolder ==
  /\ IsEven(glb) => mem = hist[glb]
  /\ \A t \in Threads : Holds(t) => mem = Overlay(hist[glb - 1], Copied(t))

(* A version is published by one transaction that has not failed (or that   *)
(* failed when it was irrevocable, which nothing can undo): it is the       *)
(* version before plus everything the transaction wrote, and everything it  *)
(* read was in the version before (the read set is validated against it).   *)
PublishStep ==
  DOMAIN hist' # DOMAIN hist =>
    \E t \in Threads :
      /\ Holds(t) /\ ~Holds(t)'
      /\ tx[t].err = "none" \/ irrevoc[t]
      /\ glb' = glb + 1
      /\ hist'[glb'] = Overlay(hist[glb - 1], own[t])
      /\ Explains(glb - 1, t)
PublishesAtomically == [][PublishStep]_vars

(* The lock is always given back, by a transaction that replays its writes, *)
(* by one that ends irrevocably and by one that is aborted in place.        *)
LockIsReleased == ~IsEven(glb) ~> IsEven(glb)

(* Validation is never stuck on itself: a thread the others leave alone     *)
(* gets out of norec_validate, and of the CAS loop around it.               *)
LeftAlone(t) == \A s \in Threads \ {t} : ~InTx(s)
Waiting(t)   == pc[t] \in {"validate", "compare", "reload", "prevalidate", "cas"}
ObstructionFree ==
  \A t \in Threads : <>[]LeftAlone(t) => []<>~Waiting(t)

--------------------------------------------------------------------------------
(* The invariant the proofs are made with. *)

(* Control: where a thread can be inside the library, and with which error. *)
ControlInv(t) ==
  /\ InTx(t) <=> pc[t] \notin {"idle", "begin"}
  /\ pc[t] \in {"idle", "begin", "run"} <=> caller[t] = "none"
  /\ caller[t] \in {"read", "free"} <=> arg[t] # NoArg
  /\ pc[t] \in {"prevalidate", "reload"} => caller[t] = "read"
  /\ pc[t] \in {"cas", "redo"} => caller[t] # "read"
  /\ caller[t] # "none" => InWork(tx[t]) /\ ~irrevoc[t]
  /\ caller[t] = "commit" => tx[t].level = 0
  /\ ~InTx(t) => tx[t].stage = "NONE"
  /\ InTx(t) => tx[t].level = tx[t].depth - 1
  /\ InWork(tx[t]) => tx[t].err = "none"
  /\ InTx(t) => (tx[t].retry <=> tx[t].err = "restart")
  /\ InTx(t) /\ irrevoc[t] => ~tx[t].retry

(* Entries of a write set: each location once, with what the transaction    *)
(* has written to it.                                                       *)
Listed(w, o) ==
  \A i \in DOMAIN w : /\ o[w[i][1]] = w[i][2]
                      /\ \A j \in DOMAIN w : w[j][1] = w[i][1] => j = i

(* The read set is all the client of a revocable transaction has read, and  *)
(* its write set all it has written; what is left to replay is of that.     *)
SetsInv(t) ==
  /\ ~InTx(t) => /\ rset[t] = {} /\ wset[t] = <<>> /\ frees[t] = {}
                 /\ seen[t] = {} /\ own[t] = NoWrites
  /\ InTx(t) /\ ~irrevoc[t] =>
       /\ seen[t] = rset[t] /\ frees[t] = {}
       /\ Listed(wset[t], own[t])
       /\ \A a \in Addrs : own[t][a] # NoVal => InWset(t, a)
  /\ caller[t] = "read" => own[t][arg[t][1]] = NoVal
  /\ Replaying(t) => Listed(left[t], own[t])

(* A revocable transaction that is not in norec_validate runs on a version; *)
(* what it has just loaded is of that version if the lock has not moved.    *)
(* In norec_validate, the entries compared so far are in memory as long as  *)
(* glb is what it was.  An irrevocable one runs on the last version.        *)
ReaderInv(t) ==
  /\ InTx(t) => start[t] <= glb
  /\ InTx(t) /\ ~tx[t].retry /\ ~irrevoc[t] /\ pc[t] \notin {"validate", "compare"} =>
       Snapshot(loc[t], t)
  /\ InTx(t) /\ irrevoc[t] => Snapshot(loc[t] - 1, t)
  /\ pc[t] = "prevalidate" /\ loc[t] = glb => arg[t][2] = mem[arg[t][1]]
  /\ pc[t] = "compare" =>
       /\ time[t] \in DOMAIN hist /\ time[t] >= start[t]
       /\ todo[t] \subseteq rset[t]
       /\ time[t] = glb => \A e \in rset[t] \ todo[t] : mem[e[1]] = e[2]

HistoryInv ==
  /\ \A g \in DOMAIN hist : IsEven(g) /\ g <= glb
  /\ Even(glb) \in DOMAIN hist

IInv ==
  /\ TypeOK
  /\ LockHasOneHolder
  /\ ReadsAreOneVersion
  /\ MemoryIsVersionPlusHolder
  /\ HistoryInv
  /\ \A t \in Threads : ControlInv(t) /\ SetsInv(t) /\ ReaderInv(t)
===============================================================================
