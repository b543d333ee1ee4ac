-------------------------------- MODULE TmQueue --------------------------------
(***************************************************************************)
(* The transactional queue of volatile_stms/benchmarks/queue/tm_queue.c,   *)
(* called by several threads.  Of the transactional memory underneath only *)
(* what TML and NOrec are shown to give is used: an attempt sees one       *)
(* committed version, a transaction that writes commits only if that       *)
(* version is still the current one, and one that aborts changes nothing.  *)
(* TML does not undo what it wrote in place, but here it has nothing to    *)
(* undo: of the allocations an operation can fail in, tx_begin and the     *)
(* malloc of a push come before its writes, and the one entry a pop puts   *)
(* on the free_list does not fill it (VEC_INIT is 8).                      *)
(*                                                                         *)
(* What a restart does not undo is the C function's own frame: setjmp sits *)
(* in the block, the locals above it (succ) and the caller's *retval keep  *)
(* what the abandoned attempt left in them (the build is -O0,              *)
(* common/common.inc.mk:2).                                                *)
(***************************************************************************)
EXTENDS Naturals, FiniteSets, Sequences

CONSTANTS
  Threads,    \* threads that call the queue
  Nodes,      \* addresses for struct tm_queue_entry
  Values,     \* values the clients push
  Null,       \* the null pointer
  NoVal       \* no value: *retval before it is assigned, a freed entry's value

ASSUME ConstAssumption ==
  /\ IsFiniteSet(Nodes)
  /\ Null \notin Nodes
  /\ NoVal \notin Values

VARIABLES
  q,       \* the committed struct tm_queue and its entries
  exists,  \* queue_new has been called, queue_destroy not yet
  pc,      \* pc[t]: "idle", or how far the attempt of t has come
  op,      \* op[t]: the operation t has called
  snap,    \* snap[t]: the version t's attempt sees
  succ,    \* succ[t]: the local variable succ, 0 when the function is entered
  retval,  \* retval[t]: the caller's *retval
  reply,   \* reply[t]: what the last call returned, 0 during a call
  \* history
  took,    \* took[t]: the value the committed attempt of that call removed or saw
  left     \* left[t]: succ was already set when t's attempt began

callVars == <<pc, op, snap, succ, retval, reply, took, left>>
vars     == <<q, exists, callVars>>

Sides == {"front", "back"}

Ops == [kind : {"pop", "peak"}, side : Sides, val : {NoVal}]
         \cup [kind : {"push"}, side : Sides, val : Values]

NoOp == [kind |-> "none", side |-> "back", val |-> NoVal]

(* queue_new *)
NewQueue ==
  [front |-> Null, back |-> Null, length |-> 0, live |-> {},
   next  |-> [n \in Nodes |-> Null],
   prev  |-> [n \in Nodes |-> Null],
   value |-> [n \in Nodes |-> NoVal]]

Init ==
  /\ q = NewQueue
  /\ exists = TRUE
  /\ pc     = [t \in Threads |-> "idle"]
  /\ op     = [t \in Threads |-> NoOp]
  /\ snap   = [t \in Threads |-> NewQueue]
  /\ succ   = [t \in Threads |-> FALSE]
  /\ retval = [t \in Threads |-> NoVal]
  /\ reply  = [t \in Threads |-> 0]
  /\ took   = [t \in Threads |-> NoVal]
  /\ left   = [t \in Threads |-> FALSE]

--------------------------------------------------------------------------------
(* The blocks of the operations, as functions of the version they run on. *)

IsEmpty(u) == u.front = Null /\ u.back = Null

(* queue_entry_new_tm: a zeroed entry that holds the value. *)
NewEntry(u, n, v) == [u EXCEPT !.live = @ \cup {n}, !.value[n] = v, !.length = @ + 1]

PushBackOneWay(u, n, v) ==   \* mutant: the old last entry is not linked to the new one
  LET w == NewEntry(u, n, v)
  IN  IF IsEmpty(u) THEN [w EXCEPT !.front = n, !.back = n]
      ELSE [w EXCEPT !.prev[n] = u.back, !.back = n]

PushBack(u, n, v) ==
  LET w == NewEntry(u, n, v)
  IN  IF IsEmpty(u) THEN [w EXCEPT !.front = n, !.back = n]
      ELSE [w EXCEPT !.prev[n] = u.back, !.next[u.back] = n, !.back = n]

PushFront(u, n, v) ==
  LET w == NewEntry(u, n, v)
  IN  IF IsEmpty(u) THEN [w EXCEPT !.front = n, !.back = n]
      ELSE [w EXCEPT !.next[n] = u.front, !.prev[u.front] = n, !.front = n]

Push(u, o, n) == IF o.side = "back" THEN PushBack(u, n, o.val) ELSE PushFront(u, n, o.val)

(* STM_FREE, and one entry fewer. *)
Drop(u, n) ==
  [u EXCEPT !.live = @ \ {n}, !.next[n] = Null, !.prev[n] = Null, !.value[n] = NoVal,
            !.length = @ - 1]

PopBack(u) ==
  LET p == u.prev[u.back]
  IN  Drop(IF p = Null THEN [u EXCEPT !.front = Null, !.back = Null]
                       ELSE [u EXCEPT !.next[p] = Null, !.back = p], u.back)

PopFront(u) ==
  LET n == u.next[u.front]
  IN  Drop(IF n = Null THEN [u EXCEPT !.front = Null, !.back = Null]
                       ELSE [u EXCEPT !.prev[n] = Null, !.front = n], u.front)

Pop(u, side) == IF side = "back" THEN PopBack(u) ELSE PopFront(u)

ValueAtBack(u, side) == u.value[u.back]   \* mutant: front copied from back

(* The value at one end. *)
ValueAt(u, side) == u.value[IF side = "back" THEN u.back ELSE u.front]

Follow(link, n) == IF n = Null THEN Null ELSE link[n]

(* Where the steps from n along link lead, one after the other. *)
Along(link, n) ==
  LET at[i \in 1..Cardinality(Nodes)] == IF i = 1 THEN n ELSE Follow(link, at[i - 1])
  IN  at

(* The entries met on that way, as a sequence. *)
Walk(link, n) ==
  LET at  == Along(link, n)
  IN  [i \in 1..Cardinality({j \in DOMAIN at : at[j] # Null}) |-> at[i]]

Met(s) == {s[i] : i \in DOMAIN s}

(* The values from front to back, what the list stands for. *)
Content(u) == LET f == Walk(u.next, u.front) IN [i \in DOMAIN f |-> u.value[f[i]]]

(* The value an observer sees at one end. *)
EndOf(u, side) ==
  LET c == Content(u) IN IF side = "back" THEN c[Len(c)] ELSE c[1]

--------------------------------------------------------------------------------
(* The function is entered and its first attempt begins. *)
Call(t, o) ==
  /\ exists
  /\ pc[t] = "idle"
  /\ pc' = [pc EXCEPT ![t] = "look"]
  /\ op' = [op EXCEPT ![t] = o]
  /\ snap' = [snap EXCEPT ![t] = q]
  /\ retval' = [retval EXCEPT ![t] = NoVal]
  /\ reply' = [reply EXCEPT ![t] = 0]
  /\ took' = [took EXCEPT ![t] = NoVal]
  /\ UNCHANGED <<q, exists, succ, left>>

(* The transaction conflicts at one of its accesses, or when it commits: a  *)
(* new attempt on the current version.  The version need not have changed:  *)
(* a writer that only holds the lock makes others restart.  succ and        *)
(* *retval are not reset.                                                   *)
Restart(t) ==
  /\ pc[t] # "idle"
  /\ pc' = [pc EXCEPT ![t] = "look"]
  /\ snap' = [snap EXCEPT ![t] = q]
  /\ left' = [left EXCEPT ![t] = succ[t]]
  /\ UNCHANGED <<q, exists, op, succ, retval, reply, took>>

(* There is an entry at this end: succ = 1. *)
Claim(t) ==
  /\ pc[t] = "look"
  /\ op[t].kind # "push"
  /\ ~IsEmpty(snap[t])
  /\ succ' = [succ EXCEPT ![t] = TRUE]
  /\ pc' = [pc EXCEPT ![t] = "claimed"]
  /\ UNCHANGED <<q, exists, op, snap, retval, reply, took, left>>

(* The read of its value returns. *)
ReadValue(t) ==
  /\ pc[t] = "claimed"
  /\ retval' = [retval EXCEPT ![t] = ValueAt(snap[t], op[t].side)]
  /\ pc' = [pc EXCEPT ![t] = "valued"]
  /\ UNCHANGED <<q, exists, op, snap, succ, reply, took, left>>

(* The function returns code; its attempt saw or removed v. *)
Return(t, code, v) ==
  /\ pc' = [pc EXCEPT ![t] = "idle"]
  /\ reply' = [reply EXCEPT ![t] = code]
  /\ took' = [took EXCEPT ![t] = v]
  /\ snap' = [snap EXCEPT ![t] = NewQueue]
  /\ op' = [op EXCEPT ![t] = NoOp]
  /\ succ' = [succ EXCEPT ![t] = FALSE]
  /\ left' = [left EXCEPT ![t] = FALSE]
  /\ UNCHANGED <<exists, retval>>

(* "if (ret || !succ) return 1; return 0;" where ONABORT has set ret = 1. *)
Code(t, ret) == IF ret = 0 /\ succ[t] THEN 0 ELSE 1

CommitPush(t, n) ==
  /\ pc[t] = "look"
  /\ op[t].kind = "push"
  /\ snap[t] = q
  /\ n \notin q.live
  /\ q' = Push(q, op[t], n)
  /\ Return(t, 0, NoVal)

(* The block aborts, at its beginning or at one of its accesses, because    *)
(* malloc() fails: ONABORT sets ret = 1, which is what a push returns.      *)
Aborts(t) ==
  /\ pc[t] # "idle"
  /\ q' = q
  /\ Return(t, Code(t, 1), NoVal)

CommitPopBlind(t) ==   \* mutant: committed on a version that is no longer current
  /\ pc[t] = "valued"
  /\ op[t].kind = "pop"
  /\ q' = Pop(snap[t], op[t].side)
  /\ Return(t, Code(t, 0), EndOf(snap[t], op[t].side))

CommitPop(t) ==
  /\ pc[t] = "valued"
  /\ op[t].kind = "pop"
  /\ snap[t] = q
  /\ q' = Pop(q, op[t].side)
  /\ Return(t, Code(t, 0), EndOf(q, op[t].side))

(* An attempt that has not written commits on whatever version it saw. *)
CommitPeak(t) ==
  /\ pc[t] = "valued"
  /\ op[t].kind = "peak"
  /\ q' = q
  /\ Return(t, Code(t, 0), EndOf(snap[t], op[t].side))

CommitEmpty(t) ==
  /\ pc[t] = "look"
  /\ op[t].kind # "push"
  /\ IsEmpty(snap[t])
  /\ q' = q
  /\ Return(t, Code(t, 0), NoVal)

--------------------------------------------------------------------------------
(* queue_destroy, called when no thread uses the queue, and queue_new.      *)
(* Destroy frees what it reaches from front.                                *)

Destroy ==
  /\ exists
  /\ \A t \in Threads : pc[t] = "idle"
  /\ exists' = FALSE
  /\ q' = [NewQueue EXCEPT !.live = q.live \ Met(Walk(q.next, q.front))]
  /\ UNCHANGED callVars

New ==
  /\ ~exists
  /\ exists' = TRUE
  /\ q' = [NewQueue EXCEPT !.live = q.live]
  /\ UNCHANGED callVars

Step(t) ==
  \/ \E o \in Ops : Call(t, o)
  \/ Restart(t) \/ Claim(t) \/ ReadValue(t)
  \/ \E n \in Nodes : CommitPush(t, n)
  \/ Aborts(t) \/ CommitPop(t) \/ CommitPeak(t) \/ CommitEmpty(t)

Next == (\E t \in Threads : Step(t)) \/ Destroy \/ New

Spec == Init /\ [][Next]_vars

--------------------------------------------------------------------------------
(* Properties. *)

Pointers == Nodes \cup {Null}

(* Type invariant of the queue and of the calls in progress. *)
QueueType ==
  [front : Pointers, back : Pointers, length : Nat, live : SUBSET Nodes,
   next : [Nodes -> Pointers], prev : [Nodes -> Pointers],
   value : [Nodes -> Values \cup {NoVal}]]

TypeOK ==
  /\ q \in QueueType
  /\ exists \in BOOLEAN
  /\ pc \in [Threads -> {"idle", "look", "claimed", "valued"}]
  /\ op \in [Threads -> Ops \cup {NoOp}]
  /\ snap \in [Threads -> QueueType]
  /\ succ \in [Threads -> BOOLEAN]
  /\ retval \in [Threads -> Values \cup {NoVal}]
  /\ reply \in [Threads -> {0, 1}]
  /\ took \in [Threads -> Values \cup {NoVal}]
  /\ left \in [Threads -> BOOLEAN]

(* Every committed version is one list: the walk from the back along prev   *)
(* is the walk from the front along next reversed, length counts it, and    *)
(* the entries allocated are the ones on it, none leaked, none lost.        *)
WellLinked ==
  LET f == Walk(q.next, q.front)
      b == Walk(q.prev, q.back)
  IN  /\ TypeOK
      /\ Len(f) = Len(b)
      /\ \A i \in DOMAIN f : b[Len(f) + 1 - i] = f[i]
      /\ q.length = Len(f)
      /\ q.live = Met(f) /\ Cardinality(q.live) = Len(f)

D == INSTANCE Deque WITH deque <- Content(q)

(* Whatever attempts were thrown away, the committed versions follow one    *)
(* another as the operations of a queue do.                                 *)
ImplementsDeque == D!Spec

(* tm_queue.h:31-40 "returns 0 if successful, otherwise 1", for pop and     *)
(* peak: an attempt that takes an entry reports success and hands over that *)
(* entry's value; one that finds the queue empty, or aborts, reports 1 and  *)
(* leaves the queue as it is, unless it commits and an earlier attempt of   *)
(* the same call had found an entry, for succ is never reset: then the call *)
(* claims a success it did not have.                                        *)
TrueReply(t) ==
  op[t].kind \in {"pop", "peak"} /\ pc'[t] = "idle" =>
    IF took'[t] # NoVal THEN reply'[t] = 0 /\ retval'[t] = took'[t]
                        ELSE q' = q /\ (reply'[t] = 0 => left[t])
RepliesAreTrue == [][\A t \in Threads : TrueReply(t)]_vars
--------------------------------------------------------------------------------
(* The invariant the proofs are made with.                                  *)

Distinct(f) == \A i, j \in DOMAIN f : f[i] = f[j] => i = j

(* The list u is the entries f, and what is not allocated is zeroed.        *)
Chain(u, f) ==
  /\ f \in Seq(Nodes) /\ Distinct(f)
  /\ u.live = Met(f) /\ u.length = Len(f)
  /\ u.front = IF f = <<>> THEN Null ELSE f[1]
  /\ u.back  = IF f = <<>> THEN Null ELSE f[Len(f)]
  /\ \A i \in DOMAIN f : /\ u.next[f[i]] = IF i = Len(f) THEN Null ELSE f[i + 1]
                         /\ u.prev[f[i]] = IF i = 1 THEN Null ELSE f[i - 1]
                         /\ u.value[f[i]] \in Values
  /\ \A n \in Nodes \ u.live : u.next[n] = Null /\ u.prev[n] = Null

Linked(u) == u \in QueueType /\ Chain(u, Walk(u.next, u.front))

(* A call of t works on one version.  What it has found there and written   *)
(* to succ and *retval agree, until a restart leaves it with the old succ.  *)
CallInv(t) ==
  /\ Linked(snap[t])
  /\ IF pc[t] = "idle" THEN op[t] = NoOp /\ ~succ[t] /\ ~left[t]
                       ELSE exists /\ op[t] \in Ops
  /\ pc[t] = "look" => (succ[t] <=> left[t])
  /\ pc[t] \in {"claimed", "valued"} =>
       succ[t] /\ ~IsEmpty(snap[t]) /\ op[t].kind # "push"
  /\ pc[t] = "valued" => retval[t] = ValueAt(snap[t], op[t].side)

IInv ==
  /\ TypeOK /\ Linked(q)
  /\ exists \/ IsEmpty(q)
  /\ \A t \in Threads : CallInv(t)
================================================================================
