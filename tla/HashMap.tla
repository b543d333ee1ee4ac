--------------------------------- MODULE HashMap ---------------------------------
(***************************************************************************)
(* The transactional hash map, <stms>/benchmarks/hashmap/tm_hashmap.c, in  *)
(* both its versions, called by several threads.  They differ in how       *)
(* hashmap_put_tm lets the map grow: the persistent one in a transaction   *)
(* (hashmap_resize_tm), the volatile one by moving the entries with plain  *)
(* loads and stores (hashmap_resize), whatever the other threads are doing.*)
(*                                                                         *)
(* Of the transactional memory only what the algorithms are shown to give  *)
(* is used: an attempt goes on reading, and commits what it wrote, only as *)
(* long as no other transaction has committed a write.  It is not told of  *)
(* plain stores.  found is outside the block and survives a restart.       *)
(***************************************************************************)
EXTENDS Integers, FiniteSets, Sequences

CONSTANTS
  Threads,    \* threads that call the map
  Keys,       \* keys
  Vals,       \* values the clients store
  Nodes,      \* addresses for struct tm_hashmap_entry
  Hash,       \* GET_HASH of each key
  Primes,     \* TABLE_PRIMES up to MAX_GROWS
  InitCap,    \* the capacity the map is created for
  Null,       \* the null pointer
  NoVal,      \* no value
  BeyondRace  \* bound: does the model go on once a plain resize has raced

ASSUME ConstAssumption ==
  /\ IsFiniteSet(Nodes) /\ IsFiniteSet(Threads)
  /\ Hash \in [Keys -> Nat]
  /\ Primes \in Seq(Nat \ {0}) /\ InitCap \in Nat
  /\ \E i \in DOMAIN Primes : Primes[i] >= InitCap
  /\ Null \notin Nodes
  /\ NoVal \notin Vals
  /\ BeyondRace \in BOOLEAN

VARIABLES
  tmResize,   \* which version: does hashmap_put_tm call hashmap_resize_tm
  m,          \* struct tm_hashmap, its bucket arrays and its entries
  exists,     \* hashmap_new has been called, hashmap_destroy not yet
  pc,         \* pc[t]: where in the function t is
  op,         \* op[t]: the operation t has called
  at,         \* at[t]: the local variables b, buckets, prev and curr
  found,      \* found[t]: the local variable
  retval,     \* retval[t]: what t's attempt has put into the caller's *retval
  stale,      \* stale[t]: somebody has committed a write since t's attempt began
  mv,         \* mv[t]: the local variables of hashmap_resize
  \* history
  base,       \* base[t]: the value of the key when t's attempt began
  left,       \* left[t]: found was set when t's attempt began
  raced       \* a plain resize has run beside an attempt or another resize

callVars == <<op, at, found, retval, stale, mv, base, left>>
vars     == <<tmResize, m, exists, pc, callVars, raced>>

Pointers == Nodes \cup {Null}
Arrays   == 0..Cardinality(Threads)   \* addresses for bucket arrays
NoArray  == <<>>                      \* one that is not allocated
NoOp     == [kind |-> "none"]
Ops      == [kind : {"put"}, key : Keys, val : Vals]
              \cup [kind : {"get", "delete"}, key : Keys]   \* contains is a get
                                                             \* without *retval

InAttempt(t) == pc[t] \in {"look", "walk", "hit"}

Moving(t) == pc[t] = "move"

--------------------------------------------------------------------------------
(* The memory of a map. *)

Buckets(c) == [b \in 0..c - 1 |-> Null]

(* hashmap_new_cap: the first prime that is large enough. *)
NewMap ==
  LET g == CHOOSE i \in DOMAIN Primes :
             Primes[i] >= InitCap /\ \A j \in 1..i - 1 : Primes[j] < InitCap
  IN  [grows |-> g - 1, cap |-> Primes[g], length |-> 0, buckets |-> 0,
       arr   |-> [i \in Arrays |-> IF i = 0 THEN Buckets(Primes[g]) ELSE NoArray],
       live  |-> {},
       next  |-> [n \in Nodes |-> Null],
       key   |-> [n \in Nodes |-> Null],
       value |-> [n \in Nodes |-> NoVal]]

Init ==
  /\ tmResize \in BOOLEAN
  /\ m = NewMap
  /\ exists = TRUE
  /\ pc     = [t \in Threads |-> "idle"]
  /\ op     = [t \in Threads |-> NoOp]
  /\ at     = [t \in Threads |-> NoOp]
  /\ found  = [t \in Threads |-> FALSE]
  /\ retval = [t \in Threads |-> NoVal]
  /\ stale  = [t \in Threads |-> FALSE]
  /\ mv     = [t \in Threads |-> NoOp]
  /\ base   = [t \in Threads |-> NoVal]
  /\ left   = [t \in Threads |-> FALSE]
  /\ raced  = FALSE

(* The pointers met from h along next; entries run out before they do.      *)
Along(u, h) ==
  LET met[i \in 0..Cardinality(Nodes)] ==
        IF i = 0 THEN h ELSE IF met[i - 1] = Null THEN Null ELSE u.next[met[i - 1]]
  IN  met

Chain(u, h) == {Along(u, h)[i] : i \in 0..Cardinality(Nodes)} \ {Null}

Ends(u, h) == Along(u, h)[Cardinality(Nodes)] = Null

Slot(u, k) == Hash[k] % u.cap

(* Every entry of the current buckets, as hashmap_foreach meets them.       *)
AllChains(u) == UNION {Chain(u, u.arr[u.buckets][b]) : b \in 0..u.cap - 1}

(* The map these entries stand for: what a lookup of the key finds; while   *)
(* entries are on their way into other buckets, what is allocated.          *)
Holding(k) ==
  {n \in IF \E t \in Threads : Moving(t) THEN m.live
         ELSE Chain(m, m.arr[m.buckets][Slot(m, k)]) : m.key[n] = k}

ValueOf(k) ==
  LET h == Holding(k) IN IF h = {} THEN NoVal ELSE m.value[CHOOSE n \in h : TRUE]

Content == [k \in Keys |-> ValueOf(k)]

--------------------------------------------------------------------------------
(* An attempt at the transaction of a call. *)

Attempt(t, k, f) ==
  /\ pc' = [pc EXCEPT ![t] = "look"]
  /\ retval' = [retval EXCEPT ![t] = NoVal]
  /\ stale' = [stale EXCEPT ![t] = FALSE]
  /\ base' = [base EXCEPT ![t] = ValueOf(k)]
  /\ left' = [left EXCEPT ![t] = f]
  /\ raced' = (raced \/ \E u \in Threads \ {t} : Moving(u))

Call(t, o) ==
  /\ exists
  /\ pc[t] = "idle"
  /\ Attempt(t, o.key, FALSE)
  /\ op' = [op EXCEPT ![t] = o]
  /\ UNCHANGED <<tmResize, exists, m, at, found, mv>>

(* A conflict, or the suspicion of one. *)
Restart(t) ==
  /\ InAttempt(t)
  /\ Attempt(t, op[t].key, found[t])
  /\ at' = [at EXCEPT ![t] = NoOp]
  /\ UNCHANGED <<tmResize, exists, m, op, found, mv>>

(* The head of the key's chain. *)
Look(t) ==
  /\ pc[t] = "look" /\ ~stale[t]
  /\ LET b == Slot(m, op[t].key)
     IN  at' = [at EXCEPT ![t] = [b |-> b, buckets |-> m.buckets, prev |-> Null,
                                  curr |-> m.arr[m.buckets][b]]]
  /\ pc' = [pc EXCEPT ![t] = "walk"]
  /\ UNCHANGED <<tmResize, exists, m, op, found, retval, stale, mv, base, left, raced>>

(* One entry of the chain: it is the key's, or the next one is taken. *)
VisitHead(t) ==   \* mutant: found is not set for an entry behind the first
  LET n == at[t].curr
  IN  /\ pc[t] = "walk" /\ ~stale[t]
      /\ n # Null
      /\ IF m.key[n] = op[t].key
         THEN /\ found' = [found EXCEPT ![t] = @ \/ at[t].prev = Null]
              /\ retval' = [retval EXCEPT ![t] = m.value[n]]
              /\ pc' = [pc EXCEPT ![t] = "hit"]
              /\ at' = at
         ELSE /\ at' = [at EXCEPT ![t].prev = n, ![t].curr = m.next[n]]
              /\ UNCHANGED <<found, retval, pc>>
      /\ UNCHANGED <<tmResize, exists, m, op, stale, mv, base, left, raced>>

Visit(t) ==
  LET n == at[t].curr
  IN  /\ pc[t] = "walk" /\ ~stale[t]
      /\ n # Null
      /\ IF m.key[n] = op[t].key
         THEN /\ found' = [found EXCEPT ![t] = TRUE]
              /\ retval' = [retval EXCEPT ![t] = m.value[n]]
              /\ pc' = [pc EXCEPT ![t] = "hit"]
              /\ at' = at
         ELSE /\ at' = [at EXCEPT ![t].prev = n, ![t].curr = m.next[n]]
              /\ UNCHANGED <<found, retval, pc>>
      /\ UNCHANGED <<tmResize, exists, m, op, stale, mv, base, left, raced>>

Missed(t) == pc[t] = "walk" /\ at[t].curr = Null

(* The block has committed.  What the function will return is known, and    *)
(* its local variables are not read any more.                               *)
Leave(t, label) ==
  /\ pc' = [pc EXCEPT ![t] = label]
  /\ op' = [op EXCEPT ![t] = NoOp]
  /\ at' = [at EXCEPT ![t] = NoOp]
  /\ found' = [found EXCEPT ![t] = FALSE]
  /\ retval' = [retval EXCEPT ![t] = NoVal]
  /\ base' = [base EXCEPT ![t] = NoVal]
  /\ left' = [left EXCEPT ![t] = FALSE]
  /\ UNCHANGED <<tmResize, exists, mv, raced>>

Code(t) ==
  IF op[t].kind = "put" THEN IF found[t] THEN 1 ELSE 0
                        ELSE IF found[t] THEN 0 ELSE 1

(* An attempt that has written nothing commits on whatever it has seen. *)
CommitRead(t) ==
  /\ \/ pc[t] = "hit" /\ op[t].kind = "get"
     \/ Missed(t) /\ op[t].kind # "put"
  /\ Leave(t, "idle")
  /\ stale' = [stale EXCEPT ![t] = FALSE]
  /\ UNCHANGED m

(* One that has written commits u, and every attempt under way is out of    *)
(* date.                                                                    *)
Commit(t, label, u) ==
  /\ ~stale[t]
  /\ m' = u
  /\ Leave(t, label)
  /\ stale' = [x \in Threads |-> x # t /\ InAttempt(x)]

Update(t) ==
  /\ pc[t] = "hit" /\ op[t].kind = "put"
  /\ Commit(t, "grow", [m EXCEPT !.value[at[t].curr] = op[t].val])

(* The pointer the walk came along: a bucket, or an entry's next. *)
SetLink(u, l, n) ==
  IF l.prev = Null THEN [u EXCEPT !.arr[l.buckets][l.b] = n]
                   ELSE [u EXCEPT !.next[l.prev] = n]

InsertAlone(u, t, n) ==   \* mutant: the length is not counted up
  SetLink([u EXCEPT !.live = @ \cup {n}, !.key[n] = op[t].key, !.value[n] = op[t].val],
          at[t], n)

(* A new entry at the end of the chain. *)
Inserted(u, t, n) ==
  SetLink([u EXCEPT !.live = @ \cup {n}, !.key[n] = op[t].key, !.value[n] = op[t].val,
                    !.length = @ + 1], at[t], n)

(* A plain resize has freed the bucket array meanwhile; what a store into   *)
(* freed memory does is not modelled.                                       *)
BucketsFreed(t) == at[t].prev = Null /\ m.arr[at[t].buckets] = NoArray

Insert(t) ==
  /\ Missed(t) /\ op[t].kind = "put"
  /\ ~BucketsFreed(t)
  /\ \E n \in Nodes \ m.live : Commit(t, "grow", Inserted(m, t, n))

(* STM_ZNEW finds no memory, and the function returns -1. *)
InsertAborts(t) ==
  /\ Missed(t) /\ op[t].kind = "put"
  /\ Leave(t, "idle")
  /\ stale' = [stale EXCEPT ![t] = FALSE]
  /\ UNCHANGED m

DeletedHead(u, l) ==   \* mutant: the bucket is set, wherever the entry was
  LET n == l.curr
  IN  [u EXCEPT !.arr[l.buckets][l.b] = u.next[n], !.live = @ \ {n}, !.next[n] = Null,
                !.key[n] = Null, !.value[n] = NoVal, !.length = @ - 1]

(* The entry is unlinked, and freed with the commit. *)
Deleted(u, l) ==
  LET n == l.curr
  IN  [SetLink(u, l, u.next[n]) EXCEPT !.live = @ \ {n}, !.next[n] = Null,
         !.key[n] = Null, !.value[n] = NoVal, !.length = @ - 1]

Delete(t) ==
  /\ pc[t] = "hit" /\ op[t].kind = "delete"
  /\ ~BucketsFreed(t)
  /\ Commit(t, "idle", Deleted(m, at[t]))

--------------------------------------------------------------------------------
(* hashmap_put_tm goes on: does the map grow? *)

MustGrow(u) == u.length >= u.cap /\ u.grows + 1 < Len(Primes)

NewArray == CHOOSE i \in Arrays : m.arr[i] = NoArray

(* An entry goes to the head of its chain in the new buckets. *)
MoveTo(u, new, n) ==
  LET b == Hash[u.key[n]] % Cardinality(DOMAIN u.arr[new])
  IN  [u EXCEPT !.next[n] = u.arr[new][b], !.arr[new][b] = n]

Allocated(u, new) == [u EXCEPT !.arr[new] = Buckets(Primes[u.grows + 2])]

(* num_grows, capacity and buckets are set and the old buckets freed. *)
Installed(u, grows, new, old) ==
  [u EXCEPT !.grows = grows, !.cap = Cardinality(DOMAIN u.arr[new]), !.buckets = new,
            !.arr[old] = NoArray]

(* The local variables of either resize before its loops and after a turn:  *)
(* the entry after the one that has been moved, or the next bucket's head.  *)
Cursor ==
  [old |-> m.buckets, cap |-> m.cap, grows |-> m.grows + 1, new |-> NewArray,
   i |-> 0, head |-> m.arr[m.buckets][0]]

AfterEntry(u, v) == [v EXCEPT !.head = u.next[v.head]]

AfterBucket(u, v) == [v EXCEPT !.i = v.i + 1, !.head = u.arr[v.old][v.i + 1]]

(* One turn of the loops, and all of them.                                  *)
Turn(x) ==
  IF x.v.head # Null
  THEN [u |-> MoveTo(x.u, x.v.new, x.v.head), v |-> AfterEntry(x.u, x.v)]
  ELSE IF x.v.i + 1 < x.v.cap THEN [u |-> x.u, v |-> AfterBucket(x.u, x.v)]
  ELSE x

AllMoved(u, v) ==
  LET turns == v.cap + Cardinality(Nodes)
      after[k \in 0..turns] == IF k = 0 THEN [u |-> u, v |-> v] ELSE Turn(after[k - 1])
  IN  after[turns].u

(* hashmap_resize_tm, a transaction of its own. *)
GrowTm(t) ==
  /\ tmResize
  /\ pc[t] = "grow"
  /\ MustGrow(m)
  /\ m' = Installed(AllMoved(Allocated(m, NewArray), Cursor), m.grows + 1, NewArray,
                    m.buckets)
  /\ stale' = [x \in Threads |-> x # t /\ InAttempt(x)]
  /\ pc' = [pc EXCEPT ![t] = "idle"]
  /\ UNCHANGED <<tmResize, exists, op, at, found, retval, mv, base, left, raced>>

(* It is not time, or there is no memory: hashmap_put_tm does not look at   *)
(* what the resize returns.                                                 *)
StaysAsItIs(t) ==
  /\ pc[t] = "grow"
  /\ pc' = [pc EXCEPT ![t] = "idle"]
  /\ UNCHANGED <<tmResize, exists, m, callVars, raced>>

(* hashmap_resize, as far as its allocation. *)
StartMoving(t) ==
  /\ ~tmResize
  /\ pc[t] = "grow"
  /\ MustGrow(m)
  /\ m' = Allocated(m, NewArray)
  /\ mv' = [mv EXCEPT ![t] = Cursor]
  /\ pc' = [pc EXCEPT ![t] = "move"]
  /\ raced' = (raced \/ \E u \in Threads \ {t} : InAttempt(u) \/ Moving(u))
  /\ UNCHANGED <<tmResize, exists, op, at, found, retval, stale, base, left>>

(* One entry is moved, the next bucket is looked at, or all has been done.  *)
(* Another resize may have freed the buckets, and a transaction the entry:  *)
(* nothing is modelled after that.                                          *)
Gone(v) == m.arr[v.old] = NoArray \/ (v.head # Null /\ v.head \notin m.live)

MoveOne(t) ==
  LET v == mv[t]
  IN  /\ Moving(t) /\ ~Gone(v)
      /\ v.head # Null
      /\ m' = MoveTo(m, v.new, v.head)
      /\ mv' = [mv EXCEPT ![t] = AfterEntry(m, v)]
      /\ UNCHANGED <<tmResize, exists, pc, op, at, found, retval, stale, base, left,
                     raced>>

NextBucket(t) ==
  LET v == mv[t]
  IN  /\ Moving(t) /\ ~Gone(v)
      /\ v.head = Null /\ v.i + 1 < v.cap
      /\ mv' = [mv EXCEPT ![t] = AfterBucket(m, v)]
      /\ UNCHANGED <<tmResize, exists, m, pc, op, at, found, retval, stale, base,
                     left, raced>>

Install(t) ==
  LET v == mv[t]
  IN  /\ Moving(t) /\ ~Gone(v)
      /\ v.head = Null /\ v.i + 1 = v.cap
      /\ m' = Installed(m, v.grows, v.new, v.old)
      /\ mv' = [mv EXCEPT ![t] = NoOp]
      /\ pc' = [pc EXCEPT ![t] = "idle"]
      /\ UNCHANGED <<tmResize, exists, op, at, found, retval, stale, base, left, raced>>

--------------------------------------------------------------------------------
(* hashmap_destroy, when nobody uses the map, frees the entries it reaches  *)
(* if there should be any; and hashmap_new.                                 *)
Destroy ==
  /\ exists
  /\ \A t \in Threads : pc[t] = "idle"
  /\ exists' = FALSE
  /\ m' = [NewMap EXCEPT !.live = IF m.length = 0 THEN m.live
                                  ELSE m.live \ AllChains(m)]
  /\ UNCHANGED <<tmResize, pc, callVars, raced>>

New ==
  /\ ~exists
  /\ exists' = TRUE
  /\ m' = [NewMap EXCEPT !.live = m.live]
  /\ UNCHANGED <<tmResize, pc, callVars, raced>>

Step(t) ==
  \/ \E o \in Ops : Call(t, o)
  \/ Restart(t)
  \/ Look(t) \/ Visit(t)
  \/ CommitRead(t)
  \/ Update(t) \/ Insert(t) \/ InsertAborts(t) \/ Delete(t)
  \/ GrowTm(t) \/ StaysAsItIs(t)
  \/ StartMoving(t) \/ MoveOne(t) \/ NextBucket(t) \/ Install(t)

(* Two threads have raced for plain memory. *)
Raced == raced /\ ~BeyondRace /\ UNCHANGED vars

Next ==
  \/ (~raced \/ BeyondRace) /\ ((\E t \in Threads : Step(t)) \/ Destroy \/ New)
  \/ Raced

Spec == Init /\ [][Next]_vars

--------------------------------------------------------------------------------
(* Properties. *)

TypeOK ==
  /\ tmResize \in BOOLEAN /\ raced \in BOOLEAN /\ exists \in BOOLEAN
  /\ m.grows \in 0..Len(Primes) - 1
  /\ m.live \subseteq Nodes
  /\ m.next \in [Nodes -> Pointers]
  /\ m.key \in [Nodes -> Keys \cup {Null}]
  /\ m.value \in [Nodes -> Vals \cup {NoVal}]
  /\ \A i \in Arrays :
       m.arr[i] = NoArray
         \/ \E j \in DOMAIN Primes : m.arr[i] \in [0..Primes[j] - 1 -> Pointers]
  /\ pc \in [Threads -> {"idle", "look", "walk", "hit", "grow", "move"}]
  /\ op \in [Threads -> Ops \cup {NoOp}]
  /\ found \in [Threads -> BOOLEAN] /\ left \in [Threads -> BOOLEAN]
  /\ retval \in [Threads -> Vals \cup {NoVal}]
  /\ stale \in [Threads -> BOOLEAN]
  /\ base \in [Threads -> Vals \cup {NoVal}]

(* As long as no plain resize has run beside anything: every entry that is  *)
(* allocated is in exactly one chain, the one of its key, and the chains    *)
(* end; no key is there twice; length counts them, the capacity is the      *)
(* prime of the growth, and the only bucket array is the current one.  No   *)
(* buckets or entry in use have been freed.  The transactional resize races *)
(* with nobody.                                                             *)
WellFormed ==
  /\ TypeOK
  /\ tmResize => ~raced
  /\ ~raced => \A t \in Threads : Moving(t) => ~Gone(mv[t])
  /\ ~raced /\ (\A t \in Threads : ~Moving(t)) =>
       /\ \A i \in Arrays : m.arr[i] # NoArray <=> i = m.buckets
       /\ m.cap = Primes[m.grows + 1] /\ DOMAIN m.arr[m.buckets] = 0..m.cap - 1
       /\ m.length = Cardinality(m.live) /\ m.live = AllChains(m)
       /\ \A n1, n2 \in m.live : m.key[n1] = m.key[n2] => n1 = n2
       /\ \A b \in 0..m.cap - 1 :
            /\ Ends(m, m.arr[m.buckets][b])
            /\ \A n \in Chain(m, m.arr[m.buckets][b]) : Hash[m.key[n]] % m.cap = b

A == INSTANCE KeyValue WITH map <- Content

Commits(t) ==
  pc[t] \in {"walk", "hit"} /\ pc'[t] = IF op[t].kind = "put" THEN "grow" ELSE "idle"

(* Until then the entries stand for a map, and it changes when a put or a   *)
(* delete commits, by what that operation says of its own key; never when   *)
(* the buckets grow.                                                        *)
MapStep ==
  \/ \E t \in Threads : Commits(t) /\ op[t].kind = "put" /\ A!Put(op[t].key, op[t].val)
  \/ \E t \in Threads : Commits(t) /\ op[t].kind = "delete" /\ A!Delete(op[t].key)
  \/ A!Destroy \/ A!New
ImplementsKeyValue == A!Init /\ [][raced' \/ MapStep]_<<Content, exists>>

(* tm_hashmap.h:38-50, "1 if updated and 0 if inserted new", "1 on error or *)
(* not found": the reply tells whether the key was there, and *retval its   *)
(* value, when the attempt that committed began.  The one exception is the  *)
(* code's: found is not reset by a restart, so an attempt that finds        *)
(* nothing after one that did reports success.                              *)
TrueReply(t) ==
  LET says == Code(t) = IF op[t].kind = "put" THEN 1 ELSE 0
  IN  Commits(t) =>
        IF base[t] # NoVal
        THEN says /\ retval[t] = base[t]
        ELSE says <=> left[t]
RepliesAreTrue == [][raced' \/ \A t \in Threads : TrueReply(t)]_vars

(* tm_hashmap.h:44, "returns 1 on error or not found": a key that has been  *)
(* there since the attempt began is found.                                  *)
FindsWhatIsThere ==
  [][\A t \in Threads :
       op[t].kind = "get" /\ Missed(t) /\ pc'[t] = "idle" => base[t] = NoVal]_vars
================================================================================
