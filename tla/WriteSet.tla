-------------------------------- MODULE WriteSet --------------------------------
(***************************************************************************)
(* The write set of one NOrec transaction: the vector of buffered writes   *)
(* and the open-addressing table that finds the newest one of a location   *)
(* (volatile_stms/algs/norec/norec.c over algs/common/tx_util.c).  The     *)
(* module NOrec has a sequence in its place; here is what the C code keeps, *)
(* how it grows, and what it does when it cannot.                          *)
(***************************************************************************)
EXTENDS Naturals, Sequences, FiniteSets

CONSTANTS
  Addrs,       \* locations a transaction writes
  Vals,        \* values it writes
  NoAddr,      \* the null pointer: the addr of an entry that was overwritten
  NoVal,       \* no value
  Hash,        \* fnv64 of each location
  Primes,      \* TABLE_PRIMES, the capacities the table goes through
  VecInit,     \* VEC_INIT, the capacity of a new vector
  MaxWrites,   \* bound: writes in one transaction
  Failing      \* the calls of malloc() that may return NULL

ASSUME ConstAssumption ==
  /\ NoAddr \notin Addrs
  /\ NoVal \notin Vals /\ Vals # {}
  /\ Hash \in [Addrs -> Nat]
  /\ Primes \in Seq(Nat \ {0}) /\ Primes # <<>>
  /\ \A i, j \in DOMAIN Primes : i < j => Primes[i] < Primes[j]
  /\ VecInit \in Nat \ {0, 1}
  /\ MaxWrites \in Nat
  /\ Failing \subseteq {"pval", "append", "table"}

VARIABLES
  stage,    \* "out" of the transaction, at "work", "aborted" or "committed"
  wset,     \* write_set: entries [addr, val, buf], buf the state of *pval
  vcap,     \* capacity of the vector
  table,    \* wrset_lookup: slot -> [key, index]
  grows,    \* num_grows of the table
  mem,      \* the locations themselves
  double,   \* a pval has been given to free() twice
  \* history
  last,     \* last[a]: the newest value the transaction wrote to a, or NoVal
  before,   \* mem when the transaction began
  wrote2    \* a location was written again, or a write failed half way

vars == <<stage, wset, vcap, table, grows, mem, double, last, before, wrote2>>

NoWrites == [a \in Addrs |-> NoVal]

Overlay(m, w) == [a \in Addrs |-> IF w[a] = NoVal THEN m[a] ELSE w[a]]

--------------------------------------------------------------------------------
(* The table of tx_util.c.  A slot is empty when its key is the null        *)
(* pointer (occupied and key are set and cleared together).                 *)

EmptySlot == [key |-> NoAddr, index |-> 0]

EmptyTable(c) == [s \in 0..c - 1 |-> EmptySlot]

Capacity(h) == Cardinality(DOMAIN h)

Occupied(h) == {s \in DOMAIN h : h[s].key # NoAddr}

(* The slots an address may be in, in the order they are looked at, end at  *)
(* its own or at an empty one; none when the table is full of others.       *)
Probe(h, a, i) == (Hash[a] + i) % Capacity(h)

Stops(h, a) == {i \in 0..Capacity(h) - 1 : h[Probe(h, a, i)].key \in {a, NoAddr}}

StopsFirst(h, a) ==
  LET stops == Stops(h, a)
  IN  {Probe(h, a, i) : i \in {j \in stops : \A k \in stops : j <= k}}

(* tx_hash_get: the index kept for the address, as a set of at most one. *)
Found(h, a) == {h[s].index : s \in {x \in StopsFirst(h, a) : h[x].key = a}}

(* _tx_hash_insert: a new key, or with update a new index for it. *)
Insert(h, a, i, update) ==
  [s \in DOMAIN h |->
     IF s \in StopsFirst(h, a) /\ (update \/ h[s].key = NoAddr)
     THEN [key |-> a, index |-> i] ELSE h[s]]

(* tx_hash_put looks at the load after the insertion, and tx_hash_resize    *)
(* does not grow beyond the last prime.                                     *)
MustGrow(h, g) ==
  /\ 4 * Cardinality(Occupied(h)) >= 3 * Capacity(h)
  /\ g + 1 < Len(Primes)

(* The entries of the old table go into a new one, slot after slot.         *)
RehashDrops(h, c) ==   \* mutant: every entry goes to its own slot of the new table
  [s \in 0..c - 1 |->
     LET mine == {x \in Occupied(h) : Hash[h[x].key] % c = s}
     IN  IF mine = {} THEN EmptySlot ELSE h[CHOOSE x \in mine : TRUE]]

Rehash(h, c) ==
  LET upto[k \in 0..Capacity(h)] ==
        IF k = 0 THEN EmptyTable(c)
        ELSE IF h[k - 1].key = NoAddr THEN upto[k - 1]
        ELSE Insert(upto[k - 1], h[k - 1].key, h[k - 1].index, FALSE)
  IN  upto[Capacity(h)]

--------------------------------------------------------------------------------
Init ==
  /\ stage = "out"
  /\ wset = <<>> /\ vcap = VecInit
  /\ table = EmptyTable(Primes[1]) /\ grows = 0
  /\ mem \in [Addrs -> {CHOOSE v \in Vals : TRUE}]
  /\ double = FALSE
  /\ last = NoWrites /\ before = mem /\ wrote2 = FALSE

(* norec_tx_begin of an outermost block. *)
Begin ==
  /\ stage = "out"
  /\ ~double
  /\ stage' = "work"
  /\ last' = NoWrites /\ before' = mem /\ wrote2' = FALSE
  /\ UNCHANGED <<wset, vcap, table, grows, mem, double>>

(* norec_wrset_get: the newest buffered value, or else the location's.      *)
Value(a) ==
  LET f == Found(table, a)
  IN  IF f = {} THEN mem[a] ELSE wset[CHOOSE i \in f : TRUE].val

(* The entry of an earlier write to the location loses its buffer and its   *)
(* address; it stays in the vector.                                         *)
KeepsAddress(a) ==   \* mutant: the address is left in the old entry
  [i \in DOMAIN wset |->
     IF i \in Found(table, a) THEN [wset[i] EXCEPT !.buf = "freed"] ELSE wset[i]]

Overwritten(a) ==
  [i \in DOMAIN wset |->
     IF i \in Found(table, a)
     THEN [wset[i] EXCEPT !.buf = "freed", !.addr = NoAddr]
     ELSE wset[i]]

Entry(a, v, b) == [addr |-> a, val |-> v, buf |-> b]

(* tx_vector_append, which may have to double the vector. *)
Fills == Len(wset) + 1 >= vcap

(* norec_tx_write *)
Write(a, v) ==
  /\ stage = "work"
  /\ Len(wset) < MaxWrites
  /\ wset' = Append(Overwritten(a), Entry(a, v, "live"))
  /\ vcap' = IF Fills THEN 2 * vcap ELSE vcap
  /\ LET h == Insert(table, a, Len(wset'), TRUE)
     IN  IF MustGrow(h, grows)
         THEN table' = Rehash(h, Primes[grows + 2]) /\ grows' = grows + 1
         ELSE table' = h /\ grows' = grows
  /\ last' = [last EXCEPT ![a] = v]
  /\ wrote2' = (wrote2 \/ last[a] # NoVal)
  /\ UNCHANGED <<stage, mem, double, before>>

(* It fails: no buffer, no room for the entry, or no room for the table     *)
(* (num_grows has already been counted up).  The buffer of an entry that is *)
(* already in the vector is freed, and the transaction aborts.              *)
NoBuffer ==
  /\ stage = "work"
  /\ "pval" \in Failing
  /\ stage' = "aborted"
  /\ UNCHANGED <<wset, vcap, table, grows, mem, double, last, before, wrote2>>

NoEntry(a, v) ==
  /\ stage = "work"
  /\ "append" \in Failing
  /\ Len(wset) < MaxWrites /\ Fills
  /\ wset' = Append(Overwritten(a), Entry(a, v, "freed"))
  /\ stage' = "aborted"
  /\ wrote2' = TRUE
  /\ UNCHANGED <<vcap, table, grows, mem, double, last, before>>

NoTable(a, v) ==
  /\ stage = "work"
  /\ "table" \in Failing
  /\ Len(wset) < MaxWrites
  /\ wset' = Append(Overwritten(a), Entry(a, v, "freed"))
  /\ vcap' = IF Fills THEN 2 * vcap ELSE vcap
  /\ table' = Insert(table, a, Len(wset'), TRUE)
  /\ MustGrow(table', grows)
  /\ grows' = grows + 1
  /\ stage' = "aborted"
  /\ wrote2' = TRUE
  /\ UNCHANGED <<mem, double, last, before>>

Abort ==
  /\ stage = "work"
  /\ stage' = "aborted"
  /\ UNCHANGED <<wset, vcap, table, grows, mem, double, last, before, wrote2>>

(* redo_wrset: the entries that still have an address, in their order.      *)
ReplayBackwards(m) ==   \* mutant: the newest entry first
  LET after[k \in 0..Len(wset)] ==
        IF k = 0 THEN m
        ELSE LET e == wset[Len(wset) + 1 - k]
             IN  IF e.addr = NoAddr THEN after[k - 1]
                 ELSE [after[k - 1] EXCEPT ![e.addr] = e.val]
  IN  after[Len(wset)]

Replay(m) ==
  LET after[k \in 0..Len(wset)] ==
        IF k = 0 THEN m
        ELSE LET e == wset[k]
             IN  IF e.addr = NoAddr THEN after[k - 1]
                 ELSE [after[k - 1] EXCEPT ![e.addr] = e.val]
  IN  after[Len(wset)]

(* norec_tx_commit of a transaction that validates. *)
Commit ==
  /\ stage = "work"
  /\ stage' = "committed"
  /\ mem' = Replay(mem)
  /\ UNCHANGED <<wset, vcap, table, grows, double, last, before, wrote2>>

(* norec_on_end: tx_vector_empty frees every pval, whoever freed it before, *)
(* and tx_hash_empty leaves the table as large as it is.                    *)
EndKeepsLength ==   \* mutant: the length of the vector is not reset
  /\ stage \in {"aborted", "committed"}
  /\ stage' = "out"
  /\ double' = (\E i \in DOMAIN wset : wset[i].buf = "freed")
  /\ wset' = [i \in DOMAIN wset |-> [wset[i] EXCEPT !.buf = "freed"]]
  /\ table' = EmptyTable(Capacity(table))
  /\ UNCHANGED <<vcap, grows, mem, last, before, wrote2>>

End ==
  /\ stage \in {"aborted", "committed"}
  /\ stage' = "out"
  /\ double' = (\E i \in DOMAIN wset : wset[i].buf = "freed")
  /\ wset' = <<>>
  /\ table' = EmptyTable(Capacity(table))
  /\ UNCHANGED <<vcap, grows, mem, last, before, wrote2>>

(* glibc stops a process that frees a block twice. *)
Dead == double /\ stage = "out" /\ UNCHANGED vars

Next ==
  \/ Begin
  \/ \E a \in Addrs, v \in Vals : Write(a, v) \/ NoEntry(a, v) \/ NoTable(a, v)
  \/ NoBuffer
  \/ Abort \/ Commit \/ End
  \/ Dead

Spec == Init /\ [][Next]_vars

--------------------------------------------------------------------------------
(* Properties. *)

Entries ==
  [addr : Addrs \cup {NoAddr}, val : Vals, buf : {"live", "freed"}]

(* Type invariant; the table's capacity is the prime its growth stands at,  *)
(* or an earlier one after a growth that failed, and the vector has room    *)
(* for the entry the next write stores before it looks.                     *)
TypeOK ==
  /\ stage \in {"out", "work", "aborted", "committed"}
  /\ wset \in Seq(Entries)
  /\ stage = "work" => Len(wset) < vcap
  /\ grows \in 0..Len(Primes) - 1
  /\ \E i \in 1..grows + 1 : DOMAIN table = 0..Primes[i] - 1
  /\ \A s \in DOMAIN table :
       table[s] \in [key : Addrs \cup {NoAddr}, index : 0..Len(wset)]
  /\ mem \in [Addrs -> Vals] /\ before \in [Addrs -> Vals]
  /\ double \in BOOLEAN /\ wrote2 \in BOOLEAN
  /\ last \in [Addrs -> Vals \cup {NoVal}]

(* However the table has grown, a transaction reads back what it wrote last *)
(* (norec_wrset_get), and the location itself where it has written nothing; *)
(* the only exception is a location that came when every slot was taken,    *)
(* although tx_util.h:71 says of tx_hash_put that it "inserts or updates".  *)
FindsLastWrite(a) == Value(a) = Overlay(mem, last)[a]

LookupFailsOnlyWhenFull ==
  /\ TypeOK
  /\ stage = "work" =>
       \A a \in Addrs : FindsLastWrite(a) \/ Occupied(table) = DOMAIN table

(* The commit leaves in every location the last value written to it, though *)
(* it never looks at the table.                                             *)
ReplayIsLastWrite == stage = "committed" => mem = Overlay(before, last)

(* A buffer that was freed early is out of reach of lookups and of replay.  *)
FreedIsOutOfReach ==
  stage \in {"work", "committed"} =>
    \A i \in DOMAIN wset : wset[i].buf = "freed" =>
      /\ wset[i].addr = NoAddr
      /\ \A a \in Addrs : i \notin Found(table, a)

(* The end frees no buffer twice, unless the transaction wrote to a         *)
(* location again or a write of it failed half way: then it does.           *)
DoubleFreeNeedsRewrite == double => wrote2
================================================================================
