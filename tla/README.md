# Verification of the STM library

The repository holds software transactional memory in C, twice: for volatile
memory (`src/volatile_stms`) and for persistent memory on top of libpmemobj
(`src/pmdk_stms`).  Each has two algorithms, TML and NOrec, a core they share, data
structures written with the transaction macros, and small test programs.  This
directory models both halves, checks them with TLC, and proves the safety of the
volatile TML, that it implements an atomic transactional memory, and that the hash's
arithmetic does not depend on the build, with TLAPS.
Paths below without a prefix are under `src/volatile_stms`.

## Inventory

| component | code | state | operations |
|---|---|---|---|
| transaction core | `algs/common/tx.c`, `tx.h`, `tx_generic.h` | thread-local `struct tx`: stage, stack of blocks, level, retry mark, last error, list of allocations, list of frees | `tx_thread_enter/exit`, `tx_begin`, `tx_malloc`, `tx_free`, `tx_abort`, `tx_restart`, `tx_process`, `tx_commit`, `tx_reclaim_frees`, `tx_end`; the block macros |
| containers | `algs/common/tx_util.c` | stack of `tx_data`, growing vector, open-addressing hash table | push/pop, append/resize/clear/empty, get/put/delete/resize |
| TML | `algs/tml/` | global sequence lock `glb`; per thread `loc`, `irrevoc` | begin, read, write, free, irrevoc, commit, end |
| NOrec | `algs/norec/` | `glb`; per thread `loc`, `irrevoc`, read set, write set and its look-up table | the same, and validate, prevalidate, redo |
| queue | `benchmarks/queue/tm_queue.c` | doubly linked list with length | push, pop, peak at both ends, foreach, destroy |
| hash map | `benchmarks/hashmap/tm_hashmap.c` | buckets of chains, length, capacity | put, get, delete, contains, foreach, resize |
| clients | `benchmarks/*/{test,bench,transfer}.c`, `simple_test` | - | assertions, timing |
| persistent core | `src/pmdk_stms/algs/common` | retry mark and level beside libpmemobj's stage, errno and undo log | `tx_begin`, `tx_process`, `tx_end`, restart; abort, commit, free and logging are libpmemobj's |
| persistent TML, NOrec | `src/pmdk_stms/algs/{tml,norec}` | as the volatile ones; `glb` does not survive a crash | the same, with `pmemobj_tx_add_range_direct` before each store |
| persistent queue, hash map | `src/pmdk_stms/benchmarks` | as the volatile ones, over PMEMoid handles | the same |
| xxHash, vendored | `src/common/lib/xxhash.h` | streaming states: lanes or accumulators, the buffered input, lengths, secrets | one-shot hashes; reset, update, digest |

How they interact.  A client opens a block with `STM_BEGIN()`.  The macros save a
`setjmp` environment, call the algorithm's begin (which samples `glb` and calls
`tx_begin`), and loop on the stage: the client's code runs at WORK, the handlers run
at ONABORT, ONRETRY, ONCOMMIT and FINALLY, `tx_process` moves from one to the next
and calls the algorithm's commit callback at WORK.  `tx_end` calls the algorithm's
end callback once the outermost block is left.  `tx_abort` sets the stage, frees the
allocations of the outermost block, and `longjmp`s into that loop.  A restart is an
abort with errno -1 after which `_TX_END` jumps back to the begin.

What is hard.  Threads meet in `glb` and in the shared memory itself: TML writes in
place while others read, NOrec replays writes while others read and validate.  A
nested block's failure has to come out through every block around it.  `longjmp`
undoes none of a C function's locals.  The volatile algorithms have no undo log, so
an abort after an in-place write is not an abort at all; the persistent ones have
one, and then it matters whether the lock or the log goes first.  The volatile hash
map grows outside any transaction.  And the lists that make allocation transactional
can fail themselves.

What makes each part correct:

* **core**: a transaction changes the heap by all of its allocations and frees or by
  none; a failed block never lets client code run on; nothing is freed twice.
* **TML, NOrec**: one holder of the lock at a time and none once transactions end;
  opacity (even a doomed transaction sees one committed version); versions are
  published by whole transactions that read nothing older (no lost update); the
  lock is always given back.
* **queue**: the list stays well linked, behaves as a deque, replies tell the truth.
* **hash map**: one entry per key, reachable from the bucket its hash names, whatever
  the growth; replies tell the truth.
* **xxHash**: a stream's digest is the hash of its bytes, however it was cut; every build
  computes the same hash.
* **persistent versions**: the above, an abort takes memory back to a version, and what
  a restart after a crash finds is the last version others have seen.

`PROJECT.json` lists 39 hazards, each at its line, and which property covers it.

## Modules

| module | models | kind |
|---|---|---|
| `Tx` | `struct tx` and the stage machine, as operators from record to record | pure |
| `AtomicTM` | what a transactional memory promises: versions, atomic commits | abstract specification |
| `TML` | `tml.c`, `tml.h` run by any number of threads | state machine |
| `TMLRefines` | the mapping under which TML implements `AtomicTM` | refinement |
| `NOrec` | `norec.c`, `norec.h` run by any number of threads | state machine |
| `NOrecRefines` | the mapping under which NOrec implements `AtomicTM` | refinement |
| `WriteSet` | NOrec's buffered writes: vector, look-up table, their growth and failures | state machine, one thread |
| `TxLife` | `tx.c` with its lists, the allocator and the failures of `malloc` | state machine, one thread |
| `Deque` | what `tm_queue.h` offers | abstract specification |
| `TmQueue` | `tm_queue.c` under restarts | state machine, refines `Deque` |
| `KeyValue` | what `tm_hashmap.h` offers | abstract specification |
| `HashMap` | `tm_hashmap.c` of both halves under restarts and growth | state machine, refines `KeyValue` |
| `PmTx` | persistent `tx.c`, and libpmemobj's undo log and recovery | pure |
| `PmTML` | persistent `tml.c`, `tml.h`, with crashes | state machine |
| `PmNOrec` | persistent `norec.c`, `norec.h`, with crashes | state machine |
| `Xxh` | XXH32 and XXH64, in one shot and streaming | state machine, one thread |
| `Xxh3` | the one-shot functions of XXH3, 64 and 128 bits | pure |
| `Xxh3State` | streaming with XXH3 | state machine, one thread |
| `XxhStreams` | a program that uses either, and what the digests promise | composition |
| `XxhArith` | what `xxhash.h` computes in two ways, for two kinds of processor | pure |
| `MC*` | symmetry sets, hashes and primes for TLC | instances |
| `TxLifeProofs` | inductive invariant and safety theorems of `TxLife` | proofs |
| `TMLProofs` | inductive invariant and safety theorems of `TML`; what each transaction leaves behind is exact, and it implements `AtomicTM` | proofs |
| `NOrecProofs` | inductive invariant and safety theorems of `NOrec`; it implements `AtomicTM` | proofs |
| `PmTMLProofs` | facts about the operators of `PmTx` (records, logs, recovery); inductive invariant, safety and crash recovery of `PmTML` | proofs |
| `PmNOrecProofs` | the same of `PmNOrec` | proofs |
| `WriteSetProofs` | the look-up table and the replay: inductive invariant and safety theorems of `WriteSet` | proofs |
| `HashMapProofs` | linked lists with ranks; inductive invariant and safety theorems of `HashMap`; it implements `KeyValue` | proofs |
| `DataProofs` | `TmQueue` stays a list and implements `Deque`; the streams of `XxhStreams` have the digests of their inputs; both ways of `XxhArith` agree, and the long product is exact | proofs |

`TML`, `NOrec` and `TxLife` all apply the operators of `Tx`, and `PmTML` and `PmNOrec`
those of `PmTx`, in the step that makes the call, so the life of a transaction is
written once for each half.  The data structures use of the transactional memory
only what `AtomicTM` says, which TML and NOrec are shown to implement.

**TML.**  One action is one access to shared memory: a load, a store, a CAS.
`ReadLoad` and `ReadCheck` are the two halves of `_TML_READ`, because the load comes
first and the look at `glb` later; `Write` takes the lock and `Store` stores.  `Spin`
and `Begin` are one turn each of the loop in `tml_tx_begin`.  `End` is the outermost
`tx_end` with `tml_on_end`.  A freed location holds `Junk` from the commit's
`Reclaim` on.  The history variables `hist`, `seen` and
`own` are written only for the properties and for the client's discipline (`CanUse`:
a transaction dereferences only pointers that are allocated in what it sees).  No
commit of the code reads them.  `Abort` is `tx_abort` at any point of the client's code, by the
client or by `tx_malloc` without memory, of an irrevocable transaction as of any
other; `Free` may find no room in the `free_list` and abort (`NotListed`), after it has taken the lock.  A
nested `tx_begin` without memory aborts too, but it has counted the level up, and the process
ends with a crash before the outermost block does: that is `BeginNestedFails` of
`TxLife`.

**NOrec.**  A call that loops over shared memory is a set of labels: `prevalidate` and
`reload` for the loop of `_NOREC_READ`; `validate` (sample `glb`), `compare` (one read set entry
at a time) and the recheck for `norec_validate`; `cas` and `redo` for the commit and for
`norec_try_irrevoc`.  `caller` is the return address: the read, the commit, or the
irrevocable path.  Compare and replay take one location at a time, so commits fall
between the comparisons.  Entries are compared in any order, which includes the
code's.  `FitsInt` is the effect of `int time` on a 64-bit counter.  The write set is a
sequence, and the client is kept to one buffered write per location: what the C code has in
its place is `WriteSet`.

**AtomicTM, TMLRefines, NOrecRefines.**  The abstract memory goes through versions; a
transaction reads from one version no older than itself, whether it will commit or
not, and a commit adds all its writes and frees to the newest version in one step.  There is no undo
log, so the abstract memory has one for nobody: one transaction at a time may be
irrevocable (`pledged`), on the newest version, and then it either commits
(`closing`, when its frees are given back) or fails (`failing`), and the version it publishes when
it fails has what it had written so far and none of its frees.  One that is not irrevocable (`active`) aborts
without a trace.  TML's
versions are the memories left behind at the even values of `glb`.  A TML transaction
becomes a committed one when `tml_tx_end` lets go of it; a NOrec transaction that is
not irrevocable, at the release of the lock in its outermost commit (`HasCommitted`).
`Frees` maps the blocks a commit is to give back, with the one exception of
the code: norec.c:282-284 returns before `tx_reclaim_frees` when the write set is empty,
so the frees of an irrevocable transaction that had buffered nothing are lost, and the
mapping says so.

**WriteSet.**  One transaction after another of one thread.  An entry of the vector has its
address (null once overwritten), its value, and the state of the buffer `pval` points
to.  The table is the function from slots to keys and indices that linear probing
leaves; `Hash` and `Primes` are constants.  `Write` is all of `norec_tx_write` when it
succeeds; `NoBuffer`, `NoEntry` and `NoTable` are its three ways to fail.  A double free
ends the process.

**TxLife.**  One thread, because the struct is thread-local.  `Failing` chooses which
calls of `malloc` may return NULL.  A block freed when it is not live turns `corrupt`; a
NULL dereference turns the process `crashed`; `abort()` turns it `killed`.  `entered` says
whether `tx_thread_enter` has been called, which one program forgets.  A call at a wrong stage
(`tx_begin` in a handler, `tx_malloc` and `tx_free` in a handler or outside a block) ends in `abort()` as well, and
the process counts as `refused`: its client is to blame, and nothing more is claimed of it.  `spoilt` is a
history variable: one of the failures the code does not recover from has happened.  The commit
callback is TML's (`tx_reclaim_frees` at level 0, then `tx_commit`); NOrec's differs
only for an empty write set.

**TmQueue.**  An attempt sees one version, and a commit that writes happens only on the
current one.  `succ` and `*retval` live outside the block and survive `Restart`.  `Aborts` is a block
that fails for want of memory, at any of its accesses: ONABORT sets `ret` and the call returns 1.  No
operation has written before the allocations it can fail in, so nothing changes even under TML.

**HashMap.**  A lookup walks its chain one entry per step and may be restarted at any of
them; a commit is one step.  `tmResize` chooses the version: the persistent one grows in a
transaction of its own (`GrowTm`), the volatile one moves the entries one by one with
plain loads and stores (`StartMoving`, `MoveOne`, `NextBucket`, `Install`) while others
run.  `raced` becomes true when such a move runs beside an attempt or another move; the
properties are claimed until then, and `BeyondRace` says whether the model goes on
after it.  What a store into freed buckets does is not modelled.

**PmTx, PmTML, PmNOrec.**  libpmemobj is not in the repository; it is modelled from its
use (the external entries of the map), with these assumptions: the first
`pmemobj_tx_add_range_direct` of a location logs its content and may fail by aborting
the transaction; an abort of the outermost block restores the logged contents in one step,
as only the owner of the lock has a log; a commit of the outermost block is durable and
frees its objects in one step; a failed nested block aborts the one around it; opening the pool after
a crash applies the logs left, lane by lane, in any order; and a store is in the pool at
the time of the crash (losing a logged store makes no difference, as its log puts
back the old content).  `Crash` may happen between any two steps: the pool is recovered, and `glb` and everything
thread-local are as at the start.  In `PmNOrec`, `Release` and `Seal` are two steps, in the
code's order (norec.c:281 and 284); `RedoFails` is a log that finds no room during the replay.

**Xxh, Xxh3, Xxh3State, XxhStreams.**  The arithmetic of the hash is uninterpreted: a hash is
the record of what was mixed, that is which bytes of the input met which bytes of which
secret in which order, so two hashes are equal in the model only if the code puts the same
reads through the same functions.  A byte of the input is its position.  The internal
buffers are functions from offsets to positions, and what a reset leaves in them counts
as bytes of another input; an accumulator is the sequence of what has gone into it.  One action
is one call.  `Fill` is an update that fits the buffer, `Consume` one that does not.  Both widths of XXH3
share state, resets and updates; `Digest64` and `Digest128` differ.  A reset may come at any time, of
any kind, so that a state is reused after another input, seed or secret; one that returns `XXH_ERROR`, for a
missing or a short secret, has reset the state all the same (`ResetRefused`), and what it leaves is
under the next reset.

**XxhArith.**  Words of two halves with `H` values each (2^32 in the code) and an uninterpreted
exclusive or: the product XXH_mult64to128 puts together from four, and
accumulation, scrambling and the derivation of a secret, scalar and with SSE2.

## Runs

| run | question | bounds | states |
|---|---|---|---|
| `TML_safety` | lock, opacity, atomic publication, what every kind of end leaves in memory, and the refinement of `AtomicTM` | 2 threads, 2 locations, 2 values, nesting 2, `glb` to 4 | 2.0 M |
| `TML_live` | the lock comes back; a thread left alone begins | 2 threads, 1 location, nesting 2, aborts in irrevocable transactions | 30 k |
| `NOrec_safety` | opacity, `IInv` (memory during a replay included), and the refinement of `AtomicTM` | 2 threads, 2 locations, 1 value, `glb` to 2, flat blocks | 541 k |
| `NOrec_live` | with nested blocks and aborts in irrevocable transactions: publication, the lock comes back, validation ends for a thread left alone | 2 threads, 1 location, nesting 2 | 265 k |
| `TxLife_all` | all or nothing, no double free, failures are final and unwind, what a process survives; any `malloc` may fail | 3 blocks, lists to 3 over a vector of 2, nesting 3 | 270 k |
| `WriteSet_grows` | the replay is the last write, lookups fail in a full table only; nothing reaches a freed buffer | 4 locations that collide, table of 2, then 3 slots, 5 writes, any `malloc` may fail | 976 k |
| `TmQueue_ops` | well linked, refines `Deque`, replies are true but for a stale `succ` | 2 threads, 3 entries, 2 values | 926 k |
| `HashMap_ops` | every entry in its chain once, refines `KeyValue`, replies are true but for a stale `found`; either version of growth | 2 threads, 2 keys, 2 values, 1 bucket that becomes 2 | 791 k |
| `HashMap_resize` | *violation*: a lookup beside the plain resize misses a key that is there | as above, going on after the race | - |
| `PmTML_crash` | the log takes memory back to a version, only a client's restart loses the lock, opacity, all-or-nothing publication, recovery of the last version | 2 threads, 2 locations, nesting 2, `glb` to 3, 1 crash | 1.4 M |
| `PmNOrec_crash` | the same, and what exactly recovery loses of a transaction that has released the lock and not yet committed | 2 threads, 2 locations, nesting 2, `glb` to 2, 1 crash, at most 3 locations read, written or freed by a transaction (`MaxUses`) | 1.1 M |
| `Xxh_streams` | digests are one-shot hashes; each reads its input, whole, and nothing else | updates of 1, 4, 15 and 33 bytes up to 80, or of 1, 64, 190 and 1030 up to 1350; 2 seeds, a secret of 139 bytes | 40 k |

Why the bounds are enough.  Opacity and lost updates need two transactions and two
locations: one to be read before and one after the other's commit.  `MaxGlb = 4` in
TML lets a reader meet two successive writers, so that it can be stale by one or two
versions and a lock value can be met twice by a failed CAS; NOrec's states are larger
and two commits (`MaxGlb = 2` bounds the *start* of transactions, so the last ones
still commit past it) give every race of a validation with one replay.  With one value
beside the initial one a location changes once, so a value that comes back (ABA), which
validation by value accepts on purpose, is not among `NOrec_safety`'s behaviours;
`NOrec_live` has two values.  Nesting 2 is all a process
survives; nesting 3 is in TxLife.  A vector of capacity 2 with
lists to 3 fills and doubles.  A table that grows from 2 slots to 3 and has four
keys to hold, two of them of equal hash, has every kind of probe (hit, chain, wrap-around, full), a
rehashing, and locations it cannot hold, which then have several entries in the vector.  A queue of three entries has the empty list, the singleton,
the pair and an entry with two neighbours for every operation.  Two keys in one bucket give a
map the empty chain, the head and an entry behind it, and growth separates them.  One crash is enough where
nothing but the pool survives it; in `PmTML_crash` the transactions after it start from what it
left, in `PmNOrec_crash` none starts after it, and recovery is compared with what was committed.  `MaxUses = 3`
there leaves two reads and a write to a transaction, which is what lost updates and write skew take.  A
value other than the initial one tells whether a write was kept.  A hashed stream in small steps meets
every fill of a buffer; 190 and 1030 bytes cross it away from its stripes, go round it on the direct path, and end blocks of 8 stripes (a secret of
139 bytes: 576 bytes are one block) and of 16 (1024); 240, the end of the short forms, is passed one byte
at a time (`MaxSingles`).  32 stands for the 2^32 at which XXH32's length wraps around.  Symmetry is used in the safety runs over
threads, locations and entries, never in a run with a liveness property.

Deadlock is checked in every run.  `Finished` in TML, NOrec and their persistent versions is the stop at the
bound, `Dead` in TxLife and WriteSet a process that has ended and `Raced` in HashMap the
end of what is claimed; all are stuttering steps.

### Where the code does not do what it says

One run is a violation, of a property that a comment states:

* **`HashMap_resize`.**  `hashmap_put_tm` calls `hashmap_resize` (tm_hashmap.c:200) after its
  transaction has committed.  It relinks every entry with plain stores, so a lookup
  in another thread that walks the chain meanwhile misses a key that was there all along and
  `hashmap_get_tm` says "not found".

The others are pinned inside properties that hold, so that they say exactly how far the
code departs:

* A third nested block that succeeds kills the process: `tx_end` takes `level > 0` after
  it has counted one level down for an abort that did not waterfall (`ProcessSurvives`).
* `main` of `hashmap/transfer.c` inserts with `hashmap_put_tm` before any `STM_TH_ENTER` of
  its own thread; a transaction that allocates then reads through NULL (`ProcessSurvives`).
* `tx_hash_resize` gives up after `MAX_GROWS`; a full table then makes `tx_hash_put` return 0,
  which `norec_tx_write` does not take for an error, and the transaction reads back the old
  value (`LookupFailsOnlyWhenFull`).  `ReplayIsLastWrite` still holds, as the replay
  uses the vector alone.  With the real primes this takes more than 3079 locations in
  one transaction.
* `succ` in the queue and `found` in the map are set in the block and reset nowhere, so an
  attempt that restarts and then finds the queue empty, or the key gone, still reports
  success.  `RepliesAreTrue` excepts attempts that began with the variable set, and no
  others.
* norec.c:282 commits an irrevocable transaction with an empty write set without
  `tx_reclaim_frees` (`ImplementsTM`, through `Frees`).
* Persistent NOrec gives the lock back before `pmemobj_tx_commit`.  After a crash in between,
  every location that transaction wrote goes back to what it was before, even if others have
  read it or committed on top of it (`RecoversAllButUnsealed`).  Persistent TML
  commits first, and `RecoversLatest` holds without exception.
* `tml_on_end` (tml.c:128) returns early when the retry mark is set.  That mark is meant for
  restarts by the library, which only happen before the lock is taken, but
  `TML_RESTART` is `tx_restart` and a client may call it at any point.  After a write it
  leaves `glb` odd for ever, whatever tml.c:131 says ("release the lock on end").  NOrec's
  `norec_on_end` (norec.c:316) has the same early return, and so have the persistent versions.  `PmTML`
  and `PmNOrec` follow such clients with the history variable `lost`: `LockIsLostByRestartOnly` says of
  persistent TML that the lock is odd without a holder exactly after such a restart, and
  `LogRestoresVersion` that memory is a version all the same;
  the volatile runs leave them out with `RestartIrrevoc = FALSE`, without which
  `LockHasOneHolder` fails at once.
* `XXH3_128bits_digest` (xxhash.h:6625) asks for `seed` where `XXH3_64bits_digest` asks for
  `useSeed`.  After a reset with a secret and the seed 0, a stream of at most 240 bytes is
  hashed with that secret, and the one-shot `XXH3_128bits_withSecretandSeed` uses the default secret (`Xxh3DigestIsOneShot`
  excepts this case and no other).
* A log without room during NOrec's replay aborts the transaction and leaves the lock
  taken for ever (`lost` in `LogRestoresVersion`); memory itself is taken back.

### Failures a process does not survive

Three failures of `malloc` in `tx.c` leave something half done, and `TxLife` marks the
process `spoilt` from then on: the stack of an outermost block (`tx_end` pops from a
stack that was never allocated); the record of a nested block (`level` has been counted up for a
block that was not pushed, so the outer `tx_end` takes itself for nested and aborts
through an empty stack); and the growth of `alloc_list` (the entry is on the list when its block is
freed, and `tx_abort` frees it again).  `NoDoubleFree`, `ProcessSurvives` and `AllOrNothing`
are claimed only of processes that are not spoilt; the other properties of
`TxLife_all` of all.  A failing `tx_thread_enter` calls `abort()` on purpose.

In `WriteSet` a second write to a location, and a write that fails after its entry is in
the vector, make the end of the transaction free a buffer twice.
`DoubleFreeNeedsRewrite` says that nothing else does.

## Fairness

`TML` and `NOrec`: `WF_vars(Library(t))`, since a thread inside the library takes its next
step whenever the scheduler runs it and never waits for another process.  The loops
(`Spin`, the CAS, the validation) are steps of `Library`, so fairness does not assume that they
end.  For `LockIsReleased` the client has to finish its block: strong
fairness of `Commit` for an irrevocable transaction at each depth, which is the
assumption that client code terminates; only an irrevocable transaction needs it and
nothing ever sends one back to its beginning.  Nothing is assumed of revocable
transactions, which may restart for ever (neither algorithm is starvation free), so
the other property is obstruction freedom: a thread the others leave alone gets through.
`TxLife`: weak fairness of the handlers and ends.

## Proofs

All theorems about the two volatile algorithms assume `ConstAssumption` (the basic facts about the constants, for any
sets of threads, locations and values, any `MaxGlb`, and nesting 1 or 2) and
`~RestartIrrevoc` (the client does not restart an irrevocable transaction; without it
`LockHasOneHolder` is false).  `TMLProofs` proves

* `Invariance`: `Spec => []IInv`
* `LockSafety`: `Spec => []LockHasOneHolder`
* `Opacity`: `Spec => []ReadsAreOneVersion`
* `InPlaceWriting`: `Spec => []MemoryIsVersionPlusHolder`
* `AtomicPublication`: `Spec => PublishesAtomically`
* `OutcomeExact`: `Spec => OutcomeIsExact`
* `Implements`: `Spec => ImplementsTM`

Aborts are not restricted: client and library abort revocable and irrevocable transactions
alike.

`IInv` is the type invariant, the three safety invariants and four parts none of them
implies.  `ControlInv` ties the program counter to the stage, the nesting level and
the pending error: without it an action could be taken in a block that is being
unwound.  `HolderInv` says that writes and frees belong to the holder and that a
transaction on its way back to its beginning is never the holder: a failed CAS leaves another
transaction's odd value in `loc`, and only the retry mark keeps `tml_on_end` from
releasing on the strength of it.  `ReaderInv` says that a revocable transaction runs on a published
version no newer than the lock and, for opacity, that the value loaded but not yet
handed over is that version's if the lock has not moved since.  `HistoryInv` says which versions
exist.  Each action has a lemma `<Action>Step`; those that only move `struct tx` share
`RecordStep`.  What the operators of `Tx` do to the fields of a record is said by the lemmas
(`TxBeginFields`, ...) at the head of each module that needs them.
TLC checked `IInv` with the bounds of `TML_safety`.

`OutcomeIsExact` needs a little more, `FateInv`: a transaction whose outermost block has
committed has given back what it freed, and no other has given back anything; no
store in progress is of `Junk`.

The refinement needs `IInv` alone.  Under it every action is a step of `AtomicTM` or a
stutter: `Begin` maps to `Begin`, `ReadCheck` to `Read`, `Store` to `Write`; the step that takes the lock to
`Irrevoc`, `Free`, or `Fail` when the `free_list` has no room; the abort of an irrevocable transaction to
`Fail`, that of another to `Abort`; the outermost `Commit` of an irrevocable transaction to `GiveBack`; and its `End` to `CommitWriter`
or, if it failed, to `LeaveTrace`; the `End` of a revocable one that committed is `CommitReader`.  Everything else stutters.

`NOrecProofs` proves for `NOrec`, with its write sets of any length,

* `Invariance`: `Spec => []IInv`
* `LockSafety`: `Spec => []LockHasOneHolder`
* `Opacity`: `Spec => []ReadsAreOneVersion`
* `BufferedWriting`: `Spec => []MemoryIsVersionPlusHolder`
* `AtomicPublication`: `Spec => PublishesAtomically`
* `Implements`: `Spec => ImplementsTM`

`IInv` of `NOrec` has, beside the type invariant and the three safety invariants, again
`ControlInv` and `HistoryInv`, and two parts that are the argument of the algorithm.  `SetsInv`
says what the two sets are worth: the read set of a revocable transaction is exactly what
it was handed, its write set lists each location once with what it wrote, and what is left to replay
still agrees with it.  `ReaderInv` says why a validation by value is enough:
outside `norec_validate` what the transaction has read is in version `loc`; in it, the
entries compared so far are in memory as long as `glb` is what was sampled, and
memory at an even `glb` is a published version.  So the recheck of `glb` after the last comparison
makes `time` a version that explains every read, and without that recheck `RecheckStep` cannot
be proved.  The lemmas are sorted by what a step disturbs: `QuietStep` for a step that neither
takes nor gives the lock, `SameLockStep` when memory changes under it, `GiveStep` when it is
released; `OthersInv` says once what every step leaves of the other threads.  `RecordStep`,
`CallStep` and `InPlaceStep` are shared by the actions that only move `struct tx`, that go from
one label of a call to another, and that work on memory irrevocably.  `RedoStep` is where
the replay is right: a tail of the write set replayed from its head.
`NOrec_safety` checks `IInv` with TLC first.

The refinement of NOrec needs nothing beside `IInv` either.
`Begin` maps to `Begin`, `Prevalidate` with an unchanged lock and the read of an irrevocable
transaction to `Read`, `Write` to `Write`; `BecomeIrrevoc` to `Irrevoc`, to `Free` if it was reached from
`norec_tx_free` and the frees will be given back, or to `Fail` if the `free_list` has no
room; a failed `Compare` and the
client's restart to `Abort`, and so does an abort unless the transaction is irrevocable, when it is `Fail`; the `Commit` of a revocable transaction that wrote nothing to `CommitReader`,
that of an irrevocable one to `GiveBack`, which gives back nothing when the write set is empty (see the hazards),
`Release` and the end of an irrevocable transaction to `CommitWriter`, or to `LeaveTrace` if it failed.  The replay
stutters: the buffered writes are among the transaction's writes since they were made.

**The transaction core.**  `TxLifeProofs` proves of `TxLife`, for any blocks, any capacity of a
new vector, lists of any length, any nesting and any set of calls of `malloc` that may fail,

* `Invariance`: `Spec => []IInv`
* `NothingFreedTwice`: `Spec => []NoDoubleFree`
* `FailureWaterfalls`: `Spec => []FailureIsFinal`
* `Survival`: `Spec => []ProcessSurvives`
* `AllOrNone`: `Spec => AllOrNothing`

`ControlInv` is why failures unwind: from `tx_abort` until the macros are left an error is
pending, the level is one less than the depth of the stack, and the two exceptions are
the two ways in which `tx_begin` fails.  So `tx_end` sees `Outermost` exactly once, unless a
nested `tx_begin` has counted the level up without pushing its block, and then the process
crashes (`spoilt`).  `BooksInv` ties the lists to the heap: what is live is what was live at
the beginning and what the transaction got, until the outermost block has given back
one list or the other; the `alloc_list` names each new block once as long as the
transaction can abort, the `free_list` each block to be freed once as long as it can commit.  Neither
is an invariant once `spoilt`: `AllocListFails` leaves the freed block on the
list.  `AbortStep` is all the calls of `tx_abort`; `FreeAllOnce` says that a list that names
live blocks once can be freed, `ForgetFacts` that `tx_free` keeps it such a list, which
takes the least index in `SelectInSeq` (`Least`).  TLC checked `IInv` with the bounds of `TxLife_all`.

**The write set.**  `WriteSetProofs` proves of `WriteSet`, for any locations, values and hash function, any
strictly growing sequence of capacities, vectors of any length and any set of failing `malloc`s,

* `WriteSetInvariance`: `Spec => []IInv`
* `WriteSetLookup`: `Spec => []LookupFailsOnlyWhenFull`
* `WriteSetReplay`: `Spec => []ReplayIsLastWrite`
* `WriteSetFreed`: `Spec => []FreedIsOutOfReach`
* `WriteSetFrees`: `Spec => []DoubleFreeNeedsRewrite`

That capacities grow is an assumption on `Primes` and true of `TABLE_PRIMES` (tx_util.c:12); without
it a rehash could meet a full table and drop entries.  `IInv` has a part for each of the two ways in which
the code finds a write.  For the lookup: `Reachable`, every key is where probing for it stops
first, the slots before being taken by others; `Indexed`, each slot names the entry that holds the
newest value of its key, with a live buffer; `NothingLost`, what was written has a slot
as long as the table is not full, and only the largest table is ever full.  For the replay, which never looks
at the table: `NewestKept`, the last entry with an address holds what was written last.  The
two meet in `FreedIsGone`: an entry whose buffer was freed has lost its address as well, so neither
comes to it.  `ProbeOnto` says that probing visits every slot once before it comes round
(`DivMod`, `Rest`), `FoundIs` and `InsertIs` what follows for a lookup and an insertion.  The
rehash and the replay are recursive functions; that such a function exists, so that its equations
may be used, is `Recursion`, and what holds after k steps follows with `Upward`, an induction over
`0..N` that is got from `LeastNumber`: `Refilled` is what the new table holds after k slots of the old
one, `Replayed` what memory holds after k entries.  TLC checked `IInv` with three locations.

**The persistent algorithms.**  `PmTMLProofs` and `PmNOrecProofs` assume `ConstAssumption` only:
any finite set of threads (recovery takes their logs one after another), any locations and
values, any depth of nesting, any number of crashes, and any client, the one included that
restarts or aborts irrevocable transactions.  They prove

* `Invariance`: `Spec => []IInv`
* `LogRestoresLastVersion`: `Spec => []LogRestoresVersion`
* `LockLoss`: `Spec => []LockIsLostByRestartOnly`, for `PmTML`
* `Opacity`: `Spec => []ReadsAreOneVersion`
* `AllOrNothing`: `Spec => PublishesAllOrNothing`
* `CrashRecovery`: `Spec => RecoversLatest` for `PmTML`, `Spec => RecoversAllButUnsealed` for
  `PmNOrec`

`IInv` of `PmTML` says of each thread what `LogRestoresVersion` and `ReadsAreOneVersion` say
(`LogOf`, `Opaque`), and what those need of the step before.  `ControlInv` keeps an action
from being taken in a block that is being unwound.  `StoreInv` says that a location is in the
log before it is stored to, without which a store would not keep `Overlay(mem, undo[t])`; and
that a transaction that is over has no log and, if it failed, no write: the roll
back happens when the outermost block fails, before the loop of the macros gets to
`tml_on_end` and its release of the lock.  `ReaderInv` and `HistoryInv` are those of the
volatile TML, `OneHolder` the lock.  `LockInv` covers the case the volatile proofs exclude by
an assumption: an irrevocable transaction that is restarted leaves the lock odd for good,
and then `lost` is true and memory is the last version; as no holder exists while `lost` is true, and
without it an odd lock has one, `LockLoss` follows.  Each action has a lemma
`<Action>Step`; `LoopStep` is what those share that only move the record and may roll back, and
`HolderStep` and `QuietStep` sort the others by what they do to lock and log.

`IInv` of `PmNOrec` has to tell four owners of a log apart, which is what `LogOf` and `LostInv`
do: the holder (`Copied(t)` is what its replay has copied so far); the transaction that has released the
lock and not yet committed, whose log leads from its version back to the one
before, whatever happened to memory since; the one that lost the lock when a nested
block's replay found no room in the log, which is rolled back only when the outermost block
ends; and nobody else.  `SetsInv` is the one of the volatile proofs, with `Listed` for
write set and replay.  The lemmas are sorted by what a step does with the lock, `QuietStep`,
`OrphanStep`, `HolderStep`, `LoseStep`, `GiveStep`, over `OthersInv`.

The argument for recovery is in the lemmas about `PmTx` at the head of either module.
`EveryLane`: in whatever order recovery
takes the logs, it takes that of each thread once.  `RecoverAt`: at a location that one lane at most has
logged, recovery is the overlay of that lane; `RecoverOne` is the same for all of memory,
`RecoverNone` for no lane, and `RecoverType` says that a pool comes out of it whatever the lanes
hold.  For `PmTML` the invariant leaves one log, the holder's, and it leads to the last version,
or it is empty and the holder has committed.  For `PmNOrec` several transactions may be between
release and commit; the theorem speaks of the locations none of them logged, and for
those the same two lemmas apply; when only one is, and nobody took the lock after it, its log
is the only one, and the pool is the version before its own.
The invariants were checked with TLC on `PmTML_crash` and `PmNOrec_crash` before they were proved.

**The queue.**  `DataProofs` proves of `TmQueue`, for any threads and values and any finite set
of entries, so for lists of any length,

* `QueueInvariance`: `Spec => []IInv`
* `QueueWellLinked`: `Spec => []WellLinked`
* `QueueReplies`: `Spec => RepliesAreTrue`
* `QueueRefinement`: `Spec => ImplementsDeque`

`IInv` says of the committed queue, and of every version an attempt works on, that there is a
sequence of different entries, exactly the allocated ones, along which `next` and `prev`, `front`,
`back` and `length` lead (`Chain`), and that unallocated entries are zeroed: without that a
push would put an entry with a stale `next` at the end.  `CallInv` says how far an attempt has
come: `succ` and `*retval` agree with its version, and at its beginning `succ` is what an
abandoned attempt left.  `WellLinked` compares two walks and the refinement is
about the content, so the first lemmas are about walks: `AlongIs`, that a function which goes along
a link step by step is the walk (there is no first step at which they part, by `LeastNumber`),
`WalkIs`, that the walk along a chain is the chain, and `ChainWalkBack`, that the walk from the
back is the chain reversed.  Then each operation has a lemma on the fields (`LinkBackFields`,
...), one on the chain (`PushBackEffect`: `Append`; `PopFrontEffect`: `Tail`; ...) and one on the
content (`PushContent`, `PopContent`).  The steps that commit are those of `Deque`; the others
leave `q` alone.  TLC checked `IInv` with the bounds of `TmQueue_ops`.

**The hash map.**  `HashMapProofs` proves of `HashMap`, for any finite sets of threads and entries, any keys,
values and hash function and any capacities, so for chains of any length,

* `HashMapInvariance`: `Spec => []IInv`
* `HashMapWellFormed`: `Spec => []WellFormed`, if the model stops at a race (`~BeyondRace`, as in the run)
* `HashMapReplies`: `Spec => RepliesAreTrue`
* `HashMapRefines`: `Spec => ImplementsKeyValue`

`IInv` claims what it says until the plain resize has raced, and that the transactional resize never
does.  The map itself is `Sound` (a key is there once, `length` counts the entries, an entry that is
not allocated is zeroed) and its entries are `Linked` to their buckets: each has a rank in its
chain, 0 at the head, one more at each `next`, and two entries of a bucket never have the same.
With ranks a chain is a local matter: an insertion at the end, a store of a head or of a `next` that passes
an entry by each changes them in one way (`PutFirst`, `PutAfter`, `TakeOut`), and no walk is looked at.  While
entries are moved, `Split` says the same of two sets: those not yet moved hang in what is left
of the old buckets, the others in the new, in the buckets of the new capacity.  `AttemptInv` is the
argument for the lookups: until somebody commits a write the key is not among the entries the walk has passed
(`Walked`), so the end of the chain means that it is not there; after such a write
the attempt is `stale` and only its reply matters, which was fixed by the version it began with.  Nobody is
inside an attempt while a resize moves entries (`MoverInv`), or it would be a race.

`WellFormed` and the abstraction follow chains by a recursive function with one step for each
entry; `AlongIs` gives its equations, `ChainIs` that it meets the entries of the bucket
in the order of their ranks and all of them, as ranks stay below the number of
entries.  `hashmap_resize_tm` is one step that makes all the turns of both loops: `TurnIs` says that one turn keeps
`Split` and leaves less, `AllMovedIs`, with `Upward`, that after as many turns as there are
buckets and entries nothing is left.  For the refinement `ContentStored` turns one store to the map
into one to the function from keys to values, and `ContentKept` says that moving entries does not
change it.  TLC checked `IInv` with the bounds of `HashMap_ops`.

**xxHash.**  `DataProofs` also proves of `XxhArith`, for any size `H` of half a word and any exclusive or,

* `MultiplicationIsExact`: the portable `XXH_mult64to128` returns both halves of the product
* `AddsAgree`, `AccumulatesAgree`, `ScramblesAgree`, `SecretsAgree`: the code for one kind of
  processor and the code for the other compute the same

The first rests on the bounds of a product of two halves: each sum of the cross products stays below `H * H`, so
no wrapping changes it.  The products are nonlinear, which the SMT solver does not do by itself, so
the distribution of `H` over sums and the division of `z * H + r` are lemmas, and the leaves
are linear.  Accumulation is shown lane by lane: the even and the odd lane of a pair exchange their
input, no round touches another pair, and sums wrap to the same word in any order.

**Streams.**  Of `XxhStreams` it proves, for updates of any sizes, inputs of any length, any seeds and
secrets of any size that a reset accepts,

* `XxhStreamDigest`: `StreamSpec => []DigestIsOneShot`
* `Xxh3StreamDigest`: `StreamSpec => []Xxh3DigestIsOneShot`
* `Xxh3StreamReads`: `StreamSpec => []ReadsItsInput`

`XxhAssumption` says of the width of the length that 2^64 exceeds every input and that 2^32 is at least 31: an
update below 16 bytes must not carry the length of XXH32 from below 16 past the wrap, or `large_len` would miss it.

`XxhInv`: the lanes have taken a number of whole blocks (`Taken`), fewer bytes than a block are
in the buffer, in order, and together they are the input.  `Xxh3Inv`, since the last reset: the
accumulators are `AccOf(b, r)`, what `b` whole blocks of the secret and `r` stripes of the next one leave,
the buffer holds the bytes after those, in order, and once anything was taken, at least
one; as far as they have not run over it, the end of the buffer holds the stripe before them
(`Held`), which a digest of fewer than 64 buffered bytes needs.  `ResetIs` relates the
settings to the last reset; and whatever reset came last, a state whose `seed` is not 0 and that has no secret of
the user's still holds the secret of that seed, so that `XXH3_64bits_reset_withSeed` may skip its derivation.

`AccOf` is a formula and not a recursion: place `m` of it is given by the quotient and the rest of `m` by
the length of a block.  So `XXH3_consumeStripes` (`ConsumeStripesIs`), the blocks of the one-shot
function (`BlocksAre`) and a digest are compared by where each comes out.  `EndBlock` takes `AccOf` from one block to the
next, and `after`, the recursive function of the loop, does so for as many turns as there are.
For `ReadsItsInput`, each short form is followed through its reads (`Covering`); a long hash is
`AccOf`, its last stripe and the merges, and the last stripe's piece of the secret starts beyond those of all other
stripes, before that of the scrambling, and apart from those of the merges (`KeyedAt`).  TLC checks the three properties with the bounds of `Xxh_streams`.

Model-checked only: all liveness (temporal reasoning under fairness is out of the prover's reach).
The library's induction theorems take an operator as a
parameter, which the installed provers cannot instantiate; the inductions above go over finite sets instead:
`Greatest`, `Least` and `LeastNumber` (a finite set of numbers has a maximum, any set of numbers a minimum) follow from the
well-foundedness of strict inclusion.

## Not modelled

* Failures inside `norec_rdset_add` (it has the same shape as `norec_tx_write`) and
  `norec_thread_enter`; `tx_hash_delete`, `tx_hash_insert` and `tx_hash_contains`, which nothing calls.
* `hashmap_put`, the version without transactions, which the tests call before they start threads.
* Of the persistent half: the creation and destruction of queue and map in plain
  pmemobj transactions (`_queue_destroy_entries` stores `front` without `TX_ADD`; listed as a hazard),
  `txpmdk`, which passes calls on to libpmemobj without any
  concurrency control, second writes to a location, and allocation inside transactions.
* The metrics (`num_retries`, `num_commits`), printing, the timing drivers, the test programs.
* Of xxHash, vendored: canonical forms, the secret generator, allocation and copying of states, the
  versions for AVX2, AVX512, NEON, VSX and SVE, and how well the hash mixes.  Of its functions the program calls
  `XXH3_64bits_withSeed`, on eight bytes or a string, and nothing it does depends on what the
  hash is; `Hash` in `HashMap` is an arbitrary function.
* Weak memory beyond what -O0 on x86 shows: the fences in the code are compiler
  fences, and the model is sequentially consistent.

## Plan

Left: the creation and destruction of the persistent structures, with a crash in the middle of a
destruction (the hazard at `_queue_destroy_entries`).
