---------------------------------- MODULE Xxh ----------------------------------
(***************************************************************************)
(* XXH32 and XXH64 of common/lib/xxhash.h, which differ in the size of a   *)
(* word: both send the words of the input to four lanes in turn and mix    *)
(* what is left over at the end.  Arithmetic is uninterpreted: a hash is   *)
(* the record of the reads that went into it, <<o, n>> standing for n      *)
(* bytes of the input from position o on.                                  *)
(***************************************************************************)
EXTENDS Integers, Sequences

CONSTANTS
  TotalModulo,   \* total_len_32 and total_len count modulo this: word size -> Nat
  Chunks,        \* bound: how many bytes one update brings
  MaxTotal       \* bound: bytes between two resets

NoByte == -1

VARIABLES
  word,          \* 4 for XXH32, 8 for XXH64
  lanes,         \* v[0..3]: the words each lane has taken
  mem,           \* mem32, mem64: the input not yet taken, by offset
  memsize,
  total,         \* total_len_32, total_len
  large,         \* large_len, kept by XXH32 only
  given          \* history: the bytes given since the reset

StripeOf(w) == 4 * w

EmptyLanes == [l \in 0..3 |-> <<>>]

\* One stripe is four words, one to each lane.
Round(v, words) == [l \in 0..3 |-> Append(v[l], words[l])]

WordsAt(w, p) == [l \in 0..3 |-> <<p + l * w, w>>]

\* n rounds with the stripes from position p on: each lane takes n words.
Rounds(v, w, p, n) ==
  [l \in 0..3 |-> v[l] \o [k \in 1..n |-> WordsAt(w, p + (k - 1) * StripeOf(w))[l]]]

\* n reads of w bytes each, from position p on
Run(p, w, n) == [k \in 1..n |-> <<p + (k - 1) * w, w>>]

\* How the last n bytes are cut: words, half a word, bytes.
Finalize32(n) == Run(0, 4, n \div 4) \o Run(n - (n % 4), 1, n % 4)

Finalize64(n) == Run(0, 8, n \div 8) \o Run(n - (n % 8), 4, (n % 8) \div 4) \o Run(n - (n % 4), 1, n % 4)

Hash(w, converged, len, tail) ==
  [word |-> w, converged |-> converged, len |-> len % TotalModulo[w], tail |-> tail]

\* A short input starts from lane 2, which holds the seed.
Converge(v, isLarge) == IF isLarge THEN v ELSE v[2]

\* cuts: how the rest after the last whole stripe is cut
OneShot(w, len, cuts) ==
  LET n == len \div StripeOf(w)
  IN  Hash(w, Converge(Rounds(EmptyLanes, w, 0, n), len >= StripeOf(w)), len,
           [k \in DOMAIN cuts |-> <<n * StripeOf(w) + cuts[k][1], cuts[k][2]>>])

XXH32(len) == OneShot(4, len, Finalize32(len % 16))

XXH64(len) == OneShot(8, len, Finalize64(len % 32))

(***************************************************************************)
(* The streaming state.                                                    *)
(***************************************************************************)
Reset(w) ==
  /\ word' = w
  /\ lanes' = EmptyLanes
  /\ mem' = [o \in 0..StripeOf(w) - 1 |-> NoByte]
  /\ memsize' = 0 /\ total' = 0 /\ large' = FALSE
  /\ given' = 0

Init ==
  /\ word \in {4, 8}
  /\ lanes = EmptyLanes
  /\ mem = [o \in 0..StripeOf(word) - 1 |-> NoByte]
  /\ memsize = 0 /\ total = 0 /\ large = FALSE
  /\ given = 0

Store(m, o, p, n) == [i \in DOMAIN m |-> IF i \in o..o + n - 1 THEN p + i - o ELSE m[i]]

\* The n bytes at offset o, as a window of the input when they are one.
Read(m, o, n) ==
  IF m[o] # NoByte /\ \A k \in 1..n - 1 : m[o + k] = m[o] + k
  THEN <<m[o], n>> ELSE [k \in 1..n |-> m[o + k - 1]]

\* The tmp buffer has room: the early return of both updates.
Fill(len) ==
  /\ memsize + len < StripeOf(word)
  /\ mem' = Store(mem, memsize, given, len)
  /\ memsize' = memsize + len
  /\ UNCHANGED lanes

\* The buffered bytes and as many new ones as they lack are one stripe, then
\* come whole stripes of the input, and what is left is buffered.
Consume(len) ==
  LET stripe == StripeOf(word)
      load   == IF memsize > 0 THEN stripe - memsize ELSE 0
      full   == Store(mem, memsize, given, load)
      one    == IF memsize > 0
                THEN Round(lanes, [l \in 0..3 |-> Read(full, l * word, word)]) ELSE lanes
      p      == given + load
      n      == (given + len - p) \div stripe
      left   == given + len - p - n * stripe
  IN  /\ memsize + len >= stripe
      /\ lanes' = Rounds(one, word, p, n)
      /\ mem' = Store(full, 0, p + n * stripe, left)
      /\ memsize' = left

Count(len) ==
  /\ given + len <= MaxTotal
  /\ given' = given + len
  /\ total' = (total + len) % TotalModulo[word]
  /\ UNCHANGED word

\* Mutant: forgets that the input was long once.
LargeByTotal(len) == total' >= 16

LargeLen(len) == large \/ len >= 16 \/ total' >= 16

Update32(len) ==
  /\ word = 4
  /\ Count(len)
  /\ large' = LargeLen(len)
  /\ Fill(len) \/ Consume(len)

Update64(len) ==
  /\ word = 8
  /\ Count(len)
  /\ Fill(len) \/ Consume(len)
  /\ UNCHANGED large

Reset32 == Reset(4)
Reset64 == Reset(8)

Next ==
  \/ Reset32
  \/ Reset64
  \/ \E n \in Chunks : Update32(n) \/ Update64(n)

\* What is in the buffer, cut as the input would be.
Buffered(cuts) == [k \in DOMAIN cuts |-> Read(mem, cuts[k][1], cuts[k][2])]

\* XXH32_digest knows a long input by large_len and its tail by memsize,
\* XXH64_digest both by total_len.
Digest32 == Hash(4, Converge(lanes, large), total, Buffered(Finalize32(memsize)))

Digest64 == Hash(8, Converge(lanes, total >= 32), total, Buffered(Finalize64(total % 32)))

===============================================================================
