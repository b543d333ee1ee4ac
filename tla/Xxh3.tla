--------------------------------- MODULE Xxh3 ---------------------------------
(***************************************************************************)
(* The one-shot XXH3 functions of common/lib/xxhash.h, 64 and 128 bits.    *)
(* Which bytes of the input meet which bytes of the secret is all of the   *)
(* hash that is kept: arithmetic is uninterpreted, so a hash is the record *)
(* of what was mixed, and two hashes are equal when the same reads went    *)
(* through the same functions.  <<o, n>> stands for n bytes from offset o; *)
(* the numbers are the code's.                                             *)
(***************************************************************************)
EXTENDS Integers, Sequences

StripeLen      == 64
ConsumeRate    == 8
MidSizeMax     == 240
MidStartOffset == 3
MidLastOffset  == 17
SecretSizeMin  == 136
SecretSize     == 192       \* XXH_SECRET_DEFAULT_SIZE
MergeAccsStart == 11

\* Mutant: a multiple of ConsumeRate.
LastAccAligned == 8

LastAccStart == 7

\* A secret: XXH3_kSecret, the caller's, or one derived from a seed.
Secret(name, seed, size) == [name |-> name, seed |-> seed, size |-> size]

kSecret           == Secret("default", 0, SecretSize)
CustomSecret(seed) == Secret("custom", seed, SecretSize)

\* What one call of a mixing function reads, of the input and of the secret.
Mix(in, key) == [in |-> in, key |-> key]

mix16B(o, s)       == Mix(<< <<o, 8>>, <<o + 8, 8>> >>, << <<s, 8>>, <<s + 8, 8>> >>)
mix32B(o1, o2, s)  == Mix(<< <<o1, 16>>, <<o2, 16>> >>, << <<s, 16>>, <<s + 16, 16>> >>)

(***************************************************************************)
(* Short inputs: every byte meets a part of the secret of its own.         *)
(***************************************************************************)
\* the secret in n pieces of w bytes, from offset o on
Pieces(o, w, n) == [k \in 1..n |-> <<o + (k - 1) * w, w>>]

First1to3(len) == << <<0, 1>>, <<len \div 2, 1>>, <<len - 1, 1>> >>

Len1to3_64(len) == << Mix(First1to3(len), Pieces(0, 4, 2)) >>

Len4to8_64(len) == << Mix(<< <<0, 4>>, <<len - 4, 4>> >>, Pieces(8, 8, 2)) >>

Len9to16_64(len) == << Mix(<< <<0, 8>>, <<len - 8, 8>> >>, Pieces(24, 8, 4)) >>

Len0to16_64(len) ==
  CASE len > 8       -> Len9to16_64(len)
    [] len \in 4..8  -> Len4to8_64(len)
    [] len \in 1..3  -> Len1to3_64(len)
    [] len = 0       -> << Mix(<<>>, Pieces(56, 8, 2)) >>

Len1to3_128(len) == << Mix(First1to3(len), Pieces(0, 4, 4)) >>

Len4to8_128(len) == << Mix(<< <<0, 4>>, <<len - 4, 4>> >>, Pieces(16, 8, 2)) >>

Len9to16_128(len) == << Mix(<< <<0, 8>>, <<len - 8, 8>> >>, Pieces(32, 8, 4)) >>

Len0to16_128(len) ==
  CASE len > 8       -> Len9to16_128(len)
    [] len \in 4..8  -> Len4to8_128(len)
    [] len \in 1..3  -> Len1to3_128(len)
    [] len = 0       -> << Mix(<<>>, Pieces(64, 8, 4)) >>

\* From the middle out to both ends; round i runs when len > 32 * i.
Len17to128_64(len) ==
  LET Around(i) == IF len > 32 * i
                   THEN << mix16B(16 * i, 32 * i), mix16B(len - 16 * (i + 1), 32 * i + 16) >>
                   ELSE <<>>
  IN  Around(3) \o Around(2) \o Around(1) \o Around(0)

Len17to128_128(len) ==
  LET Around(i) == IF len > 32 * i THEN << mix32B(16 * i, len - 16 * (i + 1), 32 * i) >>
                   ELSE <<>>
  IN  Around(3) \o Around(2) \o Around(1) \o Around(0)

Len129to240_64(len) ==
  LET rounds == len \div 16
  IN  [i \in 1..8 |-> mix16B(16 * (i - 1), 16 * (i - 1))]
      \o << mix16B(len - 16, SecretSizeMin - MidLastOffset) >>
      \o [i \in 1..rounds - 8 |-> mix16B(16 * (i + 7), 16 * (i - 1) + MidStartOffset)]

\* The loop counter of the code is the offset at which a round ends.
Len129to240_128(len) ==
  LET rounds == len \div 32
  IN  [i \in 1..4 |-> mix32B(32 * i - 32, 32 * i - 16, 32 * i - 32)]
      \o [i \in 1..rounds - 4 |->
            mix32B(32 * (i + 4) - 32, 32 * (i + 4) - 16, MidStartOffset + 32 * (i - 1))]
      \o << mix32B(len - 16, len - 32, SecretSizeMin - MidLastOffset - 16) >>

(***************************************************************************)
(* Long inputs: an accumulator takes stripe after stripe, each with the    *)
(* secret moved on by ConsumeRate, and is scrambled at the end of a block. *)
(***************************************************************************)
InitAcc == <<>>

AccumulateOne(acc, stripe, key) == Append(acc, Mix(<<stripe>>, << <<key, StripeLen>> >>))

\* XXH3_accumulate: the stripes one after another, from the key on.
Accumulate(acc, stripes, key) ==
  acc \o [n \in DOMAIN stripes |->
            Mix(<<stripes[n]>>, << <<key + (n - 1) * ConsumeRate, StripeLen>> >>)]

Scramble(acc, key) == Append(acc, Mix(<<>>, << <<key, StripeLen>> >>))

\* The n stripes of the input from offset o on.
StripesAt(o, n) == [k \in 1..n |-> <<o + (k - 1) * StripeLen, StripeLen>>]

StripesPerBlock(size) == (size - StripeLen) \div ConsumeRate

\* XXH3_hashLong_internal_loop
LongLoop(len, size) ==
  LET perBlock    == StripesPerBlock(size)
      blockLen    == StripeLen * perBlock
      blocks      == (len - 1) \div blockLen
      after[n \in 0..blocks] ==
        IF n = 0 THEN InitAcc
        ELSE Scramble(Accumulate(after[n - 1], StripesAt((n - 1) * blockLen, perBlock), 0),
                      size - StripeLen)
      rest        == (len - 1 - blockLen * blocks) \div StripeLen
  IN  AccumulateOne(Accumulate(after[blocks], StripesAt(blocks * blockLen, rest), 0),
                    <<len - StripeLen, StripeLen>>,
                    size - StripeLen - LastAccStart)

\* XXH3_mergeAccs: the accumulators meet the secret from the key on.
MergeAccs(key) == << Mix(<<>>, << <<key, StripeLen>> >>) >>

Merge64(acc, size) == acc \o MergeAccs(MergeAccsStart)

Merge128(acc, size) ==
  acc \o MergeAccs(MergeAccsStart) \o MergeAccs(size - StripeLen - MergeAccsStart)

(***************************************************************************)
(* The hashes.  A short one uses the seed beside the secret; a long one    *)
(* has the seed in its secret only.                                        *)
(***************************************************************************)
Hash(by, mixes, len, secret, seed) ==
  [by |-> by, mixes |-> mixes, len |-> len, secret |-> secret, seed |-> seed]

HashLong64(len, secret) ==
  Hash("long", Merge64(LongLoop(len, secret.size), secret.size), len, secret, 0)

HashLong128(len, secret) ==
  Hash("long", Merge128(LongLoop(len, secret.size), secret.size), len, secret, 0)

\* longSecret is what the function passed for long inputs works with.
Internal64(len, seed, secret, longSecret) ==
  CASE len <= 16        -> Hash("0to16",    Len0to16_64(len),    len, secret, seed)
    [] len \in 17..128  -> Hash("17to128",  Len17to128_64(len),  len, secret, seed)
    [] len \in 129..MidSizeMax -> Hash("129to240", Len129to240_64(len), len, secret, seed)
    [] len > MidSizeMax -> HashLong64(len, longSecret)

Internal128(len, seed, secret, longSecret) ==
  CASE len <= 16        -> Hash("0to16",    Len0to16_128(len),    len, secret, seed)
    [] len \in 17..128  -> Hash("17to128",  Len17to128_128(len),  len, secret, seed)
    [] len \in 129..MidSizeMax -> Hash("129to240", Len129to240_128(len), len, secret, seed)
    [] len > MidSizeMax -> HashLong128(len, longSecret)

Internal(bits, len, seed, secret, longSecret) ==
  IF bits = 64 THEN Internal64(len, seed, secret, longSecret)
               ELSE Internal128(len, seed, secret, longSecret)

\* The entry points, of both widths.
Plain(bits, len) == Internal(bits, len, 0, kSecret, kSecret)

WithSecret(bits, len, secret) == Internal(bits, len, 0, secret, secret)

\* The secret that hashes a long input with a seed.
SeededSecret(seed) == IF seed = 0 THEN kSecret ELSE CustomSecret(seed)

WithSeed(bits, len, seed) == Internal(bits, len, seed, kSecret, SeededSecret(seed))

WithSecretAndSeed(bits, len, secret, seed) == Internal(bits, len, seed, kSecret, secret)

===============================================================================
