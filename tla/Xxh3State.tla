------------------------------ MODULE Xxh3State ------------------------------
(***************************************************************************)
(* Streaming with XXH3: struct XXH3_state_s of common/lib/xxhash.h, its    *)
(* resets, updates and digests.  A byte of the input is its position since *)
(* the last reset; the buffer may still hold bytes of an earlier input,    *)
(* which are all called Old.  The 128-bit functions share everything with  *)
(* the 64-bit ones but the digest.                                         *)
(***************************************************************************)
EXTENDS Xxh3

CONSTANTS
  Seeds,        \* the seeds callers use
  UserSizes,    \* the sizes of the secrets callers bring along
  Chunks,       \* bound: how many bytes one update brings
  MaxSingles,   \* bound: updates of one byte stop at this total
  MaxTotal      \* bound: bytes between two resets

BufferSize    == 256                        \* XXH3_INTERNALBUFFER_SIZE
BufferStripes == BufferSize \div StripeLen

NullSecret == Secret("null", 0, 0)
Garbage    == Secret("garbage", 0, SecretSize)   \* never initialised
UserSecret(size) == Secret("user", 0, size)

Old == -1

VARIABLES
  acc,                \* what has gone into the eight accumulators
  customSecret,       \* the secret derived from a seed, if any
  buffer,             \* internal buffer: offset -> byte of the input, or Old
  bufferedSize,
  useSeed,
  nbStripesSoFar,     \* stripes of the current block that have been accumulated
  totalLen,
  secretLimit,
  nbStripesPerBlock,
  seed,
  extSecret,          \* the external secret, or NullSecret
  \* history
  reset               \* the variant of the last reset, and its arguments

state == <<acc, customSecret, buffer, bufferedSize, useSeed, nbStripesSoFar,
           totalLen, secretLimit, nbStripesPerBlock, seed, extSecret, reset>>

Called(variant, secret, s) == [variant |-> variant, secret |-> secret, seed |-> s]

\* XXH3_createState: only seed and extSecret are given a value.
Init3 ==
  /\ acc = InitAcc /\ buffer = [o \in 0..BufferSize - 1 |-> Old]
  /\ bufferedSize = 0 /\ useSeed = FALSE /\ nbStripesSoFar = 0 /\ totalLen = 0
  /\ secretLimit = 0 /\ nbStripesPerBlock = 0
  /\ customSecret = Garbage
  /\ seed = 0 /\ extSecret = NullSecret
  /\ reset = Called("none", NullSecret, 0)

(***************************************************************************)
(* Resets.  The buffer keeps its content, which is of an earlier input.    *)
(***************************************************************************)
ResetInternal(s, use, secret, size) ==
  /\ acc' = InitAcc
  /\ buffer' = [o \in 0..BufferSize - 1 |-> Old]
  /\ bufferedSize' = 0
  /\ nbStripesSoFar' = 0
  /\ totalLen' = 0
  /\ useSeed' = use
  /\ seed' = s
  /\ extSecret' = secret
  /\ secretLimit' = size - StripeLen
  /\ nbStripesPerBlock' = secretLimit' \div ConsumeRate

ResetPlain ==
  /\ ResetInternal(0, FALSE, kSecret, SecretSize)
  /\ UNCHANGED customSecret
  /\ reset' = Called("plain", kSecret, 0)

ResetWithSecret(size) ==
  /\ ResetInternal(0, FALSE, UserSecret(size), size)
  /\ UNCHANGED customSecret
  /\ reset' = Called("secret", UserSecret(size), 0)

\* XXH_ERROR, but the state has been reset before the secret is looked at.
ResetRefused(secret, size) ==
  /\ ResetInternal(0, FALSE, secret, size)
  /\ UNCHANGED customSecret
  /\ reset' = Called("none", NullSecret, 0)

ResetWithNullSecret == ResetRefused(NullSecret, SecretSize)

\* The longest of the secrets that are too short: the limits derived from its
\* size are not read before the next reset.
ResetWithShortSecret == ResetRefused(UserSecret(SecretSizeMin - 1), SecretSizeMin - 1)

\* Mutant: does not ask whose secret was used since.
SeedIsKnown(s) == s = seed

\* The secret of the last seed is kept, and used again for the same seed.
SecretIsCached(s) == s = seed /\ extSecret = NullSecret

ResetWithSeed(s) ==
  IF s = 0 THEN ResetPlain
  ELSE /\ customSecret' = IF SecretIsCached(s) THEN customSecret ELSE CustomSecret(s)
       /\ ResetInternal(s, TRUE, NullSecret, SecretSize)
       /\ reset' = Called("seed", NullSecret, s)

ResetWithSecretAndSeed(size, s) ==
  /\ ResetInternal(s, TRUE, UserSecret(size), size)
  /\ UNCHANGED customSecret
  /\ reset' = Called("secretAndSeed", UserSecret(size), s)

(***************************************************************************)
(* Reading memory: the bytes found there, as a window when they are in     *)
(* order.                                                                  *)
(***************************************************************************)
Window(bytes) ==
  IF \A k \in DOMAIN bytes : bytes[k] # Old /\ bytes[k] = bytes[1] + k - 1
  THEN <<bytes[1], Len(bytes)>> ELSE bytes

BytesIn(o, n)      == [k \in 1..n |-> buffer[o + k - 1]]
BufferedStripes(n) == [k \in 1..n |-> Window(BytesIn((k - 1) * StripeLen, StripeLen))]

\* The buffer once n bytes, from position p of the input on, are at offset o.
Store(buf, o, p, n) == [i \in DOMAIN buf |-> IF i \in o..o + n - 1 THEN p + i - o ELSE buf[i]]

SecretInUse == IF extSecret = NullSecret THEN customSecret ELSE extSecret

(***************************************************************************)
(* XXH3_consumeStripes: finish the block that is open, take whole blocks,  *)
(* and leave the rest in a block that stays open.                          *)
(***************************************************************************)
\* One turn of the loop ends the block that is open.
EndBlock(r) ==
  LET open == nbStripesPerBlock - r.soFar
  IN  [acc   |-> Scramble(Accumulate(r.acc, SubSeq(r.rest, 1, open), r.soFar * ConsumeRate),
                          secretLimit),
       rest  |-> SubSeq(r.rest, open + 1, Len(r.rest)),
       soFar |-> 0]

\* There is a turn for each block that can be ended.
ConsumeStripes(a, soFar, stripes) ==
  LET start == [acc |-> a, rest |-> stripes, soFar |-> soFar]
      turns == (soFar + Len(stripes)) \div nbStripesPerBlock
      after[k \in 0..turns] == IF k = 0 THEN start ELSE EndBlock(after[k - 1])
      r == IF turns = 0 THEN start ELSE after[turns]
  IN  [acc   |-> Accumulate(r.acc, r.rest, r.soFar * ConsumeRate),
       soFar |-> r.soFar + Len(r.rest)]

(***************************************************************************)
(* XXH3_update                                                             *)
(***************************************************************************)
CanUpdate(len) ==
  /\ reset.variant # "none"
  /\ totalLen + len <= IF len = 1 THEN MaxSingles ELSE MaxTotal

Fits(len) == len <= BufferSize - bufferedSize

settings == <<customSecret, useSeed, secretLimit, nbStripesPerBlock, seed, extSecret, reset>>

Fill(len) ==
  /\ CanUpdate(len)
  /\ Fits(len)
  /\ totalLen' = totalLen + len
  /\ buffer' = Store(buffer, bufferedSize, totalLen, len)
  /\ bufferedSize' = bufferedSize + len
  /\ UNCHANGED <<acc, nbStripesSoFar, settings>>

\* Mutant: does not keep it.
KeepNothing(buf, q) == buf

\* The stripe before position q, kept at the end of the buffer.
KeepLastStripe(buf, q) == Store(buf, BufferSize - StripeLen, q - StripeLen, StripeLen)

\* What the code does once the input overflows the buffer, as one function of
\* the state: fill the buffer up and consume it, consume what more than fills
\* it again straight from the input, keep the stripe before the rest at the
\* end of the buffer, and buffer the rest, of which there always is some.
Consume(len) ==
  LET loadSize == IF bufferedSize > 0 THEN BufferSize - bufferedSize ELSE 0
      full     == Store(buffer, bufferedSize, totalLen, loadSize)
      one      == IF bufferedSize > 0
                  THEN ConsumeStripes(acc, nbStripesSoFar,
                         [k \in 1..BufferStripes |->
                            Window([j \in 1..StripeLen |-> full[(k - 1) * StripeLen + j - 1]])])
                  ELSE [acc |-> acc, soFar |-> nbStripesSoFar]
      p        == totalLen + loadSize
      end      == totalLen + len
      direct   == end - p > BufferSize
      stripes  == (end - 1 - p) \div StripeLen
      two      == IF direct THEN ConsumeStripes(one.acc, one.soFar, StripesAt(p, stripes)) ELSE one
      q        == IF direct THEN p + stripes * StripeLen ELSE p
      kept     == IF direct THEN KeepLastStripe(full, q) ELSE full
  IN  /\ CanUpdate(len)
      /\ ~Fits(len)
      /\ totalLen' = end
      /\ acc' = two.acc
      /\ nbStripesSoFar' = two.soFar
      /\ buffer' = Store(kept, 0, q, end - q)
      /\ bufferedSize' = end - q
      /\ UNCHANGED settings

Reset3 ==
  \/ ResetPlain
  \/ ResetWithNullSecret \/ ResetWithShortSecret
  \/ \E n \in UserSizes : ResetWithSecret(n)
  \/ \E s \in Seeds : ResetWithSeed(s)
  \/ \E n \in UserSizes, s \in Seeds : ResetWithSecretAndSeed(n, s)

Next3 ==
  \/ Reset3
  \/ \E n \in Chunks : Fill(n) \/ Consume(n)

(***************************************************************************)
(* XXH3_64bits_digest and XXH3_128bits_digest; none changes the state.     *)
(***************************************************************************)
DigestLong ==
  LET stripes == (bufferedSize - 1) \div StripeLen
      catchup == StripeLen - bufferedSize
  IN  IF bufferedSize >= StripeLen
      THEN AccumulateOne(ConsumeStripes(acc, nbStripesSoFar, BufferedStripes(stripes)).acc,
                         Window(BytesIn(bufferedSize - StripeLen, StripeLen)),
                         secretLimit - LastAccStart)
      ELSE AccumulateOne(acc,
                         Window(BytesIn(BufferSize - catchup, catchup) \o BytesIn(0, bufferedSize)),
                         secretLimit - LastAccStart)

\* The short hash of what is in the buffer: its reads end up where the buffer says.
OfBuffer(hash) ==
  [hash EXCEPT !.mixes =
     [m \in DOMAIN hash.mixes |->
        [hash.mixes[m] EXCEPT !.in =
           [r \in DOMAIN hash.mixes[m].in |->
              Window(BytesIn(hash.mixes[m].in[r][1], hash.mixes[m].in[r][2]))]]]]

\* A short input is hashed again from the buffer, with the seed or the secret.
DigestShort(bits, seeded) ==
  OfBuffer(IF seeded THEN WithSeed(bits, totalLen, seed)
                     ELSE WithSecret(bits, totalLen, SecretInUse))

Digest64 ==
  IF totalLen > MidSizeMax
  THEN Hash("long", Merge64(DigestLong, secretLimit + StripeLen), totalLen, SecretInUse, 0)
  ELSE DigestShort(64, useSeed)

Digest128 ==
  IF totalLen > MidSizeMax
  THEN Hash("long", Merge128(DigestLong, secretLimit + StripeLen), totalLen, SecretInUse, 0)
  ELSE DigestShort(128, seed # 0)

===============================================================================
