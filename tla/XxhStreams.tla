------------------------------ MODULE XxhStreams ------------------------------
(***************************************************************************)
(* A program that hashes a stream of data, with XXH32 or XXH64 (Xxh) or    *)
(* with XXH3 (Xxh3State), and what xxhash.h promises it: however the input *)
(* is cut into updates, the digest is the hash of the whole.               *)
(***************************************************************************)
EXTENDS Integers, FiniteSets, Sequences, Functions

CONSTANTS
  Seeds, UserSizes,          \* XXH3: seeds and sizes of secrets
  TotalModulo,               \* XXH32, XXH64: the modulo of the length
  Chunks, MaxTotal,          \* bounds on updates of XXH32 and XXH64
  Chunks3, MaxSingles, MaxTotal3   \* bounds on updates of XXH3

ASSUME XxhAssumption ==
  /\ 0 \in Seeds /\ Seeds \subseteq Nat
  /\ \A n \in UserSizes : n \in Nat /\ n >= 136     \* XXH3_SECRET_SIZE_MIN
  /\ Chunks \cup Chunks3 \subseteq Nat \ {0}
  /\ MaxTotal \in Nat /\ {MaxSingles, MaxTotal3} \subseteq Nat
  \* 2^64 is more than any input has, 2^32 only more than two short updates
  /\ TotalModulo \in [{4, 8} -> Nat]
  /\ TotalModulo[4] >= 31 /\ TotalModulo[8] > MaxTotal

VARIABLES
  family,      \* "xxh" or "xxh3"
  word, lanes, mem, memsize, total, large, given,
  acc, customSecret, buffer, bufferedSize, useSeed, nbStripesSoFar, totalLen,
  secretLimit, nbStripesPerBlock, seed, extSecret, reset

X  == INSTANCE Xxh
X3 == INSTANCE Xxh3State WITH Chunks <- Chunks3, MaxTotal <- MaxTotal3

xxhVars    == <<word, lanes, mem, memsize, total, large, given>>
xxh3Vars   == <<acc, customSecret, buffer, bufferedSize, useSeed, nbStripesSoFar, totalLen,
                secretLimit, nbStripesPerBlock, seed, extSecret, reset>>
streamVars == <<family, xxhVars, xxh3Vars>>

StreamInit == family \in {"xxh", "xxh3"} /\ X!Init /\ X3!Init3

StreamNext ==
  /\ UNCHANGED family
  /\ \/ family = "xxh"  /\ X!Next  /\ UNCHANGED xxh3Vars
     \/ family = "xxh3" /\ X3!Next3 /\ UNCHANGED xxhVars

StreamSpec == StreamInit /\ [][StreamNext]_streamVars

-------------------------------------------------------------------------------

\* The one-shot function that goes with the reset that was called.
OneShot(bits) ==
  CASE reset.variant = "plain"  -> X3!Plain(bits, totalLen)
    [] reset.variant = "secret" -> X3!WithSecret(bits, totalLen, reset.secret)
    [] reset.variant = "seed"   -> X3!WithSeed(bits, totalLen, reset.seed)
    [] reset.variant = "secretAndSeed" ->
         X3!WithSecretAndSeed(bits, totalLen, reset.secret, reset.seed)

IsReset == reset.variant # "none"

\* XXH32 and XXH64: the digest of a stream is the hash of its bytes, whatever
\* the updates were; for XXH32 even when the length has wrapped around.
DigestIsOneShot ==
  IF word = 4 THEN X!Digest32 = X!XXH32(given) ELSE X!Digest64 = X!XXH64(given)

\* XXH3: the same in both widths, for every kind of reset and whatever earlier
\* resets and inputs have left behind in the state, but for one case.
\* XXH3_128bits_digest asks for the seed where XXH3_64bits_digest asks for
\* useSeed, so with 128 bits a short input after a reset with a secret and the
\* seed 0 is hashed with the secret, while the one-shot function uses the seed.
Xxh3DigestIsOneShot ==
  IsReset =>
    /\ X3!Digest64 = OneShot(64)
    /\ X3!Digest128 = IF reset.variant = "secretAndSeed" /\ reset.seed = 0 /\ totalLen <= 240
                     THEN X3!WithSecret(128, totalLen, reset.secret)
                     ELSE OneShot(128)

Covered(windows) == UNION {w[1]..w[1] + w[2] - 1 : w \in windows}

Reads(hash) == UNION {Range(hash.mixes[m].in) : m \in DOMAIN hash.mixes}
Keys(hash)  == UNION {Range(hash.mixes[m].key) : m \in DOMAIN hash.mixes}

\* A hash reads each byte of its input and none beside it, stays inside its
\* secret, and treats the last stripe, which may overlap the one before, with a
\* part of the secret that no other stripe and no scrambling has had.
ReadsItsInput ==
  \A bits \in {64, 128} : IsReset =>
    LET h    == OneShot(bits)
        last == h.secret.size - X3!StripeLen - X3!LastAccStart
    IN  /\ Covered(Reads(h)) = 0..totalLen - 1
        /\ Covered(Keys(h)) \subseteq 0..h.secret.size - 1
        /\ h.by = "long" =>
             Cardinality({m \in DOMAIN h.mixes : h.mixes[m].key[1][1] = last}) = 1

===============================================================================
