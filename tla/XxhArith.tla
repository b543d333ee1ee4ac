------------------------------- MODULE XxhArith -------------------------------
(***************************************************************************)
(* The arithmetic of common/lib/xxhash.h that is written twice, for one    *)
(* kind of processor and for another, and has to be the same: a hash must  *)
(* not depend on the build.  Words have two halves of H values each, and   *)
(* in the code H is 2^32.  Exclusive or is uninterpreted.                  *)
(***************************************************************************)
EXTENDS Integers

CONSTANTS
  H,          \* the number of values of half a word
  Xor64(_, _)   \* exclusive or of two words

W      == H * H
Words  == 0..W - 1
Halves == 0..H - 1
Lanes  == 0..7        \* XXH_ACC_NB of them

ASSUME ArithAssumption ==
  /\ H \in Nat /\ H > 1
  /\ \A x, y \in Words : Xor64(x, y) \in Words

Lo(x)   == x % H       \* x & 0xFFFFFFFF, and the cast to xxh_u32
Hi(x)   == x \div H    \* x >> 32
Wrap(x) == x % W       \* what is left of a result in 64 bits

mult32to64(x, y) == Lo(x) * Lo(y)

\* The portable path of XXH_mult64to128.
mult64to128(lhs, rhs) ==
  LET lo_lo == mult32to64(Lo(lhs), Lo(rhs))
      hi_lo == mult32to64(Hi(lhs), Lo(rhs))
      lo_hi == mult32to64(Lo(lhs), Hi(rhs))
      hi_hi == mult32to64(Hi(lhs), Hi(rhs))
      cross == Wrap(Hi(lo_lo) + Lo(hi_lo) + lo_hi)
      upper == Wrap(Hi(hi_lo) + Hi(cross) + hi_hi)
  IN  [low64 |-> Wrap(cross * H) + Lo(lo_lo), high64 |-> upper]

\* What XXH3_len_9to16_128b adds to m128.high64, on 32 bits and on 64.
Add32Bit(input_hi, prime) == Wrap((input_hi - Lo(input_hi)) + mult32to64(input_hi, prime))

Add64Bit(input_hi, prime) == Wrap(input_hi + mult32to64(input_hi, prime - 1))

-------------------------------------------------------------------------------

\* The lane whose data goes to this lane: lane ^ 1.
Other(lane) == IF lane % 2 = 0 THEN lane + 1 ELSE lane - 1

scalarRound(acc, input, secret, lane) ==
  LET data_key == Xor64(input[lane], secret[lane])
      swapped  == [acc EXCEPT ![Other(lane)] = Wrap(@ + input[lane])]
  IN  [swapped EXCEPT ![lane] = Wrap(mult32to64(data_key, Hi(data_key)) + @)]

\* XXH3_accumulate_512_scalar: lane after lane.
accumulate_scalar(acc, input, secret) ==
  LET Round(a, lane) == scalarRound(a, input, secret, lane)
  IN  Round(Round(Round(Round(Round(Round(Round(Round(acc, 0), 1), 2), 3), 4), 5), 6), 7)

\* XXH3_accumulate_512_sse2: two lanes in a register, none sees another's sum.
sse2Lane(acc, input, secret, lane) ==
  LET data_key == Xor64(input[lane], secret[lane])
      product  == mult32to64(data_key, Hi(data_key))
      sum      == Wrap(acc[lane] + input[Other(lane)])
  IN  Wrap(product + sum)

accumulate_sse2(acc, input, secret) ==
  [lane \in Lanes |-> sse2Lane(acc, input, secret, lane)]

\* The end of XXH3_scalarScrambleRound and of a lane of XXH3_scrambleAcc_sse2,
\* whose multiplication takes 32 bits only; data_key is the lane after both xors.
scramble_scalar(data_key, prime) == Wrap(data_key * prime)

scramble_sse2(data_key, prime) ==
  LET prod_lo == mult32to64(data_key, prime)
      prod_hi == mult32to64(Hi(data_key), prime)
  IN  Wrap(prod_lo + Wrap(prod_hi * H))

\* XXH3_initCustomSecret: the words of the secret at even and at odd places.
customSecret_scalar(kSecret, seed64) ==
  [i \in DOMAIN kSecret |-> IF i % 2 = 0 THEN Wrap(kSecret[i] + seed64)
                                         ELSE Wrap(kSecret[i] - seed64)]

customSecret_sse2(kSecret, seed64) ==
  LET seed == [half \in 0..1 |-> IF half = 0 THEN seed64 ELSE Wrap(0 - seed64)]
  IN  [i \in DOMAIN kSecret |-> Wrap(kSecret[i] + seed[i % 2])]

===============================================================================
