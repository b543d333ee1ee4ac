\* Small chunks for XXH32 and XXH64, chunks around the buffer and the block for XXH3.
SPECIFICATION StreamSpec
CONSTANTS
  Seeds = {0, 1}
  UserSizes = {139}
  TotalModulo <- MCTotalModulo
  Chunks = {1, 4, 15, 33}
  MaxTotal = 80
  Chunks3 = {1, 64, 190, 1030}
  MaxSingles = 260
  MaxTotal3 = 1350
  H = 4
  Xor64 <- MCXor
INVARIANTS DigestIsOneShot Xxh3DigestIsOneShot ReadsItsInput
