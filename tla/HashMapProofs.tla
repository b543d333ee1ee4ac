------------------------------ MODULE HashMapProofs -----------------------------
(***************************************************************************)
(* The hash map, for any threads, keys and values, any hash function and   *)
(* capacities, and chains of any length.  First what a set of linked lists *)
(* is, with a rank for each entry, and what happens when an entry is put   *)
(* in, taken out or walked to.  Then the operators of HashMap on records,  *)
(* the inductive invariant, one lemma for each action, and the theorems.   *)
(***************************************************************************)
EXTENDS HashMap, FiniteSetTheorems, WellFoundedInduction, TLAPS

--------------------------------------------------------------------------------
(* Numbers.                                                                 *)

(* A set of natural numbers that is not empty has a least one: the          *)
(* intervals up to one of them are finite, and one of these is smallest.    *)
LEMMA LeastNumber ==
  ASSUME NEW S \in SUBSET Nat, S # {}
  PROVE  \E n \in S : \A z \in S : n <= z
<1> DEFINE below == {0..n : n \in S}
<1>1. below \subseteq FiniteSubsetsOf(Nat) /\ below # {}
  <2>1. \A n \in Nat : 0..n \in SUBSET Nat /\ IsFiniteSet(0..n)
    BY FS_Interval
  <2> QED
    BY <2>1 DEF FiniteSubsetsOf
<1>2. IsWellFoundedOn(StrictSubsetOrdering(Nat), FiniteSubsetsOf(Nat))
  BY FS_StrictSubsetOrderingWellFounded
<1>3. PICK x \in below : \A y \in below : ~(<<y, x>> \in StrictSubsetOrdering(Nat))
  <2> HIDE DEF below
  <2> QED
    BY <1>1, <1>2, WFMin
<1>4. PICK n \in S : x = 0..n
  BY <1>3
<1>5. ASSUME NEW z \in S, z < n PROVE FALSE
  <2>0. z \in Nat /\ n \in Nat
    OBVIOUS
  <2>1. 0..z \subseteq 0..n /\ n \in 0..n /\ n \notin 0..z /\ 0..n \subseteq Nat
    BY <1>5, <2>0
  <2>2. <<0..z, x>> \in StrictSubsetOrdering(Nat)
    BY <1>4, <2>1 DEF StrictSubsetOrdering
  <2> QED
    BY <1>3, <2>2
<1> QED
  BY <1>5

(* Induction along an interval: a set that has 0, and every number whose    *)
(* predecessor it has, has them all.                                        *)
LEMMA Upward ==
  ASSUME NEW N \in Nat, NEW S \in SUBSET (0..N), 0 \in S,
         \A k \in 1..N : k - 1 \in S => k \in S
  PROVE  S = 0..N
<1> DEFINE rest == (0..N) \ S
<1>1. SUFFICES ASSUME rest # {} PROVE FALSE
  OBVIOUS
<1>2. rest \in SUBSET Nat
  OBVIOUS
<1>3. PICK n \in rest : \A z \in rest : n <= z
  <2> HIDE DEF rest
  <2> QED
    BY <1>1, <1>2, LeastNumber
<1>4. n \in 0..N /\ n \notin S /\ n # 0
  BY <1>3
<1>5. n \in 1..N /\ n - 1 \in 0..N /\ ~(n <= n - 1)
  BY <1>4
<1> QED
  BY <1>3, <1>4, <1>5

(* Recursion along an interval: what starts at x and goes on by F exists.   *)
Goes(N, S, x, F, u) ==
  u \in [0..N -> S] /\ u[0] = x /\ \A k \in 1..N : u[k] = F[k][u[k - 1]]

(* The recursive function exists: it does up to each k, by Upward.          *)
LEMMA Recursion ==
  ASSUME NEW N \in Nat, NEW S, NEW x \in S, NEW F \in [1..N -> [S -> S]]
  PROVE  \E u : Goes(N, S, x, F, u)
<1> DEFINE Upto(n) == \E u \in [0..n -> S] : u[0] = x /\ \A k \in 1..n : u[k] = F[k][u[k - 1]]
           long    == {n \in 0..N : Upto(n)}
<1>1. Upto(0)
  <2>1. [i \in 0..0 |-> x] \in [0..0 -> S] /\ [i \in 0..0 |-> x][0] = x /\ 1..0 = {}
    OBVIOUS
  <2> QED
    BY <2>1
<1>2. ASSUME NEW n \in 1..N, Upto(n - 1) PROVE Upto(n)
  <2>1. PICK u \in [0..n - 1 -> S] : u[0] = x /\ \A k \in 1..n - 1 : u[k] = F[k][u[k - 1]]
    BY <1>2
  <2> DEFINE w == [i \in 0..n |-> IF i = n THEN F[n][u[n - 1]] ELSE u[i]]
  <2>2. n \in Nat /\ n # 0 /\ n - 1 \in 0..n - 1 /\ F[n] \in [S -> S]
    OBVIOUS
  <2>3. w \in [0..n -> S]
    BY <2>1, <2>2
  <2>4. w[0] = x
    BY <2>1, <2>2
  <2>5. ASSUME NEW k \in 1..n PROVE w[k] = F[k][w[k - 1]]
    <3>1. CASE k = n
      BY <2>2, <3>1
    <3>2. CASE k # n
      <4>1. k \in 1..n - 1 /\ k \in 0..n /\ k - 1 \in 0..n /\ k - 1 # n
        BY <2>2, <3>2
      <4>2. w[k] = u[k] /\ w[k - 1] = u[k - 1]
        BY <3>2, <4>1
      <4> QED
        BY <2>1, <4>1, <4>2
    <3> QED
      BY <3>1, <3>2
  <2> HIDE DEF w
  <2> QED
    BY <2>3, <2>4, <2>5
<1> HIDE DEF Upto
<1>3. long = 0..N
  <2>1. 0 \in long
    BY <1>1
  <2>2. \A k \in 1..N : k - 1 \in long => k \in long
    BY <1>2
  <2>3. long \in SUBSET (0..N)
    OBVIOUS
  <2> HIDE DEF long
  <2> QED
    BY <2>1, <2>2, <2>3, Upward
<1>4. Upto(N)
  BY <1>3
<1> QED
  BY <1>4 DEF Upto, Goes

--------------------------------------------------------------------------------
(* Lists of entries, one for each bucket.                                   *)

(* The entries of S hang in the buckets B: H has the heads, nx leads from   *)
(* an entry to the next, hm is the bucket an entry belongs to, and r is its *)
(* place in the list.                                                       *)
Linked(B, H, S, r, nx, hm) ==
  /\ Null \notin S /\ r \in [S -> Nat]
  /\ H \in [B -> S \cup {Null}]
  /\ \A b \in B : H[b] # Null => hm[H[b]] = b /\ r[H[b]] = 0
  /\ \A n \in S : hm[n] \in B /\ nx[n] \in S \cup {Null}
  /\ \A n \in S : r[n] = 0 => H[hm[n]] = n
  /\ \A n \in S : nx[n] # Null => hm[nx[n]] = hm[n] /\ r[nx[n]] = r[n] + 1
  /\ \A n \in S : r[n] # 0 => \E p \in S : nx[p] = n
  /\ \A x, y \in S : hm[x] = hm[y] /\ r[x] = r[y] => x = y

(* Only what nx and hm say of the entries themselves matters.               *)
LEMMA LinkedSame ==
  ASSUME NEW B, NEW H, NEW S, NEW r, NEW nx, NEW hm, NEW nx2, NEW hm2,
         Linked(B, H, S, r, nx, hm),
         \A n \in S : nx2[n] = nx[n] /\ hm2[n] = hm[n]
  PROVE  Linked(B, H, S, r, nx2, hm2)
<1>1. \A b \in B : H[b] \in S \cup {Null}
  BY DEF Linked
<1>2. \A n \in S : nx[n] \in S \cup {Null}
  BY DEF Linked
<1> QED
  BY <1>1, <1>2 DEF Linked

(* The entry before an entry.                                               *)
LEMMA Before ==
  ASSUME NEW B, NEW H, NEW S, NEW r, NEW nx, NEW hm, Linked(B, H, S, r, nx, hm),
         NEW n \in S, r[n] # 0
  PROVE  \E p \in S : nx[p] = n /\ hm[p] = hm[n] /\ r[p] + 1 = r[n]
<1>1. PICK p \in S : nx[p] = n
  BY DEF Linked
<1>2. n # Null
  BY DEF Linked
<1> QED
  BY <1>1, <1>2 DEF Linked

(* No place before an entry is empty.                                       *)
LEMMA Below ==
  ASSUME NEW B, NEW H, NEW S, NEW r, NEW nx, NEW hm, Linked(B, H, S, r, nx, hm),
         NEW n \in S, NEW j \in 0..r[n]
  PROVE  \E x \in S : hm[x] = hm[n] /\ r[x] = j
<1> DEFINE At(k) == \E x \in S : hm[x] = hm[n] /\ r[x] = r[n] - k
           seen == {k \in 0..r[n] : At(k)}
<1>0. r[n] \in Nat
  BY DEF Linked
<1>1. 0 \in seen
  BY <1>0
<1>2. ASSUME NEW k \in 1..r[n], k - 1 \in seen PROVE k \in seen
  <2>1. PICK x \in S : hm[x] = hm[n] /\ r[x] = r[n] - (k - 1)
    BY <1>2
  <2>2. r[x] # 0
    BY <1>0, <2>1
  <2>3. PICK p \in S : nx[p] = x /\ hm[p] = hm[x] /\ r[p] + 1 = r[x]
    BY <2>2, Before
  <2>4. r[p] \in Nat
    BY DEF Linked
  <2>5. r[p] = r[n] - k
    BY <1>0, <2>1, <2>3, <2>4
  <2> QED
    BY <1>0, <2>1, <2>3, <2>5
<1>3. seen \in SUBSET (0..r[n])
  OBVIOUS
<1>4. seen = 0..r[n]
  <2>1. PICK N \in Nat : N = r[n]
    BY <1>0
  <2>2. seen \in SUBSET (0..N) /\ \A k \in 1..N : k - 1 \in seen => k \in seen
    BY <1>2, <1>3, <2>1
  <2> HIDE DEF seen
  <2> QED
    BY <1>1, <2>1, <2>2, Upward
<1>5. r[n] - j \in 0..r[n]
  BY <1>0
<1>6. At(r[n] - j)
  BY <1>4, <1>5
<1>7. r[n] - (r[n] - j) = j
  BY <1>0
<1> QED
  BY <1>6, <1>7

(* After an entry without a next, and in a bucket without a head, is none.  *)
LEMMA LastIs ==
  ASSUME NEW B, NEW H, NEW S, NEW r, NEW nx, NEW hm, Linked(B, H, S, r, nx, hm),
         NEW n \in S, nx[n] = Null, NEW x \in S, hm[x] = hm[n]
  PROVE  r[x] <= r[n]
<1>0. r[n] \in Nat /\ r[x] \in Nat
  BY DEF Linked
<1> SUFFICES ASSUME r[x] > r[n] PROVE FALSE
  BY <1>0
<1>1. PICK j \in 0..r[x] : j = r[n] + 1
  BY <1>0
<1>2. PICK y \in S : hm[y] = hm[x] /\ r[y] = j
  BY Below
<1>3. r[y] # 0
  BY <1>0, <1>1, <1>2
<1>4. PICK p \in S : nx[p] = y /\ hm[p] = hm[y] /\ r[p] + 1 = r[y]
  BY <1>3, Before
<1>5. r[p] \in Nat
  BY DEF Linked
<1>6. r[p] = r[n] /\ hm[p] = hm[n]
  BY <1>0, <1>1, <1>2, <1>4, <1>5
<1>7. p = n
  BY <1>6 DEF Linked
<1> QED
  BY <1>4, <1>7 DEF Linked

(* No entry belongs in a bucket whose head is null.                         *)
LEMMA NoneIn ==
  ASSUME NEW B, NEW H, NEW S, NEW r, NEW nx, NEW hm, Linked(B, H, S, r, nx, hm),
         NEW b \in B, H[b] = Null, NEW x \in S
  PROVE  hm[x] # b
<1> SUFFICES ASSUME hm[x] = b PROVE FALSE
  OBVIOUS
<1>0. r[x] \in Nat
  BY DEF Linked
<1>1. PICK j \in 0..r[x] : j = 0
  BY <1>0
<1>2. PICK y \in S : hm[y] = hm[x] /\ r[y] = j
  BY Below
<1> QED
  BY <1>1, <1>2 DEF Linked

(* An entry that is put in front of a list.                                 *)
LEMMA PutFirst ==
  ASSUME NEW B, NEW H, NEW S, NEW r, NEW nx, NEW hm, Linked(B, H, S, r, nx, hm),
         NEW n, n \notin S, n # Null, NEW b \in B, NEW H2, NEW nx2, NEW hm2,
         H2 \in [B -> S \cup {n, Null}], H2[b] = n, \A c \in B \ {b} : H2[c] = H[c],
         hm2[n] = b, nx2[n] = H[b],
         \A x \in S : nx2[x] = nx[x] /\ hm2[x] = hm[x]
  PROVE  \E r2 : Linked(B, H2, S \cup {n}, r2, nx2, hm2)
<1> DEFINE T  == S \cup {n}
           r2 == [x \in T |-> IF x = n THEN 0 ELSE IF hm[x] = b THEN r[x] + 1 ELSE r[x]]
<1>0. /\ H \in [B -> S \cup {Null}] /\ Null \notin S /\ r \in [S -> Nat]
      /\ \A x \in S : x # n /\ r[x] \in Nat
  BY DEF Linked
<1>1. /\ Null \notin T /\ r2 \in [T -> Nat] /\ H2 \in [B -> T \cup {Null}]
      /\ H2[b] = n /\ \A c \in B : c # b => H2[c] = H[c]
  BY <1>0
<1>2. /\ r2[n] = 0
      /\ \A x \in S : r2[x] = IF hm[x] = b THEN r[x] + 1 ELSE r[x]
  BY <1>0
<1> HIDE DEF r2
<1>3. \A c \in B : H2[c] # Null => hm2[H2[c]] = c /\ r2[H2[c]] = 0
  <2> SUFFICES ASSUME NEW c \in B, H2[c] # Null PROVE hm2[H2[c]] = c /\ r2[H2[c]] = 0
    OBVIOUS
  <2>1. CASE c = b
    BY <1>1, <1>2, <2>1
  <2>2. CASE c # b
    <3>1. H2[c] = H[c] /\ H[c] \in S
      BY <1>0, <1>1, <2>2
    <3>2. hm[H[c]] = c /\ r[H[c]] = 0
      BY <3>1 DEF Linked
    <3> QED
      BY <1>2, <2>2, <3>1, <3>2
  <2> QED
    BY <2>1, <2>2
<1>4. \A x \in T : hm2[x] \in B /\ nx2[x] \in T \cup {Null}
  BY <1>0 DEF Linked
<1>5. \A x \in T : r2[x] = 0 => H2[hm2[x]] = x
  <2> SUFFICES ASSUME NEW x \in S, r2[x] = 0 PROVE H2[hm2[x]] = x
    BY <1>1
  <2>1. hm[x] # b /\ r[x] = 0 /\ hm[x] \in B
    BY <1>0, <1>2 DEF Linked
  <2>2. H[hm[x]] = x
    BY <2>1 DEF Linked
  <2> QED
    BY <1>1, <2>1, <2>2
<1>6. \A x \in T : nx2[x] # Null => hm2[nx2[x]] = hm2[x] /\ r2[nx2[x]] = r2[x] + 1
  <2>1. ASSUME NEW x \in S, nx2[x] # Null
        PROVE  hm2[nx2[x]] = hm2[x] /\ r2[nx2[x]] = r2[x] + 1
    <3>1. nx2[x] = nx[x] /\ nx[x] \in S /\ hm[nx[x]] = hm[x] /\ r[nx[x]] = r[x] + 1
      BY <2>1 DEF Linked
    <3> QED
      BY <1>0, <1>2, <3>1
  <2>2. ASSUME nx2[n] # Null PROVE hm2[nx2[n]] = hm2[n] /\ r2[nx2[n]] = r2[n] + 1
    <3>1. nx2[n] = H[b] /\ H[b] \in S /\ hm[H[b]] = b /\ r[H[b]] = 0
      BY <1>0, <2>2 DEF Linked
    <3> QED
      BY <1>0, <1>2, <3>1
  <2> QED
    BY <2>1, <2>2
<1>7. \A x \in T : r2[x] # 0 => \E p \in T : nx2[p] = x
  <2> SUFFICES ASSUME NEW x \in S, r2[x] # 0 PROVE \E p \in T : nx2[p] = x
    BY <1>2
  <2>1. CASE r[x] # 0
    <3>1. PICK p \in S : nx[p] = x
      BY <2>1 DEF Linked
    <3> QED
      BY <3>1
  <2>2. CASE r[x] = 0
    <3>1. hm[x] = b /\ H[hm[x]] = x
      BY <1>2, <2>2 DEF Linked
    <3> QED
      BY <3>1
  <2> QED
    BY <2>1, <2>2
<1>8. \A x, y \in T : hm2[x] = hm2[y] /\ r2[x] = r2[y] => x = y
  <2>1. ASSUME NEW x \in S, NEW y \in S, hm2[x] = hm2[y], r2[x] = r2[y] PROVE x = y
    <3>1. hm[x] = hm[y] /\ r[x] = r[y]
      BY <1>0, <1>2, <2>1
    <3> QED
      BY <3>1 DEF Linked
  <2>2. ASSUME NEW y \in S, hm2[y] = b, r2[y] = 0 PROVE FALSE
    BY <1>0, <1>2, <2>2
  <2> QED
    BY <1>2, <2>1, <2>2
<1>9. Linked(B, H2, T, r2, nx2, hm2)
  BY <1>1, <1>3, <1>4, <1>5, <1>6, <1>7, <1>8 DEF Linked
<1> QED
  BY <1>9

(* An entry that is put behind the last one.                                *)
LEMMA PutAfter ==
  ASSUME NEW B, NEW H, NEW S, NEW r, NEW nx, NEW hm, Linked(B, H, S, r, nx, hm),
         NEW n, n \notin S, n # Null, NEW p \in S, nx[p] = Null, NEW nx2, NEW hm2,
         hm2[n] = hm[p], nx2[n] = Null, nx2[p] = n,
         \A x \in S : hm2[x] = hm[x] /\ (x # p => nx2[x] = nx[x])
  PROVE  \E r2 : Linked(B, H, S \cup {n}, r2, nx2, hm2)
<1> DEFINE T  == S \cup {n}
           r2 == [x \in T |-> IF x = n THEN r[p] + 1 ELSE r[x]]
<1>0. /\ H \in [B -> S \cup {Null}] /\ Null \notin S /\ r \in [S -> Nat]
      /\ r[p] \in Nat /\ \A x \in S : x # n /\ r[x] \in Nat
  BY DEF Linked
<1>1. /\ Null \notin T /\ r2 \in [T -> Nat] /\ H \in [B -> T \cup {Null}]
      /\ r2[n] = r[p] + 1 /\ \A x \in S : r2[x] = r[x]
  BY <1>0
<1> HIDE DEF r2
<1>3. \A c \in B : H[c] # Null => hm2[H[c]] = c /\ r2[H[c]] = 0
  BY <1>0, <1>1 DEF Linked
<1>4. \A x \in T : hm2[x] \in B /\ nx2[x] \in T \cup {Null}
  BY <1>0 DEF Linked
<1>5. \A x \in T : r2[x] = 0 => H[hm2[x]] = x
  <2>1. r2[n] # 0
    BY <1>0, <1>1
  <2> QED
    BY <1>1, <2>1 DEF Linked
<1>6. \A x \in T : nx2[x] # Null => hm2[nx2[x]] = hm2[x] /\ r2[nx2[x]] = r2[x] + 1
  <2>1. ASSUME NEW x \in S, x # p, nx2[x] # Null
        PROVE  hm2[nx2[x]] = hm2[x] /\ r2[nx2[x]] = r2[x] + 1
    <3>1. nx2[x] = nx[x] /\ nx[x] \in S /\ hm[nx[x]] = hm[x] /\ r[nx[x]] = r[x] + 1
      BY <2>1 DEF Linked
    <3> QED
      BY <1>1, <3>1
  <2> QED
    BY <1>1, <2>1
<1>7. \A x \in T : r2[x] # 0 => \E q \in T : nx2[q] = x
  <2> SUFFICES ASSUME NEW x \in S, r2[x] # 0 PROVE \E q \in T : nx2[q] = x
    OBVIOUS
  <2>1. PICK q \in S : nx[q] = x
    BY <1>1 DEF Linked
  <2>2. q # p
    BY <1>0, <2>1
  <2> QED
    BY <2>1, <2>2
<1>8. \A x, y \in T : hm2[x] = hm2[y] /\ r2[x] = r2[y] => x = y
  <2>1. ASSUME NEW x \in S, NEW y \in S, hm2[x] = hm2[y], r2[x] = r2[y] PROVE x = y
    BY <1>1, <2>1 DEF Linked
  <2>2. ASSUME NEW y \in S, hm2[y] = hm[p], r2[y] = r[p] + 1 PROVE FALSE
    <3>1. hm[y] = hm[p] /\ r[y] = r[p] + 1
      BY <1>1, <2>2
    <3>2. r[y] <= r[p]
      BY <3>1, LastIs
    <3> QED
      BY <1>0, <3>1, <3>2
  <2> QED
    BY <1>1, <2>1, <2>2
<1>9. Linked(B, H, T, r2, nx2, hm2)
  BY <1>1, <1>3, <1>4, <1>5, <1>6, <1>7, <1>8 DEF Linked
<1> QED
  BY <1>9

(* An entry that is taken out: what led to it leads to the one after it.    *)
Past(nx, n, x) == IF x = n THEN nx[n] ELSE x

Bypassed(B, H, S, nx, hm, n, H2, nx2, hm2) ==
  /\ H2 \in [B -> S \cup {Null}] /\ \A b \in B : H2[b] = Past(nx, n, H[b])
  /\ \A x \in S \ {n} : nx2[x] = Past(nx, n, nx[x]) /\ hm2[x] = hm[x]

(* An entry whose predecessor, or bucket, names its successor is out.       *)
LEMMA TakeOut ==
  ASSUME NEW B, NEW H, NEW S, NEW r, NEW nx, NEW hm, Linked(B, H, S, r, nx, hm),
         NEW n \in S, NEW nx2, NEW hm2, NEW H2,
         Bypassed(B, H, S, nx, hm, n, H2, nx2, hm2)
  PROVE  \E r2 : Linked(B, H2, S \ {n}, r2, nx2, hm2)
<1> USE DEF Bypassed, Past
<1> DEFINE T  == S \ {n}
           r2 == [x \in T |-> IF hm[x] = hm[n] /\ r[x] > r[n] THEN r[x] - 1 ELSE r[x]]
<1>0. /\ H \in [B -> S \cup {Null}] /\ Null \notin S /\ r \in [S -> Nat]
      /\ r[n] \in Nat /\ \A x \in S : r[x] \in Nat
      /\ \A x \in S : nx[x] # Null =>
           nx[x] \in S /\ hm[nx[x]] = hm[x] /\ r[nx[x]] = r[x] + 1 /\ nx[x] # x
  <2>1. \A x \in S : nx[x] # Null =>
          nx[x] \in S /\ hm[nx[x]] = hm[x] /\ r[nx[x]] = r[x] + 1
    BY DEF Linked
  <2>2. r \in [S -> Nat] /\ \A x \in S : r[x] \in Nat /\ r[x] # r[x] + 1
    BY DEF Linked
  <2> QED
    BY <2>1, <2>2 DEF Linked
<1>1. \A x \in T : x \in S /\ x # n /\ r2[x] \in Nat
                   /\ r2[x] = IF hm[x] = hm[n] /\ r[x] > r[n] THEN r[x] - 1 ELSE r[x]
  BY <1>0
<1>2. Null \notin T /\ r2 \in [T -> Nat] /\ H2 \in [B -> T \cup {Null}]
  <2>1. r2 \in [T -> Nat]
    BY <1>1
  <2>2. ASSUME NEW b \in B PROVE H2[b] \in T \cup {Null}
    <3>1. H[b] \in S \cup {Null}
      BY <1>0
    <3> QED
      BY <1>0, <3>1
  <2> QED
    BY <1>0, <2>1, <2>2
<1> HIDE DEF r2
<1>3. \A b \in B : H2[b] # Null => hm2[H2[b]] = b /\ r2[H2[b]] = 0
  <2> SUFFICES ASSUME NEW b \in B, H2[b] # Null PROVE hm2[H2[b]] = b /\ r2[H2[b]] = 0
    OBVIOUS
  <2>0. H2[b] \in T /\ H[b] \in S \cup {Null}
    BY <1>0, <1>2
  <2>1. CASE H[b] = n
    <3>1. hm[n] = b /\ r[n] = 0 /\ n # Null
      BY <1>0, <2>1 DEF Linked
    <3>2. H2[b] = nx[n] /\ hm[nx[n]] = b /\ r[nx[n]] = 1
      BY <1>0, <2>1, <3>1
    <3> QED
      BY <1>1, <2>0, <3>1, <3>2
  <2>2. CASE H[b] # n
    <3>1. H2[b] = H[b] /\ hm[H[b]] = b /\ r[H[b]] = 0
      BY <2>2 DEF Linked
    <3> QED
      BY <1>0, <1>1, <2>0, <3>1
  <2> QED
    BY <2>1, <2>2
<1>4. \A x \in T : hm2[x] \in B /\ nx2[x] \in T \cup {Null}
  <2> SUFFICES ASSUME NEW x \in T PROVE hm2[x] \in B /\ nx2[x] \in T \cup {Null}
    OBVIOUS
  <2>1. hm2[x] = hm[x] /\ hm[x] \in B /\ nx[x] \in S \cup {Null}
    BY <1>1 DEF Linked
  <2> QED
    BY <1>0, <2>1
<1>5. \A x \in T : r2[x] = 0 => H2[hm2[x]] = x
  <2> SUFFICES ASSUME NEW x \in T, r2[x] = 0 PROVE H2[hm2[x]] = x
    OBVIOUS
  <2>0. hm2[x] = hm[x] /\ hm[x] \in B
    BY <1>1 DEF Linked
  <2>1. CASE r[x] = 0
    <3>1. H[hm[x]] = x
      BY <1>1, <2>1 DEF Linked
    <3> QED
      BY <1>1, <2>0, <3>1
  <2>2. CASE r[x] # 0
    <3>1. hm[x] = hm[n] /\ r[x] = 1 /\ r[n] = 0
      BY <1>0, <1>1, <2>2
    <3>2. H[hm[n]] = n
      BY <3>1 DEF Linked
    <3>3. PICK p \in S : nx[p] = x /\ hm[p] = hm[x] /\ r[p] + 1 = r[x]
      BY <1>1, <2>2, Before
    <3>4. r[p] \in Nat
      BY <1>0
    <3>5. r[p] = r[n] /\ hm[p] = hm[n]
      BY <3>1, <3>3, <3>4
    <3>6. p = n
      BY <3>5 DEF Linked
    <3> QED
      BY <2>0, <3>1, <3>2, <3>3, <3>6
  <2> QED
    BY <2>1, <2>2
<1>6. \A x \in T : nx2[x] # Null => hm2[nx2[x]] = hm2[x] /\ r2[nx2[x]] = r2[x] + 1
  <2> SUFFICES ASSUME NEW x \in T, nx2[x] # Null
               PROVE  hm2[nx2[x]] = hm2[x] /\ r2[nx2[x]] = r2[x] + 1
    OBVIOUS
  <2>0. nx2[x] \in T /\ x \in S /\ n # Null /\ r[x] \in Nat
    BY <1>0, <1>1, <1>4
  <2>1. CASE nx[x] = n
    <3>1. nx2[x] = nx[n] /\ nx[n] \in S /\ hm[nx[n]] = hm[n] /\ r[nx[n]] = r[n] + 1
      BY <1>0, <2>0, <2>1
    <3>2. hm[n] = hm[x] /\ r[n] = r[x] + 1
      BY <1>0, <2>0, <2>1
    <3>3. r2[x] = r[x] /\ r2[nx[n]] = r[nx[n]] - 1
      BY <1>0, <1>1, <2>0, <3>1, <3>2
    <3> QED
      BY <1>0, <2>0, <3>1, <3>2, <3>3
  <2>2. CASE nx[x] # n
    <3>1. nx2[x] = nx[x] /\ nx[x] \in T /\ hm[nx[x]] = hm[x] /\ r[nx[x]] = r[x] + 1
      BY <1>0, <2>0, <2>2
    <3>2. hm[x] = hm[n] => r[x] # r[n] /\ r[nx[x]] # r[n]
      BY <1>1, <2>0, <3>1 DEF Linked
    <3>3. r2[x] = (IF hm[x] = hm[n] /\ r[x] > r[n] THEN r[x] - 1 ELSE r[x])
          /\ r2[nx[x]] = (IF hm[x] = hm[n] /\ r[x] + 1 > r[n] THEN r[x] ELSE r[x] + 1)
      BY <1>1, <2>0, <3>1
    <3>4. r2[nx[x]] = r2[x] + 1
      BY <1>0, <2>0, <3>1, <3>2, <3>3
    <3> QED
      BY <3>1, <3>4
  <2> QED
    BY <2>1, <2>2
<1>7. \A x \in T : r2[x] # 0 => \E p \in T : nx2[p] = x
  <2> SUFFICES ASSUME NEW x \in T, r2[x] # 0 PROVE \E p \in T : nx2[p] = x
    OBVIOUS
  <2>1. r[x] # 0 /\ x \in S /\ x # n
    BY <1>0, <1>1
  <2>2. PICK p \in S : nx[p] = x /\ hm[p] = hm[x] /\ r[p] + 1 = r[x]
    BY <2>1, Before
  <2>3. CASE p # n
    BY <2>1, <2>2, <2>3
  <2>4. CASE p = n
    <3>1. r[n] # 0
      <4>1. r[x] = r[n] + 1 /\ hm[x] = hm[n]
        BY <2>2, <2>4
      <4> QED
        BY <1>0, <1>1, <4>1
    <3>2. PICK q \in S : nx[q] = n /\ hm[q] = hm[n] /\ r[q] + 1 = r[n]
      BY <3>1, Before
    <3>3. q # n
      BY <1>0, <3>2
    <3> QED
      BY <2>2, <2>4, <3>2, <3>3
  <2> QED
    BY <2>3, <2>4
<1>8. \A x, y \in T : hm2[x] = hm2[y] /\ r2[x] = r2[y] => x = y
  <2> SUFFICES ASSUME NEW x \in T, NEW y \in T, hm2[x] = hm2[y], r2[x] = r2[y] PROVE x = y
    OBVIOUS
  <2>1. hm[x] = hm[y] /\ x \in S /\ y \in S /\ r[x] \in Nat /\ r[y] \in Nat
    BY <1>0, <1>1
  <2>2. hm[x] = hm[n] => r[x] # r[n] /\ r[y] # r[n]
    BY <1>1, <2>1 DEF Linked
  <2>3. r[x] = r[y]
    BY <1>0, <1>1, <2>1, <2>2
  <2> QED
    BY <2>1, <2>3 DEF Linked
<1>9. Linked(B, H2, T, r2, nx2, hm2)
  BY <1>2, <1>3, <1>4, <1>5, <1>6, <1>7, <1>8 DEF Linked
<1> QED
  BY <1>9

(* Only one pointer leads to an entry.                                      *)
LEMMA OneWayIn ==
  ASSUME NEW B, NEW H, NEW S, NEW r, NEW nx, NEW hm, Linked(B, H, S, r, nx, hm),
         NEW n \in S
  PROVE  /\ \A b, c \in B : H[b] = n /\ H[c] = n => b = c
         /\ \A b \in B, x \in S : H[b] = n => nx[x] # n
         /\ \A x, y \in S : nx[x] = n /\ nx[y] = n => x = y
<1>0. n # Null /\ r \in [S -> Nat] /\ \A x \in S : r[x] \in Nat
  BY DEF Linked
<1>1. \A b \in B : H[b] = n => hm[n] = b /\ r[n] = 0
  BY <1>0 DEF Linked
<1>2. \A x \in S : nx[x] = n => hm[n] = hm[x] /\ r[n] = r[x] + 1
  BY <1>0 DEF Linked
<1>3. ASSUME NEW x \in S, NEW y \in S, nx[x] = n, nx[y] = n PROVE x = y
  <2>1. hm[x] = hm[y] /\ r[x] = r[y]
    BY <1>0, <1>2, <1>3
  <2> QED
    BY <2>1 DEF Linked
<1>4. ASSUME NEW b \in B, NEW x \in S, H[b] = n, nx[x] = n PROVE FALSE
  BY <1>0, <1>1, <1>2, <1>4
<1> QED
  BY <1>1, <1>3, <1>4

--------------------------------------------------------------------------------
(* Walks.                                                                   *)

Steps(u, h, w) ==
  w = [i \in 0..Cardinality(Nodes) |->
         IF i = 0 THEN h ELSE IF w[i - 1] = Null THEN Null ELSE u.next[w[i - 1]]]

(* The equations of the walk along a chain.                                 *)
LEMMA AlongIs ==
  ASSUME NEW u, u.next \in [Nodes -> Pointers], NEW h \in Pointers
  PROVE  /\ Cardinality(Nodes) \in Nat
         /\ Along(u, h)[0] = h
         /\ \A k \in 1..Cardinality(Nodes) :
              Along(u, h)[k] = IF Along(u, h)[k - 1] = Null THEN Null
                               ELSE u.next[Along(u, h)[k - 1]]
<1> DEFINE N   == Cardinality(Nodes)
           G   == [x \in Pointers |-> IF x = Null THEN Null ELSE u.next[x]]
           F   == [k \in 1..N |-> G]
           met == CHOOSE w : Steps(u, h, w)
<1>1. N \in Nat
  BY FS_CardinalityType, ConstAssumption
<1>2. G \in [Pointers -> Pointers]
  BY DEF Pointers
<1>3. F \in [1..N -> [Pointers -> Pointers]] /\ \A k \in 1..N : F[k] = G
  BY <1>2
<1>4. PICK w \in [0..N -> Pointers] : w[0] = h /\ \A k \in 1..N : w[k] = G[w[k - 1]]
  <2> HIDE DEF G, F, N
  <2>1. PICK w : Goes(N, Pointers, h, F, w)
    BY <1>1, <1>3, Recursion
  <2> QED
    BY <1>3, <2>1 DEF Goes
<1>5. Steps(u, h, w)
  <2>1. ASSUME NEW k \in 0..N
        PROVE  w[k] = IF k = 0 THEN h
                      ELSE IF w[k - 1] = Null THEN Null ELSE u.next[w[k - 1]]
    <3>1. CASE k = 0
      BY <1>4, <3>1
    <3>2. CASE k # 0
      <4>1. k \in 1..N /\ k - 1 \in 0..N
        BY <1>1, <3>2
      <4>2. w[k] = G[w[k - 1]] /\ w[k - 1] \in Pointers
        BY <1>4, <4>1
      <4> QED
        BY <3>2, <4>2
    <3> QED
      BY <3>1, <3>2
  <2>2. w = [k \in 0..N |-> w[k]]
    BY <1>4
  <2> QED
    BY <1>1, <2>1, <2>2 DEF Steps
<1>6. Steps(u, h, met)
  BY <1>5
<1>7. Along(u, h) = met
  BY DEF Along, Steps
<1> HIDE DEF met
<1>8. met = [i \in 0..N |->
               IF i = 0 THEN h ELSE IF met[i - 1] = Null THEN Null ELSE u.next[met[i - 1]]]
  BY <1>6 DEF Steps
<1>9. 0 \in 0..N /\ \A k \in 1..N : k \in 0..N /\ k # 0
  BY <1>1
<1>10. met[0] = h
       /\ \A k \in 1..N : met[k] = IF met[k - 1] = Null THEN Null ELSE u.next[met[k - 1]]
  BY <1>8, <1>9
<1> QED
  BY <1>1, <1>7, <1>10

(* A list is no longer than there are entries.                              *)
LEMMA RankIsSmall ==
  ASSUME NEW B, NEW H, NEW S \in SUBSET Nodes, NEW r, NEW nx, NEW hm,
         Linked(B, H, S, r, nx, hm), NEW n \in S
  PROVE  r[n] < Cardinality(Nodes)
<1>0. r[n] \in Nat /\ IsFiniteSet(S) /\ Cardinality(S) <= Cardinality(Nodes)
      /\ Cardinality(S) \in Nat /\ Cardinality(Nodes) \in Nat
  <2>1. IsFiniteSet(Nodes)
    BY ConstAssumption
  <2>2. IsFiniteSet(S) /\ Cardinality(S) <= Cardinality(Nodes)
    BY <2>1, FS_Subset
  <2> QED
    BY <2>1, <2>2, FS_CardinalityType DEF Linked
<1> DEFINE D == 0..r[n]
           f == [j \in D |-> CHOOSE x \in S : hm[x] = hm[n] /\ r[x] = j]
<1>1. \A j \in D : f[j] \in S /\ r[f[j]] = j
  <2> SUFFICES ASSUME NEW j \in D PROVE f[j] \in S /\ r[f[j]] = j
    OBVIOUS
  <2>1. \E x \in S : hm[x] = hm[n] /\ r[x] = j
    BY Below
  <2> QED
    BY <2>1
<1>2. f \in Injection(D, S)
  <2>1. f \in [D -> S]
    BY <1>1
  <2>2. \A i, j \in D : f[i] = f[j] => i = j
    BY <1>1
  <2> HIDE DEF f, D
  <2> QED
    BY <2>1, <2>2 DEF Injection, IsInjective
<1>3. IsFiniteSet(D) /\ Cardinality(D) = r[n] + 1
  <2>1. 0 \in Int /\ r[n] \in Int /\ ~(0 > r[n]) /\ r[n] - 0 + 1 = r[n] + 1
    BY <1>0
  <2>2. IsFiniteSet(D) /\ Cardinality(D) = IF 0 > r[n] THEN 0 ELSE r[n] - 0 + 1
    BY <2>1, FS_Interval
  <2> QED
    BY <2>1, <2>2
<1> HIDE DEF f
<1>4. Cardinality(D) <= Cardinality(S)
  <2> HIDE DEF D
  <2> QED
    BY <1>0, <1>2, <1>3, FS_Injection
<1> QED
  BY <1>0, <1>3, <1>4

(* The walk from a head meets the entries of the bucket, and ends.          *)
LEMMA ChainIs ==
  ASSUME NEW u, u.next \in [Nodes -> Pointers],
         NEW B, NEW H, NEW S \in SUBSET Nodes, NEW r, NEW hm,
         Linked(B, H, S, r, u.next, hm), NEW b \in B
  PROVE  Chain(u, H[b]) = {n \in S : hm[n] = b} /\ Ends(u, H[b])
<1> DEFINE N == Cardinality(Nodes)
           w == Along(u, H[b])
           Q(k) == \/ w[k] = Null /\ \A x \in S : hm[x] = b => r[x] < k
                   \/ w[k] \in S /\ hm[w[k]] = b /\ r[w[k]] = k
           good == {k \in 0..N : Q(k)}
<1>0. H[b] \in S \cup {Null} /\ H[b] \in Pointers /\ Null \notin S
      /\ \A x \in S : r[x] \in Nat
  BY DEF Linked, Pointers
<1>1. N \in Nat /\ w[0] = H[b]
      /\ \A k \in 1..N : w[k] = IF w[k - 1] = Null THEN Null ELSE u.next[w[k - 1]]
  BY <1>0, AlongIs
<1> HIDE DEF w
<1>2. Q(0)
  <2>1. CASE H[b] = Null
    BY <1>1, <2>1, NoneIn
  <2>2. CASE H[b] # Null
    BY <1>0, <1>1, <2>2 DEF Linked
  <2> QED
    BY <2>1, <2>2
<1>3. ASSUME NEW k \in 1..N, Q(k - 1) PROVE Q(k)
  <2>0. k \in Nat /\ w[k] = IF w[k - 1] = Null THEN Null ELSE u.next[w[k - 1]]
    BY <1>1
  <2>1. CASE w[k - 1] = Null
    <3>1. \A x \in S : hm[x] = b => r[x] < k - 1
      BY <1>0, <1>3, <2>1
    <3> QED
      BY <1>0, <2>0, <2>1, <3>1
  <2>2. CASE w[k - 1] # Null
    <3>1. PICK y \in S : y = w[k - 1] /\ hm[y] = b /\ r[y] = k - 1
      BY <1>3, <2>2
    <3>2. w[k] = u.next[y] /\ u.next[y] \in S \cup {Null}
      BY <2>0, <2>2, <3>1 DEF Linked
    <3>3. CASE u.next[y] = Null
      <4>1. \A x \in S : hm[x] = b => r[x] <= r[y]
        BY <3>1, <3>3, LastIs
      <4> QED
        BY <1>0, <2>0, <3>1, <3>2, <3>3, <4>1
    <3>4. CASE u.next[y] # Null
      <4>1. hm[u.next[y]] = b /\ r[u.next[y]] = (k - 1) + 1
        BY <3>1, <3>4 DEF Linked
      <4> QED
        BY <2>0, <3>2, <3>4, <4>1
    <3> QED
      BY <3>3, <3>4
  <2> QED
    BY <2>1, <2>2
<1>4. good = 0..N
  <2>1. good \in SUBSET (0..N) /\ 0 \in good
    BY <1>1, <1>2
  <2>2. \A k \in 1..N : k - 1 \in good => k \in good
    BY <1>1, <1>3
  <2> HIDE DEF good, N
  <2> QED
    BY <1>1, <2>1, <2>2, Upward
<1>5. \A x \in S : r[x] < N
  BY RankIsSmall
<1>6. \A k \in 0..N : Q(k)
  BY <1>4
<1>7. w[N] = Null
  <2>1. Q(N)
    BY <1>1, <1>6
  <2> QED
    BY <1>0, <1>1, <1>5, <2>1
<1>8. \A k \in 0..N : w[k] # Null => w[k] \in S /\ hm[w[k]] = b
  BY <1>6
<1>9. ASSUME NEW n \in S, hm[n] = b PROVE \E k \in 0..N : w[k] = n
  <2>1. r[n] \in 0..N /\ r[n] \in Nat
    BY <1>0, <1>1, <1>5
  <2>2. PICK k \in 0..N : k = r[n]
    BY <2>1
  <2>3. ~(r[n] < k)
    BY <2>1, <2>2
  <2>4. w[k] \in S /\ hm[w[k]] = b /\ r[w[k]] = k
    BY <1>6, <1>9, <2>3
  <2>5. w[k] = n
    BY <1>9, <2>2, <2>4 DEF Linked
  <2> QED
    BY <2>5
<1>10. Chain(u, H[b]) = {w[k] : k \in 0..N} \ {Null}
  BY DEF Chain, w
<1>11. Ends(u, H[b])
  BY <1>7 DEF Ends, w
<1> QED
  BY <1>0, <1>8, <1>9, <1>10, <1>11

--------------------------------------------------------------------------------
(* The operators of HashMap on the record of a map.                         *)

Tables == {NoArray} \cup UNION {[0..Primes[j] - 1 -> Pointers] : j \in DOMAIN Primes}

MapType ==
  [grows : Nat, cap : Nat \ {0}, length : Int, buckets : Arrays, arr : [Arrays -> Tables],
   live : SUBSET Nodes, next : [Nodes -> Pointers], key : [Nodes -> Keys \cup {Null}],
   value : [Nodes -> Vals \cup {NoVal}]]

Locals  == [b : Nat, buckets : Arrays, prev : Pointers, curr : Pointers]

Cursors == [old : Arrays, cap : Nat \ {0}, grows : Nat, new : Arrays, i : Nat,
            head : Pointers]

(* A bucket array that has been allocated.                                  *)
IsTable(f) == \E j \in DOMAIN Primes : f \in [0..Primes[j] - 1 -> Pointers]

(* A capacity is a positive number.                                         *)
LEMMA PrimesAre ==
  ASSUME NEW j \in DOMAIN Primes
  PROVE  Primes[j] \in Nat /\ Primes[j] > 0
BY ConstAssumption

(* A table with buckets has at least bucket 0.                              *)
LEMMA TablesAre ==
  ASSUME NEW f
  PROVE  /\ IsTable(f) => f \in Tables /\ f # NoArray /\ 0 \in DOMAIN f
         /\ f \in Tables /\ f # NoArray => IsTable(f)
         /\ NoArray \in Tables
<1>1. ASSUME NEW j \in DOMAIN Primes, f \in [0..Primes[j] - 1 -> Pointers]
      PROVE  f # NoArray /\ 0 \in DOMAIN f
  <2>1. 0 \in DOMAIN f
    BY <1>1, PrimesAre
  <2>2. 0 \notin DOMAIN NoArray
    BY DEF NoArray
  <2> QED
    BY <2>1, <2>2
<1> QED
  BY <1>1 DEF IsTable, Tables

(* Storing a head leaves a table a table.                                   *)
LEMMA StoreIsTable ==
  ASSUME NEW f, IsTable(f), NEW b, NEW n \in Pointers
  PROVE  IsTable([f EXCEPT ![b] = n])
BY DEF IsTable

(* A change of no other fields but arr and next.                            *)
OnlyLinks(w, u) ==
  /\ w \in MapType
  /\ w.grows = u.grows /\ w.cap = u.cap /\ w.length = u.length /\ w.buckets = u.buckets
  /\ w.live = u.live /\ w.key = u.key /\ w.value = u.value

StoreHead(u, i, b, n) == [u EXCEPT !.arr[i][b] = n]

StoreNext(u, p, n) == [u EXCEPT !.next[p] = n]

HeadIs(w, u, i, b, n) ==
  /\ OnlyLinks(w, u) /\ w.next = u.next
  /\ w.arr = [u.arr EXCEPT ![i] = [u.arr[i] EXCEPT ![b] = n]]

(* A bucket array takes the place of another ...                            *)
LEMMA ArrFields ==
  ASSUME NEW u \in MapType, NEW i \in Arrays, NEW f \in Tables
  PROVE  LET w == [u EXCEPT !.arr[i] = f]
         IN  OnlyLinks(w, u) /\ w.arr = [u.arr EXCEPT ![i] = f] /\ w.next = u.next
<1>1. [u.arr EXCEPT ![i] = f] \in [Arrays -> Tables]
  BY DEF MapType
<1> QED
  BY <1>1 DEF MapType, OnlyLinks

(* ... or something is stored to one, or to an entry's next.                *)
LEMMA HeadFields ==
  ASSUME NEW u \in MapType, NEW i \in Arrays, NEW b, NEW n \in Pointers, IsTable(u.arr[i])
  PROVE  HeadIs(StoreHead(u, i, b, n), u, i, b, n)
<1>1. PICK f \in Tables : f = [u.arr[i] EXCEPT ![b] = n]
  BY StoreIsTable, TablesAre
<1>2. StoreHead(u, i, b, n) = [u EXCEPT !.arr[i] = f]
  BY <1>1 DEF StoreHead
<1> QED
  BY <1>1, <1>2, ArrFields DEF HeadIs

(* A store to next changes this next only.                                  *)
LEMMA NextFields ==
  ASSUME NEW u \in MapType, NEW p \in Nodes, NEW n \in Pointers
  PROVE  /\ OnlyLinks(StoreNext(u, p, n), u) /\ StoreNext(u, p, n).arr = u.arr
         /\ StoreNext(u, p, n).next = [u.next EXCEPT ![p] = n]
<1>1. [u.next EXCEPT ![p] = n] \in [Nodes -> Pointers]
  BY DEF MapType
<1> QED
  BY <1>1 DEF MapType, OnlyLinks, StoreNext

(* A store along the way a walk came.                                       *)
LEMMA SetLinkFields ==
  ASSUME NEW u \in MapType, NEW l \in Locals, NEW n \in Pointers,
         l.prev = Null => IsTable(u.arr[l.buckets])
  PROVE  /\ OnlyLinks(SetLink(u, l, n), u)
         /\ SetLink(u, l, n).arr =
              IF l.prev = Null
              THEN [u.arr EXCEPT ![l.buckets] = [u.arr[l.buckets] EXCEPT ![l.b] = n]]
              ELSE u.arr
         /\ SetLink(u, l, n).next =
              IF l.prev = Null THEN u.next ELSE [u.next EXCEPT ![l.prev] = n]
<1>1. l.buckets \in Arrays /\ l.prev \in Nodes \cup {Null}
  BY DEF Locals, Pointers
<1>2. CASE l.prev = Null
  <2>1. PICK i, b : i \in Arrays /\ i = l.buckets /\ b = l.b
    BY <1>1
  <2>2. SetLink(u, l, n) = StoreHead(u, i, b, n)
    BY <1>2, <2>1 DEF SetLink, StoreHead
  <2>3. IsTable(u.arr[i])
    BY <1>2, <2>1
  <2> QED
    <3>1. PICK w : w = StoreHead(u, i, b, n)
      OBVIOUS
    <3>2. /\ OnlyLinks(w, u) /\ w.next = u.next
          /\ w.arr = [u.arr EXCEPT ![i] = [u.arr[i] EXCEPT ![b] = n]]
      <4>1. i \in Arrays
        BY <2>1
      <4>2. HeadIs(StoreHead(u, i, b, n), u, i, b, n)
        BY <2>3, <4>1, HeadFields
      <4> QED
        BY <3>1, <4>2 DEF HeadIs
    <3> QED
      BY <1>2, <2>1, <2>2, <3>1, <3>2
<1>3. CASE l.prev # Null
  <2>1. PICK p \in Nodes : p = l.prev
    BY <1>1, <1>3
  <2>2. SetLink(u, l, n) = StoreNext(u, p, n)
    BY <1>3, <2>1 DEF SetLink, StoreNext
  <2> QED
    BY <1>3, <2>1, <2>2, NextFields
<1> QED
  BY <1>2, <1>3

(* A new entry, one that goes, and a new value for one.                     *)
Adds(w, u, n, k, v) ==
  /\ w \in MapType
  /\ w.grows = u.grows /\ w.cap = u.cap /\ w.buckets = u.buckets
  /\ w.live = u.live \cup {n} /\ w.length = u.length + 1
  /\ w.key = [u.key EXCEPT ![n] = k] /\ w.value = [u.value EXCEPT ![n] = v]

Drops(w, u, n) ==
  /\ w \in MapType
  /\ w.grows = u.grows /\ w.cap = u.cap /\ w.buckets = u.buckets
  /\ w.live = u.live \ {n} /\ w.length = u.length - 1
  /\ w.key = [u.key EXCEPT ![n] = Null] /\ w.value = [u.value EXCEPT ![n] = NoVal]

(* The links after an insertion, and after a deletion of the current entry. *)
LinksTo(u, l, n) ==
  IF l.prev = Null THEN [u.arr EXCEPT ![l.buckets] = [u.arr[l.buckets] EXCEPT ![l.b] = n]]
                   ELSE u.arr

NextTo(u, l, n) == IF l.prev = Null THEN u.next ELSE [u.next EXCEPT ![l.prev] = n]

(* An insertion adds an entry and stores one link to it.                    *)
LEMMA InsertedFields ==
  ASSUME NEW u \in MapType, NEW t \in Threads, NEW n \in Nodes,
         op[t].key \in Keys, op[t].val \in Vals, at[t] \in Locals,
         at[t].prev = Null => IsTable(u.arr[at[t].buckets])
  PROVE  /\ Adds(Inserted(u, t, n), u, n, op[t].key, op[t].val)
         /\ Inserted(u, t, n).arr = LinksTo(u, at[t], n)
         /\ Inserted(u, t, n).next = NextTo(u, at[t], n)
<1> DEFINE y == [u EXCEPT !.live = @ \cup {n}, !.key[n] = op[t].key, !.value[n] = op[t].val,
                          !.length = @ + 1]
<1>1. PICK l \in Locals, k \in Keys, v \in Vals : l = at[t] /\ k = op[t].key /\ v = op[t].val
  OBVIOUS
<1>2. /\ u.live \cup {n} \in SUBSET Nodes /\ u.length + 1 \in Int
      /\ [u.key EXCEPT ![n] = k] \in [Nodes -> Keys \cup {Null}]
      /\ [u.value EXCEPT ![n] = v] \in [Nodes -> Vals \cup {NoVal}]
  BY DEF MapType
<1>3. /\ y \in MapType
      /\ y.live = u.live \cup {n} /\ y.length = u.length + 1
      /\ y.key = [u.key EXCEPT ![n] = k] /\ y.value = [u.value EXCEPT ![n] = v]
      /\ y.grows = u.grows /\ y.cap = u.cap /\ y.buckets = u.buckets
      /\ y.arr = u.arr /\ y.next = u.next
  BY <1>1, <1>2 DEF MapType
<1>4. Inserted(u, t, n) = SetLink(y, l, n)
  BY <1>1 DEF Inserted
<1> HIDE DEF y
<1>5. n \in Pointers /\ (l.prev = Null => IsTable(y.arr[l.buckets]))
  BY <1>1, <1>3 DEF Pointers
<1>6. PICK w : w = SetLink(y, l, n)
  OBVIOUS
<1>7. OnlyLinks(w, y) /\ w.arr = LinksTo(y, l, n) /\ w.next = NextTo(y, l, n)
  BY <1>3, <1>5, <1>6, SetLinkFields DEF LinksTo, NextTo
<1>8. Adds(w, u, n, k, v)
  BY <1>3, <1>7 DEF OnlyLinks, Adds
<1>9. LinksTo(y, l, n) = LinksTo(u, l, n) /\ NextTo(y, l, n) = NextTo(u, l, n)
  BY <1>3 DEF LinksTo, NextTo
<1> QED
  BY <1>1, <1>4, <1>6, <1>7, <1>8, <1>9

(* A deletion drops the entry and stores one link past it.                  *)
LEMMA DeletedFields ==
  ASSUME NEW u \in MapType, NEW l \in Locals, l.curr \in Nodes,
         l.prev = Null => IsTable(u.arr[l.buckets])
  PROVE  /\ Drops(Deleted(u, l), u, l.curr)
         /\ Deleted(u, l).arr = LinksTo(u, l, u.next[l.curr])
         /\ Deleted(u, l).next = [NextTo(u, l, u.next[l.curr]) EXCEPT ![l.curr] = Null]
<1>1. PICK n \in Nodes, p \in Pointers : n = l.curr /\ p = u.next[l.curr]
  BY DEF MapType
<1>2. PICK y : y = SetLink(u, l, p)
  OBVIOUS
<1>3. OnlyLinks(y, u) /\ y.arr = LinksTo(u, l, p) /\ y.next = NextTo(u, l, p)
  BY <1>2, SetLinkFields DEF LinksTo, NextTo
<1>4. y \in MapType
  BY <1>3 DEF OnlyLinks
<1>5. /\ y.live \ {n} \in SUBSET Nodes /\ y.length - 1 \in Int
      /\ [y.key EXCEPT ![n] = Null] \in [Nodes -> Keys \cup {Null}]
      /\ [y.value EXCEPT ![n] = NoVal] \in [Nodes -> Vals \cup {NoVal}]
      /\ [y.next EXCEPT ![n] = Null] \in [Nodes -> Pointers]
  BY <1>4 DEF MapType, Pointers
<1>6. PICK w : w = [y EXCEPT !.live = @ \ {n}, !.next[n] = Null, !.key[n] = Null,
                             !.value[n] = NoVal, !.length = @ - 1]
  OBVIOUS
<1>7. /\ w \in MapType
      /\ w.live = y.live \ {n} /\ w.length = y.length - 1
      /\ w.key = [y.key EXCEPT ![n] = Null] /\ w.value = [y.value EXCEPT ![n] = NoVal]
      /\ w.next = [y.next EXCEPT ![n] = Null]
      /\ w.grows = y.grows /\ w.cap = y.cap /\ w.buckets = y.buckets /\ w.arr = y.arr
  BY <1>4, <1>5, <1>6 DEF MapType
<1>8. Deleted(u, l) = w
  BY <1>1, <1>2, <1>6 DEF Deleted
<1>9. Drops(w, u, n)
  BY <1>3, <1>7 DEF OnlyLinks, Drops
<1> QED
  BY <1>1, <1>3, <1>7, <1>8, <1>9

(* An update changes one value.                                             *)
LEMMA UpdatedFields ==
  ASSUME NEW u \in MapType, NEW n \in Nodes, NEW v \in Vals
  PROVE  LET w == [u EXCEPT !.value[n] = v]
         IN  /\ w \in MapType /\ w.value = [u.value EXCEPT ![n] = v]
             /\ w.grows = u.grows /\ w.cap = u.cap /\ w.length = u.length
             /\ w.buckets = u.buckets /\ w.live = u.live /\ w.key = u.key
             /\ w.arr = u.arr /\ w.next = u.next
<1>1. [u.value EXCEPT ![n] = v] \in [Nodes -> Vals \cup {NoVal}]
  BY DEF MapType
<1> QED
  BY <1>1 DEF MapType

(* The capacity of a bucket array.                                          *)
LEMMA TableSize ==
  ASSUME NEW j \in DOMAIN Primes, NEW f \in [0..Primes[j] - 1 -> Pointers]
  PROVE  Cardinality(DOMAIN f) = Primes[j]
<1>1. PICK c \in Nat : c = Primes[j] /\ c > 0
  BY PrimesAre
<1>2. 0 \in Int /\ c - 1 \in Int /\ ~(0 > c - 1) /\ c - 1 - 0 + 1 = c
  BY <1>1
<1>3. Cardinality(0..c - 1) = IF 0 > c - 1 THEN 0 ELSE c - 1 - 0 + 1
  BY <1>2, FS_Interval
<1> QED
  BY <1>1, <1>2, <1>3

(* A turn of a resize stores the entry's next and the head of its new       *)
(* bucket.                                                                  *)
LEMMA MoveToFields ==
  ASSUME NEW u \in MapType, NEW i \in Arrays, NEW n \in Nodes, u.key[n] \in Keys,
         NEW j \in DOMAIN Primes, u.arr[i] \in [0..Primes[j] - 1 -> Pointers],
         NEW b, b = Hash[u.key[n]] % Primes[j]
  PROVE  /\ OnlyLinks(MoveTo(u, i, n), u)
         /\ b \in 0..Primes[j] - 1
         /\ MoveTo(u, i, n).next = [u.next EXCEPT ![n] = u.arr[i][b]]
         /\ MoveTo(u, i, n).arr = [u.arr EXCEPT ![i] = [u.arr[i] EXCEPT ![b] = n]]
<1>1. b \in 0..Primes[j] - 1
  <2>1. Hash[u.key[n]] \in Nat
    BY ConstAssumption
  <2> QED
    BY <2>1, PrimesAre
<1>2. PICK p \in Pointers : p = u.arr[i][b]
  BY <1>1
<1>3. PICK y : y = StoreNext(u, n, p)
  OBVIOUS
<1>4. OnlyLinks(y, u) /\ y.arr = u.arr /\ y.next = [u.next EXCEPT ![n] = p]
  BY <1>3, NextFields
<1>5. y \in MapType /\ IsTable(y.arr[i]) /\ n \in Pointers
  BY <1>4 DEF OnlyLinks, IsTable, Pointers
<1>6. PICK w : w = StoreHead(y, i, b, n)
  OBVIOUS
<1>7. OnlyLinks(w, y) /\ w.next = y.next
      /\ w.arr = [y.arr EXCEPT ![i] = [y.arr[i] EXCEPT ![b] = n]]
  <2>1. HeadIs(StoreHead(y, i, b, n), y, i, b, n)
    BY <1>5, HeadFields
  <2> QED
    BY <1>6, <2>1 DEF HeadIs
<1>8. Cardinality(DOMAIN u.arr[i]) = Primes[j]
  BY TableSize
<1>9. MoveTo(u, i, n) = w
  BY <1>2, <1>3, <1>6, <1>8 DEF MoveTo, StoreNext, StoreHead
<1>10. OnlyLinks(w, u)
  BY <1>4, <1>7 DEF OnlyLinks
<1> QED
  BY <1>1, <1>2, <1>4, <1>7, <1>9, <1>10

(* New buckets are empty.                                                   *)
LEMMA BucketsAre ==
  ASSUME NEW j \in DOMAIN Primes
  PROVE  /\ Buckets(Primes[j]) \in [0..Primes[j] - 1 -> Pointers]
         /\ \A b \in 0..Primes[j] - 1 : Buckets(Primes[j])[b] = Null
BY DEF Buckets, Pointers

(* The allocation of a resize fills an unused array.                        *)
LEMMA AllocatedFields ==
  ASSUME NEW u \in MapType, NEW i \in Arrays, NEW j \in DOMAIN Primes, j = u.grows + 2
  PROVE  /\ OnlyLinks(Allocated(u, i), u) /\ Allocated(u, i).next = u.next
         /\ Allocated(u, i).arr = [u.arr EXCEPT ![i] = Buckets(Primes[j])]
<1>1. PICK f \in Tables : f = Buckets(Primes[j])
  BY BucketsAre, TablesAre DEF IsTable
<1>2. Allocated(u, i) = [u EXCEPT !.arr[i] = f]
  BY <1>1 DEF Allocated
<1> QED
  BY <1>1, <1>2, ArrFields

Replaces(w, u, g, c, i, o) ==
  /\ w \in MapType
  /\ w.grows = g /\ w.cap = c /\ w.buckets = i /\ w.arr = [u.arr EXCEPT ![o] = NoArray]
  /\ w.next = u.next /\ w.live = u.live /\ w.length = u.length
  /\ w.key = u.key /\ w.value = u.value

(* The end of a resize: new capacity, buckets and growth, old buckets       *)
(* freed.                                                                   *)
LEMMA InstalledFields ==
  ASSUME NEW u \in MapType, NEW g \in Nat, NEW i \in Arrays, NEW o \in Arrays,
         NEW j \in DOMAIN Primes, u.arr[i] \in [0..Primes[j] - 1 -> Pointers]
  PROVE  Replaces(Installed(u, g, i, o), u, g, Primes[j], i, o)
<1>1. PICK c \in Nat \ {0} : c = Primes[j]
  BY PrimesAre
<1>2. Cardinality(DOMAIN u.arr[i]) = c
  BY <1>1, TableSize
<1>3. PICK w : w = [u EXCEPT !.grows = g, !.cap = c, !.buckets = i, !.arr[o] = NoArray]
  OBVIOUS
<1>4. [u.arr EXCEPT ![o] = NoArray] \in [Arrays -> Tables]
  BY TablesAre DEF MapType
<1>5. Replaces(w, u, g, c, i, o)
  BY <1>3, <1>4 DEF MapType, Replaces
<1>6. Installed(u, g, i, o) = w
  BY <1>2, <1>3 DEF Installed
<1> QED
  BY <1>1, <1>5, <1>6
--------------------------------------------------------------------------------
(* A map in memory.                                                         *)

Homes(u, c) == [n \in Nodes |-> Hash[u.key[n]] % c]

(* The entries are right, wherever they hang: none has a key that another   *)
(* has, length counts them, and one that is not allocated is zeroed.        *)
Sound(u) ==
  /\ u \in MapType
  /\ u.grows \in 0..Len(Primes) - 1 /\ u.cap = Primes[u.grows + 1]
  /\ u.length = Cardinality(u.live)
  /\ \A n \in u.live : u.key[n] \in Keys /\ u.value[n] \in Vals
  /\ \A x, y \in u.live : u.key[x] = u.key[y] => x = y
  /\ \A n \in Nodes \ u.live : u.next[n] = Null

(* The current buckets are the only ones, and all entries hang there.       *)
Hung(u, r) ==
  /\ \A i \in Arrays : u.arr[i] # NoArray <=> i = u.buckets
  /\ Linked(0..u.cap - 1, u.arr[u.buckets], u.live, r, u.next, Homes(u, u.cap))

(* How far a walk to the entry of k has come: that entry is not behind.     *)
Walked(u, l, k, r) ==
  /\ l \in Locals /\ l.buckets = u.buckets /\ l.b = Slot(u, k)
  /\ IF l.prev = Null THEN l.curr = u.arr[u.buckets][l.b]
     ELSE l.prev \in u.live /\ Homes(u, u.cap)[l.prev] = l.b /\ l.curr = u.next[l.prev]
  /\ \A x \in u.live : u.key[x] = k => l.curr # Null /\ r[x] >= r[l.curr]

(* What a map says of a key, and w of all of them after a store for one.    *)
Says(u, k, v) ==
  \/ v = NoVal /\ \A x \in u.live : u.key[x] # k
  \/ \E x \in u.live : u.key[x] = k /\ v = u.value[x]

Stores(w, u, k, v) ==
  Says(w, k, v) /\ \A j \in Keys \ {k} : \A c : Says(u, j, c) => Says(w, j, c)

(* A sound map says exactly one thing of a key: its value, or that it is    *)
(* not there.                                                               *)
LEMMA SaysOnce ==
  ASSUME NEW u, Sound(u), NEW k
  PROVE  /\ \A v, w : Says(u, k, v) /\ Says(u, k, w) => v = w
         /\ \A v : Says(u, k, v) => (v = NoVal <=> \A x \in u.live : u.key[x] # k)
         /\ \A v : Says(u, k, v) => v \in Vals \cup {NoVal}
         /\ \E v \in Vals \cup {NoVal} : Says(u, k, v)
<1>1. NoVal \notin Vals
  BY ConstAssumption
<1> QED
  BY <1>1 DEF Sound, Says

(* The buckets and the entries of a map.                                    *)
LEMMA HungFacts ==
  ASSUME NEW u, Sound(u), NEW r, Hung(u, r)
  PROVE  /\ u.cap \in Nat /\ u.cap > 0 /\ u.buckets \in Arrays
         /\ u.live \subseteq Nodes /\ IsFiniteSet(u.live) /\ Null \notin u.live
         /\ u.next \in [Nodes -> Pointers]
         /\ u.arr[u.buckets] \in [0..u.cap - 1 -> u.live \cup {Null}]
         /\ IsTable(u.arr[u.buckets])
         /\ \A k \in Keys : Slot(u, k) \in 0..u.cap - 1
         /\ \A n \in u.live : /\ u.next[n] \in u.live \cup {Null}
                              /\ Homes(u, u.cap)[n] = Slot(u, u.key[n])
                              /\ r[n] \in Nat
<1>1. u \in MapType /\ u.grows + 1 \in DOMAIN Primes /\ u.cap = Primes[u.grows + 1]
  BY ConstAssumption DEF Sound
<1>2. u.cap \in Nat /\ u.cap > 0
  BY <1>1, PrimesAre
<1>3. /\ u.buckets \in Arrays /\ u.live \subseteq Nodes /\ u.next \in [Nodes -> Pointers]
      /\ u.arr \in [Arrays -> Tables]
  BY <1>1 DEF MapType
<1>4. IsFiniteSet(u.live)
  BY <1>3, ConstAssumption, FS_Subset
<1>5. IsTable(u.arr[u.buckets])
  <2>1. u.arr[u.buckets] \in Tables /\ u.arr[u.buckets] # NoArray
    BY <1>3 DEF Hung
  <2> QED
    BY <2>1, TablesAre
<1>6. ASSUME NEW k \in Keys PROVE Slot(u, k) \in 0..u.cap - 1
  <2>1. Hash[k] \in Nat
    BY ConstAssumption
  <2> QED
    BY <1>2, <2>1 DEF Slot
<1>7. \A n \in u.live : Homes(u, u.cap)[n] = Slot(u, u.key[n])
  BY <1>3 DEF Homes, Slot
<1>8. /\ Null \notin u.live /\ u.arr[u.buckets] \in [0..u.cap - 1 -> u.live \cup {Null}]
      /\ \A n \in u.live : u.next[n] \in u.live \cup {Null} /\ r[n] \in Nat
  BY DEF Hung, Linked
<1> QED
  BY <1>2, <1>3, <1>4, <1>5, <1>6, <1>7, <1>8

(* A walk goes on past an entry with another key.                           *)
LEMMA WalkOn ==
  ASSUME NEW u, Sound(u), NEW r, Hung(u, r), NEW k \in Keys, NEW l, Walked(u, l, k, r),
         l.curr # Null
  PROVE  /\ l.curr \in u.live /\ Homes(u, u.cap)[l.curr] = l.b
         /\ u.key[l.curr] # k =>
              Walked(u, [l EXCEPT !.prev = l.curr, !.curr = u.next[l.curr]], k, r)
<1> DEFINE n == l.curr
           h == Homes(u, u.cap)
           B == 0..u.cap - 1
           H == u.arr[u.buckets]
<1>0. Linked(B, H, u.live, r, u.next, h) /\ l.b \in B
  BY HungFacts DEF Hung, Walked
<1>1. n \in u.live /\ h[n] = l.b
  <2>1. CASE l.prev = Null
    BY <1>0, <2>1 DEF Walked, Linked
  <2>2. CASE l.prev # Null
    BY <1>0, <2>2 DEF Walked, Linked
  <2> QED
    BY <2>1, <2>2
<1>2. ASSUME u.key[n] # k
      PROVE  Walked(u, [l EXCEPT !.prev = l.curr, !.curr = u.next[l.curr]], k, r)
  <2> DEFINE l2 == [l EXCEPT !.prev = l.curr, !.curr = u.next[l.curr]]
  <2>0. u.next[n] \in u.live \cup {Null} /\ u.live \subseteq Nodes /\ Null \notin u.live
    BY <1>1, HungFacts
  <2>1. l2 \in Locals /\ l2.buckets = l.buckets /\ l2.b = l.b /\ l2.prev = n
        /\ l2.curr = u.next[n]
    BY <1>1, <2>0 DEF Walked, Locals, Pointers
  <2>2. ASSUME NEW x \in u.live, u.key[x] = k
        PROVE  u.next[n] # Null /\ r[x] >= r[u.next[n]]
    <3>1. r[x] >= r[n] /\ r[x] \in Nat /\ r[n] \in Nat
      BY <1>1, <2>2, HungFacts DEF Walked
    <3>2. h[x] = h[n]
      BY <1>1, <2>2, HungFacts DEF Walked
    <3>3. x # n
      BY <1>2, <2>2
    <3>4. r[x] # r[n]
      BY <1>0, <1>1, <3>2, <3>3 DEF Linked
    <3>5. u.next[n] # Null
      <4>1. SUFFICES ASSUME u.next[n] = Null PROVE FALSE
        OBVIOUS
      <4> HIDE DEF B, H, h
      <4>2. r[x] <= r[n]
        BY <1>0, <1>1, <3>2, <4>1, LastIs
      <4> QED
        BY <3>1, <3>4, <4>2
    <3>6. r[u.next[n]] = r[n] + 1
      BY <1>0, <1>1, <3>5 DEF Linked
    <3> QED
      BY <3>1, <3>4, <3>5, <3>6
  <2> HIDE DEF l2
  <2>3. Walked(u, l2, k, r)
    BY <1>1, <2>0, <2>1, <2>2 DEF Walked
  <2> QED
    BY <2>3 DEF l2
<1> QED
  BY <1>1, <1>2

(* The entry goes to the end of the walk.                                   *)
LEMMA InsertHangs ==
  ASSUME NEW u, Sound(u), NEW r, Hung(u, r), NEW k \in Keys, NEW v \in Vals,
         NEW l, Walked(u, l, k, r), l.curr = Null, NEW n \in Nodes \ u.live, NEW w,
         Adds(w, u, n, k, v), w.arr = LinksTo(u, l, n), w.next = NextTo(u, l, n)
  PROVE  \E r2 : Hung(w, r2)
<1> DEFINE B == 0..u.cap - 1
           H == u.arr[u.buckets]
           h == Homes(u, u.cap)
           g == Homes(w, w.cap)
<1>0. /\ Linked(B, H, u.live, r, u.next, h) /\ l.b \in B /\ n # Null /\ u.buckets \in Arrays
      /\ w.cap = u.cap /\ w.live = u.live \cup {n} /\ w.buckets = u.buckets
      /\ u.live \subseteq Nodes /\ u.next[n] = Null /\ u.next \in [Nodes -> Pointers]
      /\ H \in [B -> u.live \cup {Null}] /\ n \in Pointers /\ u.arr \in [Arrays -> Tables]
      /\ l.buckets = u.buckets
  <2>1. Linked(B, H, u.live, r, u.next, h)
    BY DEF Hung
  <2>2. l.b \in B
    BY HungFacts DEF Walked
  <2>3. n # Null
    BY ConstAssumption
  <2> QED
    BY <2>1, <2>2, <2>3, HungFacts DEF Adds, Sound, MapType, Walked, Pointers
<1>1. g[n] = l.b /\ \A x \in u.live : g[x] = h[x]
  <2>1. w.key[n] = k /\ \A x \in u.live : w.key[x] = u.key[x]
    BY <1>0 DEF Adds, Sound, MapType
  <2> QED
    BY <1>0, <2>1 DEF Homes, Walked, Slot
<1>2. \A i \in Arrays : w.arr[i] # NoArray <=> i = w.buckets
  <2>1. IsTable([H EXCEPT ![l.b] = n])
    BY <1>0, HungFacts, StoreIsTable
  <2>2. [H EXCEPT ![l.b] = n] # NoArray
    BY <2>1, TablesAre
  <2>3. \A i \in Arrays : u.arr[i] # NoArray <=> i = u.buckets
    BY DEF Hung
  <2> QED
    BY <1>0, <2>2, <2>3 DEF LinksTo
<1>3. CASE l.prev = Null
  <2>1. H[l.b] = Null
    BY <1>3 DEF Walked
  <2>2. w.next = u.next /\ w.arr[w.buckets] = [H EXCEPT ![l.b] = n]
    BY <1>0, <1>3 DEF NextTo, LinksTo
  <2>3. \E r2 : Linked(B, w.arr[w.buckets], u.live \cup {n}, r2, w.next, g)
    <3>1. PICK b \in B : b = l.b
      BY <1>0
    <3>2. /\ w.next[n] = H[b] /\ g[n] = b
          /\ \A x \in u.live : w.next[x] = u.next[x] /\ g[x] = h[x]
      BY <1>0, <1>1, <2>1, <2>2, <3>1
    <3>3. PICK H2 : H2 = w.arr[w.buckets]
      OBVIOUS
    <3>4. H2 \in [B -> u.live \cup {n, Null}] /\ H2[b] = n /\ \A c \in B \ {b} : H2[c] = H[c]
      BY <1>0, <2>2, <3>1, <3>3
    <3>5. Linked(B, H, u.live, r, u.next, h) /\ n # Null /\ n \notin u.live
      BY <1>0
    <3> HIDE DEF B, H, h, g
    <3> QED
      BY <3>2, <3>3, <3>4, <3>5, PutFirst
  <2> QED
    BY <1>0, <1>2, <2>2, <2>3 DEF Hung
<1>4. CASE l.prev # Null
  <2>1. PICK p \in u.live : p = l.prev /\ h[p] = l.b /\ u.next[p] = Null
    BY <1>4 DEF Walked
  <2>2. w.next = [u.next EXCEPT ![p] = n] /\ w.arr = u.arr
    BY <1>4, <2>1 DEF NextTo, LinksTo
  <2>3. \E r2 : Linked(B, H, u.live \cup {n}, r2, w.next, g)
    <3>1. /\ g[n] = h[p] /\ w.next[n] = Null /\ w.next[p] = n
          /\ \A x \in u.live : g[x] = h[x] /\ (x # p => w.next[x] = u.next[x])
      BY <1>0, <1>1, <2>1, <2>2
    <3> HIDE DEF B, H, h, g
    <3> QED
      BY <1>0, <2>1, <3>1, PutAfter
  <2> QED
    BY <1>0, <1>2, <2>2, <2>3 DEF Hung
<1> QED
  BY <1>3, <1>4

(* An insertion after a walk that found nothing keeps keys unique and       *)
(* stores the value.                                                        *)
LEMMA InsertSound ==
  ASSUME NEW u, Sound(u), NEW r, NEW k \in Keys, NEW v \in Vals,
         NEW l, Walked(u, l, k, r), l.curr = Null, NEW n \in Nodes \ u.live, NEW w,
         Adds(w, u, n, k, v), w.next = NextTo(u, l, n)
  PROVE  Sound(w) /\ Stores(w, u, k, v)
<1>0. /\ w \in MapType /\ w.grows = u.grows /\ w.cap = u.cap /\ w.live = u.live \cup {n}
      /\ w.length = u.length + 1 /\ u.live \subseteq Nodes /\ n \notin u.live
  BY DEF Adds, Sound, MapType
<1>1. /\ w.key[n] = k /\ w.value[n] = v
      /\ \A x \in u.live : w.key[x] = u.key[x] /\ w.value[x] = u.value[x]
  BY <1>0 DEF Adds, Sound, MapType
<1>2. \A x \in u.live : u.key[x] # k
  BY DEF Walked
<1>3. w.length = Cardinality(w.live)
  <2>1. IsFiniteSet(u.live)
    BY <1>0, ConstAssumption, FS_Subset
  <2>2. Cardinality(u.live \cup {n}) = Cardinality(u.live) + 1
    BY <1>0, <2>1, FS_AddElement
  <2> QED
    BY <1>0, <2>2 DEF Sound
<1>4. \A x \in Nodes \ w.live : w.next[x] = Null
  <2> SUFFICES ASSUME NEW x \in Nodes \ w.live PROVE w.next[x] = Null
    OBVIOUS
  <2>1. x \notin u.live /\ u.next[x] = Null
    BY <1>0 DEF Sound
  <2>2. l.prev = Null \/ l.prev \in u.live
    BY DEF Walked
  <2> QED
    BY <1>0, <2>1, <2>2 DEF NextTo, Sound, MapType
<1>5. Sound(w)
  BY <1>0, <1>1, <1>2, <1>3, <1>4 DEF Sound
<1>6. Says(w, k, v)
  BY <1>0, <1>1 DEF Says
<1>7. \A j \in Keys \ {k} : \A c : Says(u, j, c) => Says(w, j, c)
  BY <1>0, <1>1 DEF Says
<1> QED
  BY <1>5, <1>6, <1>7 DEF Stores

(* The entry the walk has come to is taken out.                             *)
LEMMA DeleteHangs ==
  ASSUME NEW u, Sound(u), NEW r, Hung(u, r), NEW k \in Keys,
         NEW l, Walked(u, l, k, r), l.curr # Null, NEW w, Drops(w, u, l.curr),
         w.arr = LinksTo(u, l, u.next[l.curr]),
         w.next = [NextTo(u, l, u.next[l.curr]) EXCEPT ![l.curr] = Null]
  PROVE  \E r2 : Hung(w, r2)
<1> DEFINE B  == 0..u.cap - 1
           H  == u.arr[u.buckets]
           h  == Homes(u, u.cap)
           g  == Homes(w, w.cap)
           n  == l.curr
           H2 == [b \in B |-> IF H[b] = n THEN u.next[n] ELSE H[b]]
<1>0. /\ Linked(B, H, u.live, r, u.next, h) /\ l.b \in B /\ u.buckets \in Arrays
      /\ n \in u.live /\ w.cap = u.cap /\ w.live = u.live \ {n} /\ w.buckets = u.buckets
      /\ u.live \subseteq Nodes /\ u.next \in [Nodes -> Pointers]
      /\ H \in [B -> u.live \cup {Null}] /\ u.arr \in [Arrays -> Tables]
      /\ l.buckets = u.buckets /\ u.next[n] \in Pointers
  <2>1. Linked(B, H, u.live, r, u.next, h) /\ l.b \in B
    BY HungFacts DEF Hung, Walked
  <2>2. n \in u.live
    BY WalkOn
  <2> QED
    BY <2>1, <2>2, HungFacts DEF Drops, Sound, MapType, Walked, Pointers
<1>1. \A x \in u.live \ {n} : g[x] = h[x]
  <2>1. \A x \in u.live \ {n} : w.key[x] = u.key[x]
    BY <1>0 DEF Drops, Sound, MapType
  <2> QED
    BY <1>0, <2>1 DEF Homes
<1>2. \A i \in Arrays : w.arr[i] # NoArray <=> i = w.buckets
  <2>1. IsTable([H EXCEPT ![l.b] = u.next[n]])
    BY <1>0, HungFacts, StoreIsTable
  <2>2. [H EXCEPT ![l.b] = u.next[n]] # NoArray
    BY <2>1, TablesAre
  <2>3. \A i \in Arrays : u.arr[i] # NoArray <=> i = u.buckets
    BY DEF Hung
  <2> QED
    BY <1>0, <2>2, <2>3 DEF LinksTo
<1>a. /\ \A b, c \in B : H[b] = n /\ H[c] = n => b = c
      /\ \A b \in B, x \in u.live : H[b] = n => u.next[x] # n
      /\ \A x, y \in u.live : u.next[x] = n /\ u.next[y] = n => x = y
  <2> HIDE DEF B, H, h, n
  <2> QED
    BY <1>0, OneWayIn
<1>3. w.arr[w.buckets] = H2
      /\ \A x \in u.live \ {n} : w.next[x] = IF u.next[x] = n THEN u.next[n] ELSE u.next[x]
  <2>1. CASE l.prev = Null
    <3>1. H[l.b] = n
      BY <2>1 DEF Walked
    <3>2. w.next = [u.next EXCEPT ![n] = Null]
          /\ w.arr[w.buckets] = [H EXCEPT ![l.b] = u.next[n]]
      BY <1>0, <2>1 DEF NextTo, LinksTo
    <3>3. [H EXCEPT ![l.b] = u.next[n]] = H2
      <4>1. \A b \in B : [H EXCEPT ![l.b] = u.next[n]][b] = H2[b]
        BY <1>0, <1>a, <3>1
      <4> QED
        BY <1>0, <4>1
    <3> QED
      BY <1>0, <1>a, <3>1, <3>2, <3>3
  <2>2. CASE l.prev # Null
    <3>1. PICK p \in u.live : p = l.prev /\ u.next[p] = n
      BY <2>2 DEF Walked
    <3>2. w.next = [[u.next EXCEPT ![p] = u.next[n]] EXCEPT ![n] = Null] /\ w.arr = u.arr
      BY <2>2, <3>1 DEF NextTo, LinksTo
    <3>3. H = H2
      <4>1. \A b \in B : H[b] = H2[b]
        BY <1>0, <1>a, <3>1
      <4> QED
        BY <1>0, <4>1
    <3>4. \A x \in u.live \ {n} : w.next[x] = IF u.next[x] = n THEN u.next[n] ELSE u.next[x]
      BY <1>0, <1>a, <3>1, <3>2
    <3> QED
      BY <1>0, <3>2, <3>3, <3>4
  <2> QED
    BY <2>1, <2>2
<1>4. \E r2 : Linked(B, H2, u.live \ {n}, r2, w.next, g)
  <2>1. \A x \in u.live \ {n} : /\ w.next[x] = IF u.next[x] = n THEN u.next[n] ELSE u.next[x]
                                /\ g[x] = h[x]
    BY <1>1, <1>3
  <2>2. u.next[n] \in u.live \cup {Null}
    BY <1>0, HungFacts
  <2>3. H2 \in [B -> u.live \cup {Null}]
        /\ \A b \in B : H2[b] = IF H[b] = n THEN u.next[n] ELSE H[b]
    BY <1>0, <2>2
  <2>4. Linked(B, H, u.live, r, u.next, h) /\ n \in u.live
    BY <1>0
  <2>5. PICK x0 \in u.live : x0 = n
    BY <2>4
  <2>6. PICK G : G = H2
    OBVIOUS
  <2> HIDE DEF B, H, H2, h, g, n
  <2>7. \E r2 : Linked(B, G, u.live \ {x0}, r2, w.next, g)
    <3>1. Linked(B, H, u.live, r, u.next, h) /\ G \in [B -> u.live \cup {Null}]
      BY <2>3, <2>4, <2>6
    <3>2. \A b \in B : G[b] = Past(u.next, x0, H[b])
      BY <2>3, <2>5, <2>6 DEF Past
    <3>3. \A x \in u.live \ {x0} : w.next[x] = Past(u.next, x0, u.next[x]) /\ g[x] = h[x]
      BY <2>1, <2>5 DEF Past
    <3>4. Bypassed(B, H, u.live, u.next, h, x0, G, w.next, g)
      BY <3>1, <3>2, <3>3 DEF Bypassed
    <3> QED
      BY <3>1, <3>4, TakeOut
  <2> QED
    BY <2>5, <2>6, <2>7
<1> QED
  BY <1>0, <1>2, <1>3, <1>4 DEF Hung

(* A deletion of the entry the walk found removes the key.                  *)
LEMMA DeleteSound ==
  ASSUME NEW u, Sound(u), NEW r, Hung(u, r), NEW k \in Keys,
         NEW l, Walked(u, l, k, r), l.curr # Null, u.key[l.curr] = k, NEW w,
         Drops(w, u, l.curr),
         w.next = [NextTo(u, l, u.next[l.curr]) EXCEPT ![l.curr] = Null]
  PROVE  Sound(w) /\ Stores(w, u, k, NoVal)
<1> DEFINE n == l.curr
<1>0. /\ w \in MapType /\ w.grows = u.grows /\ w.cap = u.cap /\ w.live = u.live \ {n}
      /\ w.length = u.length - 1 /\ u.live \subseteq Nodes /\ n \in u.live
      /\ u.next \in [Nodes -> Pointers]
  BY WalkOn, HungFacts DEF Drops
<1>1. \A x \in w.live : w.key[x] = u.key[x] /\ w.value[x] = u.value[x]
  BY <1>0 DEF Drops, Sound, MapType
<1>2. \A x \in w.live : u.key[x] # k
  BY <1>0 DEF Sound
<1>3. w.length = Cardinality(w.live)
  <2>1. IsFiniteSet(u.live)
    BY <1>0, ConstAssumption, FS_Subset
  <2>2. Cardinality(u.live \ {n}) = Cardinality(u.live) - 1
    BY <1>0, <2>1, FS_RemoveElement
  <2> QED
    BY <1>0, <2>2 DEF Sound
<1>4. \A x \in Nodes \ w.live : w.next[x] = Null
  <2> SUFFICES ASSUME NEW x \in Nodes \ w.live PROVE w.next[x] = Null
    OBVIOUS
  <2>0. NextTo(u, l, u.next[n]) \in [Nodes -> Pointers \cup {u.next[n]}]
    BY <1>0 DEF NextTo
  <2>1. CASE x = n
    BY <2>0, <2>1
  <2>2. CASE x # n
    <3>1. x \notin u.live /\ u.next[x] = Null
      BY <1>0, <2>2 DEF Sound
    <3>2. l.prev = Null \/ l.prev \in u.live
      BY DEF Walked
    <3>3. NextTo(u, l, u.next[n])[x] = u.next[x]
      BY <1>0, <3>1, <3>2 DEF NextTo
    <3> QED
      BY <2>0, <2>2, <3>1, <3>3
  <2> QED
    BY <2>1, <2>2
<1>5. Sound(w)
  BY <1>0, <1>1, <1>3, <1>4 DEF Sound
<1>6. Says(w, k, NoVal)
  BY <1>1, <1>2 DEF Says
<1>7. \A j \in Keys \ {k} : \A c : Says(u, j, c) => Says(w, j, c)
  BY <1>0, <1>1 DEF Says
<1> QED
  BY <1>5, <1>6, <1>7 DEF Stores


(* The entry the walk has come to gets a value.                             *)
LEMMA UpdateSound ==
  ASSUME NEW u, Sound(u), NEW r, Hung(u, r), NEW k \in Keys, NEW v \in Vals,
         NEW n \in u.live, u.key[n] = k, NEW w, w = [u EXCEPT !.value[n] = v]
  PROVE  Sound(w) /\ Hung(w, r) /\ Stores(w, u, k, v)
<1>0. /\ w \in MapType /\ w.value = [u.value EXCEPT ![n] = v]
      /\ w.grows = u.grows /\ w.cap = u.cap /\ w.length = u.length
      /\ w.buckets = u.buckets /\ w.live = u.live /\ w.key = u.key
      /\ w.arr = u.arr /\ w.next = u.next
  <2>1. u \in MapType /\ n \in Nodes
    BY DEF Sound, MapType
  <2> QED
    BY <2>1, UpdatedFields
<1>1. \A x \in u.live : w.value[x] = IF x = n THEN v ELSE u.value[x]
  BY <1>0 DEF Sound, MapType
<1>2. Sound(w)
  BY <1>0, <1>1 DEF Sound
<1>3. Hung(w, r)
  BY <1>0 DEF Hung, Homes
<1>4. Stores(w, u, k, v)
  BY <1>0, <1>1 DEF Stores, Says
<1> QED
  BY <1>2, <1>3, <1>4

(* The buckets of a map hold its entries, each in the bucket of its key.    *)
LEMMA ChainsAre ==
  ASSUME NEW u, Sound(u), NEW r, Hung(u, r)
  PROVE  /\ AllChains(u) = u.live
         /\ \A b \in 0..u.cap - 1 :
              /\ Ends(u, u.arr[u.buckets][b])
              /\ Chain(u, u.arr[u.buckets][b]) = {n \in u.live : Homes(u, u.cap)[n] = b}
<1>1. PICK B, H, S, h : B = 0..u.cap - 1 /\ H = u.arr[u.buckets] /\ S = u.live
                        /\ h = Homes(u, u.cap)
  OBVIOUS
<1>2. Linked(B, H, S, r, u.next, h)
  BY <1>1 DEF Hung
<1>3. u.next \in [Nodes -> Pointers] /\ S \in SUBSET Nodes
  BY <1>1, HungFacts
<1>4. \A b \in B : Chain(u, H[b]) = {n \in S : h[n] = b} /\ Ends(u, H[b])
  BY <1>2, <1>3, ChainIs
<1>5. \A n \in S : h[n] \in B
  BY <1>2 DEF Linked
<1>6. AllChains(u) = u.live
  BY <1>1, <1>4, <1>5 DEF AllChains
<1> QED
  BY <1>1, <1>4, <1>6

(* ValueOf on a record of a map, of which is known whether it is moving.    *)
ValueIn(u, b, k) ==
  LET h == {n \in IF b THEN u.live ELSE Chain(u, u.arr[u.buckets][Slot(u, k)]) :
              u.key[n] = k}
  IN  IF h = {} THEN NoVal ELSE u.value[CHOOSE n \in h : TRUE]

(* ValueOf looks in the chain of the key, or everywhere during a move: what *)
(* it finds there is what the map says.                                     *)
LEMMA ValueIs ==
  ASSUME NEW u, Sound(u), NEW b \in BOOLEAN, ~b => \E r : Hung(u, r), NEW k \in Keys
  PROVE  Says(u, k, ValueIn(u, b, k))
<1> DEFINE h == {n \in IF b THEN u.live ELSE Chain(u, u.arr[u.buckets][Slot(u, k)]) :
                   u.key[n] = k}
<1>1. h = {n \in u.live : u.key[n] = k}
  <2>1. CASE b
    BY <2>1
  <2>2. CASE ~b
    <3>1. PICK r : Hung(u, r)
      BY <2>2
    <3>2. Slot(u, k) \in 0..u.cap - 1
      BY <3>1, HungFacts
    <3>3. Chain(u, u.arr[u.buckets][Slot(u, k)])
            = {n \in u.live : Homes(u, u.cap)[n] = Slot(u, k)}
      BY <3>1, <3>2, ChainsAre
    <3>4. \A n \in u.live : Homes(u, u.cap)[n] = Slot(u, u.key[n])
      BY <3>1, HungFacts
    <3> QED
      BY <2>2, <3>3, <3>4
  <2> QED
    BY <2>1, <2>2
<1>2. ValueIn(u, b, k) = IF h = {} THEN NoVal ELSE u.value[CHOOSE n \in h : TRUE]
  BY DEF ValueIn
<1>3. h # {} => (CHOOSE n \in h : TRUE) \in h
  OBVIOUS
<1> HIDE DEF h
<1> QED
  BY <1>1, <1>2, <1>3 DEF Says

(* A map that says the same of every key.                                   *)
LEMMA SaysSame ==
  ASSUME NEW u, NEW w, w.live = u.live, w.key = u.key, w.value = u.value, NEW k, NEW v
  PROVE  Says(w, k, v) <=> Says(u, k, v)
BY DEF Says

--------------------------------------------------------------------------------
(* A new map, and one whose entries move into other buckets.                *)

(* No entry hangs in empty buckets.                                         *)
LEMMA LinkedNone ==
  ASSUME NEW B, NEW H, NEW nx, NEW hm, H \in [B -> {Null}]
  PROVE  \E r : Linked(B, H, {}, r, nx, hm)
<1>1. PICK r : r = [x \in {} |-> 0]
  OBVIOUS
<1>2. r \in [{} -> Nat] /\ H \in [B -> {} \cup {Null}] /\ \A b \in B : H[b] = Null
  BY <1>1
<1>3. Linked(B, H, {}, r, nx, hm)
  BY <1>2 DEF Linked
<1> QED
  BY <1>3

(* hashmap_new makes a map without entries, with one array of empty         *)
(* buckets.                                                                 *)
LEMMA NewMapIs ==
  /\ Sound(NewMap) /\ NewMap.live = {} /\ [NewMap EXCEPT !.live = {}] = NewMap
  /\ \E r : Hung(NewMap, r)
<1> DEFINE D == {i \in DOMAIN Primes : Primes[i] >= InitCap}
           F(i) == Primes[i] >= InitCap /\ \A j \in 1..i - 1 : Primes[j] < InitCap
<1>1. PICK g \in DOMAIN Primes : g = CHOOSE i \in DOMAIN Primes : F(i)
  <2>1. D \in SUBSET Nat /\ D # {}
    BY ConstAssumption
  <2>2. PICK i \in D : \A j \in D : i <= j
    <3> HIDE DEF D
    <3> QED
      BY <2>1, LeastNumber
  <2>3. i \in DOMAIN Primes /\ DOMAIN Primes = 1..Len(Primes) /\ Len(Primes) \in Nat
    BY <2>2, ConstAssumption
  <2>4. ASSUME NEW j \in 1..i - 1 PROVE Primes[j] < InitCap
    <3>1. j \in DOMAIN Primes /\ j \notin D
      BY <2>2, <2>3
    <3>2. Primes[j] \in Nat /\ InitCap \in Nat
      BY <3>1, PrimesAre, ConstAssumption
    <3> QED
      BY <3>1, <3>2
  <2>5. F(i)
    BY <2>2, <2>4
  <2>6. \E j \in DOMAIN Primes : F(j)
    BY <2>3, <2>5
  <2> HIDE DEF F
  <2> QED
    BY <2>6
<1>2. PICK c \in Nat \ {0} : c = Primes[g]
  BY PrimesAre
<1>3. g \in 1..Len(Primes) /\ Len(Primes) \in Nat
  BY ConstAssumption
<1>4. PICK a : a = [i \in Arrays |-> IF i = 0 THEN Buckets(c) ELSE NoArray]
  OBVIOUS
<1>5. 0 \in Arrays
  BY ConstAssumption, FS_CardinalityType DEF Arrays
<1>6. IsTable(Buckets(c)) /\ \A b \in 0..c - 1 : Buckets(c)[b] = Null
  BY <1>2, BucketsAre DEF IsTable
<1>7. a \in [Arrays -> Tables] /\ a[0] = Buckets(c)
      /\ \A i \in Arrays : a[i] # NoArray <=> i = 0
  BY <1>4, <1>5, <1>6, TablesAre
<1>8. /\ NewMap = [grows |-> g - 1, cap |-> c, length |-> 0, buckets |-> 0, arr |-> a,
                   live |-> {}, next |-> [n \in Nodes |-> Null],
                   key |-> [n \in Nodes |-> Null], value |-> [n \in Nodes |-> NoVal]]
  BY <1>1, <1>2, <1>4 DEF NewMap
<1>9. PICK u : u = NewMap
  OBVIOUS
<1>10. /\ u.grows = g - 1 /\ u.cap = c /\ u.length = 0 /\ u.buckets = 0 /\ u.arr = a
       /\ u.live = {} /\ u.next = [n \in Nodes |-> Null]
       /\ [u EXCEPT !.live = {}] = u
  BY <1>8, <1>9
<1>11. u \in MapType
  <2>1. /\ [n \in Nodes |-> Null] \in [Nodes -> Pointers]
        /\ [n \in Nodes |-> Null] \in [Nodes -> Keys \cup {Null}]
        /\ [n \in Nodes |-> NoVal] \in [Nodes -> Vals \cup {NoVal}]
        /\ g - 1 \in Nat /\ {} \in SUBSET Nodes /\ 0 \in Int
    BY <1>3 DEF Pointers
  <2> QED
    BY <1>5, <1>7, <1>8, <1>9, <2>1 DEF MapType
<1>12. Sound(u)
  <2>1. Cardinality({}) = 0
    BY FS_EmptySet
  <2>2. u.grows \in 0..Len(Primes) - 1 /\ u.cap = Primes[u.grows + 1]
    BY <1>2, <1>3, <1>10
  <2> QED
    BY <1>10, <1>11, <2>1, <2>2 DEF Sound
<1>13. \E r : Hung(u, r)
  <2>1. Buckets(c) \in [0..c - 1 -> {Null}]
    BY DEF Buckets
  <2>2. PICK B, H, nx, h : B = 0..c - 1 /\ H = Buckets(c) /\ nx = u.next
                           /\ h = Homes(u, c)
    OBVIOUS
  <2>3. PICK r : Linked(B, H, {}, r, nx, h)
    BY <2>1, <2>2, LinkedNone
  <2>4. Hung(u, r)
    BY <1>7, <1>10, <2>2, <2>3 DEF Hung
  <2> QED
    BY <2>4
<1> QED
  BY <1>9, <1>10, <1>12, <1>13

(* The heads of what is still in the old buckets: nothing in those that are *)
(* done, and in the one at hand what comes after the entry moved last.      *)
OldHeads(u, v) ==
  [b \in 0..v.cap - 1 |-> IF b < v.i THEN Null ELSE IF b = v.i THEN v.head
                          ELSE u.arr[v.old][b]]

(* The entries of S are still to be moved.                                  *)
Split(u, v, S) ==
  /\ Sound(u) /\ v \in Cursors
  /\ v.old = u.buckets /\ v.cap = u.cap /\ v.grows = u.grows + 1
  /\ v.grows + 1 \in DOMAIN Primes
  /\ v.i \in 0..v.cap - 1
  /\ v.old # v.new /\ \A i \in Arrays : u.arr[i] # NoArray <=> i \in {v.old, v.new}
  /\ DOMAIN u.arr[v.old] = 0..v.cap - 1
  /\ u.arr[v.new] \in [0..Primes[v.grows + 1] - 1 -> Pointers]
  /\ S \subseteq u.live
  /\ \E r : Linked(0..v.cap - 1, OldHeads(u, v), S, r, u.next, Homes(u, v.cap))
  /\ \E r : Linked(0..Primes[v.grows + 1] - 1, u.arr[v.new], u.live \ S, r, u.next,
                   Homes(u, Primes[v.grows + 1]))

MoveInv(u, v) == \E S : Split(u, v, S)

(* There is an array to allocate for a thread that is the only one to move. *)
LEMMA AnArrayIsFree ==
  ASSUME NEW t \in Threads, NEW u, NEW r, Hung(u, r)
  PROVE  \E i \in Arrays : u.arr[i] = NoArray
<1>1. Cardinality(Threads) \in Nat /\ Cardinality(Threads) # 0
  BY ConstAssumption, FS_CardinalityType, FS_EmptySet
<1>2. 0 \in Arrays /\ 1 \in Arrays
  BY <1>1 DEF Arrays
<1> QED
  BY <1>2 DEF Hung

(* A resize begins, all entries before it.                                  *)
LEMMA StartsSplit ==
  ASSUME NEW u, Sound(u), NEW r, Hung(u, r), MustGrow(u),
         NEW new \in Arrays, u.arr[new] = NoArray, NEW w, w = Allocated(u, new), NEW v,
         v = [old |-> u.buckets, cap |-> u.cap, grows |-> u.grows + 1, new |-> new,
              i |-> 0, head |-> u.arr[u.buckets][0]]
  PROVE  OnlyLinks(w, u) /\ Split(w, v, u.live)
<1>0. /\ u \in MapType /\ u.grows \in Nat /\ u.cap \in Nat /\ u.cap > 0
      /\ u.buckets \in Arrays /\ u.live \subseteq Nodes
      /\ u.arr[u.buckets] \in [0..u.cap - 1 -> u.live \cup {Null}]
  BY HungFacts DEF Sound
<1>1. PICK j \in DOMAIN Primes : j = u.grows + 2
  <2>1. u.grows + 1 < Len(Primes) /\ Len(Primes) \in Nat /\ DOMAIN Primes = 1..Len(Primes)
    BY ConstAssumption DEF MustGrow
  <2>2. u.grows + 2 \in 1..Len(Primes)
    BY <1>0, <2>1
  <2> QED
    BY <2>1, <2>2
<1>2. PICK f \in [0..Primes[j] - 1 -> {Null}] : f = Buckets(Primes[j])
  BY DEF Buckets
<1>3. OnlyLinks(w, u) /\ w.next = u.next /\ w.arr = [u.arr EXCEPT ![new] = f]
  BY <1>0, <1>1, <1>2, AllocatedFields
<1>4. f # NoArray /\ f \in [0..Primes[j] - 1 -> Pointers]
  <2>1. IsTable(f) /\ f \in [0..Primes[j] - 1 -> Pointers]
    BY <1>2, BucketsAre DEF IsTable
  <2> QED
    BY <2>1, TablesAre
<1>5. \A i \in Arrays : u.arr[i] # NoArray <=> i = u.buckets
  BY DEF Hung
<1>6. /\ w.arr[new] = f /\ w.arr[u.buckets] = u.arr[u.buckets] /\ new # u.buckets
      /\ \A i \in Arrays : w.arr[i] # NoArray <=> i \in {u.buckets, new}
  BY <1>0, <1>3, <1>4, <1>5 DEF MapType
<1>7. v \in Cursors
  <2>1. u.arr[u.buckets][0] \in Pointers /\ 0 \in Nat /\ u.grows + 1 \in Nat
    BY <1>0 DEF Pointers
  <2> QED
    BY <1>0, <2>1 DEF Cursors
<1>8. Sound(w)
  BY <1>3 DEF Sound, OnlyLinks
<1>9. OldHeads(w, v) = u.arr[u.buckets]
  <2>1. \A b \in 0..u.cap - 1 : OldHeads(w, v)[b] = u.arr[u.buckets][b]
    BY <1>0, <1>6 DEF OldHeads
  <2>2. OldHeads(w, v) = [b \in 0..u.cap - 1 |-> OldHeads(w, v)[b]]
    BY DEF OldHeads
  <2> QED
    BY <1>0, <2>1, <2>2
<1>10. Linked(0..v.cap - 1, OldHeads(w, v), u.live, r, w.next, Homes(w, v.cap))
  BY <1>3, <1>9 DEF Hung, Homes, OnlyLinks
<1>11. \E q : Linked(0..Primes[j] - 1, f, {}, q, w.next, Homes(w, Primes[j]))
  BY <1>2, LinkedNone
<1>12. w.live \ u.live = {} /\ w.live = u.live
  BY <1>3 DEF OnlyLinks
<1>13. v.old = u.buckets /\ v.cap = u.cap /\ v.grows = u.grows + 1 /\ v.i = 0 /\ v.new = new
       /\ v.grows + 1 = j
  BY <1>0, <1>1
<1>14. Split(w, v, u.live)
  <2>1. w.buckets = u.buckets /\ w.cap = u.cap /\ w.grows = u.grows
    BY <1>3 DEF OnlyLinks
  <2>2. v.old = w.buckets /\ v.cap = w.cap /\ v.grows = w.grows + 1 /\ v.grows + 1 \in DOMAIN Primes
    BY <1>1, <1>13, <2>1
  <2>3. v.i \in 0..v.cap - 1
    BY <1>0, <1>13
  <2>4. v.old # v.new /\ \A i \in Arrays : w.arr[i] # NoArray <=> i \in {v.old, v.new}
    BY <1>6, <1>13
  <2>5. DOMAIN w.arr[v.old] = 0..v.cap - 1
    BY <1>0, <1>6, <1>13
  <2>6. w.arr[v.new] \in [0..Primes[v.grows + 1] - 1 -> Pointers]
    BY <1>4, <1>6, <1>13
  <2>7. \E q : Linked(0..Primes[v.grows + 1] - 1, w.arr[v.new], w.live \ u.live, q, w.next,
                     Homes(w, Primes[v.grows + 1]))
    BY <1>6, <1>11, <1>12, <1>13
  <2> QED
    BY <1>7, <1>8, <1>10, <1>12, <2>2, <2>3, <2>4, <2>5, <2>6, <2>7 DEF Split
<1> QED
  BY <1>3, <1>14

(* The entry at hand goes from the old buckets to the new ones.             *)
LEMMA MovesOne ==
  ASSUME NEW u, NEW v, NEW S, Split(u, v, S), v.head # Null,
         NEW w, w = MoveTo(u, v.new, v.head), NEW v2, v2 = AfterEntry(u, v)
  PROVE  v.head \in S /\ OnlyLinks(w, u) /\ Split(w, v2, S \ {v.head})
<1> DEFINE n == v.head
           P == Primes[v.grows + 1]
<1>0. /\ Sound(u) /\ v \in Cursors
      /\ v.old = u.buckets /\ v.cap = u.cap /\ v.grows = u.grows + 1
      /\ v.grows + 1 \in DOMAIN Primes
      /\ v.i \in 0..v.cap - 1
      /\ v.old # v.new /\ \A i \in Arrays : u.arr[i] # NoArray <=> i \in {v.old, v.new}
      /\ DOMAIN u.arr[v.old] = 0..v.cap - 1
      /\ u.arr[v.new] \in [0..P - 1 -> Pointers]
      /\ S \subseteq u.live
  BY DEF Split
<1>1. PICK r1 : Linked(0..v.cap - 1, OldHeads(u, v), S, r1, u.next, Homes(u, v.cap))
  BY DEF Split
<1>2. PICK r2 : Linked(0..P - 1, u.arr[v.new], u.live \ S, r2, u.next, Homes(u, P))
  BY DEF Split
<1>3. PICK B, H, h, D, G, g :
        /\ B = 0..v.cap - 1 /\ H = OldHeads(u, v) /\ h = Homes(u, v.cap)
        /\ D = 0..P - 1 /\ G = u.arr[v.new] /\ g = Homes(u, P)
  OBVIOUS
<1>4. Linked(B, H, S, r1, u.next, h) /\ Linked(D, G, u.live \ S, r2, u.next, g)
  BY <1>1, <1>2, <1>3
<1>5. v.i \in B /\ H[v.i] = n /\ n \in S
  <2>1. v.i \in B /\ H[v.i] = n
    BY <1>0, <1>3 DEF OldHeads
  <2> QED
    BY <1>4, <2>1 DEF Linked
<1>6. u \in MapType /\ n \in u.live /\ u.live \subseteq Nodes /\ n \in Nodes /\ u.key[n] \in Keys
  BY <1>0, <1>5 DEF Sound, MapType
<1>7. PICK j \in DOMAIN Primes : j = v.grows + 1
  BY <1>0
<1>8. PICK b : b = Hash[u.key[n]] % P
  OBVIOUS
<1>9. v.new \in Arrays /\ v.old \in Arrays /\ v.i \in Nat
  BY <1>0 DEF Cursors
<1>10. /\ OnlyLinks(w, u) /\ b \in D /\ w.next = [u.next EXCEPT ![n] = G[b]]
       /\ w.arr = [u.arr EXCEPT ![v.new] = [G EXCEPT ![b] = n]]
  BY <1>0, <1>3, <1>6, <1>7, <1>8, <1>9, MoveToFields
<1>11. /\ v2 \in Cursors /\ v2.head = u.next[n]
       /\ v2.old = v.old /\ v2.cap = v.cap /\ v2.grows = v.grows /\ v2.new = v.new
       /\ v2.i = v.i
  <2>1. u.next[n] \in Pointers
    BY <1>6 DEF MapType
  <2> QED
    BY <1>0, <2>1 DEF AfterEntry, Cursors
<1>12. /\ w.live = u.live /\ w.key = u.key /\ w.buckets = u.buckets /\ w.cap = u.cap
       /\ w.grows = u.grows
       /\ w.next[n] = G[b] /\ \A x \in Nodes \ {n} : w.next[x] = u.next[x]
       /\ w.arr[v.old] = u.arr[v.old] /\ w.arr[v.new] = [G EXCEPT ![b] = n]
       /\ \A i \in Arrays \ {v.new} : w.arr[i] = u.arr[i]
  BY <1>0, <1>6, <1>9, <1>10 DEF OnlyLinks, MapType
<1>13. Sound(w)
  BY <1>0, <1>6, <1>10, <1>12 DEF Sound, OnlyLinks
<1>14. w.arr[v.new] \in [0..P - 1 -> Pointers] /\ w.arr[v.new] # NoArray
  <2>0. G \in [D -> Pointers] /\ n \in Pointers
    BY <1>0, <1>3, <1>6 DEF Pointers
  <2>1. w.arr[v.new] \in [0..P - 1 -> Pointers]
    BY <1>3, <1>12, <2>0
  <2>2. IsTable(w.arr[v.new])
    BY <1>7, <2>1 DEF IsTable
  <2> QED
    BY <2>1, <2>2, TablesAre
<1>15. \E q : Linked(B, OldHeads(w, v2), S \ {n}, q, w.next, h)
  <2>1. PICK x0 \in S : x0 = n
    BY <1>5
  <2>2. PICK H2 : H2 = OldHeads(w, v2)
    OBVIOUS
  <2>3. /\ \A c, d \in B : H[c] = x0 /\ H[d] = x0 => c = d
        /\ \A c \in B, x \in S : H[c] = x0 => u.next[x] # x0
    BY <1>4, OneWayIn
  <2>4. \A c \in B : H2[c] = Past(u.next, x0, H[c])
    <3> SUFFICES ASSUME NEW c \in B PROVE H2[c] = Past(u.next, x0, H[c])
      OBVIOUS
    <3>1. H2[c] = IF c < v.i THEN Null ELSE IF c = v.i THEN u.next[n] ELSE u.arr[v.old][c]
      BY <1>3, <1>11, <1>12, <2>2 DEF OldHeads
    <3>2. H[c] = IF c < v.i THEN Null ELSE IF c = v.i THEN n ELSE u.arr[v.old][c]
      BY <1>3 DEF OldHeads
    <3>3. CASE c = v.i
      BY <1>5, <1>9, <2>1, <3>1, <3>2, <3>3 DEF Past
    <3>4. CASE c # v.i
      <4>1. H[c] # x0
        BY <1>5, <2>1, <2>3, <3>4
      <4> QED
        BY <3>1, <3>2, <3>4, <4>1 DEF Past
    <3> QED
      BY <3>3, <3>4
  <2>5. H2 \in [B -> S \cup {Null}]
    <3>1. \A x \in S : u.next[x] \in S \cup {Null}
      BY <1>4 DEF Linked
    <3>2. H \in [B -> S \cup {Null}]
      BY <1>4 DEF Linked
    <3>3. H2 = [c \in B |-> H2[c]]
      BY <1>3, <1>11, <2>2 DEF OldHeads
    <3>4. \A c \in B : H2[c] \in S \cup {Null}
      BY <2>4, <3>1, <3>2 DEF Past
    <3> QED
      BY <3>3, <3>4
  <2>6. \A x \in S \ {x0} : w.next[x] = Past(u.next, x0, u.next[x]) /\ h[x] = h[x]
    BY <1>0, <1>5, <1>6, <1>12, <2>1, <2>3 DEF Past
  <2>7. Bypassed(B, H, S, u.next, h, x0, H2, w.next, h)
    BY <2>4, <2>5, <2>6 DEF Bypassed
  <2>8. \E q : Linked(B, H2, S \ {x0}, q, w.next, h)
    BY <1>4, <2>7, TakeOut
  <2> QED
    BY <2>1, <2>2, <2>8
<1>16. \E q : Linked(D, w.arr[v.new], w.live \ (S \ {n}), q, w.next, g)
  <2>1. PICK T, H2 : T = u.live \ S /\ H2 = w.arr[v.new]
    OBVIOUS
  <2>2. G \in [D -> T \cup {Null}]
    BY <1>4, <2>1 DEF Linked
  <2>3. H2 \in [D -> T \cup {n, Null}] /\ H2[b] = n /\ \A c \in D \ {b} : H2[c] = G[c]
    BY <1>10, <1>12, <2>1, <2>2
  <2>4. n \notin T /\ n # Null
    BY <1>5, <2>1
  <2>5. g[n] = b
    BY <1>3, <1>6, <1>8 DEF Homes
  <2>6. \A x \in T : w.next[x] = u.next[x] /\ g[x] = g[x]
    BY <1>6, <1>12, <2>1, <2>4
  <2>7. \E q : Linked(D, H2, T \cup {n}, q, w.next, g)
    <3>1. Linked(D, G, T, r2, u.next, g) /\ b \in D /\ w.next[n] = G[b]
      BY <1>4, <1>10, <1>12, <2>1
    <3> QED
      BY <2>3, <2>4, <2>5, <2>6, <3>1, PutFirst
  <2>8. T \cup {n} = w.live \ (S \ {n})
    BY <1>5, <1>6, <1>12, <2>1
  <2> QED
    BY <2>1, <2>7, <2>8
<1>17. Homes(w, v.cap) = h /\ Homes(w, P) = g
  BY <1>3, <1>12 DEF Homes
<1>18. Split(w, v2, S \ {n})
  <2>1. v2.old = w.buckets /\ v2.cap = w.cap /\ v2.grows = w.grows + 1
        /\ v2.grows + 1 \in DOMAIN Primes /\ v2.i \in 0..v2.cap - 1
    BY <1>0, <1>11, <1>12
  <2>2. v2.old # v2.new /\ \A i \in Arrays : w.arr[i] # NoArray <=> i \in {v2.old, v2.new}
    BY <1>0, <1>11, <1>12, <1>14
  <2>3. DOMAIN w.arr[v2.old] = 0..v2.cap - 1
    BY <1>0, <1>11, <1>12
  <2>4. w.arr[v2.new] \in [0..Primes[v2.grows + 1] - 1 -> Pointers]
    BY <1>11, <1>14
  <2>5. S \ {n} \subseteq w.live
    BY <1>0, <1>12
  <2>6. \E q : Linked(0..v2.cap - 1, OldHeads(w, v2), S \ {n}, q, w.next, Homes(w, v2.cap))
    BY <1>3, <1>11, <1>15, <1>17
  <2>7. \E q : Linked(0..Primes[v2.grows + 1] - 1, w.arr[v2.new], w.live \ (S \ {n}), q, w.next,
                     Homes(w, Primes[v2.grows + 1]))
    BY <1>3, <1>11, <1>16, <1>17
  <2> QED
    BY <1>11, <1>13, <2>1, <2>2, <2>3, <2>4, <2>5, <2>6, <2>7 DEF Split
<1> QED
  BY <1>5, <1>10, <1>18

(* The next of the old buckets.                                             *)
LEMMA MovesOn ==
  ASSUME NEW u, NEW v, NEW S, Split(u, v, S), v.head = Null, v.i + 1 < v.cap,
         NEW v2, v2 = AfterBucket(u, v)
  PROVE  Split(u, v2, S)
<1>0. /\ Sound(u) /\ v \in Cursors /\ v.old = u.buckets /\ v.i \in 0..v.cap - 1
      /\ DOMAIN u.arr[v.old] = 0..v.cap - 1
  BY DEF Split
<1>1. v.i \in Nat /\ v.cap \in Nat /\ v.i + 1 \in 0..v.cap - 1 /\ v.old \in Arrays
  BY <1>0 DEF Cursors
<1>2. u.arr[v.old][v.i + 1] \in Pointers
  <2>1. u.arr[v.old] \in Tables /\ u.arr[v.old] # NoArray
    BY <1>0, <1>1 DEF Split, Sound, MapType
  <2>2. IsTable(u.arr[v.old])
    BY <2>1, TablesAre
  <2>3. PICK j \in DOMAIN Primes : u.arr[v.old] \in [0..Primes[j] - 1 -> Pointers]
    BY <2>2 DEF IsTable
  <2> QED
    BY <1>0, <1>1, <2>3
<1>3. /\ v2 \in Cursors /\ v2.i = v.i + 1 /\ v2.head = u.arr[v.old][v.i + 1]
      /\ v2.old = v.old /\ v2.cap = v.cap /\ v2.grows = v.grows /\ v2.new = v.new
  <2>1. PICK p \in Pointers : p = u.arr[v.old][v.i + 1]
    BY <1>2
  <2>2. PICK i \in Nat : i = v.i + 1
    BY <1>1
  <2>3. v2 = [v EXCEPT !.i = i, !.head = p]
    BY <2>1, <2>2 DEF AfterBucket
  <2> QED
    BY <1>0, <2>1, <2>2, <2>3 DEF Cursors
<1>4. OldHeads(u, v2) = OldHeads(u, v)
  <2>1. ASSUME NEW b \in 0..v.cap - 1 PROVE OldHeads(u, v2)[b] = OldHeads(u, v)[b]
    <3>1. b \in Int
      OBVIOUS
    <3>2. CASE b < v.i
      BY <1>1, <1>3, <3>1, <3>2 DEF OldHeads
    <3>3. CASE b = v.i
      BY <1>1, <1>3, <3>1, <3>3 DEF OldHeads
    <3>4. CASE b = v.i + 1
      BY <1>1, <1>3, <3>1, <3>4 DEF OldHeads
    <3>5. CASE b > v.i + 1
      BY <1>1, <1>3, <3>1, <3>5 DEF OldHeads
    <3> QED
      BY <1>1, <3>1, <3>2, <3>3, <3>4, <3>5
  <2>2. /\ OldHeads(u, v2) = [b \in 0..v.cap - 1 |-> OldHeads(u, v2)[b]]
        /\ OldHeads(u, v) = [b \in 0..v.cap - 1 |-> OldHeads(u, v)[b]]
    BY <1>3 DEF OldHeads
  <2> QED
    BY <2>1, <2>2
<1> QED
  BY <1>1, <1>3, <1>4 DEF Split

(* After the last bucket nothing is left, and the new buckets are put in.   *)
LEMMA MoveEnds ==
  ASSUME NEW u, NEW v, NEW S, Split(u, v, S), v.head = Null, v.i + 1 = v.cap,
         NEW w, w = Installed(u, v.grows, v.new, v.old)
  PROVE  /\ Sound(w) /\ \E r : Hung(w, r)
         /\ w.live = u.live /\ w.key = u.key /\ w.value = u.value
<1> DEFINE P == Primes[v.grows + 1]
<1>0. /\ Sound(u) /\ v \in Cursors
      /\ v.old = u.buckets /\ v.cap = u.cap /\ v.grows = u.grows + 1
      /\ v.grows + 1 \in DOMAIN Primes
      /\ v.i \in 0..v.cap - 1
      /\ v.old # v.new /\ \A i \in Arrays : u.arr[i] # NoArray <=> i \in {v.old, v.new}
      /\ u.arr[v.new] \in [0..P - 1 -> Pointers]
      /\ S \subseteq u.live
  BY DEF Split
<1>1. PICK B, H, h, D, G, g :
        /\ B = 0..v.cap - 1 /\ H = OldHeads(u, v) /\ h = Homes(u, v.cap)
        /\ D = 0..P - 1 /\ G = u.arr[v.new] /\ g = Homes(u, P)
  OBVIOUS
<1>2. PICK r1 : Linked(B, H, S, r1, u.next, h)
  BY <1>1 DEF Split
<1>3. PICK r2 : Linked(D, G, u.live \ S, r2, u.next, g)
  BY <1>1 DEF Split
<1>4. S = {}
  <2> SUFFICES ASSUME NEW x \in S PROVE FALSE
    OBVIOUS
  <2>1. PICK b \in B : b = h[x]
    BY <1>2 DEF Linked
  <2>2. H[b] = Null
    BY <1>0, <1>1, <2>1 DEF OldHeads, Cursors
  <2> QED
    BY <1>2, <2>1, <2>2, NoneIn
<1>5. u \in MapType /\ v.new \in Arrays /\ v.old \in Arrays /\ v.grows \in Nat
  BY <1>0 DEF Sound, Cursors
<1>6. PICK j \in DOMAIN Primes : j = v.grows + 1
  BY <1>0
<1>7. Replaces(w, u, v.grows, P, v.new, v.old)
  BY <1>0, <1>5, <1>6, InstalledFields
<1>8. /\ w \in MapType /\ w.grows = v.grows /\ w.cap = P /\ w.buckets = v.new
      /\ w.arr = [u.arr EXCEPT ![v.old] = NoArray]
      /\ w.next = u.next /\ w.live = u.live /\ w.length = u.length
      /\ w.key = u.key /\ w.value = u.value
  BY <1>7 DEF Replaces
<1>9. Sound(w)
  <2>1. v.grows \in 0..Len(Primes) - 1
    <3>1. DOMAIN Primes = 1..Len(Primes) /\ Len(Primes) \in Nat
      BY ConstAssumption
    <3> QED
      BY <1>0, <1>5, <3>1
  <2> QED
    BY <1>0, <1>8, <2>1 DEF Sound
<1>10. Hung(w, r2)
  <2>1. w.arr[v.new] = G /\ \A i \in Arrays : w.arr[i] # NoArray <=> i = v.new
    BY <1>0, <1>1, <1>5, <1>8 DEF MapType
  <2>2. Homes(w, P) = g
    BY <1>1, <1>8 DEF Homes
  <2>3. Linked(0..w.cap - 1, w.arr[w.buckets], w.live, r2, w.next, Homes(w, w.cap))
    BY <1>1, <1>3, <1>4, <1>8, <2>1, <2>2
  <2> QED
    BY <1>8, <2>1, <2>3 DEF Hung
<1> QED
  BY <1>8, <1>9, <1>10

(* All turns of the loops, one after the other: each moves an entry or goes *)
(* on to the next bucket, so there are enough of them.                      *)
Done(v) == v.head = Null /\ v.i + 1 = v.cap

Left(v, S) == v.cap - 1 - v.i + Cardinality(S)

Same(v2, v) == v2.old = v.old /\ v2.cap = v.cap /\ v2.grows = v.grows /\ v2.new = v.new

Turns(x, S, y, S2) ==
  /\ Split(y.u, y.v, S2) /\ OnlyLinks(y.u, x.u) /\ Same(y.v, x.v)
  /\ Done(x.v) => Done(y.v)
  /\ Done(y.v) \/ Left(y.v, S2) + 1 = Left(x.v, S)

(* What is left of a move, in numbers.                                      *)
LEMMA SplitFacts ==
  ASSUME NEW u, NEW v, NEW S, Split(u, v, S)
  PROVE  /\ u \in MapType /\ v \in Cursors /\ OnlyLinks(u, u) /\ IsFiniteSet(S)
         /\ Cardinality(S) \in Nat /\ Cardinality(S) <= Cardinality(Nodes)
         /\ v.i \in Nat /\ v.cap \in Nat /\ v.i + 1 <= v.cap /\ Left(v, S) \in Nat
         /\ Cardinality(Nodes) \in Nat
<1>1. u \in MapType /\ S \subseteq Nodes /\ v \in Cursors /\ v.i \in 0..v.cap - 1
  BY DEF Split, Sound, MapType
<1>2. IsFiniteSet(S) /\ Cardinality(S) <= Cardinality(Nodes) /\ IsFiniteSet(Nodes)
  BY <1>1, ConstAssumption, FS_Subset
<1>3. Cardinality(S) \in Nat /\ Cardinality(Nodes) \in Nat
  BY <1>2, FS_CardinalityType
<1>4. v.cap \in Nat /\ v.i \in Nat
  BY <1>1 DEF Cursors
<1>5. v.i + 1 <= v.cap
  BY <1>1, <1>4
<1>6. Left(v, S) \in Nat
  BY <1>3, <1>4, <1>5 DEF Left
<1> QED
  BY <1>1, <1>2, <1>3, <1>4, <1>5, <1>6 DEF OnlyLinks

(* One turn of the loops moves the entry at hand, or goes to the next       *)
(* bucket, and there is less left; at the end it does nothing.              *)
LEMMA TurnIs ==
  ASSUME NEW x \in [u : MapType, v : Cursors], NEW S, Split(x.u, x.v, S)
  PROVE  Turn(x) \in [u : MapType, v : Cursors] /\ \E S2 : Turns(x, S, Turn(x), S2)
<1>0. /\ OnlyLinks(x.u, x.u) /\ IsFiniteSet(S) /\ Cardinality(S) \in Nat
      /\ x.v.i \in Nat /\ x.v.cap \in Nat /\ x.v.i + 1 <= x.v.cap
  BY SplitFacts
<1>1. PICK y : y = Turn(x)
  OBVIOUS
<1>2. CASE x.v.head # Null
  <2>1. PICK w, v2, n : w = MoveTo(x.u, x.v.new, x.v.head) /\ v2 = AfterEntry(x.u, x.v)
                        /\ n = x.v.head
    OBVIOUS
  <2>2. n \in S /\ OnlyLinks(w, x.u) /\ Split(w, v2, S \ {n})
    BY <1>2, <2>1, MovesOne
  <2>3. y = [u |-> w, v |-> v2]
    BY <1>1, <1>2, <2>1 DEF Turn
  <2>4. y.u = w /\ y.v = v2
    BY <2>3
  <2>5. Same(v2, x.v) /\ v2.i = x.v.i
    BY <2>1 DEF AfterEntry, Same, Cursors
  <2>6. Cardinality(S \ {n}) = Cardinality(S) - 1
    BY <1>0, <2>2, FS_RemoveElement
  <2>7. Left(v2, S \ {n}) + 1 = Left(x.v, S)
    BY <1>0, <2>5, <2>6 DEF Left, Same
  <2>8. w \in MapType /\ v2 \in Cursors
    BY <2>2, SplitFacts
  <2>9. Turns(x, S, y, S \ {n})
    BY <1>2, <2>2, <2>4, <2>5, <2>7 DEF Turns, Done
  <2> QED
    BY <1>1, <2>3, <2>8, <2>9
<1>3. CASE x.v.head = Null /\ x.v.i + 1 < x.v.cap
  <2>1. PICK v2 : v2 = AfterBucket(x.u, x.v)
    OBVIOUS
  <2>2. Split(x.u, v2, S)
    BY <1>3, <2>1, MovesOn
  <2>3. y = [u |-> x.u, v |-> v2]
    BY <1>1, <1>3, <2>1 DEF Turn
  <2>4. y.u = x.u /\ y.v = v2
    BY <2>3
  <2>5. Same(v2, x.v) /\ v2.i = x.v.i + 1
    BY <2>1 DEF AfterBucket, Same, Cursors
  <2>6. Left(v2, S) + 1 = Left(x.v, S)
    BY <1>0, <2>5 DEF Left, Same
  <2>7. x.u \in MapType /\ v2 \in Cursors
    BY <2>2, SplitFacts
  <2>8. Turns(x, S, y, S)
    BY <1>0, <1>3, <2>2, <2>4, <2>5, <2>6 DEF Turns, Done
  <2> QED
    BY <1>1, <2>3, <2>7, <2>8
<1>4. CASE x.v.head = Null /\ ~(x.v.i + 1 < x.v.cap)
  <2>1. y = x
    BY <1>1, <1>4 DEF Turn
  <2>2. Done(x.v)
    BY <1>0, <1>4 DEF Done
  <2>3. Turns(x, S, y, S)
    BY <1>0, <2>1, <2>2 DEF Turns, Same
  <2> QED
    BY <1>1, <2>1, <2>3
<1> QED
  BY <1>2, <1>3, <1>4

TurnSteps(u, v, w) ==
  w = [k \in 0..v.cap + Cardinality(Nodes) |->
         IF k = 0 THEN [u |-> u, v |-> v] ELSE Turn(w[k - 1])]

(* So after as many turns as buckets and entries, all have been moved.      *)
LEMMA AllMovedIs ==
  ASSUME NEW u, NEW v, NEW S, Split(u, v, S)
  PROVE  \E v2, S2 : /\ Split(AllMoved(u, v), v2, S2) /\ Done(v2)
                     /\ OnlyLinks(AllMoved(u, v), u) /\ Same(v2, v)
<1> DEFINE T    == v.cap + Cardinality(Nodes)
           XT   == [u : MapType, v : Cursors]
           X    == {x \in XT : MoveInv(x.u, x.v)}
           x0   == [u |-> u, v |-> v]
           F    == [k \in 1..T |-> [x \in X |-> Turn(x)]]
           met  == CHOOSE w : TurnSteps(u, v, w)
<1>0. /\ u \in MapType /\ v \in Cursors /\ OnlyLinks(u, u) /\ v.cap \in Nat /\ v.i \in Nat
      /\ Cardinality(Nodes) \in Nat /\ Cardinality(S) \in Nat
      /\ Cardinality(S) <= Cardinality(Nodes)
  BY SplitFacts
<1>1. T \in Nat
  BY <1>0
<1>2. x0 \in X
  BY <1>0 DEF MoveInv
<1>3. \A x \in X : Turn(x) \in X
  <2> SUFFICES ASSUME NEW x \in X PROVE Turn(x) \in X
    OBVIOUS
  <2>1. PICK R : Split(x.u, x.v, R)
    BY DEF MoveInv
  <2>2. Turn(x) \in XT /\ \E R2 : Turns(x, R, Turn(x), R2)
    BY <2>1, TurnIs
  <2>3. MoveInv(Turn(x).u, Turn(x).v)
    BY <2>2 DEF Turns, MoveInv
  <2> QED
    BY <2>2, <2>3
<1>4. F \in [1..T -> [X -> X]] /\ \A k \in 1..T : F[k] = [x \in X |-> Turn(x)]
  <2>1. [x \in X |-> Turn(x)] \in [X -> X]
    BY <1>3
  <2> HIDE DEF X
  <2> QED
    BY <2>1
<1>5. PICK w \in [0..T -> X] : w[0] = x0 /\ \A k \in 1..T : w[k] = Turn(w[k - 1])
  <2>1. PICK w : Goes(T, X, x0, F, w)
    <3> HIDE DEF T, X, x0, F
    <3> QED
      BY <1>1, <1>2, <1>4, Recursion
  <2>2. w \in [0..T -> X] /\ w[0] = x0 /\ \A k \in 1..T : w[k] = F[k][w[k - 1]]
    <3> HIDE DEF T, X, x0, F
    <3> QED
      BY <2>1 DEF Goes
  <2>3. ASSUME NEW k \in 1..T PROVE w[k] = Turn(w[k - 1])
    <3>1. k - 1 \in 0..T
      BY <1>1
    <3> HIDE DEF T, X, F
    <3>2. w[k - 1] \in X
      BY <2>2, <3>1
    <3>3. w[k] = [x \in X |-> Turn(x)][w[k - 1]]
      BY <1>4, <2>2
    <3> QED
      BY <3>2, <3>3
  <2> QED
    BY <2>2, <2>3
<1> HIDE DEF X
<1>6. TurnSteps(u, v, w)
  <2>1. ASSUME NEW k \in 0..T PROVE w[k] = IF k = 0 THEN x0 ELSE Turn(w[k - 1])
    <3>1. k # 0 => k \in 1..T
      BY <1>1
    <3> QED
      BY <1>5, <3>1
  <2>2. w = [k \in 0..T |-> w[k]]
    BY <1>5
  <2> QED
    BY <2>1, <2>2 DEF TurnSteps
<1>7. TurnSteps(u, v, met)
  BY <1>6
<1>8. AllMoved(u, v) = met[T].u
  BY DEF AllMoved, TurnSteps
<1> HIDE DEF met
<1>9. met[0] = x0 /\ \A k \in 1..T : met[k] = Turn(met[k - 1])
  <2>1. met = [k \in 0..T |-> IF k = 0 THEN x0 ELSE Turn(met[k - 1])]
    BY <1>7 DEF TurnSteps
  <2>2. 0 \in 0..T /\ \A k \in 1..T : k \in 0..T /\ k # 0
    BY <1>1
  <2> HIDE DEF T, x0
  <2> QED
    BY <2>1, <2>2
<1> DEFINE Q(k) == /\ met[k] \in XT
                   /\ \E R : /\ Split(met[k].u, met[k].v, R) /\ OnlyLinks(met[k].u, u)
                             /\ Same(met[k].v, v)
                             /\ Done(met[k].v) \/ Left(met[k].v, R) + k <= Left(v, S)
           good == {k \in 0..T : Q(k)}
<1>10. Q(0)
  <2>1. met[0].u = u /\ met[0].v = v /\ met[0] \in XT
    BY <1>0, <1>9
  <2>2. Same(v, v) /\ Left(v, S) + 0 <= Left(v, S)
    BY SplitFacts DEF Same
  <2> QED
    BY <1>0, <2>1, <2>2
<1>11. ASSUME NEW k \in 1..T, Q(k - 1) PROVE Q(k)
  <2>0. k \in Nat
    BY <1>1
  <2>1. PICK x, y : x \in XT /\ x = met[k - 1] /\ y = met[k] /\ y = Turn(x)
    BY <1>9, <1>11
  <2>2. PICK R : /\ Split(x.u, x.v, R) /\ OnlyLinks(x.u, u) /\ Same(x.v, v)
                 /\ Done(x.v) \/ Left(x.v, R) + (k - 1) <= Left(v, S)
    BY <1>11, <2>1
  <2>3. y \in XT /\ \E R2 : Turns(x, R, y, R2)
    BY <2>1, <2>2, TurnIs
  <2>4. PICK R2 : Turns(x, R, y, R2)
    BY <2>3
  <2>5. Split(y.u, y.v, R2) /\ OnlyLinks(y.u, u) /\ Same(y.v, v)
    BY <2>2, <2>4 DEF Turns, OnlyLinks, Same
  <2>6. Done(y.v) \/ Left(y.v, R2) + k <= Left(v, S)
    <3>1. Left(x.v, R) \in Nat /\ Left(y.v, R2) \in Nat /\ Left(v, S) \in Nat
      BY <2>2, <2>5, SplitFacts
    <3>2. /\ Done(x.v) => Done(y.v)
          /\ Done(y.v) \/ Left(y.v, R2) + 1 = Left(x.v, R)
      BY <2>4 DEF Turns
    <3> QED
      BY <2>0, <2>2, <3>1, <3>2
  <2> QED
    BY <2>1, <2>3, <2>5, <2>6
<1>12. good = 0..T
  <2>1. good \in SUBSET (0..T) /\ 0 \in good
    BY <1>1, <1>10
  <2> HIDE DEF Q
  <2>2. \A k \in 1..T : k - 1 \in good => k \in good
    <3> SUFFICES ASSUME NEW k \in 1..T, k - 1 \in good PROVE k \in good
      OBVIOUS
    <3>1. k \in 0..T /\ Q(k - 1)
      BY <1>1
    <3>2. Q(k)
      BY <1>11, <3>1
    <3> QED
      BY <3>1, <3>2
  <2> HIDE DEF good, T
  <2> QED
    BY <1>1, <2>1, <2>2, Upward
<1>13. Q(T)
  BY <1>1, <1>12
<1>14. PICK y, R : /\ y = met[T] /\ Split(y.u, y.v, R) /\ OnlyLinks(y.u, u) /\ Same(y.v, v)
                   /\ Done(y.v) \/ Left(y.v, R) + T <= Left(v, S)
  BY <1>13
<1>15. Done(y.v)
  <2>1. Left(y.v, R) \in Nat
    BY <1>14, SplitFacts
  <2>2. Left(v, S) < T
    BY <1>0 DEF Left
  <2>3. Left(v, S) \in Nat
    BY SplitFacts
  <2> QED
    BY <1>1, <1>14, <2>1, <2>2, <2>3
<1> QED
  BY <1>8, <1>14, <1>15

--------------------------------------------------------------------------------
(* The invariant.                                                           *)

Typed ==
  /\ tmResize \in BOOLEAN /\ raced \in BOOLEAN /\ exists \in BOOLEAN
  /\ m \in MapType /\ m.grows \in 0..Len(Primes) - 1
  /\ pc \in [Threads -> {"idle", "look", "walk", "hit", "grow", "move"}]
  /\ op \in [Threads -> Ops \cup {NoOp}]
  /\ DOMAIN at = Threads /\ DOMAIN mv = Threads
  /\ found \in [Threads -> BOOLEAN] /\ left \in [Threads -> BOOLEAN]
  /\ retval \in [Threads -> Vals \cup {NoVal}]
  /\ stale \in [Threads -> BOOLEAN]
  /\ base \in [Threads -> Vals \cup {NoVal}]

Quiet == \A t \in Threads : ~Moving(t)

(* What an attempt has found out holds until somebody commits a write: the  *)
(* value the key had when it began, and how far its walk has come.  What it *)
(* would reply holds on.                                                    *)
AttemptInv(t, r) ==
  /\ InAttempt(t) => op[t] \in Ops /\ (~stale[t] => Says(m, op[t].key, base[t]))
  /\ pc[t] \in {"look", "walk"} => found[t] = left[t]
  /\ pc[t] = "walk" => /\ at[t].curr = Null => base[t] = NoVal
                       /\ ~stale[t] => Walked(m, at[t], op[t].key, r)
  /\ pc[t] = "hit" => /\ found[t] /\ base[t] # NoVal /\ retval[t] = base[t]
                      /\ ~stale[t] => /\ Walked(m, at[t], op[t].key, r)
                                      /\ at[t].curr # Null
                                      /\ m.key[at[t].curr] = op[t].key

Attempts == \E r : Hung(m, r) /\ \A t \in Threads : AttemptInv(t, r)

(* A thread that moves the entries is alone.                                *)
MoverInv(t) ==
  /\ ~tmResize
  /\ \A x \in Threads \ {t} : pc[x] \in {"idle", "grow"}
  /\ MoveInv(m, mv[t])

Movers == \A t \in Threads : Moving(t) => MoverInv(t)

Emptied == ~exists => m.live = {} /\ \A t \in Threads : pc[t] = "idle"

Unset == \A t \in Threads : ~InAttempt(t) => ~found[t]

Good == Typed /\ Sound(m) /\ Emptied /\ Unset /\ Movers /\ (Quiet => Attempts)

IInv == (tmResize => ~raced) /\ (~raced => Good)

(* What each step keeps.                                                    *)
Keeps ==
  Typed' /\ tmResize' = tmResize /\ (raced' => ~tmResize) /\ (~raced' => Good')

(* The arguments of a call have their types.                                *)
LEMMA OpsAre ==
  ASSUME NEW o \in Ops
  PROVE  /\ o.key \in Keys /\ o.kind \in {"put", "get", "delete"}
         /\ o.kind = "put" => o.val \in Vals
BY DEF Ops

(* Nothing moves beside an attempt.                                         *)
LEMMA QuietIn ==
  ASSUME Good, NEW t \in Threads, InAttempt(t)
  PROVE  Quiet /\ exists
<1>1. exists
  BY DEF Good, Emptied, InAttempt
<1>2. ASSUME NEW x \in Threads, Moving(x) PROVE FALSE
  <2>1. x # t
    BY <1>2 DEF Moving, InAttempt
  <2>2. MoverInv(x)
    BY <1>2 DEF Good, Movers
  <2>3. pc[t] \in {"idle", "grow"}
    BY <2>1, <2>2 DEF MoverInv
  <2> QED
    BY <2>3 DEF InAttempt
<1> QED
  BY <1>1, <1>2 DEF Quiet

(* In a good state ValueOf is what the map says.                            *)
LEMMA ValueOfIs ==
  ASSUME Good, NEW k \in Keys
  PROVE  Says(m, k, ValueOf(k)) /\ ValueOf(k) \in Vals \cup {NoVal}
<1>1. PICK b \in BOOLEAN : b <=> \E t \in Threads : Moving(t)
  OBVIOUS
<1>2. ValueOf(k) = ValueIn(m, b, k)
  <2>1. PICK S : S = IF b THEN m.live ELSE Chain(m, m.arr[m.buckets][Slot(m, k)])
    OBVIOUS
  <2>2. S = IF \E t \in Threads : Moving(t) THEN m.live
            ELSE Chain(m, m.arr[m.buckets][Slot(m, k)])
    BY <1>1, <2>1
  <2>3. PICK h : h = {n \in S : m.key[n] = k}
    OBVIOUS
  <2>4. Holding(k) = h
    BY <2>2, <2>3 DEF Holding
  <2>5. ValueIn(m, b, k) = IF h = {} THEN NoVal ELSE m.value[CHOOSE n \in h : TRUE]
    BY <2>1, <2>3 DEF ValueIn
  <2> QED
    BY <2>4, <2>5 DEF ValueOf
<1>3. ~b => \E r : Hung(m, r)
  BY <1>1 DEF Good, Quiet, Attempts
<1>4. Sound(m)
  BY DEF Good
<1>5. Says(m, k, ValueIn(m, b, k))
  BY <1>3, <1>4, ValueIs
<1>6. ValueIn(m, b, k) \in Vals \cup {NoVal}
  BY <1>4, <1>5, SaysOnce
<1> QED
  BY <1>2, <1>5, <1>6

(* The other attempts, when the map stays as it is, and when somebody has   *)
(* committed a write.                                                       *)
ThreadSame(x) ==
  /\ pc'[x] = pc[x] /\ op'[x] = op[x] /\ at'[x] = at[x] /\ found'[x] = found[x]
  /\ retval'[x] = retval[x] /\ base'[x] = base[x] /\ left'[x] = left[x]

Beside(t, r, q) ==
  \A x \in Threads \ {t} :
    ThreadSame(x) /\ \/ stale'[x] = InAttempt(x)
                     \/ m' = m /\ q = r /\ stale'[x] = stale[x]

(* What another thread's attempt knows stays true when it is stale, or when *)
(* nothing has changed.                                                     *)
LEMMA OtherKeeps ==
  ASSUME NEW r, NEW q, NEW x \in Threads, AttemptInv(x, r), ThreadSame(x),
         \/ stale'[x] = InAttempt(x)
         \/ m' = m /\ q = r /\ stale'[x] = stale[x]
  PROVE  AttemptInv(x, q)'
<1>1. (pc'[x] = pc[x]) /\ (InAttempt(x)' <=> InAttempt(x))
  BY DEF ThreadSame, InAttempt
<1>2. CASE stale'[x] = InAttempt(x)
  <2>1. InAttempt(x) => stale'[x]
    BY <1>2
  <2>2. pc[x] \in {"walk", "hit"} => InAttempt(x)
    BY DEF InAttempt
  <2> QED
    BY <1>1, <2>1, <2>2 DEF AttemptInv, ThreadSame
<1>3. CASE m' = m /\ q = r /\ stale'[x] = stale[x]
  BY <1>1, <1>3 DEF AttemptInv, ThreadSame
<1> QED
  BY <1>2, <1>3

(* A step of one thread with nobody moving entries: what is left to show is *)
(* about the map and this thread.                                           *)
LEMMA GoodAfter ==
  ASSUME Good, Quiet, exists, exists' = exists, NEW t \in Threads, NEW r, NEW q,
         \A x \in Threads : AttemptInv(x, r), Beside(t, r, q),
         Typed', Sound(m'), Hung(m', q), AttemptInv(t, q)', pc'[t] # "move",
         InAttempt(t)' \/ ~found'[t]
  PROVE  Good'
<1>1. \A x \in Threads : AttemptInv(x, q)'
  BY OtherKeeps DEF Beside
<1>2. \A x \in Threads : ~Moving(x)'
  BY DEF Beside, ThreadSame, Quiet, Moving
<1>3. Attempts'
  BY <1>1 DEF Attempts
<1>4. Movers' /\ Emptied'
  BY <1>2 DEF Movers, Emptied
<1>5. Unset'
  BY DEF Good, Unset, Beside, ThreadSame, InAttempt
<1> QED
  BY <1>3, <1>4, <1>5 DEF Good

--------------------------------------------------------------------------------
(* Attempts that have written nothing.                                      *)

(* An attempt begins: its walk is at the head of the bucket.                *)
LEMMA AttemptKeeps ==
  ASSUME Good, ~raced, NEW t \in Threads, exists, pc[t] = "idle" \/ InAttempt(t),
         op' \in [Threads -> Ops \cup {NoOp}], op'[t] \in Ops,
         \A x \in Threads \ {t} : op'[x] = op[x] /\ at'[x] = at[x],
         DOMAIN at' = Threads, Attempt(t, op'[t].key, found[t]),
         UNCHANGED <<tmResize, exists, m, found, mv>>
  PROVE  Keeps
<1>1. PICK k \in Keys : k = op'[t].key
  BY OpsAre
<1>2. Says(m, k, ValueOf(k)) /\ ValueOf(k) \in Vals \cup {NoVal}
  BY ValueOfIs
<1>3. Typed
  BY DEF Good
<1>4. /\ pc' = [pc EXCEPT ![t] = "look"] /\ retval' = [retval EXCEPT ![t] = NoVal]
      /\ stale' = [stale EXCEPT ![t] = FALSE] /\ base' = [base EXCEPT ![t] = ValueOf(k)]
      /\ left' = [left EXCEPT ![t] = found[t]]
      /\ raced' = \E u \in Threads \ {t} : Moving(u)
  BY <1>1 DEF Attempt
<1>5. Typed'
  <2>1. raced' \in BOOLEAN /\ tmResize' \in BOOLEAN /\ exists' \in BOOLEAN
    BY <1>3, <1>4 DEF Typed
  <2>2. /\ pc' \in [Threads -> {"idle", "look", "walk", "hit", "grow", "move"}]
        /\ retval' \in [Threads -> Vals \cup {NoVal}]
        /\ stale' \in [Threads -> BOOLEAN] /\ left' \in [Threads -> BOOLEAN]
        /\ base' \in [Threads -> Vals \cup {NoVal}]
    BY <1>2, <1>3, <1>4 DEF Typed
  <2> QED
    BY <1>3, <2>1, <2>2 DEF Typed
<1>6. raced' => ~tmResize
  BY <1>4 DEF Good, Movers, MoverInv
<1>7. ASSUME ~raced' PROVE Good'
  <2>1. Quiet
    BY <1>4, <1>7 DEF Quiet, Moving, InAttempt
  <2>2. PICK r : Hung(m, r) /\ \A x \in Threads : AttemptInv(x, r)
    BY <2>1 DEF Good, Attempts
  <2>3. Beside(t, r, r)
    BY <1>3, <1>4 DEF Beside, ThreadSame, Typed
  <2>4. /\ pc'[t] = "look" /\ stale'[t] = FALSE /\ base'[t] = ValueOf(k)
        /\ left'[t] = found[t] /\ found'[t] = found[t]
    BY <1>3, <1>4 DEF Typed
  <2>5. AttemptInv(t, r)' /\ InAttempt(t)'
    BY <1>1, <1>2, <2>4 DEF AttemptInv, InAttempt
  <2>6. Sound(m') /\ Hung(m', r)
    BY <2>2 DEF Good
  <2>7. exists' = exists /\ pc'[t] # "move"
    BY <2>4
  <2> QED
    BY <1>5, <2>1, <2>2, <2>3, <2>5, <2>6, <2>7, GoodAfter
<1>8. tmResize' = tmResize
  OBVIOUS
<1> QED
  BY <1>5, <1>6, <1>7, <1>8 DEF Keeps

(* A call begins an attempt.                                                *)
LEMMA CallKeeps ==
  ASSUME Good, ~raced, NEW t \in Threads, NEW o \in Ops, Call(t, o)
  PROVE  Keeps
<1>1. op \in [Threads -> Ops \cup {NoOp}] /\ found[t] = FALSE /\ DOMAIN at = Threads
      /\ pc[t] = "idle" /\ exists
  BY DEF Good, Typed, Unset, InAttempt, Call
<1>2. op' = [op EXCEPT ![t] = o] /\ at' = at
  BY DEF Call
<1>3. op' \in [Threads -> Ops \cup {NoOp}] /\ op'[t] = o
      /\ \A x \in Threads \ {t} : op'[x] = op[x] /\ at'[x] = at[x]
  BY <1>1, <1>2
<1>4. Attempt(t, op'[t].key, found[t]) /\ UNCHANGED <<tmResize, exists, m, found, mv>>
  BY <1>1, <1>3 DEF Call
<1> QED
  BY <1>1, <1>2, <1>3, <1>4, AttemptKeeps

(* A restart begins it again.                                               *)
LEMMA RestartKeeps ==
  ASSUME Good, ~raced, NEW t \in Threads, Restart(t)
  PROVE  Keeps
<1>1. InAttempt(t) /\ exists /\ Quiet
  BY QuietIn DEF Restart
<1>2. op[t] \in Ops
  BY <1>1 DEF Good, Attempts, AttemptInv
<1>3. op' = op /\ at' = [at EXCEPT ![t] = NoOp] /\ DOMAIN at = Threads
      /\ op \in [Threads -> Ops \cup {NoOp}]
  BY DEF Restart, Good, Typed
<1>4. DOMAIN at' = Threads /\ \A x \in Threads \ {t} : op'[x] = op[x] /\ at'[x] = at[x]
  BY <1>3
<1>5. Attempt(t, op'[t].key, found[t]) /\ UNCHANGED <<tmResize, exists, m, found, mv>>
  BY <1>3 DEF Restart
<1> QED
  BY <1>1, <1>2, <1>3, <1>4, <1>5, AttemptKeeps

(* The head of a chain is where a walk begins.                              *)
LEMMA LookKeeps ==
  ASSUME Good, ~raced, NEW t \in Threads, Look(t)
  PROVE  Keeps
<1>1. InAttempt(t) /\ exists /\ Quiet
  BY QuietIn DEF Look, InAttempt
<1>2. PICK r : Hung(m, r) /\ \A x \in Threads : AttemptInv(x, r)
  BY <1>1 DEF Good, Attempts
<1>3. Typed /\ Sound(m)
  BY DEF Good
<1>4. PICK k \in Keys : k = op[t].key
  BY <1>1, <1>2, OpsAre DEF AttemptInv
<1>5. PICK b, l : b = Slot(m, k) /\ l = [b |-> b, buckets |-> m.buckets, prev |-> Null,
                                         curr |-> m.arr[m.buckets][b]]
  OBVIOUS
<1>6. /\ pc[t] = "look" /\ ~stale[t] /\ at' = [at EXCEPT ![t] = l]
      /\ pc' = [pc EXCEPT ![t] = "walk"]
      /\ UNCHANGED <<tmResize, exists, m, op, found, retval, stale, mv, base, left, raced>>
  BY <1>4, <1>5 DEF Look
<1>7. Typed'
  BY <1>3, <1>6 DEF Typed
<1>8. Beside(t, r, r) /\ pc'[t] = "walk" /\ at'[t] = l /\ InAttempt(t)'
  BY <1>3, <1>6 DEF Beside, ThreadSame, Typed, InAttempt
<1>9. Says(m, k, base[t]) /\ found[t] = left[t]
  BY <1>1, <1>2, <1>4, <1>6 DEF AttemptInv
<1>10. Walked(m, l, k, r)
  <2>1. b \in 0..m.cap - 1 /\ m.buckets \in Arrays /\ m.cap \in Nat
        /\ m.arr[m.buckets] \in [0..m.cap - 1 -> m.live \cup {Null}] /\ m.live \subseteq Nodes
    BY <1>2, <1>3, <1>5, HungFacts
  <2>2. l \in Locals
    BY <1>5, <2>1 DEF Locals, Pointers
  <2>3. ASSUME NEW x \in m.live, m.key[x] = k PROVE l.curr # Null /\ r[x] >= r[l.curr]
    <3>1. PICK B, H, h : B = 0..m.cap - 1 /\ H = m.arr[m.buckets] /\ h = Homes(m, m.cap)
      OBVIOUS
    <3>2. Linked(B, H, m.live, r, m.next, h)
      BY <1>2, <3>1 DEF Hung
    <3>3. h[x] = b /\ r[x] \in Nat /\ l.curr = H[b] /\ b \in B
      BY <1>2, <1>3, <1>5, <2>1, <2>3, <3>1, HungFacts
    <3>4. l.curr # Null
      BY <3>2, <3>3, NoneIn
    <3>5. r[l.curr] = 0
      BY <3>2, <3>3, <3>4 DEF Linked
    <3> QED
      BY <3>3, <3>4, <3>5
  <2> QED
    BY <1>5, <2>2, <2>3 DEF Walked
<1>11. l.curr = Null => base[t] = NoVal
  BY <1>9, <1>10 DEF Says, Walked
<1>12. AttemptInv(t, r)'
  BY <1>1, <1>2, <1>4, <1>6, <1>8, <1>9, <1>10, <1>11 DEF AttemptInv, InAttempt
<1>13. Sound(m') /\ Hung(m', r) /\ exists' = exists /\ pc'[t] # "move"
  BY <1>2, <1>3, <1>6, <1>8
<1>14. Good'
  BY <1>1, <1>2, <1>7, <1>8, <1>12, <1>13, GoodAfter
<1> QED
  BY <1>6, <1>7, <1>14 DEF Keeps

(* A walk goes on by one entry, or stops at the key.                        *)
LEMMA VisitKeeps ==
  ASSUME Good, ~raced, NEW t \in Threads, Visit(t)
  PROVE  Keeps
<1>1. InAttempt(t) /\ exists /\ Quiet
  BY QuietIn DEF Visit, InAttempt
<1>2. PICK r : Hung(m, r) /\ \A x \in Threads : AttemptInv(x, r)
  BY <1>1 DEF Good, Attempts
<1>3. Typed /\ Sound(m)
  BY DEF Good
<1>4. PICK k, l, n : k \in Keys /\ k = op[t].key /\ l = at[t] /\ n = l.curr
  BY <1>1, <1>2, OpsAre DEF AttemptInv
<1>5. /\ pc[t] = "walk" /\ ~stale[t] /\ n # Null
      /\ UNCHANGED <<tmResize, exists, m, op, stale, mv, base, left, raced>>
  BY <1>4 DEF Visit
<1>6. Walked(m, l, k, r) /\ Says(m, k, base[t])
  BY <1>2, <1>4, <1>5 DEF AttemptInv, InAttempt
<1>7. /\ n \in m.live
      /\ m.key[n] # k => Walked(m, [l EXCEPT !.prev = l.curr, !.curr = m.next[l.curr]], k, r)
  BY <1>2, <1>3, <1>4, <1>5, <1>6, WalkOn
<1>8. Sound(m') /\ Hung(m', r) /\ exists' = exists
  BY <1>2, <1>3, <1>5
<1>9. CASE m.key[n] = k
  <2>1. /\ found' = [found EXCEPT ![t] = TRUE] /\ retval' = [retval EXCEPT ![t] = m.value[n]]
        /\ pc' = [pc EXCEPT ![t] = "hit"] /\ at' = at
    BY <1>4, <1>9 DEF Visit
  <2>2. base[t] = m.value[n] /\ m.value[n] \in Vals
    <3>1. Says(m, k, m.value[n])
      BY <1>7, <1>9 DEF Says
    <3>2. base[t] = m.value[n]
      BY <1>3, <1>6, <3>1, SaysOnce
    <3> QED
      BY <1>3, <1>7, <3>2 DEF Sound
  <2>3. Typed'
    BY <1>3, <1>5, <2>1, <2>2 DEF Typed
  <2>4. Beside(t, r, r) /\ pc'[t] = "hit" /\ InAttempt(t)'
    BY <1>3, <1>5, <2>1 DEF Beside, ThreadSame, Typed, InAttempt
  <2>5. found'[t] /\ retval'[t] = m.value[n] /\ at'[t] = l
    BY <1>3, <1>4, <2>1 DEF Typed
  <2>6. base[t] # NoVal /\ op[t] \in Ops
    BY <1>1, <1>2, <2>2, ConstAssumption DEF AttemptInv
  <2>7. AttemptInv(t, r)'
    BY <1>4, <1>5, <1>6, <1>9, <2>2, <2>4, <2>5, <2>6 DEF AttemptInv
  <2>8. Good'
    BY <1>1, <1>2, <1>8, <2>3, <2>4, <2>7, GoodAfter
  <2> QED
    BY <1>5, <2>3, <2>8 DEF Keeps
<1>10. CASE m.key[n] # k
  <2>1. /\ at' = [at EXCEPT ![t].prev = n, ![t].curr = m.next[n]]
        /\ UNCHANGED <<found, retval, pc>>
    BY <1>4, <1>10 DEF Visit
  <2>2. PICK l2 : l2 = [l EXCEPT !.prev = n, !.curr = m.next[n]]
    OBVIOUS
  <2>3. at' = [at EXCEPT ![t] = l2]
    BY <1>4, <2>1, <2>2
  <2>4. Walked(m, l2, k, r)
    BY <1>4, <1>7, <1>10, <2>2
  <2>5. Typed'
    BY <1>3, <1>5, <2>1, <2>3 DEF Typed
  <2>6. Beside(t, r, r) /\ pc'[t] = "walk" /\ InAttempt(t)' /\ at'[t] = l2
    BY <1>3, <1>5, <2>1, <2>3 DEF Beside, ThreadSame, Typed, InAttempt
  <2>7. l2.curr = Null => base[t] = NoVal
    BY <1>6, <2>4 DEF Says, Walked
  <2>8. found[t] = left[t] /\ op[t] \in Ops
    BY <1>1, <1>2, <1>5 DEF AttemptInv
  <2>9. AttemptInv(t, r)'
    BY <1>4, <1>5, <1>6, <2>1, <2>4, <2>6, <2>7, <2>8 DEF AttemptInv
  <2>10. Good'
    BY <1>1, <1>2, <1>8, <2>5, <2>6, <2>9, GoodAfter
  <2> QED
    BY <1>5, <2>5, <2>10 DEF Keeps
<1> QED
  BY <1>9, <1>10

(* A call that leaves its block, whether it has changed the map or not.     *)
LEMMA LeaveKeeps ==
  ASSUME Good, ~raced, NEW t \in Threads, InAttempt(t), NEW label \in {"idle", "grow"},
         Leave(t, label), NEW r, NEW q, Hung(m, r), \A x \in Threads : AttemptInv(x, r),
         \/ m' = m /\ q = r /\ stale' = [stale EXCEPT ![t] = FALSE]
         \/ stale' = [x \in Threads |-> x # t /\ InAttempt(x)],
         Sound(m'), Hung(m', q)
  PROVE  Keeps
<1>1. exists /\ Quiet
  BY QuietIn
<1>2. Typed
  BY DEF Good
<1>3. /\ pc' = [pc EXCEPT ![t] = label] /\ op' = [op EXCEPT ![t] = NoOp]
      /\ at' = [at EXCEPT ![t] = NoOp] /\ found' = [found EXCEPT ![t] = FALSE]
      /\ retval' = [retval EXCEPT ![t] = NoVal] /\ base' = [base EXCEPT ![t] = NoVal]
      /\ left' = [left EXCEPT ![t] = FALSE]
      /\ UNCHANGED <<tmResize, exists, mv, raced>>
  BY DEF Leave
<1>4. stale' \in [Threads -> BOOLEAN]
      /\ \A x \in Threads \ {t} : \/ stale'[x] = InAttempt(x)
                                  \/ m' = m /\ q = r /\ stale'[x] = stale[x]
  <2>1. CASE m' = m /\ q = r /\ stale' = [stale EXCEPT ![t] = FALSE]
    BY <1>2, <2>1 DEF Typed
  <2>2. CASE stale' = [x \in Threads |-> x # t /\ InAttempt(x)]
    BY <2>2 DEF InAttempt
  <2> QED
    BY <2>1, <2>2
<1>5. Typed'
  <2>1. /\ pc' \in [Threads -> {"idle", "look", "walk", "hit", "grow", "move"}]
        /\ op' \in [Threads -> Ops \cup {NoOp}] /\ found' \in [Threads -> BOOLEAN]
        /\ retval' \in [Threads -> Vals \cup {NoVal}] /\ base' \in [Threads -> Vals \cup {NoVal}]
        /\ left' \in [Threads -> BOOLEAN] /\ DOMAIN at' = Threads
    BY <1>2, <1>3 DEF Typed
  <2>2. m' \in MapType /\ m'.grows \in 0..Len(Primes) - 1
    BY DEF Sound
  <2> QED
    BY <1>2, <1>3, <1>4, <2>1, <2>2 DEF Typed
<1>6. Beside(t, r, q)
  <2>1. \A x \in Threads \ {t} : ThreadSame(x)
    BY <1>2, <1>3 DEF ThreadSame, Typed
  <2> QED
    BY <1>4, <2>1 DEF Beside
<1>7. pc'[t] = label /\ found'[t] = FALSE
  BY <1>2, <1>3 DEF Typed
<1>8. AttemptInv(t, q)' /\ pc'[t] # "move"
  BY <1>7 DEF AttemptInv, InAttempt
<1>9. exists' = exists
  BY <1>3
<1>10. Good'
  BY <1>1, <1>5, <1>6, <1>7, <1>8, <1>9, GoodAfter
<1> QED
  BY <1>3, <1>5, <1>10 DEF Keeps

(* A commit without a write, or a failed insertion.                         *)
LEMMA CommitReadKeeps ==
  ASSUME Good, ~raced, NEW t \in Threads, CommitRead(t) \/ InsertAborts(t)
  PROVE  Keeps
<1>1. InAttempt(t)
  BY DEF CommitRead, InsertAborts, Missed, InAttempt
<1>2. PICK r : Hung(m, r) /\ \A x \in Threads : AttemptInv(x, r)
  BY <1>1, QuietIn DEF Good, Attempts
<1>3. Leave(t, "idle") /\ m' = m /\ stale' = [stale EXCEPT ![t] = FALSE]
  BY DEF CommitRead, InsertAborts
<1>4. Sound(m') /\ Hung(m', r)
  BY <1>2, <1>3 DEF Good
<1> QED
  BY <1>1, <1>2, <1>3, <1>4, LeaveKeeps

--------------------------------------------------------------------------------
(* Attempts that write.                                                     *)

(* What an attempt that is not out of date knows.                           *)
LEMMA Knows ==
  ASSUME Good, NEW t \in Threads, pc[t] \in {"walk", "hit"}, ~stale[t]
  PROVE  /\ op[t] \in Ops /\ Sound(m) /\ Quiet /\ exists
         /\ \E r : /\ Hung(m, r) /\ \A x \in Threads : AttemptInv(x, r)
                   /\ Walked(m, at[t], op[t].key, r)
                   /\ IsTable(m.arr[at[t].buckets])
                   /\ at[t].curr # Null => at[t].curr \in m.live
         /\ Says(m, op[t].key, base[t])
         /\ pc[t] = "hit" => at[t].curr # Null /\ m.key[at[t].curr] = op[t].key
<1>1. InAttempt(t) /\ Quiet /\ exists
  BY QuietIn DEF InAttempt
<1>2. PICK r : Hung(m, r) /\ \A x \in Threads : AttemptInv(x, r)
  BY <1>1 DEF Good, Attempts
<1>3. Sound(m)
  BY DEF Good
<1>4. /\ op[t] \in Ops /\ Walked(m, at[t], op[t].key, r) /\ Says(m, op[t].key, base[t])
      /\ pc[t] = "hit" => at[t].curr # Null /\ m.key[at[t].curr] = op[t].key
  BY <1>1, <1>2 DEF AttemptInv
<1>5. PICK k, l : k \in Keys /\ k = op[t].key /\ l = at[t]
  BY <1>4, OpsAre
<1>6. at[t].curr # Null => at[t].curr \in m.live
  BY <1>2, <1>3, <1>4, <1>5, WalkOn
<1>7. IsTable(m.arr[at[t].buckets])
  BY <1>2, <1>3, <1>4, HungFacts DEF Walked
<1> QED
  BY <1>1, <1>2, <1>3, <1>4, <1>6, <1>7

(* A put of a key that is there.                                            *)
LEMMA UpdateKeeps ==
  ASSUME Good, ~raced, NEW t \in Threads, Update(t)
  PROVE  Keeps /\ Stores(m', m, op[t].key, op[t].val)
<1>1. PICK r : /\ Hung(m, r) /\ \A x \in Threads : AttemptInv(x, r)
               /\ Walked(m, at[t], op[t].key, r) /\ at[t].curr \in m.live
  BY Knows DEF Update, Commit
<1>2. /\ op[t] \in Ops /\ op[t].kind = "put" /\ Sound(m) /\ InAttempt(t)
      /\ m.key[at[t].curr] = op[t].key
  BY Knows DEF Update, Commit, InAttempt
<1>3. PICK k \in Keys, v \in Vals, n \in m.live :
        k = op[t].key /\ v = op[t].val /\ n = at[t].curr
  BY <1>1, <1>2, OpsAre
<1>4. m' = [m EXCEPT !.value[n] = v]
  BY <1>3 DEF Update, Commit
<1>5. PICK w : w = m'
  OBVIOUS
<1>6. Sound(w) /\ Hung(w, r) /\ Stores(w, m, k, v)
  BY <1>1, <1>2, <1>3, <1>4, <1>5, UpdateSound
<1>7. Leave(t, "grow") /\ stale' = [x \in Threads |-> x # t /\ InAttempt(x)]
  BY DEF Update, Commit
<1>8. Keeps
  BY <1>1, <1>2, <1>5, <1>6, <1>7, LeaveKeeps
<1> QED
  BY <1>3, <1>5, <1>6, <1>8

(* A put of a key that is not there.                                        *)
LEMMA InsertKeeps ==
  ASSUME Good, ~raced, NEW t \in Threads, Insert(t)
  PROVE  Keeps /\ Stores(m', m, op[t].key, op[t].val)
<1>0. PICK n \in Nodes \ m.live : Commit(t, "grow", Inserted(m, t, n))
  BY DEF Insert
<1>1. PICK r : /\ Hung(m, r) /\ \A x \in Threads : AttemptInv(x, r)
               /\ Walked(m, at[t], op[t].key, r) /\ IsTable(m.arr[at[t].buckets])
  BY <1>0, Knows DEF Insert, Missed, Commit
<1>2. /\ op[t] \in Ops /\ op[t].kind = "put" /\ Sound(m) /\ InAttempt(t)
      /\ at[t].curr = Null
  BY <1>0, Knows DEF Insert, Missed, Commit, InAttempt
<1>3. PICK k, v, l : k \in Keys /\ v \in Vals /\ k = op[t].key /\ v = op[t].val /\ l = at[t]
  BY <1>2, OpsAre
<1>4. PICK w : w = m'
  OBVIOUS
<1>5. w = Inserted(m, t, n)
  BY <1>0, <1>4 DEF Commit
<1>6. m \in MapType /\ l \in Locals
  BY <1>1, <1>2, <1>3 DEF Sound, Walked
<1>7. Adds(w, m, n, k, v) /\ w.arr = LinksTo(m, l, n) /\ w.next = NextTo(m, l, n)
  BY <1>1, <1>3, <1>5, <1>6, InsertedFields
<1>8. Walked(m, l, k, r) /\ l.curr = Null
  BY <1>1, <1>2, <1>3
<1>9. PICK q : Hung(w, q)
  BY <1>1, <1>2, <1>3, <1>7, <1>8, InsertHangs
<1>10. Sound(w) /\ Stores(w, m, k, v)
  BY <1>2, <1>3, <1>7, <1>8, InsertSound
<1>11. Leave(t, "grow") /\ stale' = [x \in Threads |-> x # t /\ InAttempt(x)]
  BY <1>0 DEF Commit
<1>12. Keeps
  BY <1>1, <1>2, <1>4, <1>9, <1>10, <1>11, LeaveKeeps
<1> QED
  BY <1>3, <1>4, <1>10, <1>12

(* A delete of a key that is there.                                         *)
LEMMA DeleteKeeps ==
  ASSUME Good, ~raced, NEW t \in Threads, Delete(t)
  PROVE  Keeps /\ Stores(m', m, op[t].key, NoVal)
<1>0. Commit(t, "idle", Deleted(m, at[t])) /\ pc[t] = "hit"
  BY DEF Delete
<1>1. PICK r : /\ Hung(m, r) /\ \A x \in Threads : AttemptInv(x, r)
               /\ Walked(m, at[t], op[t].key, r) /\ IsTable(m.arr[at[t].buckets])
               /\ at[t].curr \in m.live
  BY <1>0, Knows DEF Commit
<1>2. /\ op[t] \in Ops /\ Sound(m) /\ InAttempt(t) /\ at[t].curr # Null
      /\ m.key[at[t].curr] = op[t].key
  BY <1>0, Knows DEF Commit, InAttempt
<1>3. PICK k, l : k \in Keys /\ k = op[t].key /\ l = at[t]
  BY <1>2, OpsAre
<1>4. PICK w : w = m'
  OBVIOUS
<1>5. w = Deleted(m, l)
  BY <1>0, <1>3, <1>4 DEF Commit
<1>6. m \in MapType /\ l \in Locals /\ l.curr \in Nodes
  BY <1>1, <1>2, <1>3 DEF Sound, Walked, MapType
<1>7. /\ Drops(w, m, l.curr) /\ w.arr = LinksTo(m, l, m.next[l.curr])
      /\ w.next = [NextTo(m, l, m.next[l.curr]) EXCEPT ![l.curr] = Null]
  BY <1>1, <1>3, <1>5, <1>6, DeletedFields
<1>8. Walked(m, l, k, r) /\ l.curr # Null /\ m.key[l.curr] = k
  BY <1>1, <1>2, <1>3
<1>9. PICK q : Hung(w, q)
  BY <1>1, <1>2, <1>3, <1>7, <1>8, DeleteHangs
<1>10. Sound(w) /\ Stores(w, m, k, NoVal)
  BY <1>1, <1>2, <1>3, <1>7, <1>8, DeleteSound
<1>11. Leave(t, "idle") /\ stale' = [x \in Threads |-> x # t /\ InAttempt(x)]
  BY <1>0 DEF Commit
<1>12. Keeps
  BY <1>1, <1>2, <1>4, <1>9, <1>10, <1>11, LeaveKeeps
<1> QED
  BY <1>3, <1>4, <1>10, <1>12

--------------------------------------------------------------------------------
(* Growth, destruction and creation.                                        *)

SameEntries(w, u) == w.live = u.live /\ w.key = u.key /\ w.value = u.value

(* There is an unused array: the map uses one.                              *)
LEMMA NewArrayIs ==
  ASSUME NEW t \in Threads, NEW r, Hung(m, r)
  PROVE  NewArray \in Arrays /\ m.arr[NewArray] = NoArray
BY AnArrayIsFree DEF NewArray

(* hashmap_resize_tm, all at once.                                          *)
LEMMA GrowTmKeeps ==
  ASSUME Good, ~raced, NEW t \in Threads, GrowTm(t)
  PROVE  Keeps /\ SameEntries(m', m)
<1>1. Quiet /\ exists /\ Typed /\ Sound(m) /\ ~found[t]
  BY DEF Good, Movers, MoverInv, Quiet, Emptied, GrowTm, Unset, InAttempt
<1>2. PICK r : Hung(m, r) /\ \A x \in Threads : AttemptInv(x, r)
  BY <1>1 DEF Good, Attempts
<1>3. PICK new \in Arrays : new = NewArray /\ m.arr[new] = NoArray
  BY <1>2, NewArrayIs
<1>4. PICK u, v, a, w :
        /\ u = Allocated(m, new) /\ v = Cursor /\ a = AllMoved(u, v)
        /\ w = Installed(a, m.grows + 1, new, m.buckets)
  OBVIOUS
<1>5. m' = w /\ MustGrow(m)
  BY <1>3, <1>4 DEF GrowTm
<1>6. v = [old |-> m.buckets, cap |-> m.cap, grows |-> m.grows + 1, new |-> new,
           i |-> 0, head |-> m.arr[m.buckets][0]]
  BY <1>3, <1>4 DEF Cursor
<1>7. OnlyLinks(u, m) /\ Split(u, v, m.live)
  BY <1>1, <1>2, <1>3, <1>4, <1>5, <1>6, StartsSplit
<1>8. PICK v2, S2 : Split(a, v2, S2) /\ Done(v2) /\ OnlyLinks(a, u) /\ Same(v2, v)
  BY <1>4, <1>7, AllMovedIs
<1>9. w = Installed(a, v2.grows, v2.new, v2.old)
  BY <1>4, <1>6, <1>8 DEF Same
<1>10. /\ Sound(w) /\ \E q : Hung(w, q)
       /\ w.live = a.live /\ w.key = a.key /\ w.value = a.value
  <2>1. v2.head = Null /\ v2.i + 1 = v2.cap
    BY <1>8 DEF Done
  <2> QED
    BY <1>8, <1>9, <2>1, MoveEnds
<1>11. SameEntries(w, m)
  BY <1>7, <1>8, <1>10 DEF SameEntries, OnlyLinks
<1>12. PICK q : Hung(w, q)
  BY <1>10
<1>13. /\ stale' = [x \in Threads |-> x # t /\ InAttempt(x)]
       /\ pc' = [pc EXCEPT ![t] = "idle"]
       /\ UNCHANGED <<tmResize, exists, op, at, found, retval, mv, base, left, raced>>
  BY DEF GrowTm
<1>14. Typed'
  <2>1. w \in MapType /\ w.grows \in 0..Len(Primes) - 1
    BY <1>10 DEF Sound
  <2>2. stale' \in [Threads -> BOOLEAN]
    BY <1>13 DEF InAttempt
  <2>3. pc' \in [Threads -> {"idle", "look", "walk", "hit", "grow", "move"}]
    BY <1>1, <1>13 DEF Typed
  <2> QED
    BY <1>1, <1>5, <1>13, <2>1, <2>2, <2>3 DEF Typed
<1>15. Beside(t, r, q)
  BY <1>1, <1>13 DEF Beside, ThreadSame, Typed, InAttempt
<1>16. pc'[t] = "idle" /\ ~found'[t]
  BY <1>1, <1>13 DEF Typed
<1>17. AttemptInv(t, q)' /\ pc'[t] # "move"
  BY <1>16 DEF AttemptInv, InAttempt
<1>18. Sound(m') /\ Hung(m', q) /\ exists' = exists
  BY <1>5, <1>10, <1>12, <1>13
<1>19. Good'
  BY <1>1, <1>2, <1>14, <1>15, <1>16, <1>17, <1>18, GoodAfter
<1> QED
  BY <1>5, <1>11, <1>13, <1>14, <1>19 DEF Keeps

(* A thread that is alone with the map.                                     *)
LEMMA MovingIsGood ==
  ASSUME NEW t \in Threads, Typed', exists', ~tmResize', Unset',
         pc'[t] = "move", \A x \in Threads \ {t} : pc'[x] \in {"idle", "grow"},
         MoveInv(m', mv'[t])
  PROVE  Good'
<1>1. \A x \in Threads : Moving(x)' => x = t
  BY DEF Moving
<1>2. MoverInv(t)'
  BY DEF MoverInv
<1>3. Movers' /\ Emptied' /\ ~Quiet'
  BY <1>1, <1>2 DEF Movers, Emptied, Quiet, Moving
<1>4. Sound(m')
  BY DEF MoveInv, Split
<1> QED
  BY <1>3, <1>4 DEF Good

(* Nobody in an attempt or moving.                                          *)
LEMMA IdleIsGood ==
  ASSUME Typed', Sound(m'), Emptied', \A x \in Threads : pc'[x] \in {"idle", "grow"},
         \A x \in Threads : ~found'[x], NEW q, Hung(m', q)
  PROVE  Good'
<1>1. Movers' /\ Unset'
  BY DEF Movers, Unset, Moving
<1>2. \A x \in Threads : AttemptInv(x, q)'
  BY DEF AttemptInv, InAttempt
<1>3. Attempts'
  BY <1>2 DEF Attempts
<1> QED
  BY <1>1, <1>3 DEF Good

(* A resize that is not due, or finds no memory.                            *)
LEMMA StaysKeeps ==
  ASSUME Good, ~raced, NEW t \in Threads, StaysAsItIs(t)
  PROVE  Keeps
<1>1. /\ pc[t] = "grow" /\ pc' = [pc EXCEPT ![t] = "idle"]
      /\ UNCHANGED <<tmResize, exists, m, op, at, found, retval, stale, mv, base, left, raced>>
  BY DEF StaysAsItIs, callVars
<1>2. Typed /\ Sound(m) /\ exists /\ ~found[t]
  BY <1>1 DEF Good, Emptied, Unset, InAttempt
<1>3. Typed'
  <2>1. pc' \in [Threads -> {"idle", "look", "walk", "hit", "grow", "move"}]
    BY <1>1, <1>2 DEF Typed
  <2> QED
    BY <1>1, <1>2, <2>1 DEF Typed
<1>4. pc'[t] = "idle" /\ \A x \in Threads \ {t} : pc'[x] = pc[x]
  BY <1>1, <1>2 DEF Typed
<1>5. CASE Quiet
  <2>1. PICK r : Hung(m, r) /\ \A x \in Threads : AttemptInv(x, r)
    BY <1>5 DEF Good, Attempts
  <2>2. Beside(t, r, r)
    BY <1>1, <1>4 DEF Beside, ThreadSame
  <2>3. AttemptInv(t, r)' /\ pc'[t] # "move" /\ ~found'[t]
    BY <1>1, <1>2, <1>4 DEF AttemptInv, InAttempt
  <2>4. Sound(m') /\ Hung(m', r) /\ exists' = exists
    BY <1>1, <1>2, <2>1
  <2>5. Good'
    BY <1>2, <1>3, <1>5, <2>1, <2>2, <2>3, <2>4, GoodAfter
  <2> QED
    BY <1>1, <1>3, <2>5 DEF Keeps
<1>6. CASE ~Quiet
  <2>1. PICK x \in Threads : Moving(x)
    BY <1>6 DEF Quiet
  <2>2. MoverInv(x) /\ x # t
    BY <1>1, <2>1 DEF Good, Movers, Moving
  <2>3. /\ pc'[x] = "move" /\ \A y \in Threads \ {x} : pc'[y] \in {"idle", "grow"}
        /\ MoveInv(m', mv'[x]) /\ ~tmResize' /\ exists'
    BY <1>1, <1>2, <1>4, <2>1, <2>2 DEF MoverInv, Moving
  <2>4. Unset'
    BY <1>1, <1>2, <1>4 DEF Good, Unset, InAttempt
  <2>5. Good'
    BY <1>3, <2>3, <2>4, MovingIsGood
  <2> QED
    BY <1>1, <1>3, <2>5 DEF Keeps
<1> QED
  BY <1>5, <1>6

(* hashmap_resize, as far as its allocation.                                *)
LEMMA StartKeeps ==
  ASSUME Good, ~raced, NEW t \in Threads, StartMoving(t)
  PROVE  Keeps /\ SameEntries(m', m)
<1>1. /\ ~tmResize /\ pc[t] = "grow" /\ MustGrow(m) /\ m' = Allocated(m, NewArray)
      /\ mv' = [mv EXCEPT ![t] = Cursor] /\ pc' = [pc EXCEPT ![t] = "move"]
      /\ raced' = \E u \in Threads \ {t} : InAttempt(u) \/ Moving(u)
      /\ UNCHANGED <<tmResize, exists, op, at, found, retval, stale, base, left>>
  BY DEF StartMoving
<1>2. Typed /\ Sound(m) /\ exists /\ ~found[t]
  BY <1>1 DEF Good, Emptied, Unset, InAttempt
<1>3. PICK j \in DOMAIN Primes : j = m.grows + 2
  <2>1. m.grows + 1 < Len(Primes) /\ Len(Primes) \in Nat /\ DOMAIN Primes = 1..Len(Primes)
        /\ m.grows \in Nat
    BY <1>1, <1>2, ConstAssumption DEF MustGrow, Typed
  <2>2. m.grows + 2 \in 1..Len(Primes)
    BY <2>1
  <2> QED
    BY <2>1, <2>2
<1>4. OnlyLinks(m', m)
  <2>1. PICK f \in Tables : f = Buckets(Primes[j])
    BY BucketsAre, TablesAre DEF IsTable
  <2>2. PICK i, a : i = NewArray /\ a = [m.arr EXCEPT ![i] = f]
    OBVIOUS
  <2>3. a \in [Arrays -> Tables] /\ m \in MapType
    BY <1>2, <2>2 DEF Typed, MapType
  <2>4. m' = [m EXCEPT !.arr = a]
    BY <1>1, <1>3, <2>1, <2>2, <2>3 DEF Allocated, MapType
  <2> QED
    BY <2>3, <2>4 DEF OnlyLinks, MapType
<1>5. Typed'
  <2>1. pc' \in [Threads -> {"idle", "look", "walk", "hit", "grow", "move"}]
        /\ DOMAIN mv' = Threads /\ raced' \in BOOLEAN
    BY <1>1, <1>2 DEF Typed
  <2>2. m' \in MapType /\ m'.grows \in 0..Len(Primes) - 1
    BY <1>2, <1>4 DEF OnlyLinks, Typed
  <2> QED
    BY <1>1, <1>2, <2>1, <2>2 DEF Typed
<1>6. ASSUME ~raced' PROVE Good'
  <2>1. \A x \in Threads \ {t} : pc[x] \in {"idle", "grow"}
    BY <1>1, <1>2, <1>6 DEF Typed, InAttempt, Moving
  <2>2. Quiet
    BY <1>1, <1>6 DEF Quiet, Moving
  <2>3. PICK r : Hung(m, r)
    BY <2>2 DEF Good, Attempts
  <2>4. PICK new \in Arrays : new = NewArray /\ m.arr[new] = NoArray
    BY <2>3, NewArrayIs
  <2>5. PICK v, w : v = Cursor /\ w = m'
    OBVIOUS
  <2>6. v = [old |-> m.buckets, cap |-> m.cap, grows |-> m.grows + 1, new |-> new,
             i |-> 0, head |-> m.arr[m.buckets][0]]
    BY <2>4, <2>5 DEF Cursor
  <2>7. Split(w, v, m.live)
    BY <1>1, <1>2, <2>3, <2>4, <2>5, <2>6, StartsSplit
  <2>8. MoveInv(m', mv'[t])
    BY <1>1, <1>2, <2>5, <2>7 DEF MoveInv, Typed
  <2>9. pc'[t] = "move" /\ \A x \in Threads \ {t} : pc'[x] = pc[x]
    BY <1>1, <1>2 DEF Typed
  <2>10. Unset'
    BY <1>1, <1>2, <2>9 DEF Good, Unset, InAttempt
  <2>11. exists' /\ ~tmResize'
    BY <1>1, <1>2
  <2> QED
    BY <1>5, <2>1, <2>8, <2>9, <2>10, <2>11, MovingIsGood
<1> QED
  BY <1>1, <1>4, <1>5, <1>6 DEF Keeps, SameEntries, OnlyLinks

(* A thread that is moving entries.                                         *)
LEMMA Alone ==
  ASSUME Good, NEW t \in Threads, Moving(t)
  PROVE  /\ exists /\ ~tmResize /\ Typed /\ MoveInv(m, mv[t])
         /\ \A x \in Threads \ {t} : pc[x] \in {"idle", "grow"} /\ ~Moving(x)
         /\ \A x \in Threads : ~found[x] /\ ~InAttempt(x)
<1>1. exists /\ Typed
  BY DEF Good, Emptied, Moving
<1>2. MoverInv(t)
  BY DEF Good, Movers
<1>3. \A x \in Threads : ~InAttempt(x)
  BY <1>2 DEF MoverInv, Moving, InAttempt
<1> QED
  BY <1>1, <1>2, <1>3 DEF Good, Unset, MoverInv, Moving

(* A turn of the plain resize keeps the split and every entry.              *)
LEMMA MoveOneKeeps ==
  ASSUME Good, ~raced, NEW t \in Threads, MoveOne(t) \/ NextBucket(t)
  PROVE  Keeps /\ SameEntries(m', m)
<1>1. Moving(t) /\ pc' = pc
      /\ UNCHANGED <<tmResize, exists, op, at, found, retval, stale, base, left, raced>>
  BY DEF MoveOne, NextBucket
<1>2. PICK v, S : v = mv[t] /\ Split(m, v, S)
  BY <1>1, Alone DEF MoveInv
<1>3. PICK v2 : /\ mv' = [mv EXCEPT ![t] = v2] /\ MoveInv(m', v2)
                /\ OnlyLinks(m', m)
  <2>1. CASE MoveOne(t)
    <3>1. PICK v2, w : v2 = AfterEntry(m, v) /\ w = m'
      OBVIOUS
    <3>2. v.head # Null /\ w = MoveTo(m, v.new, v.head) /\ mv' = [mv EXCEPT ![t] = v2]
      BY <1>2, <2>1, <3>1 DEF MoveOne
    <3>3. OnlyLinks(w, m) /\ Split(w, v2, S \ {v.head})
      BY <1>2, <3>1, <3>2, MovesOne
    <3> QED
      BY <3>1, <3>2, <3>3 DEF MoveInv
  <2>2. CASE NextBucket(t)
    <3>1. PICK v2 : v2 = AfterBucket(m, v)
      OBVIOUS
    <3>2. v.head = Null /\ v.i + 1 < v.cap /\ m' = m /\ mv' = [mv EXCEPT ![t] = v2]
      BY <1>2, <2>2, <3>1 DEF NextBucket
    <3>3. Split(m, v2, S)
      BY <1>2, <3>1, <3>2, MovesOn
    <3>4. OnlyLinks(m, m)
      BY <1>2, SplitFacts
    <3> QED
      BY <3>2, <3>3, <3>4 DEF MoveInv
  <2> QED
    BY <2>1, <2>2
<1>4. Typed /\ \A x \in Threads : ~found[x]
  BY <1>1, Alone
<1>5. Typed'
  <2>1. m' \in MapType /\ m'.grows \in 0..Len(Primes) - 1
    BY <1>3, <1>4 DEF OnlyLinks, Typed
  <2>2. DOMAIN mv' = Threads
    BY <1>3, <1>4 DEF Typed
  <2> QED
    BY <1>1, <1>4, <2>1, <2>2 DEF Typed
<1>6. MoveInv(m', mv'[t])
  BY <1>3, <1>4 DEF Typed
<1>7. Unset' /\ exists' /\ ~tmResize'
  BY <1>1, <1>4, Alone DEF Unset
<1>8. pc'[t] = "move" /\ \A x \in Threads \ {t} : pc'[x] \in {"idle", "grow"}
  BY <1>1, Alone DEF Moving
<1>9. Good'
  BY <1>5, <1>6, <1>7, <1>8, MovingIsGood
<1> QED
  BY <1>1, <1>3, <1>5, <1>9 DEF Keeps, SameEntries, OnlyLinks

(* When nothing is left to move, the new buckets are the map.               *)
LEMMA InstallKeeps ==
  ASSUME Good, ~raced, NEW t \in Threads, Install(t)
  PROVE  Keeps /\ SameEntries(m', m)
<1>1. /\ Moving(t) /\ mv' = [mv EXCEPT ![t] = NoOp] /\ pc' = [pc EXCEPT ![t] = "idle"]
      /\ UNCHANGED <<tmResize, exists, op, at, found, retval, stale, base, left, raced>>
  BY DEF Install
<1>2. PICK v, S, w : v = mv[t] /\ Split(m, v, S) /\ w = m'
  BY <1>1, Alone DEF MoveInv
<1>3. v.head = Null /\ v.i + 1 = v.cap /\ w = Installed(m, v.grows, v.new, v.old)
  BY <1>2 DEF Install
<1>4. /\ Sound(w) /\ \E q : Hung(w, q)
      /\ w.live = m.live /\ w.key = m.key /\ w.value = m.value
  BY <1>2, <1>3, MoveEnds
<1>5. Typed /\ exists /\ \A x \in Threads : ~found[x]
  BY <1>1, Alone
<1>6. Typed'
  <2>1. w \in MapType /\ w.grows \in 0..Len(Primes) - 1
    BY <1>4 DEF Sound
  <2>2. pc' \in [Threads -> {"idle", "look", "walk", "hit", "grow", "move"}]
        /\ DOMAIN mv' = Threads
    BY <1>1, <1>5 DEF Typed
  <2> QED
    BY <1>1, <1>2, <1>5, <2>1, <2>2 DEF Typed
<1>7. \A x \in Threads : pc'[x] \in {"idle", "grow"} /\ ~found'[x]
  BY <1>1, <1>5, Alone DEF Typed
<1>8. Emptied' /\ Sound(m')
  BY <1>1, <1>2, <1>4, <1>5 DEF Emptied
<1>9. PICK q : Hung(m', q)
  BY <1>2, <1>4
<1>10. Good'
  BY <1>6, <1>7, <1>8, <1>9, IdleIsGood
<1> QED
  BY <1>1, <1>2, <1>4, <1>6, <1>10 DEF Keeps, SameEntries

(* A map that nobody uses is destroyed, with all of its entries ...         *)
LEMMA FreshMap ==
  ASSUME Good, m' = NewMap, \A x \in Threads : pc[x] = "idle", exists' \in BOOLEAN,
         UNCHANGED <<tmResize, pc, callVars, raced>>
  PROVE  Good'
<1>1. Typed /\ \A x \in Threads : ~found[x]
  BY DEF Good, Unset, InAttempt
<1>2. Sound(m') /\ m'.live = {} /\ \E r : Hung(m', r)
  BY NewMapIs
<1>3. Typed'
  <2>1. m' \in MapType /\ m'.grows \in 0..Len(Primes) - 1
    BY <1>2 DEF Sound
  <2> QED
    BY <1>1, <2>1 DEF Typed, callVars
<1>4. Emptied'
  BY <1>2 DEF Emptied, callVars
<1>5. PICK r : Hung(m', r)
  BY <1>2
<1>6. \A x \in Threads : pc'[x] \in {"idle", "grow"} /\ ~found'[x]
  BY <1>1 DEF callVars
<1> QED
  BY <1>2, <1>3, <1>4, <1>5, <1>6, IdleIsGood

(* hashmap_destroy frees every entry it meets, and it meets them all.       *)
LEMMA DestroyKeeps ==
  ASSUME Good, ~raced, Destroy
  PROVE  Keeps /\ m'.live = {}
<1>1. /\ exists' = FALSE /\ \A t \in Threads : pc[t] = "idle"
      /\ UNCHANGED <<tmResize, pc, callVars, raced>>
  BY DEF Destroy
<1>2. PICK r : Sound(m) /\ Hung(m, r)
  BY <1>1 DEF Good, Quiet, Moving, Attempts
<1>3. (IF m.length = 0 THEN m.live ELSE m.live \ AllChains(m)) = {}
  <2>1. IsFiniteSet(m.live) /\ m.length = Cardinality(m.live)
    BY <1>2, HungFacts DEF Sound
  <2>2. m.length = 0 => m.live = {}
    BY <2>1, FS_EmptySet
  <2>3. AllChains(m) = m.live
    BY <1>2, ChainsAre
  <2> QED
    BY <2>2, <2>3
<1>4. m' = NewMap /\ m'.live = {}
  BY <1>3, NewMapIs DEF Destroy
<1>5. Good'
  BY <1>1, <1>4, FreshMap
<1> QED
  BY <1>1, <1>4, <1>5 DEF Keeps, Good

(* ... and another one is made.                                             *)
LEMMA NewKeeps ==
  ASSUME Good, ~raced, New
  PROVE  Keeps /\ m.live = {} /\ m'.live = {}
<1>1. /\ ~exists /\ exists' = TRUE /\ m' = [NewMap EXCEPT !.live = m.live]
      /\ UNCHANGED <<tmResize, pc, callVars, raced>>
  BY DEF New
<1>2. m.live = {} /\ \A t \in Threads : pc[t] = "idle"
  BY <1>1 DEF Good, Emptied
<1>3. m' = NewMap /\ m'.live = {}
  BY <1>1, <1>2, NewMapIs
<1>4. Good'
  BY <1>1, <1>2, <1>3, FreshMap
<1> QED
  BY <1>1, <1>2, <1>3, <1>4 DEF Keeps, Good

--------------------------------------------------------------------------------
(* The theorems.                                                            *)

(* The program begins with a new map.                                       *)
LEMMA InitIsGood ==
  ASSUME Init
  PROVE  Good /\ ~raced /\ m.live = {}
<1>1. PICK r : Sound(m) /\ m.live = {} /\ Hung(m, r)
  BY NewMapIs DEF Init
<1>2. Typed
  BY <1>1 DEF Typed, Init, Sound
<1>3. \A t \in Threads : pc[t] = "idle" /\ ~found[t]
  BY DEF Init
<1>4. Emptied /\ Unset /\ Movers
  BY <1>1, <1>3 DEF Emptied, Unset, Movers, Moving
<1>5. \A t \in Threads : AttemptInv(t, r)
  BY <1>3 DEF AttemptInv, InAttempt
<1>6. Attempts
  BY <1>1, <1>5 DEF Attempts
<1> QED
  BY <1>1, <1>2, <1>4, <1>6 DEF Good, Init

(* Every step of a thread keeps a good state, up to a race.                 *)
LEMMA StepKeeps ==
  ASSUME Good, ~raced, NEW t \in Threads, Step(t)
  PROVE  Keeps
<1>1. CASE \E o \in Ops : Call(t, o)
  BY <1>1, CallKeeps
<1>2. CASE Restart(t)
  BY <1>2, RestartKeeps
<1>3. CASE Look(t) \/ Visit(t)
  BY <1>3, LookKeeps, VisitKeeps
<1>4. CASE CommitRead(t) \/ InsertAborts(t)
  BY <1>4, CommitReadKeeps
<1>5. CASE Update(t) \/ Insert(t) \/ Delete(t)
  BY <1>5, UpdateKeeps, InsertKeeps, DeleteKeeps
<1>6. CASE GrowTm(t) \/ StaysAsItIs(t)
  BY <1>6, GrowTmKeeps, StaysKeeps
<1>7. CASE StartMoving(t) \/ MoveOne(t) \/ NextBucket(t) \/ Install(t)
  BY <1>7, StartKeeps, MoveOneKeeps, InstallKeeps
<1> QED
  BY <1>1, <1>2, <1>3, <1>4, <1>5, <1>6, <1>7 DEF Step

(* So does every step.                                                      *)
LEMMA NextKeeps ==
  ASSUME Good, ~raced, Next
  PROVE  Keeps
<1>1. CASE \E t \in Threads : Step(t)
  BY <1>1, StepKeeps
<1>2. CASE Destroy \/ New
  BY <1>2, DestroyKeeps, NewKeeps
<1> QED
  BY <1>1, <1>2 DEF Next, Raced

(* A race cannot be undone, and the versions do not mix.                    *)
LEMMA RacedStays ==
  ASSUME [Next]_vars
  PROVE  (raced => raced') /\ tmResize' = tmResize
<1>1. ASSUME NEW t \in Threads, Step(t) PROVE (raced => raced') /\ tmResize' = tmResize
  <2>1. CASE \E o \in Ops : Call(t, o)
    BY <2>1 DEF Call, Attempt
  <2>2. CASE Restart(t)
    BY <2>2 DEF Restart, Attempt
  <2>3. CASE Look(t) \/ Visit(t)
    BY <2>3 DEF Look, Visit
  <2>4. CASE CommitRead(t) \/ InsertAborts(t)
    BY <2>4 DEF CommitRead, InsertAborts, Leave
  <2>5. CASE Update(t) \/ Insert(t) \/ Delete(t)
    BY <2>5 DEF Update, Insert, Delete, Commit, Leave
  <2>6. CASE GrowTm(t) \/ StaysAsItIs(t)
    BY <2>6 DEF GrowTm, StaysAsItIs
  <2>7. CASE StartMoving(t)
    BY <2>7 DEF StartMoving
  <2>8. CASE MoveOne(t) \/ NextBucket(t)
    BY <2>8 DEF MoveOne, NextBucket
  <2>9. CASE Install(t)
    BY <2>9 DEF Install
  <2> QED
    BY <1>1, <2>1, <2>2, <2>3, <2>4, <2>5, <2>6, <2>7, <2>8, <2>9 DEF Step
<1>2. CASE Destroy \/ New \/ Raced \/ UNCHANGED vars
  BY <1>2 DEF Destroy, New, Raced, vars
<1> QED
  BY <1>1, <1>2 DEF Next

(* Good speaks of the variables only.                                       *)
LEMMA GoodStays ==
  ASSUME Good, UNCHANGED vars
  PROVE  Good'
BY DEF Good, vars, callVars, Typed, Emptied, Unset, InAttempt, Movers, MoverInv, Moving,
       Quiet, Attempts, AttemptInv

(* The inductive invariant is kept.                                         *)
LEMMA IInvKept ==
  ASSUME IInv, [Next]_vars
  PROVE  IInv'
<1>1. CASE raced
  BY <1>1, RacedStays DEF IInv
<1>2. CASE ~raced /\ Next
  BY <1>2, NextKeeps DEF IInv, Keeps
<1>3. CASE ~raced /\ UNCHANGED vars
  BY <1>3, GoodStays, RacedStays DEF IInv, vars
<1> QED
  BY <1>1, <1>2, <1>3

(* The inductive invariant, for every instance and either resize.           *)
THEOREM HashMapInvariance == Spec => []IInv
<1>1. Init => IInv
  BY InitIsGood DEF IInv
<1>2. IInv /\ [Next]_vars => IInv'
  BY IInvKept
<1> QED
  BY <1>1, <1>2, PTL DEF Spec

(* It implies WellFormed: what is reached along next is what is linked.     *)
LEMMA WellFormedIs ==
  ASSUME IInv, Typed
  PROVE  WellFormed
<1>1. TypeOK
  <2>1. ASSUME NEW i \in Arrays
        PROVE  m.arr[i] = NoArray
                 \/ \E j \in DOMAIN Primes : m.arr[i] \in [0..Primes[j] - 1 -> Pointers]
    <3>1. m.arr[i] \in Tables
      BY DEF Typed, MapType
    <3> QED
      BY <3>1, TablesAre DEF IsTable
  <2> QED
    BY <2>1 DEF TypeOK, Typed, MapType
<1>2. ASSUME ~raced, NEW t \in Threads, Moving(t) PROVE ~Gone(mv[t])
  <2>1. PICK v, S : v = mv[t] /\ Split(m, v, S)
    BY <1>2, Alone DEF IInv, MoveInv
  <2>2. m.arr[v.old] # NoArray /\ S \subseteq m.live
    BY <2>1 DEF Split, Cursors
  <2>3. v.head # Null => v.head \in S
    BY <2>1, MovesOne
  <2> QED
    BY <2>1, <2>2, <2>3 DEF Gone
<1>3. ASSUME ~raced, \A t \in Threads : ~Moving(t)
      PROVE  /\ \A i \in Arrays : m.arr[i] # NoArray <=> i = m.buckets
             /\ m.cap = Primes[m.grows + 1] /\ DOMAIN m.arr[m.buckets] = 0..m.cap - 1
             /\ m.length = Cardinality(m.live) /\ m.live = AllChains(m)
             /\ \A n1, n2 \in m.live : m.key[n1] = m.key[n2] => n1 = n2
             /\ \A b \in 0..m.cap - 1 :
                  /\ Ends(m, m.arr[m.buckets][b])
                  /\ \A n \in Chain(m, m.arr[m.buckets][b]) : Hash[m.key[n]] % m.cap = b
  <2>1. Sound(m) /\ \E r : Hung(m, r)
    BY <1>3 DEF IInv, Good, Quiet, Attempts
  <2>2. PICK r : Hung(m, r)
    BY <2>1
  <2>3. \A i \in Arrays : m.arr[i] # NoArray <=> i = m.buckets
    BY <2>2 DEF Hung
  <2>4. m.cap = Primes[m.grows + 1] /\ m.length = Cardinality(m.live)
        /\ \A n1, n2 \in m.live : m.key[n1] = m.key[n2] => n1 = n2
    BY <2>1 DEF Sound
  <2>5. DOMAIN m.arr[m.buckets] = 0..m.cap - 1 /\ m.live \subseteq Nodes
    BY <2>1, <2>2, HungFacts
  <2>6. m.live = AllChains(m)
    BY <2>1, <2>2, ChainsAre
  <2>7. ASSUME NEW b \in 0..m.cap - 1
        PROVE  /\ Ends(m, m.arr[m.buckets][b])
               /\ \A n \in Chain(m, m.arr[m.buckets][b]) : Hash[m.key[n]] % m.cap = b
    <3>1. /\ Ends(m, m.arr[m.buckets][b])
          /\ Chain(m, m.arr[m.buckets][b]) = {n \in m.live : Homes(m, m.cap)[n] = b}
      BY <2>1, <2>2, ChainsAre
    <3> QED
      BY <2>5, <3>1 DEF Homes
  <2> QED
    BY <2>3, <2>4, <2>5, <2>6, <2>7
<1>4. tmResize => ~raced
  BY DEF IInv
<1> QED
  BY <1>1, <1>2, <1>3, <1>4 DEF WellFormed

(* As long as nothing is modelled after a race: the chains, the length and  *)
(* the buckets of the map are right in every state without one.             *)
THEOREM HashMapWellFormed ==
  ASSUME ~BeyondRace
  PROVE  Spec => []WellFormed
<1>1. Init => IInv /\ Typed
  BY InitIsGood DEF IInv, Good
<1>2. IInv /\ Typed /\ [Next]_vars => (IInv /\ Typed)'
  <2> SUFFICES ASSUME IInv, Typed, [Next]_vars PROVE (IInv /\ Typed)'
    OBVIOUS
  <2>1. CASE UNCHANGED vars
    BY <2>1, IInvKept DEF vars, callVars, Typed
  <2>2. CASE Next /\ ~raced
    BY <2>2, IInvKept, NextKeeps DEF IInv, Keeps
  <2>3. CASE Next /\ raced
    <3>1. UNCHANGED vars
      BY <2>3 DEF Next, Raced
    <3> QED
      BY <3>1, IInvKept DEF vars, callVars, Typed
  <2> QED
    BY <2>1, <2>2, <2>3
<1>3. IInv /\ Typed => WellFormed
  BY WellFormedIs
<1> QED
  BY <1>1, <1>2, <1>3, PTL DEF Spec

(* What a call replies.                                                     *)
LEMMA ReplyIsTrue ==
  ASSUME Good, NEW t \in Threads, pc[t] = "hit" \/ Missed(t)
  PROVE  LET says == Code(t) = IF op[t].kind = "put" THEN 1 ELSE 0
         IN  IF base[t] # NoVal THEN says /\ retval[t] = base[t] ELSE says <=> left[t]
<1>1. Quiet /\ Typed
  BY QuietIn DEF InAttempt, Missed, Good
<1>2. PICK r : AttemptInv(t, r)
  BY <1>1 DEF Good, Attempts
<1>3. CASE pc[t] = "hit"
  <2>1. found[t] /\ base[t] # NoVal /\ retval[t] = base[t]
    BY <1>2, <1>3 DEF AttemptInv
  <2>2. Code(t) = IF op[t].kind = "put" THEN 1 ELSE 0
    BY <2>1 DEF Code
  <2> QED
    BY <2>1, <2>2
<1>4. CASE Missed(t)
  <2>1. base[t] = NoVal /\ found[t] = left[t]
    BY <1>2, <1>4 DEF AttemptInv, Missed
  <2>2. (Code(t) = IF op[t].kind = "put" THEN 1 ELSE 0) <=> found[t]
    BY DEF Code
  <2> QED
    BY <2>1, <2>2
<1> QED
  BY <1>3, <1>4

(* The steps in which a thread's block commits.                             *)
LEMMA CommitsIn ==
  ASSUME Good, Next, NEW t \in Threads, Commits(t)
  PROVE  CommitRead(t) \/ Update(t) \/ Insert(t) \/ Delete(t)
<1>0. /\ pc[t] \in {"walk", "hit"} /\ pc'[t] = IF op[t].kind = "put" THEN "grow" ELSE "idle"
      /\ pc \in [Threads -> {"idle", "look", "walk", "hit", "grow", "move"}]
      /\ pc'[t] # pc[t]
  BY DEF Commits, Good, Typed
<1>1. ~(Destroy \/ New \/ Raced)
  BY <1>0 DEF Destroy, New, Raced, vars
<1>2. PICK x \in Threads : Step(x)
  BY <1>1 DEF Next
<1>3. PICK c : pc' = pc \/ pc' = [pc EXCEPT ![x] = c]
  <2>1. CASE \E o \in Ops : Call(x, o)
    BY <2>1 DEF Call, Attempt
  <2>2. CASE Restart(x)
    BY <2>2 DEF Restart, Attempt
  <2>3. CASE Look(x) \/ Visit(x)
    BY <2>3 DEF Look, Visit
  <2>4. CASE CommitRead(x) \/ InsertAborts(x)
    BY <2>4 DEF CommitRead, InsertAborts, Leave
  <2>5. CASE Update(x) \/ Insert(x) \/ Delete(x)
    BY <2>5 DEF Update, Insert, Delete, Commit, Leave
  <2>6. CASE GrowTm(x) \/ StaysAsItIs(x)
    BY <2>6 DEF GrowTm, StaysAsItIs
  <2>7. CASE StartMoving(x) \/ Install(x)
    BY <2>7 DEF StartMoving, Install
  <2>8. CASE MoveOne(x) \/ NextBucket(x)
    BY <2>8 DEF MoveOne, NextBucket
  <2> QED
    BY <1>2, <2>1, <2>2, <2>3, <2>4, <2>5, <2>6, <2>7, <2>8 DEF Step
<1>4. x = t
  BY <1>0, <1>3
<1>5. ~(\E o \in Ops : Call(t, o))
  BY <1>0 DEF Call
<1>6. ~Restart(t)
  BY <1>0 DEF Restart, Attempt
<1>7. ~(Look(t) \/ Visit(t))
  BY <1>0 DEF Look, Visit
<1>8. ~InsertAborts(t)
  BY <1>0 DEF InsertAborts, Leave
<1>9. ~(GrowTm(t) \/ StaysAsItIs(t) \/ StartMoving(t))
  BY <1>0 DEF GrowTm, StaysAsItIs, StartMoving
<1>10. ~(MoveOne(t) \/ NextBucket(t) \/ Install(t))
  BY <1>0 DEF MoveOne, NextBucket, Install, Moving
<1> QED
  BY <1>2, <1>4, <1>5, <1>6, <1>7, <1>8, <1>9, <1>10 DEF Step

(* A call's reply tells whether its key was there, and *retval its value.   *)
THEOREM HashMapReplies == Spec => RepliesAreTrue
<1>1. IInv /\ [Next]_vars => [raced' \/ \A t \in Threads : TrueReply(t)]_vars
  <2> SUFFICES ASSUME IInv, Next, ~raced', NEW t \in Threads, Commits(t)
               PROVE  LET says == Code(t) = IF op[t].kind = "put" THEN 1 ELSE 0
                      IN  IF base[t] # NoVal THEN says /\ retval[t] = base[t]
                          ELSE says <=> left[t]
    BY DEF TrueReply
  <2>1. Good
    BY RacedStays DEF IInv
  <2>2. pc[t] = "hit" \/ Missed(t)
    BY <2>1, CommitsIn DEF CommitRead, Update, Insert, Delete
  <2> QED
    BY <2>1, <2>2, ReplyIsTrue
<1> QED
  BY <1>1, HashMapInvariance, PTL DEF Spec, RepliesAreTrue

(* What the map says, before a step and after it.                           *)
Contents == \A k \in Keys : Says(m, k, ValueOf(k))

(* The abstract map is what the map says of each key ...                    *)
LEMMA ContentIs == Good => Contents
BY ValueOfIs DEF Contents

(* ... also after a step.                                                   *)
LEMMA ContentThen == Good' => Contents'
<1>1. Good => Contents
  BY ContentIs
<1> QED
  BY <1>1, PTL

(* Relinking the same entries leaves the content alone.                     *)
LEMMA ContentKept ==
  ASSUME Good, Good', SameEntries(m', m)
  PROVE  Content' = Content
<1>1. ASSUME NEW k \in Keys PROVE ValueOf(k)' = ValueOf(k)
  <2>1. Says(m, k, ValueOf(k)) /\ Says(m', k, ValueOf(k)')
    BY ContentIs, ContentThen DEF Contents
  <2>2. Says(m, k, ValueOf(k)')
    BY <2>1, SaysSame DEF SameEntries
  <2>3. Sound(m)
    BY DEF Good
  <2> QED
    BY <2>1, <2>2, <2>3, SaysOnce
<1> QED
  BY <1>1 DEF Content

(* Storing a value changes the content at its key.                          *)
LEMMA ContentStored ==
  ASSUME Good, Good', NEW k \in Keys, NEW v, Stores(m', m, k, v)
  PROVE  Content' = [Content EXCEPT ![k] = v]
<1>0. Sound(m')
  BY DEF Good
<1>1. ASSUME NEW j \in Keys PROVE ValueOf(j)' = IF j = k THEN v ELSE ValueOf(j)
  <2>1. Says(m, j, ValueOf(j)) /\ Says(m', j, ValueOf(j)')
    BY ContentIs, ContentThen DEF Contents
  <2>2. Says(m', j, IF j = k THEN v ELSE ValueOf(j))
    BY <2>1 DEF Stores
  <2> QED
    BY <1>0, <2>1, <2>2, SaysOnce
<1> QED
  BY <1>1 DEF Content

(* A map without entries has no content ...                                 *)
LEMMA ContentEmpty ==
  ASSUME Good, m.live = {}
  PROVE  Content = [k \in Keys |-> NoVal]
<1>1. ASSUME NEW k \in Keys PROVE ValueOf(k) = NoVal
  <2>1. Says(m, k, ValueOf(k))
    BY ContentIs DEF Contents
  <2> QED
    BY <2>1 DEF Says
<1> QED
  BY <1>1 DEF Content

(* ... also after a step.                                                   *)
LEMMA ContentEmptied ==
  ASSUME Good', m'.live = {}
  PROVE  Content' = [k \in Keys |-> NoVal]
<1>1. ASSUME NEW k \in Keys PROVE ValueOf(k)' = NoVal
  <2>1. Says(m', k, ValueOf(k)')
    BY ContentThen DEF Contents
  <2> QED
    BY <2>1 DEF Says
<1> QED
  BY <1>1 DEF Content

(* Every step is a put, a delete, a new or a destroy of KeyValue, or leaves *)
(* the content alone.                                                       *)
LEMMA MapStepIs ==
  ASSUME Good, Good', ~raced, Next
  PROVE  MapStep \/ UNCHANGED <<Content, exists>>
<1>1. ASSUME NEW t \in Threads, Update(t) \/ Insert(t) PROVE MapStep
  <2>1. pc[t] \in {"walk", "hit"} /\ ~stale[t] /\ op[t].kind = "put"
    BY <1>1 DEF Update, Insert, Missed, Commit
  <2>2. op[t] \in Ops /\ exists
    BY <2>1, Knows
  <2>3. PICK k \in Keys, v \in Vals : k = op[t].key /\ v = op[t].val
    BY <2>1, <2>2, OpsAre
  <2>4. Stores(m', m, k, v)
    BY <1>1, <2>3, UpdateKeeps, InsertKeeps
  <2>5. Content' = [Content EXCEPT ![k] = v]
    BY <2>3, <2>4, ContentStored
  <2>6. pc' = [pc EXCEPT ![t] = "grow"] /\ exists' = exists
    BY <1>1 DEF Update, Insert, Commit, Leave
  <2>7. Commits(t)
    BY <2>1, <2>6 DEF Commits, Good, Typed
  <2>8. A!Put(op[t].key, op[t].val)
    BY <2>2, <2>3, <2>5, <2>6 DEF A!Put
  <2> QED
    BY <2>1, <2>7, <2>8 DEF MapStep
<1>2. ASSUME NEW t \in Threads, Delete(t) PROVE MapStep
  <2>1. pc[t] = "hit" /\ ~stale[t] /\ op[t].kind = "delete"
    BY <1>2 DEF Delete, Commit
  <2>2. op[t] \in Ops /\ exists /\ Says(m, op[t].key, base[t]) /\ Sound(m) /\ Quiet
    BY <2>1, Knows
  <2>3. PICK k \in Keys : k = op[t].key
    BY <2>2, OpsAre
  <2>4. Stores(m', m, k, NoVal)
    BY <1>2, <2>3, DeleteKeeps
  <2>5. Content' = [Content EXCEPT ![k] = NoVal]
    BY <2>3, <2>4, ContentStored
  <2>6. pc' = [pc EXCEPT ![t] = "idle"] /\ exists' = exists
    BY <1>2 DEF Delete, Commit, Leave
  <2>7. Commits(t)
    BY <2>1, <2>6 DEF Commits, Good, Typed
  <2>8. Content[k] # NoVal
    <3>1. base[t] # NoVal
      BY <2>1, <2>2 DEF Good, Attempts, AttemptInv
    <3>2. Says(m, k, ValueOf(k))
      BY ContentIs DEF Contents
    <3>3. ValueOf(k) = base[t]
      BY <2>2, <2>3, <3>2, SaysOnce
    <3> QED
      BY <3>1, <3>3 DEF Content
  <2>9. A!Delete(op[t].key)
    BY <2>2, <2>3, <2>5, <2>6, <2>8 DEF A!Delete
  <2> QED
    BY <2>1, <2>7, <2>9 DEF MapStep
<1>3. ASSUME NEW t \in Threads,
             GrowTm(t) \/ StartMoving(t) \/ MoveOne(t) \/ NextBucket(t) \/ Install(t)
      PROVE  UNCHANGED <<Content, exists>>
  <2>1. SameEntries(m', m)
    BY <1>3, GrowTmKeeps, StartKeeps, MoveOneKeeps, InstallKeeps
  <2>2. exists' = exists
    BY <1>3 DEF GrowTm, StartMoving, MoveOne, NextBucket, Install
  <2> QED
    BY <2>1, <2>2, ContentKept
<1>4. ASSUME m' = m, exists' = exists PROVE UNCHANGED <<Content, exists>>
  BY <1>4, ContentKept DEF SameEntries
<1>5. ASSUME NEW t \in Threads, \E o \in Ops : Call(t, o) PROVE m' = m /\ exists' = exists
  BY <1>5 DEF Call
<1>6. ASSUME NEW t \in Threads, Restart(t) \/ Look(t) \/ Visit(t) \/ StaysAsItIs(t)
      PROVE  m' = m /\ exists' = exists
  BY <1>6 DEF Restart, Look, Visit, StaysAsItIs
<1>7. ASSUME NEW t \in Threads, CommitRead(t) \/ InsertAborts(t)
      PROVE  m' = m /\ exists' = exists
  BY <1>7 DEF CommitRead, InsertAborts, Leave
<1>8. CASE \E t \in Threads : Step(t)
  BY <1>1, <1>2, <1>3, <1>4, <1>5, <1>6, <1>7, <1>8 DEF Step
<1>9. CASE Destroy
  <2>1. Content' = [k \in Keys |-> NoVal]
    BY <1>9, DestroyKeeps, ContentEmptied
  <2>2. A!Destroy
    BY <1>9, <2>1 DEF Destroy, A!Destroy, A!Empty
  <2> QED
    BY <2>2 DEF MapStep
<1>10. CASE New
  <2>1. Content' = [k \in Keys |-> NoVal] /\ Content = [k \in Keys |-> NoVal]
    BY <1>10, NewKeeps, ContentEmptied, ContentEmpty
  <2>2. A!New
    BY <1>10, <2>1 DEF New, A!New
  <2> QED
    BY <2>2 DEF MapStep
<1> QED
  BY <1>8, <1>9, <1>10 DEF Next, Raced

(* The map with its chains, buckets and resizes is a map from keys to       *)
(* values that a put or a delete changes for its own key, at its commit.    *)
THEOREM HashMapRefines == Spec => ImplementsKeyValue
<1>1. Init => A!Init
  BY InitIsGood, ContentEmpty DEF Init, A!Init, A!Empty
<1>2. IInv /\ IInv' /\ [Next]_vars => [raced' \/ MapStep]_<<Content, exists>>
  <2> SUFFICES ASSUME IInv, IInv', [Next]_vars, ~raced'
               PROVE  MapStep \/ UNCHANGED <<Content, exists>>
    OBVIOUS
  <2>1. ~raced /\ Good /\ Good'
    BY RacedStays DEF IInv
  <2>2. CASE Next
    BY <2>1, <2>2, MapStepIs
  <2>3. CASE UNCHANGED vars
    BY <2>1, <2>3, ContentKept DEF vars, SameEntries
  <2> QED
    BY <2>2, <2>3
<1> QED
  BY <1>1, <1>2, HashMapInvariance, PTL DEF Spec, ImplementsKeyValue

================================================================================
