----------------------------- MODULE WriteSetProofs -----------------------------
(***************************************************************************)
(* The write set of a transaction, for any locations and values, any hash  *)
(* function and any growing sequence of capacities.  First the look-up     *)
(* table: what probing finds, what an insertion and a rehash do.  Then the *)
(* replay, which is a recursion over the vector, the inductive invariant,  *)
(* one lemma for each action, and the theorems.                            *)
(***************************************************************************)
EXTENDS WriteSet, FiniteSetTheorems, WellFoundedInduction, TLAPS

--------------------------------------------------------------------------------
(* Arithmetic.                                                              *)

(* A set of natural numbers that is not empty has a least one: the          *)
(* intervals up to one of them are finite, and one of these is smallest.    *)
LEMMA LeastNumber ==
  ASSUME NEW S \in SUBSET Nat, S # {}
  PROVE  \E n \in S : \A m \in S : n <= m
<1> DEFINE below == {0..n : n \in S}
<1>1. below \subseteq FiniteSubsetsOf(Nat) /\ below # {}
  <2>1. \A n \in Nat : 0..n \in SUBSET Nat /\ IsFiniteSet(0..n)
    BY FS_Interval
  <2> QED
    BY <2>1 DEF FiniteSubsetsOf
<1>2. IsWellFoundedOn(StrictSubsetOrdering(Nat), FiniteSubsetsOf(Nat))
  BY FS_StrictSubsetOrderingWellFounded
<1>3. PICK x \in below : \A y \in below : ~(<<y, x>> \in StrictSubsetOrdering(Nat))
  <2> HIDE DEF below
  <2> QED
    BY <1>1, <1>2, WFMin
<1>4. PICK n \in S : x = 0..n
  BY <1>3
<1>5. ASSUME NEW m \in S, m < n PROVE FALSE
  <2>1. 0..m \subseteq 0..n /\ n \in 0..n /\ n \notin 0..m /\ 0..n \subseteq Nat
    BY <1>5
  <2>2. <<0..m, x>> \in StrictSubsetOrdering(Nat)
    BY <1>4, <2>1 DEF StrictSubsetOrdering
  <2> QED
    BY <1>3, <2>2
<1> QED
  BY <1>5

(* Quotient and remainder.                                                  *)
LEMMA DivMod ==
  ASSUME NEW c \in Nat, c > 0, NEW x \in Nat
  PROVE  /\ x % c \in 0..c - 1
         /\ \E q \in Int : x = q * c + (x % c)
<1>1. x \div c \in Int /\ x % c \in 0..c - 1 /\ x = (x \div c) * c + (x % c)
  OBVIOUS
<1> QED
  BY <1>1

(* The remainder is the one rest below the modulus.                         *)
LEMMA Rest ==
  ASSUME NEW c \in Nat, c > 0, NEW x \in Nat, NEW q \in Int, NEW r \in 0..c - 1,
         x = q * c + r
  PROVE  x % c = r
<1>1. PICK p \in Int : x = p * c + (x % c)
  BY DivMod
<1>2. x % c \in 0..c - 1
  BY DivMod
<1>3. \A y, z \in Int : y + 1 <= z => y * c + c <= z * c
  <2> TAKE y, z \in Int
  <2> HAVE y + 1 <= z
  <2>1. z - (y + 1) \in Nat /\ (z - (y + 1)) * c \in Nat
    OBVIOUS
  <2>2. (z - (y + 1)) * c = z * c - (y * c + c) /\ z * c \in Int /\ y * c \in Int
    OBVIOUS
  <2> QED
    BY <2>1, <2>2
<1>4. p * c \in Int /\ q * c \in Int
  OBVIOUS
<1>5. CASE p = q
  BY <1>1, <1>2, <1>4, <1>5
<1>6. CASE p < q
  BY <1>1, <1>2, <1>3, <1>4, <1>6
<1>7. CASE p > q
  BY <1>1, <1>2, <1>3, <1>4, <1>7
<1> QED
  BY <1>5, <1>6, <1>7

--------------------------------------------------------------------------------
(* The look-up table.                                                       *)

Slots(n) == [key : Addrs \cup {NoAddr}, index : 0..n]

(* A table of c slots whose indices are at most n.                          *)
IsTable(h, c, n) == c \in Nat \ {0} /\ n \in Nat /\ h \in [0..c - 1 -> Slots(n)]

(* Every key is found where probing for it stops first: the slots before    *)
(* are taken by others.                                                     *)
Reachable(h) ==
  \A s \in Occupied(h) : \E i \in 0..Capacity(h) - 1 :
    /\ Probe(h, h[s].key, i) = s
    /\ \A j \in 0..i - 1 : h[Probe(h, h[s].key, j)].key \notin {NoAddr, h[s].key}

(* The capacity of a table is the number of its slots.                      *)
LEMMA CapacityIs ==
  ASSUME NEW h, NEW c, NEW n, IsTable(h, c, n)
  PROVE  DOMAIN h = 0..c - 1 /\ IsFiniteSet(0..c - 1) /\ Capacity(h) = c
<1>1. 0 \in Int /\ c - 1 \in Int /\ ~(0 > c - 1) /\ c - 1 - 0 + 1 = c
  BY DEF IsTable
<1>2. IsFiniteSet(0..c - 1) /\ Cardinality(0..c - 1) = IF 0 > c - 1 THEN 0 ELSE c - 1 - 0 + 1
  BY <1>1, FS_Interval
<1> QED
  BY <1>1, <1>2 DEF IsTable, Capacity

(* Probing stays in the table and comes to each of its slots.               *)
LEMMA ProbeOnto ==
  ASSUME NEW h, NEW c, NEW n, IsTable(h, c, n), NEW a \in Addrs
  PROVE  /\ \A i \in Nat : Probe(h, a, i) \in 0..c - 1
         /\ \A s \in 0..c - 1 : \E i \in 0..c - 1 : Probe(h, a, i) = s
<1>1. c \in Nat /\ c > 0 /\ Capacity(h) = c /\ Hash[a] \in Nat
  <2>1. c \in Nat /\ c > 0
    BY DEF IsTable
  <2>2. Hash[a] \in Nat
    BY ConstAssumption
  <2> QED
    BY <2>1, <2>2, CapacityIs
<1>2. ASSUME NEW i \in Nat PROVE Probe(h, a, i) \in 0..c - 1
  <2>1. Hash[a] + i \in Nat
    BY <1>1
  <2> QED
    BY <1>1, <2>1, DivMod DEF Probe
<1>3. ASSUME NEW s \in 0..c - 1 PROVE \E i \in 0..c - 1 : Probe(h, a, i) = s
  <2>1. PICK r \in 0..c - 1 : r = Hash[a] % c
    BY <1>1, DivMod
  <2>2. PICK q \in Int : Hash[a] = q * c + r
    BY <1>1, <2>1, DivMod
  <2>3. q * c \in Int /\ (q + 1) * c = q * c + c
    BY <1>1
  <2>4. CASE s >= r
    <3>1. s - r \in 0..c - 1 /\ Hash[a] + (s - r) \in Nat /\ Hash[a] + (s - r) = q * c + s
      BY <1>1, <2>1, <2>2, <2>3, <2>4
    <3>2. (Hash[a] + (s - r)) % c = s
      BY <1>1, <3>1, Rest
    <3> QED
      BY <1>1, <3>1, <3>2 DEF Probe
  <2>5. CASE s < r
    <3> DEFINE i == s + c - r
    <3>1. i \in 0..c - 1 /\ Hash[a] + i \in Nat /\ q + 1 \in Int
      BY <1>1, <2>1, <2>5
    <3>4. Hash[a] + i = (q + 1) * c + s
      <4>1. PICK p \in Int : p = q * c
        BY <2>3
      <4> QED
        BY <1>1, <2>1, <2>2, <2>3, <4>1
    <3>2. (Hash[a] + i) % c = s
      <4> HIDE DEF i
      <4> QED
        BY <1>1, <3>4, <3>1, Rest
    <3> QED
      BY <1>1, <3>1, <3>2 DEF Probe
  <2> QED
    BY <2>4, <2>5
<1> QED
  BY <1>2, <1>3

(* Probing for an address stops at one slot or, when others have all of     *)
(* them, at none.                                                           *)
LEMMA StopsAt ==
  ASSUME NEW h, NEW c, NEW n, IsTable(h, c, n), NEW a \in Addrs
  PROVE  \/ /\ StopsFirst(h, a) = {}
            /\ \A s \in 0..c - 1 : h[s].key \notin {a, NoAddr}
         \/ \E i \in 0..c - 1 :
              /\ StopsFirst(h, a) = {Probe(h, a, i)}
              /\ h[Probe(h, a, i)].key \in {a, NoAddr}
              /\ \A j \in 0..i - 1 : h[Probe(h, a, j)].key \notin {a, NoAddr}
<1>1. c \in Nat /\ Capacity(h) = c
  BY CapacityIs DEF IsTable
<1>2. Stops(h, a) \in SUBSET Nat /\ Stops(h, a) \subseteq 0..c - 1
  BY <1>1 DEF Stops
<1>3. CASE Stops(h, a) = {}
  <2>1. StopsFirst(h, a) = {}
    BY <1>3 DEF StopsFirst
  <2>2. ASSUME NEW s \in 0..c - 1 PROVE h[s].key \notin {a, NoAddr}
    <3>1. PICK i \in 0..c - 1 : Probe(h, a, i) = s
      BY ProbeOnto
    <3> QED
      BY <1>1, <1>3, <3>1 DEF Stops
  <2> QED
    BY <2>1, <2>2
<1>4. CASE Stops(h, a) # {}
  <2>1. PICK i \in Stops(h, a) : \A k \in Stops(h, a) : i <= k
    BY <1>2, <1>4, LeastNumber
  <2>2. \A j \in Stops(h, a) : (\A k \in Stops(h, a) : j <= k) => j = i
    BY <1>2, <2>1
  <2>3. StopsFirst(h, a) = {Probe(h, a, i)}
    BY <2>1, <2>2 DEF StopsFirst
  <2>4. i \in 0..c - 1 /\ h[Probe(h, a, i)].key \in {a, NoAddr}
    BY <1>1, <2>1 DEF Stops
  <2>5. ASSUME NEW j \in 0..i - 1 PROVE h[Probe(h, a, j)].key \notin {a, NoAddr}
    <3>1. j \in 0..c - 1 /\ ~(i <= j)
      BY <1>1, <2>4
    <3> QED
      BY <1>1, <2>1, <3>1 DEF Stops
  <2> QED
    BY <2>3, <2>4, <2>5
<1> QED
  BY <1>3, <1>4

(* What is in the table is found, and only that.                            *)
LEMMA FoundIs ==
  ASSUME NEW h, NEW c, NEW n, IsTable(h, c, n), Reachable(h), NEW a \in Addrs
  PROVE  /\ \A s \in 0..c - 1 : h[s].key = a =>
                StopsFirst(h, a) = {s} /\ Found(h, a) = {h[s].index}
         /\ (\A s \in 0..c - 1 : h[s].key # a) => Found(h, a) = {}
<1>1. /\ c \in Nat /\ Capacity(h) = c /\ DOMAIN h = 0..c - 1
      /\ \A i \in Nat : Probe(h, a, i) \in 0..c - 1
  BY CapacityIs, ProbeOnto DEF IsTable
<1>2. ASSUME NEW s \in 0..c - 1, h[s].key = a
      PROVE  StopsFirst(h, a) = {s} /\ Found(h, a) = {h[s].index}
  <2>1. s \in Occupied(h)
    BY <1>1, <1>2, ConstAssumption DEF Occupied
  <2>2. PICK i \in 0..c - 1 :
          /\ Probe(h, a, i) = s
          /\ \A j \in 0..i - 1 : h[Probe(h, a, j)].key \notin {NoAddr, a}
    BY <1>1, <1>2, <2>1 DEF Reachable
  <2>3. PICK k \in 0..c - 1 :
          /\ StopsFirst(h, a) = {Probe(h, a, k)}
          /\ h[Probe(h, a, k)].key \in {a, NoAddr}
          /\ \A j \in 0..k - 1 : h[Probe(h, a, j)].key \notin {a, NoAddr}
    BY <1>2, StopsAt
  <2>4. ~(i < k) /\ ~(k < i)
    <3>1. i < k => i \in 0..k - 1
      BY <1>1
    <3>2. k < i => k \in 0..i - 1
      BY <1>1
    <3> QED
      BY <1>2, <2>2, <2>3, <3>1, <3>2
  <2>5. i = k
    BY <1>1, <2>4
  <2>6. StopsFirst(h, a) = {s}
    BY <2>2, <2>3, <2>5
  <2> QED
    BY <1>2, <2>6 DEF Found
<1>3. ASSUME \A s \in 0..c - 1 : h[s].key # a PROVE Found(h, a) = {}
  <2>1. StopsFirst(h, a) \subseteq 0..c - 1
    BY <1>1, StopsAt
  <2> QED
    BY <1>3, <2>1 DEF Found
<1> QED
  BY <1>2, <1>3(* An insertion that may update, or that is of a new key, puts the entry    *)
(* into one slot, and no other has its key; or the table is full of others. *)
LEMMA InsertIs ==
  ASSUME NEW h, NEW c, NEW n, IsTable(h, c, n), Reachable(h), NEW a \in Addrs,
         NEW i \in 0..n, NEW update \in BOOLEAN,
         update \/ \A s \in 0..c - 1 : h[s].key # a
  PROVE  /\ IsTable(Insert(h, a, i, update), c, n)
         /\ Reachable(Insert(h, a, i, update))
         /\ \/ /\ Insert(h, a, i, update) = h
               /\ \A s \in 0..c - 1 : h[s].key \notin {a, NoAddr}
            \/ \E t \in 0..c - 1 :
                 /\ h[t].key \in {a, NoAddr}
                 /\ Insert(h, a, i, update) = [h EXCEPT ![t] = [key |-> a, index |-> i]]
                 /\ \A s \in 0..c - 1 : s # t => h[s].key # a
<1> DEFINE new == Insert(h, a, i, update)
           e   == [key |-> a, index |-> i]
<1>1. /\ c \in Nat /\ n \in Nat /\ Capacity(h) = c /\ DOMAIN h = 0..c - 1
      /\ h = [s \in 0..c - 1 |-> h[s]]
      /\ \A b \in Addrs, j \in Nat : Probe(h, b, j) \in 0..c - 1
  BY CapacityIs, ProbeOnto DEF IsTable
<1>2. CASE StopsFirst(h, a) = {} /\ \A s \in 0..c - 1 : h[s].key \notin {a, NoAddr}
  <2>1. new = h
    BY <1>1, <1>2 DEF Insert
  <2> QED
    BY <1>2, <2>1
<1>3. ASSUME NEW k \in 0..c - 1,
             StopsFirst(h, a) = {Probe(h, a, k)},
             h[Probe(h, a, k)].key \in {a, NoAddr},
             \A j \in 0..k - 1 : h[Probe(h, a, j)].key \notin {a, NoAddr}
      PROVE  /\ IsTable(new, c, n) /\ Reachable(new)
             /\ \E t \in 0..c - 1 :
                  /\ h[t].key \in {a, NoAddr}
                  /\ new = [h EXCEPT ![t] = e]
                  /\ \A s \in 0..c - 1 : s # t => h[s].key # a
  <2>1. PICK t \in 0..c - 1 : t = Probe(h, a, k)
    <3>1. k \in Nat
      BY <1>1
    <3>2. Probe(h, a, k) \in 0..c - 1
      BY <1>1, <3>1
    <3> QED
      BY <3>2
  <2>2. \A s \in 0..c - 1 : s # t => h[s].key # a
    BY <1>3, <2>1, FoundIs
  <2>3. update \/ h[t].key = NoAddr
    BY <1>3, <2>1
  <2>4. new = [h EXCEPT ![t] = e]
    BY <1>1, <1>3, <2>1, <2>3 DEF Insert
  <2>5. e \in Slots(n)
    BY DEF Slots
  <2>6. new \in [0..c - 1 -> Slots(n)] /\ new[t] = e /\ \A s \in 0..c - 1 : s # t => new[s] = h[s]
    <3> HIDE DEF e, new
    <3> QED
      BY <1>1, <2>4, <2>5 DEF IsTable
  <2>7. IsTable(new, c, n)
    <3> HIDE DEF new
    <3> QED
      BY <2>6 DEF IsTable
  <2>8. Capacity(new) = c /\ DOMAIN new = 0..c - 1
    <3> HIDE DEF new
    <3> QED
      BY <2>7, CapacityIs
  <2>9. \A b, j : Probe(new, b, j) = Probe(h, b, j)
    BY <1>1, <2>8 DEF Probe
  <2>10. e.key = a
    OBVIOUS
  <2> HIDE DEF new, e
  <2>11. ASSUME NEW s \in Occupied(new)
         PROVE  \E j \in 0..c - 1 :
                  /\ Probe(new, new[s].key, j) = s
                  /\ \A l \in 0..j - 1 :
                       new[Probe(new, new[s].key, l)].key \notin {NoAddr, new[s].key}
    <3>1. s \in 0..c - 1 /\ new[s].key # NoAddr
      BY <2>8 DEF Occupied
    <3>2. CASE s = t
      <4>1. new[s].key = a
        BY <2>6, <2>10, <3>2
      <4>2. ASSUME NEW l \in 0..k - 1 PROVE new[Probe(new, a, l)].key \notin {NoAddr, a}
        <5>1. h[Probe(h, a, l)].key \notin {a, NoAddr} /\ Probe(h, a, l) \in 0..c - 1
          BY <1>1, <1>3
        <5>2. Probe(h, a, l) # t
          BY <1>3, <2>1, <5>1
        <5> QED
          BY <2>6, <2>9, <5>1, <5>2
      <4> QED
        BY <2>1, <2>9, <3>2, <4>1, <4>2
    <3>3. CASE s # t
      <4> DEFINE b == h[s].key
      <4>1. new[s] = h[s] /\ b # NoAddr /\ b # a /\ b \in Addrs
        BY <1>1, <2>2, <2>6, <3>1, <3>3 DEF IsTable, Slots
      <4>2. PICK j \in 0..c - 1 :
              /\ Probe(h, b, j) = s
              /\ \A l \in 0..j - 1 : h[Probe(h, b, l)].key \notin {NoAddr, b}
        BY <1>1, <3>1, <4>1 DEF Reachable, Occupied
      <4> HIDE DEF b
      <4>3. ASSUME NEW l \in 0..j - 1 PROVE new[Probe(new, b, l)].key \notin {NoAddr, b}
        <5>1. PICK x \in 0..c - 1 : x = Probe(h, b, l)
          <6>1. l \in Nat
            BY <1>1
          <6>2. Probe(h, b, l) \in 0..c - 1
            BY <1>1, <4>1, <6>1
          <6> QED
            BY <6>2
        <5>2. h[x].key \notin {NoAddr, b}
          BY <4>2, <5>1
        <5>3. new[x].key \notin {NoAddr, b}
          BY <2>6, <2>10, <4>1, <5>2, ConstAssumption
        <5> QED
          BY <2>9, <5>1, <5>3
      <4> QED
        BY <2>9, <4>1, <4>2, <4>3 DEF b
    <3> QED
      BY <3>2, <3>3
  <2>12. Reachable(new)
    BY <2>8, <2>11 DEF Reachable
  <2> QED
    BY <1>3, <2>1, <2>2, <2>4, <2>7, <2>12
<1> QED
  BY <1>2, <1>3, StopsAt

(* An empty table.                                                          *)
LEMMA EmptyIs ==
  ASSUME NEW c \in Nat \ {0}, NEW n \in Nat
  PROVE  /\ IsTable(EmptyTable(c), c, n) /\ Reachable(EmptyTable(c))
         /\ Occupied(EmptyTable(c)) = {}
         /\ \A s \in 0..c - 1 : EmptyTable(c)[s].key = NoAddr
<1>1. EmptySlot \in Slots(n) /\ EmptySlot.key = NoAddr
  BY DEF EmptySlot, Slots
<1>2. IsTable(EmptyTable(c), c, n)
  BY <1>1 DEF IsTable, EmptyTable
<1>3. \A s \in 0..c - 1 : EmptyTable(c)[s].key = NoAddr
  BY <1>1 DEF EmptyTable
<1>4. Occupied(EmptyTable(c)) = {}
  BY <1>3 DEF Occupied, EmptyTable
<1> QED
  BY <1>2, <1>3, <1>4 DEF Reachable
--------------------------------------------------------------------------------
(* Induction along an interval: a set that has 0, and every number whose    *)
(* predecessor it has, has them all.                                        *)
LEMMA Upward ==
  ASSUME NEW N \in Nat, NEW S \in SUBSET (0..N), 0 \in S,
         \A k \in 1..N : k - 1 \in S => k \in S
  PROVE  S = 0..N
<1> DEFINE rest == (0..N) \ S
<1>1. SUFFICES ASSUME rest # {} PROVE FALSE
  OBVIOUS
<1>2. rest \in SUBSET Nat
  OBVIOUS
<1>3. PICK n \in rest : \A m \in rest : n <= m
  <2> HIDE DEF rest
  <2> QED
    BY <1>1, <1>2, LeastNumber
<1>4. n \in 0..N /\ n \notin S /\ n # 0
  BY <1>3
<1>5. n \in 1..N /\ n - 1 \in 0..N /\ ~(n <= n - 1)
  BY <1>4
<1> QED
  BY <1>3, <1>4, <1>5

(* Recursion along an interval: what starts at x and goes on by F exists.   *)
Goes(N, S, x, F, u) ==
  u \in [0..N -> S] /\ u[0] = x /\ \A k \in 1..N : u[k] = F[k][u[k - 1]]

(* The recursive function exists: it does up to each k, by Upward.          *)
LEMMA Recursion ==
  ASSUME NEW N \in Nat, NEW S, NEW x \in S, NEW F \in [1..N -> [S -> S]]
  PROVE  \E u : Goes(N, S, x, F, u)
<1> DEFINE Upto(n) == \E u \in [0..n -> S] : u[0] = x /\ \A k \in 1..n : u[k] = F[k][u[k - 1]]
           long    == {n \in 0..N : Upto(n)}
<1>1. Upto(0)
  <2>1. [i \in 0..0 |-> x] \in [0..0 -> S] /\ [i \in 0..0 |-> x][0] = x /\ 1..0 = {}
    OBVIOUS
  <2> QED
    BY <2>1
<1>2. ASSUME NEW n \in 1..N, Upto(n - 1) PROVE Upto(n)
  <2>1. PICK u \in [0..n - 1 -> S] : u[0] = x /\ \A k \in 1..n - 1 : u[k] = F[k][u[k - 1]]
    BY <1>2
  <2> DEFINE w == [i \in 0..n |-> IF i = n THEN F[n][u[n - 1]] ELSE u[i]]
  <2>2. n \in Nat /\ n # 0 /\ n - 1 \in 0..n - 1 /\ F[n] \in [S -> S]
    OBVIOUS
  <2>3. w \in [0..n -> S]
    BY <2>1, <2>2
  <2>4. w[0] = x
    BY <2>1, <2>2
  <2>5. ASSUME NEW k \in 1..n PROVE w[k] = F[k][w[k - 1]]
    <3>1. CASE k = n
      BY <2>2, <3>1
    <3>2. CASE k # n
      <4>1. k \in 1..n - 1 /\ k \in 0..n /\ k - 1 \in 0..n /\ k - 1 # n
        BY <2>2, <3>2
      <4>2. w[k] = u[k] /\ w[k - 1] = u[k - 1]
        BY <3>2, <4>1
      <4> QED
        BY <2>1, <4>1, <4>2
    <3> QED
      BY <3>1, <3>2
  <2> HIDE DEF w
  <2> QED
    BY <2>3, <2>4, <2>5
<1> HIDE DEF Upto
<1>3. long = 0..N
  <2>1. 0 \in long
    BY <1>1
  <2>2. \A k \in 1..N : k - 1 \in long => k \in long
    BY <1>2
  <2>3. long \in SUBSET (0..N)
    OBVIOUS
  <2> HIDE DEF long
  <2> QED
    BY <2>1, <2>2, <2>3, Upward
<1>4. Upto(N)
  BY <1>3
<1> QED
  BY <1>4 DEF Upto, Goes

(* A rehash, slot after slot.                                               *)
Refill(h, c, u) ==
  u = [k \in 0..Capacity(h) |->
         IF k = 0 THEN EmptyTable(c)
         ELSE IF h[k - 1].key = NoAddr THEN u[k - 1]
         ELSE Insert(u[k - 1], h[k - 1].key, h[k - 1].index, FALSE)]

(* The new table after k slots: it has their entries, and only these.       *)
Refilled(h, c, n, k, new) ==
  /\ IsTable(new, c, n) /\ Reachable(new)
  /\ \A t \in 0..c - 1 : new[t].key # NoAddr => \E s \in 0..k - 1 : h[s] = new[t]
  /\ \A s \in 0..k - 1 : h[s].key # NoAddr => \E t \in 0..c - 1 : new[t] = h[s]
  /\ Cardinality(Occupied(new)) <= k

(* Some slot is free as long as fewer are taken than there are.             *)
LEMMA HasRoom ==
  ASSUME NEW h, NEW c, NEW n, IsTable(h, c, n), Cardinality(Occupied(h)) < c
  PROVE  \E s \in 0..c - 1 : h[s].key = NoAddr
<1>1. DOMAIN h = 0..c - 1 /\ IsFiniteSet(0..c - 1) /\ Cardinality(0..c - 1) = c /\ c \in Nat
  <2>1. DOMAIN h = 0..c - 1 /\ IsFiniteSet(0..c - 1) /\ Capacity(h) = c
    BY CapacityIs
  <2> QED
    BY <2>1 DEF Capacity, IsTable
<1>2. SUFFICES ASSUME \A s \in 0..c - 1 : h[s].key # NoAddr PROVE FALSE
  OBVIOUS
<1>3. Occupied(h) = 0..c - 1
  BY <1>1, <1>2 DEF Occupied
<1> QED
  BY <1>1, <1>3

(* An old key is in one slot only.                                          *)
LEMMA KeyIsOnce ==
  ASSUME NEW h, NEW c, NEW n, IsTable(h, c, n), Reachable(h),
         NEW s \in 0..c - 1, NEW t \in 0..c - 1, h[s].key = h[t].key, h[s].key # NoAddr
  PROVE  s = t
<1>1. PICK a \in Addrs : a = h[s].key
  BY DEF IsTable, Slots
<1>2. StopsFirst(h, a) = {s} /\ StopsFirst(h, a) = {t}
  BY <1>1, FoundIs
<1> QED
  BY <1>2

(* The next slot goes into the new table.                                   *)
LEMMA RefillStep ==
  ASSUME NEW h, NEW d, NEW c, NEW n, IsTable(h, d, n), Reachable(h), d < c,
         NEW k \in 1..d, NEW old, Refilled(h, c, n, k - 1, old)
  PROVE  Refilled(h, c, n, k,
                  IF h[k - 1].key = NoAddr THEN old
                  ELSE Insert(old, h[k - 1].key, h[k - 1].index, FALSE))
<1> DEFINE x == h[k - 1]
<1>1. /\ IsTable(old, c, n) /\ Reachable(old)
      /\ \A t \in 0..c - 1 : old[t].key # NoAddr => \E s \in 0..(k - 1) - 1 : h[s] = old[t]
      /\ \A s \in 0..(k - 1) - 1 : h[s].key # NoAddr => \E t \in 0..c - 1 : old[t] = h[s]
      /\ Cardinality(Occupied(old)) <= k - 1
  BY DEF Refilled
<1>2. /\ d \in Nat /\ k \in Nat /\ k - 1 \in 0..d - 1 /\ k - 1 < c /\ k - 1 <= k
      /\ \A s \in 0..k - 1 : s = k - 1 \/ s \in 0..(k - 1) - 1
      /\ 0..(k - 1) - 1 \subseteq 0..k - 1 /\ k - 1 \in 0..k - 1 /\ 0..k - 1 \subseteq 0..d - 1
  <2>1. d \in Nat /\ c \in Nat
    BY <1>1 DEF IsTable
  <2> QED
    BY <2>1
<1>3. /\ c \in Nat /\ DOMAIN old = 0..c - 1 /\ IsFiniteSet(0..c - 1)
      /\ IsFiniteSet(Occupied(old)) /\ Cardinality(Occupied(old)) \in Nat
  <2>1. c \in Nat /\ DOMAIN old = 0..c - 1 /\ IsFiniteSet(0..c - 1)
    BY <1>1, CapacityIs DEF IsTable
  <2>2. Occupied(old) \subseteq 0..c - 1
    BY <2>1 DEF Occupied
  <2> QED
    BY <2>1, <2>2, FS_Subset, FS_CardinalityType
<1>4. x \in Slots(n)
  BY <1>2 DEF IsTable
<1>5. CASE x.key = NoAddr
  <2>1. \A s \in 0..k - 1 : h[s].key # NoAddr => \E t \in 0..c - 1 : old[t] = h[s]
    BY <1>1, <1>2, <1>5
  <2>2. \A t \in 0..c - 1 : old[t].key # NoAddr => \E s \in 0..k - 1 : h[s] = old[t]
    BY <1>1, <1>2
  <2>3. Cardinality(Occupied(old)) <= k
    BY <1>1, <1>2, <1>3
  <2> QED
    BY <1>1, <1>5, <2>1, <2>2, <2>3 DEF Refilled
<1>6. CASE x.key # NoAddr
  <2>1. x.key \in Addrs /\ x.index \in 0..n /\ x = [key |-> x.key, index |-> x.index]
    BY <1>4, <1>6 DEF Slots
  <2>2. PICK a \in Addrs, i \in 0..n : a = x.key /\ i = x.index /\ x = [key |-> a, index |-> i]
    BY <2>1
  <2> DEFINE new == Insert(old, a, i, FALSE)
  <2>3. \A s \in 0..c - 1 : old[s].key # a
    <3> SUFFICES ASSUME NEW s \in 0..c - 1, old[s].key = a PROVE FALSE
      OBVIOUS
    <3>1. a # NoAddr
      BY ConstAssumption
    <3>2. PICK r \in 0..(k - 1) - 1 : h[r] = old[s]
      BY <1>1, <3>1
    <3>3. r \in 0..d - 1 /\ r # k - 1 /\ h[r].key = h[k - 1].key
      BY <1>2, <2>2, <3>2
    <3> QED
      BY <1>2, <1>6, <3>3, KeyIsOnce
  <2>4. \E s \in 0..c - 1 : old[s].key = NoAddr
    <3>1. Cardinality(Occupied(old)) < c
      BY <1>1, <1>2, <1>3
    <3> QED
      BY <1>1, <3>1, HasRoom
  <2>5. /\ IsTable(new, c, n) /\ Reachable(new)
        /\ \E t \in 0..c - 1 : old[t].key \in {a, NoAddr} /\ new = [old EXCEPT ![t] = x]
    <3>1. PICK update \in BOOLEAN : update = FALSE
      OBVIOUS
    <3>2. /\ IsTable(new, c, n) /\ Reachable(new)
          /\ \/ /\ new = old
                /\ \A s \in 0..c - 1 : old[s].key \notin {a, NoAddr}
             \/ \E t \in 0..c - 1 :
                  /\ old[t].key \in {a, NoAddr}
                  /\ new = [old EXCEPT ![t] = [key |-> a, index |-> i]]
                  /\ \A s \in 0..c - 1 : s # t => old[s].key # a
      <4>1. update \/ \A s \in 0..c - 1 : old[s].key # a
        BY <2>3
      <4>2. new = Insert(old, a, i, update)
        BY <3>1
      <4> HIDE DEF new
      <4> QED
        BY <1>1, <4>1, <4>2, InsertIs
    <3> HIDE DEF new
    <3> QED
      BY <2>2, <2>4, <3>2
  <2>6. PICK t \in 0..c - 1 : old[t].key \in {a, NoAddr} /\ new = [old EXCEPT ![t] = x]
    BY <2>5
  <2> HIDE DEF new
  <2>7. new[t] = x /\ (\A r \in 0..c - 1 : r # t => new[r] = old[r]) /\ DOMAIN new = 0..c - 1
    BY <1>3, <2>6
  <2>8. old[t].key = NoAddr
    BY <2>3, <2>6
  <2>9. ASSUME NEW r \in 0..c - 1, new[r].key # NoAddr
        PROVE  \E s \in 0..k - 1 : h[s] = new[r]
    BY <1>1, <1>2, <2>7, <2>9
  <2>10. ASSUME NEW s \in 0..k - 1, h[s].key # NoAddr
         PROVE  \E r \in 0..c - 1 : new[r] = h[s]
    <3>1. CASE s = k - 1
      BY <2>7, <3>1
    <3>2. CASE s # k - 1
      <4>1. PICK r \in 0..c - 1 : old[r] = h[s]
        BY <1>1, <1>2, <2>10, <3>2
      <4> QED
        BY <2>7, <2>8, <2>10, <4>1
    <3> QED
      BY <3>1, <3>2
  <2>11. Cardinality(Occupied(new)) <= k
    <3>1. Occupied(new) = Occupied(old) \cup {t}
      BY <1>3, <1>6, <2>7 DEF Occupied
    <3>2. Cardinality(Occupied(old) \cup {t}) <= Cardinality(Occupied(old)) + 1
      <4>1. Cardinality(Occupied(old) \cup {t})
              = IF t \in Occupied(old) THEN Cardinality(Occupied(old))
                                       ELSE Cardinality(Occupied(old)) + 1
        BY <1>3, FS_AddElement
      <4> QED
        BY <1>3, <4>1
    <3>3. IsFiniteSet(Occupied(old) \cup {t})
      BY <1>3, FS_AddElement
    <3>4. Cardinality(Occupied(old) \cup {t}) \in Nat
      BY <3>3, FS_CardinalityType
    <3> QED
      BY <1>1, <1>2, <1>3, <3>1, <3>2, <3>4
  <2>12. Refilled(h, c, n, k, new)
    BY <2>5, <2>9, <2>10, <2>11 DEF Refilled
  <2> QED
    BY <1>6, <2>2, <2>12 DEF new
<1> QED
  BY <1>5, <1>6
(* A larger table has every entry of the old one, and no other.             *)
LEMMA RehashIs ==
  ASSUME NEW h, NEW d, NEW c \in Nat, NEW n, IsTable(h, d, n), Reachable(h), d < c
  PROVE  Refilled(h, c, n, d, Rehash(h, c))
<1> DEFINE S    == [0..c - 1 -> Slots(n)]
           F    == [k \in 1..d |-> [t \in S |->
                      IF h[k - 1].key = NoAddr THEN t
                      ELSE Insert(t, h[k - 1].key, h[k - 1].index, FALSE)]]
           upto == CHOOSE u : Refill(h, c, u)
           good == {k \in 0..d : Refilled(h, c, n, k, upto[k])}
<1>1. d \in Nat /\ c \in Nat \ {0} /\ n \in Nat /\ Capacity(h) = d
  <2>1. d \in Nat /\ c \in Nat \ {0} /\ n \in Nat
    BY DEF IsTable
  <2> QED
    BY <2>1, CapacityIs
<1>2. EmptyTable(c) \in S
  BY <1>1, EmptyIs DEF IsTable
<1>3. F \in [1..d -> [S -> S]]
  <2> SUFFICES ASSUME NEW k \in 1..d, NEW t \in S, h[k - 1].key # NoAddr
               PROVE  Insert(t, h[k - 1].key, h[k - 1].index, FALSE) \in S
    OBVIOUS
  <2>1. k - 1 \in 0..d - 1 /\ h[k - 1] \in Slots(n)
    BY <1>1 DEF IsTable
  <2>2. [key |-> h[k - 1].key, index |-> h[k - 1].index] \in Slots(n)
    BY <2>1 DEF Slots
  <2>3. DOMAIN t = 0..c - 1 /\ \A s \in 0..c - 1 : t[s] \in Slots(n)
    OBVIOUS
  <2> QED
    BY <2>2, <2>3 DEF Insert
<1>4. PICK u \in [0..d -> S] : u[0] = EmptyTable(c) /\ \A k \in 1..d : u[k] = F[k][u[k - 1]]
  <2> HIDE DEF S, F
  <2>1. PICK u : Goes(d, S, EmptyTable(c), F, u)
    BY <1>1, <1>2, <1>3, Recursion
  <2> QED
    BY <2>1 DEF Goes
<1>5. Refill(h, c, u)
  <2>1. ASSUME NEW k \in 0..d
        PROVE  u[k] = IF k = 0 THEN EmptyTable(c)
                      ELSE IF h[k - 1].key = NoAddr THEN u[k - 1]
                      ELSE Insert(u[k - 1], h[k - 1].key, h[k - 1].index, FALSE)
    <3>1. CASE k = 0
      BY <1>4, <3>1
    <3>2. CASE k # 0
      <4>1. k \in 1..d /\ k - 1 \in 0..d
        BY <1>1, <3>2
      <4>2. u[k] = F[k][u[k - 1]] /\ u[k - 1] \in S
        BY <1>4, <4>1
      <4> QED
        BY <3>2, <4>1, <4>2
    <3> QED
      BY <3>1, <3>2
  <2>2. u = [k \in 0..d |-> u[k]]
    BY <1>4
  <2> QED
    BY <1>1, <2>1, <2>2 DEF Refill
<1>6. Refill(h, c, upto)
  BY <1>5
<1>7. Rehash(h, c) = upto[d]
  BY <1>1 DEF Rehash, Refill
<1> HIDE DEF upto
<1>8. /\ upto[0] = EmptyTable(c)
      /\ \A k \in 1..d : upto[k] = IF h[k - 1].key = NoAddr THEN upto[k - 1]
                                   ELSE Insert(upto[k - 1], h[k - 1].key, h[k - 1].index, FALSE)
  <2>1. upto = [k \in 0..d |->
                 IF k = 0 THEN EmptyTable(c)
                 ELSE IF h[k - 1].key = NoAddr THEN upto[k - 1]
                 ELSE Insert(upto[k - 1], h[k - 1].key, h[k - 1].index, FALSE)]
    BY <1>1, <1>6 DEF Refill
  <2>2. 0 \in 0..d /\ \A k \in 1..d : k \in 0..d /\ k # 0
    BY <1>1
  <2> QED
    BY <2>1, <2>2
<1>9. good = 0..d
  <2>1. 0 \in good
    <3>1. Refilled(h, c, n, 0, EmptyTable(c))
      <4>1. Cardinality({}) <= 0 /\ 0..0 - 1 = {}
        <5>1. Cardinality({}) = 0
          BY FS_EmptySet
        <5> QED
          BY <5>1
      <4> QED
        BY <1>1, <4>1, EmptyIs DEF Refilled
    <3> QED
      BY <1>1, <1>8, <3>1
  <2>2. ASSUME NEW k \in 1..d, k - 1 \in good PROVE k \in good
    <3>1. Refilled(h, c, n, k - 1, upto[k - 1]) /\ k \in 0..d
      BY <1>1, <2>2
    <3>2. PICK old : old = upto[k - 1]
      OBVIOUS
    <3>3. Refilled(h, c, n, k,
                   IF h[k - 1].key = NoAddr THEN old
                   ELSE Insert(old, h[k - 1].key, h[k - 1].index, FALSE))
      BY <3>1, <3>2, RefillStep
    <3> QED
      BY <1>8, <3>1, <3>2, <3>3
  <2>3. good \in SUBSET (0..d)
    OBVIOUS
  <2> HIDE DEF good
  <2> QED
    BY <1>1, <2>1, <2>2, <2>3, Upward
<1>10. d \in 0..d
  BY <1>1
<1> QED
  BY <1>7, <1>9, <1>10
--------------------------------------------------------------------------------
(* The replay.                                                              *)

Rewind(w, m, u) ==
  u = [k \in 0..Len(w) |->
         IF k = 0 THEN m
         ELSE LET e == w[k]
              IN  IF e.addr = NoAddr THEN u[k - 1] ELSE [u[k - 1] EXCEPT ![e.addr] = e.val]]

(* What the first k entries of w leave of m: the value of the last of them  *)
(* that has the address.                                                    *)
Replayed(w, m, k, x) ==
  /\ x \in [Addrs -> Vals]
  /\ \A a \in Addrs :
       /\ (\A i \in 1..k : w[i].addr # a) => x[a] = m[a]
       /\ \A i \in 1..k : w[i].addr = a /\ (\A j \in i + 1..k : w[j].addr # a)
                            => x[a] = w[i].val

(* One entry more of the replay.                                            *)
LEMMA ReplayedStep ==
  ASSUME NEW w \in Seq(Entries), NEW m, NEW k \in 1..Len(w), NEW x, Replayed(w, m, k - 1, x)
  PROVE  Replayed(w, m, k, IF w[k].addr = NoAddr THEN x ELSE [x EXCEPT ![w[k].addr] = w[k].val])
<1> DEFINE e == w[k]
           y == IF e.addr = NoAddr THEN x ELSE [x EXCEPT ![e.addr] = e.val]
<1>1. k \in Nat /\ k \in DOMAIN w
  OBVIOUS
<1>2. /\ x \in [Addrs -> Vals]
      /\ e \in Entries /\ e.addr \in Addrs \cup {NoAddr} /\ e.val \in Vals
  <2>1. x \in [Addrs -> Vals]
    BY DEF Replayed
  <2>2. e \in Entries
    BY <1>1
  <2> QED
    BY <2>1, <2>2 DEF Entries
<1>3. y \in [Addrs -> Vals]
  BY <1>2
<1>4. \A a \in Addrs : y[a] = IF e.addr = a THEN e.val ELSE x[a]
  BY <1>2, ConstAssumption
<1>5. ASSUME NEW a \in Addrs, \A i \in 1..k : w[i].addr # a
      PROVE  y[a] = m[a]
  <2>1. \A i \in 1..k - 1 : w[i].addr # a
    BY <1>1, <1>5
  <2>2. k \in 1..k
    BY <1>1
  <2>3. x[a] = m[a]
    BY <2>1 DEF Replayed
  <2> HIDE DEF y
  <2> QED
    BY <1>4, <1>5, <2>2, <2>3
<1>6. ASSUME NEW a \in Addrs, NEW i \in 1..k, w[i].addr = a, \A j \in i + 1..k : w[j].addr # a
      PROVE  y[a] = w[i].val
  <2> HIDE DEF y
  <2>1. CASE i = k
    BY <1>4, <1>6, <2>1
  <2>2. CASE i # k
    <3>1. i \in 1..k - 1 /\ k \in i + 1..k /\ i + 1..k - 1 \subseteq i + 1..k
      BY <1>1, <2>2
    <3>2. e.addr # a
      BY <1>6, <3>1
    <3>3. x[a] = w[i].val
      BY <1>6, <3>1 DEF Replayed
    <3> QED
      BY <1>4, <3>2, <3>3
  <2> QED
    BY <2>1, <2>2
<1> HIDE DEF y
<1>7. Replayed(w, m, k, y)
  BY <1>3, <1>5, <1>6 DEF Replayed
<1> QED
  BY <1>7 DEF y

(* The recursive function Replay is such a replay of the whole vector.      *)
LEMMA ReplayIs ==
  ASSUME wset \in Seq(Entries), NEW m \in [Addrs -> Vals]
  PROVE  Replayed(wset, m, Len(wset), Replay(m))
<1> DEFINE N     == Len(wset)
           S     == [Addrs -> Vals]
           F     == [k \in 1..N |-> [x \in S |->
                       IF wset[k].addr = NoAddr THEN x
                       ELSE [x EXCEPT ![wset[k].addr] = wset[k].val]]]
           after == CHOOSE u : Rewind(wset, m, u)
           good  == {k \in 0..N : Replayed(wset, m, k, after[k])}
<1>1. N \in Nat
  OBVIOUS
<1>2. F \in [1..N -> [S -> S]]
  <2> SUFFICES ASSUME NEW k \in 1..N, NEW x \in S, wset[k].addr # NoAddr
               PROVE  [x EXCEPT ![wset[k].addr] = wset[k].val] \in S
    OBVIOUS
  <2>1. wset[k] \in Entries
    BY <1>1
  <2> QED
    BY <2>1 DEF Entries
<1>3. PICK u \in [0..N -> S] : u[0] = m /\ \A k \in 1..N : u[k] = F[k][u[k - 1]]
  <2>1. m \in S
    OBVIOUS
  <2> HIDE DEF S, F, N
  <2>2. PICK u : Goes(N, S, m, F, u)
    BY <1>1, <1>2, <2>1, Recursion
  <2> QED
    BY <2>2 DEF Goes
<1>4. Rewind(wset, m, u)
  <2>1. ASSUME NEW k \in 0..N
        PROVE  u[k] = IF k = 0 THEN m
                      ELSE IF wset[k].addr = NoAddr THEN u[k - 1]
                      ELSE [u[k - 1] EXCEPT ![wset[k].addr] = wset[k].val]
    <3>1. CASE k = 0
      BY <1>3, <3>1
    <3>2. CASE k # 0
      <4>1. k \in 1..N /\ k - 1 \in 0..N
        BY <1>1, <3>2
      <4>2. u[k] = F[k][u[k - 1]] /\ u[k - 1] \in S
        BY <1>3, <4>1
      <4> QED
        BY <3>2, <4>1, <4>2
    <3> QED
      BY <3>1, <3>2
  <2>2. u = [k \in 0..N |-> u[k]]
    BY <1>3
  <2> QED
    BY <1>1, <2>1, <2>2 DEF Rewind
<1>5. Rewind(wset, m, after)
  BY <1>4
<1>6. Replay(m) = after[N]
  BY DEF Replay, Rewind
<1> HIDE DEF after
<1>7. /\ after[0] = m
      /\ \A k \in 1..N : after[k] = IF wset[k].addr = NoAddr THEN after[k - 1]
                                    ELSE [after[k - 1] EXCEPT ![wset[k].addr] = wset[k].val]
  <2>1. after = [k \in 0..N |->
                   IF k = 0 THEN m
                   ELSE IF wset[k].addr = NoAddr THEN after[k - 1]
                   ELSE [after[k - 1] EXCEPT ![wset[k].addr] = wset[k].val]]
    BY <1>5 DEF Rewind
  <2>2. 0 \in 0..N /\ \A k \in 1..N : k \in 0..N /\ k # 0
    BY <1>1
  <2> QED
    BY <2>1, <2>2
<1>8. good = 0..N
  <2>1. 0 \in good
    <3>1. Replayed(wset, m, 0, m)
      BY DEF Replayed
    <3> QED
      BY <1>1, <1>7, <3>1
  <2>2. ASSUME NEW k \in 1..N, k - 1 \in good PROVE k \in good
    <3>1. PICK x : x = after[k - 1]
      OBVIOUS
    <3>2. Replayed(wset, m, k - 1, x) /\ k \in 0..N
      BY <1>1, <2>2, <3>1
    <3>3. Replayed(wset, m, k, IF wset[k].addr = NoAddr THEN x
                               ELSE [x EXCEPT ![wset[k].addr] = wset[k].val])
      BY <3>2, ReplayedStep
    <3> QED
      BY <1>7, <3>1, <3>2, <3>3
  <2>3. good \in SUBSET (0..N)
    OBVIOUS
  <2> HIDE DEF good, N
  <2> QED
    BY <1>1, <2>1, <2>2, <2>3, Upward
<1>9. N \in 0..N
  BY <1>1
<1> QED
  BY <1>6, <1>8, <1>9
--------------------------------------------------------------------------------
(* The inductive invariant.                                                 *)

(* Types, with the capacity of the table and the room in the vector.        *)
WellTyped ==
  /\ stage \in {"out", "work", "aborted", "committed"}
  /\ wset \in Seq(Entries)
  /\ vcap \in Nat /\ vcap >= 2
  /\ stage = "work" => Len(wset) < vcap
  /\ grows \in 0..Len(Primes) - 1
  /\ \E i \in 1..grows + 1 : IsTable(table, Primes[i], Len(wset))
  /\ mem \in [Addrs -> Vals] /\ before \in [Addrs -> Vals]
  /\ double \in BOOLEAN /\ wrote2 \in BOOLEAN
  /\ last \in [Addrs -> Vals \cup {NoVal}]

(* A slot leads to an entry of its own address with the last value written. *)
Indexed(h, w, l) ==
  \A s \in Occupied(h) :
    /\ h[s].index \in DOMAIN w
    /\ w[h[s].index].addr = h[s].key /\ w[h[s].index].val = l[h[s].key]
    /\ w[h[s].index].buf = "live"

(* The last entry with an address has the last value written to it.         *)
NewestKept(w, l) ==
  \A a \in Addrs :
    IF l[a] = NoVal THEN \A i \in DOMAIN w : w[i].addr # a
    ELSE \E i \in DOMAIN w : /\ w[i].addr = a /\ w[i].val = l[a]
                             /\ \A j \in DOMAIN w : j > i => w[j].addr # a

(* What was written has a slot, unless the table is full and cannot grow.   *)
NothingLost(h, g, l) ==
  /\ Occupied(h) = DOMAIN h => g + 1 >= Len(Primes)
  /\ \A a \in Addrs : l[a] # NoVal =>
       (\E s \in DOMAIN h : h[s].key = a) \/ Occupied(h) = DOMAIN h

(* A buffer freed early is one of an entry that was taken out.              *)
FreedIsGone(w, again) == \A i \in DOMAIN w : w[i].buf = "freed" => w[i].addr = NoAddr /\ again

IInv ==
  /\ WellTyped
  /\ Reachable(table)
  /\ stage = "out" => wset = <<>> /\ Occupied(table) = {}
  /\ stage \in {"work", "committed"} =>
       /\ Indexed(table, wset, last)
       /\ NewestKept(wset, last)
       /\ NothingLost(table, grows, last)
       /\ FreedIsGone(wset, wrote2)
  /\ stage = "aborted" => \A i \in DOMAIN wset : wset[i].buf = "freed" => wrote2
  /\ stage = "work" => mem = before
  /\ stage = "committed" => mem = Overlay(before, last)
  /\ double => wrote2
--------------------------------------------------------------------------------
(* The steps.                                                               *)

(* In a table larger indices are allowed as well.                           *)
LEMMA MoreIndices ==
  ASSUME NEW h, NEW c, NEW n, IsTable(h, c, n), NEW k \in Nat, n <= k
  PROVE  IsTable(h, c, k)
<1>1. n \in Nat /\ c \in Nat \ {0} /\ h \in [0..c - 1 -> Slots(n)]
  BY DEF IsTable
<1>2. Slots(n) \subseteq Slots(k)
  BY <1>1 DEF Slots
<1> QED
  BY <1>1, <1>2 DEF IsTable

(* A write takes the address from an entry of its own location only.        *)
LEMMA OverwrittenIs ==
  ASSUME WellTyped, Reachable(table), Indexed(table, wset, last), NEW a \in Addrs
  PROVE  /\ Overwritten(a) \in Seq(Entries) /\ Len(Overwritten(a)) = Len(wset)
         /\ DOMAIN Overwritten(a) = DOMAIN wset
         /\ \A i \in DOMAIN wset :
              \/ /\ i \in Found(table, a)
                 /\ wset[i].addr = a
                 /\ Overwritten(a)[i].addr = NoAddr
                 /\ Overwritten(a)[i].buf = "freed"
              \/ /\ i \notin Found(table, a)
                 /\ Overwritten(a)[i] = wset[i]
<1>1. PICK c \in Nat : IsTable(table, c, Len(wset))
  BY DEF WellTyped, IsTable
<1>2. wset \in Seq(Entries) /\ Len(wset) \in Nat /\ DOMAIN wset = 1..Len(wset)
  BY DEF WellTyped
<1>3. \A i \in DOMAIN wset : wset[i] \in Entries
  BY <1>2
<1>4. ASSUME NEW i \in DOMAIN wset
      PROVE  [wset[i] EXCEPT !.buf = "freed", !.addr = NoAddr] \in Entries
  BY <1>3, <1>4 DEF Entries
<1>5. Overwritten(a) \in [1..Len(wset) -> Entries]
  BY <1>2, <1>3, <1>4 DEF Overwritten
<1>6. /\ Overwritten(a) \in Seq(Entries) /\ Len(Overwritten(a)) = Len(wset)
      /\ DOMAIN Overwritten(a) = DOMAIN wset
  BY <1>2, <1>5
<1>7. ASSUME NEW i \in DOMAIN wset, i \in Found(table, a)
      PROVE  wset[i].addr = a
  <2>1. PICK s \in StopsFirst(table, a) : i = table[s].index /\ table[s].key = a
    BY <1>7 DEF Found
  <2>2. DOMAIN table = 0..c - 1
    BY <1>1, CapacityIs
  <2>3. StopsFirst(table, a) \subseteq 0..c - 1
    <3>1. \A j \in 0..c - 1 : Probe(table, a, j) \in 0..c - 1
      <4>1. \A j \in 0..c - 1 : j \in Nat
        BY <1>1
      <4> QED
        BY <1>1, <4>1, ProbeOnto
    <3>2. StopsFirst(table, a) = {} \/ \E j \in 0..c - 1 : StopsFirst(table, a) = {Probe(table, a, j)}
      BY <1>1, StopsAt
    <3> QED
      BY <3>1, <3>2
  <2>4. s \in Occupied(table)
    BY <2>1, <2>2, <2>3, ConstAssumption DEF Occupied
  <2> QED
    BY <2>1, <2>4 DEF Indexed
<1>8. ASSUME NEW i \in DOMAIN wset, i \in Found(table, a)
      PROVE  Overwritten(a)[i].addr = NoAddr /\ Overwritten(a)[i].buf = "freed"
  <2>1. Overwritten(a)[i] = [wset[i] EXCEPT !.buf = "freed", !.addr = NoAddr]
    BY <1>8 DEF Overwritten
  <2>2. wset[i] \in Entries
    BY <1>3
  <2> QED
    BY <2>1, <2>2 DEF Entries
<1>9. ASSUME NEW i \in DOMAIN wset, i \notin Found(table, a)
      PROVE  Overwritten(a)[i] = wset[i]
  BY <1>9 DEF Overwritten
<1> QED
  BY <1>6, <1>7, <1>8, <1>9

(* The vector after a write: the last entry with the address is the new one.*)
LEMMA AppendKeeps ==
  ASSUME WellTyped, Reachable(table), Indexed(table, wset, last), NewestKept(wset, last),
         NEW a \in Addrs, NEW v \in Vals, NEW b \in {"live", "freed"}
  PROVE  LET w == Append(Overwritten(a), Entry(a, v, b))
             l == [last EXCEPT ![a] = v]
         IN  /\ w \in Seq(Entries) /\ Len(w) = Len(wset) + 1 /\ DOMAIN w = 1..Len(wset) + 1
             /\ w[Len(wset) + 1] = Entry(a, v, b)
             /\ \A i \in DOMAIN wset :
                  \/ /\ i \in Found(table, a)
                     /\ wset[i].addr = a /\ w[i].addr = NoAddr /\ w[i].buf = "freed"
                  \/ i \notin Found(table, a) /\ w[i] = wset[i]
             /\ NewestKept(w, l)
<1> DEFINE o == Overwritten(a)
           e == Entry(a, v, b)
           w == Append(o, e)
           l == [last EXCEPT ![a] = v]
           n == Len(wset)
<1>1. /\ o \in Seq(Entries) /\ Len(o) = n /\ DOMAIN o = DOMAIN wset
      /\ \A i \in DOMAIN wset :
           \/ /\ i \in Found(table, a)
              /\ wset[i].addr = a /\ o[i].addr = NoAddr /\ o[i].buf = "freed"
           \/ i \notin Found(table, a) /\ o[i] = wset[i]
  BY OverwrittenIs
<1>2. e \in Entries /\ e.addr = a /\ e.val = v
  BY DEF Entry, Entries
<1>3. n \in Nat /\ DOMAIN wset = 1..n
  BY DEF WellTyped
<1> HIDE DEF o, e
<1>4. /\ w \in Seq(Entries) /\ Len(w) = n + 1 /\ DOMAIN w = 1..n + 1
      /\ w[n + 1] = e /\ \A i \in 1..n : w[i] = o[i]
  BY <1>1, <1>2, <1>3
<1>5. l \in [Addrs -> Vals \cup {NoVal}] /\ l[a] = v /\ \A d \in Addrs : d # a => l[d] = last[d]
  BY DEF WellTyped
<1> HIDE DEF w, l
<1>6. ASSUME NEW d \in Addrs
      PROVE  IF l[d] = NoVal THEN \A i \in DOMAIN w : w[i].addr # d
             ELSE \E i \in DOMAIN w : /\ w[i].addr = d /\ w[i].val = l[d]
                                      /\ \A j \in DOMAIN w : j > i => w[j].addr # d
  <2>1. CASE d = a
    <3>1. l[d] # NoVal
      BY <1>5, <2>1, ConstAssumption
    <3>2. n + 1 \in DOMAIN w /\ \A j \in DOMAIN w : ~(j > n + 1)
      BY <1>3, <1>4
    <3> QED
      BY <1>2, <1>4, <1>5, <2>1, <3>1, <3>2
  <2>2. CASE d # a
    <3>1. \A i \in DOMAIN w : w[i].addr = d <=> i \in 1..n /\ wset[i].addr = d
      <4> SUFFICES ASSUME NEW i \in DOMAIN w
                   PROVE  w[i].addr = d <=> i \in 1..n /\ wset[i].addr = d
        OBVIOUS
      <4>1. CASE i = n + 1
        BY <1>2, <1>3, <1>4, <2>2, <4>1
      <4>2. CASE i # n + 1
        <5>1. i \in 1..n /\ i \in DOMAIN wset /\ w[i] = o[i]
          BY <1>3, <1>4, <4>2
        <5>2. CASE wset[i].addr = a /\ o[i].addr = NoAddr
          BY <2>2, <5>1, <5>2, ConstAssumption
        <5>3. CASE o[i] = wset[i]
          BY <5>1, <5>3
        <5> QED
          BY <1>1, <5>1, <5>2, <5>3
      <4> QED
        BY <4>1, <4>2
    <3>2. CASE last[d] = NoVal
      <4>1. \A i \in DOMAIN wset : wset[i].addr # d
        BY <3>2 DEF NewestKept
      <4> QED
        BY <1>3, <1>5, <2>2, <3>1, <3>2, <4>1
    <3>3. CASE last[d] # NoVal
      <4>1. PICK i \in DOMAIN wset :
              /\ wset[i].addr = d /\ wset[i].val = last[d]
              /\ \A j \in DOMAIN wset : j > i => wset[j].addr # d
        BY <3>3 DEF NewestKept
      <4>2. i \in DOMAIN w /\ w[i] = o[i] /\ o[i] = wset[i]
        BY <1>1, <1>3, <1>4, <2>2, <4>1
      <4>3. \A j \in DOMAIN w : j > i => w[j].addr # d
        BY <1>3, <3>1, <4>1
      <4> QED
        BY <1>5, <2>2, <3>3, <4>1, <4>2, <4>3
    <3> QED
      BY <3>2, <3>3
  <2> QED
    BY <2>1, <2>2
<1>7. NewestKept(w, l)
  BY <1>6 DEF NewestKept
<1> QED
  BY <1>1, <1>3, <1>4, <1>7 DEF w, l, o, e
(* The table after an insertion of the newest entry.                        *)
LEMMA PutKeeps ==
  ASSUME WellTyped, Reachable(table), Indexed(table, wset, last),
         NewestKept(wset, last), NothingLost(table, grows, last),
         NEW a \in Addrs, NEW v \in Vals
  PROVE  LET w == Append(Overwritten(a), Entry(a, v, "live"))
             l == [last EXCEPT ![a] = v]
             h == Insert(table, a, Len(wset) + 1, TRUE)
         IN  /\ \E i \in 1..grows + 1 : IsTable(h, Primes[i], Len(wset) + 1)
             /\ Reachable(h)
             /\ Indexed(h, w, l)
             /\ \A d \in Addrs : l[d] # NoVal =>
                  (\E s \in DOMAIN h : h[s].key = d) \/ Occupied(table) = DOMAIN table
             /\ Occupied(table) = DOMAIN table => Occupied(h) = DOMAIN h /\ grows + 1 >= Len(Primes)
<1> DEFINE n == Len(wset)
           w == Append(Overwritten(a), Entry(a, v, "live"))
           l == [last EXCEPT ![a] = v]
           h == Insert(table, a, n + 1, TRUE)
           e == [key |-> a, index |-> n + 1]
<1>1. PICK g \in 1..grows + 1 : IsTable(table, Primes[g], n)
  BY DEF WellTyped
<1>2. PICK c : c = Primes[g]
  OBVIOUS
<1>3. n \in Nat /\ n + 1 \in Nat /\ n <= n + 1 /\ n + 1 \in 0..n + 1 /\ DOMAIN wset = 1..n
  BY DEF WellTyped
<1>4. /\ IsTable(table, c, n) /\ IsTable(table, c, n + 1) /\ DOMAIN table = 0..c - 1 /\ c \in Nat
  <2>1. IsTable(table, c, n)
    BY <1>1, <1>2
  <2>2. IsTable(table, c, n + 1)
    BY <1>3, <2>1, MoreIndices
  <2> QED
    BY <2>1, <2>2, CapacityIs DEF IsTable
<1>5. /\ w[n + 1] = Entry(a, v, "live") /\ DOMAIN w = 1..n + 1
      /\ \A i \in DOMAIN wset :
           \/ i \in Found(table, a) /\ wset[i].addr = a
           \/ i \notin Found(table, a) /\ w[i] = wset[i]
  BY AppendKeeps
<1>6. l[a] = v /\ \A d \in Addrs : d # a => l[d] = last[d]
  BY DEF WellTyped
<1>7. /\ IsTable(h, c, n + 1) /\ Reachable(h)
      /\ \/ h = table /\ \A s \in 0..c - 1 : table[s].key \notin {a, NoAddr}
         \/ \E t \in 0..c - 1 :
              /\ table[t].key \in {a, NoAddr} /\ h = [table EXCEPT ![t] = e]
              /\ \A s \in 0..c - 1 : s # t => table[s].key # a
  <2>1. PICK update \in BOOLEAN : update = TRUE
    OBVIOUS
  <2>2. PICK k \in Nat : k = n + 1
    BY <1>3
  <2>3. h = Insert(table, a, k, update) /\ e = [key |-> a, index |-> k]
    BY <2>1, <2>2
  <2>4. (update \/ \A s \in 0..c - 1 : table[s].key # a) /\ k \in 0..k /\ IsTable(table, c, k)
    BY <1>4, <2>1, <2>2
  <2> HIDE DEF h, n, e
  <2>5. IsTable(h, c, k) /\ Reachable(h)
    BY <2>3, <2>4, InsertIs
  <2>6. \/ h = table /\ \A s \in 0..c - 1 : table[s].key \notin {a, NoAddr}
        \/ \E t \in 0..c - 1 :
             /\ table[t].key \in {a, NoAddr} /\ h = [table EXCEPT ![t] = e]
             /\ \A s \in 0..c - 1 : s # t => table[s].key # a
    BY <2>3, <2>4, InsertIs
  <2> QED
    BY <2>2, <2>5, <2>6
<1>8. e.key = a /\ e.index = n + 1 /\ Entry(a, v, "live").addr = a
      /\ Entry(a, v, "live").val = v /\ Entry(a, v, "live").buf = "live" /\ a # NoAddr
  BY ConstAssumption DEF Entry
<1> HIDE DEF n, w, l, h, e
<1>9. DOMAIN h = 0..c - 1
  BY <1>7, CapacityIs
<1>10. ASSUME NEW s \in Occupied(table), table[s].key # a
       PROVE  /\ table[s].index \in DOMAIN w
              /\ w[table[s].index].addr = table[s].key
              /\ w[table[s].index].val = l[table[s].key]
              /\ w[table[s].index].buf = "live"
  <2>1. table[s].key \in Addrs
    BY <1>4 DEF Occupied, IsTable, Slots
  <2>2. /\ table[s].index \in DOMAIN wset
        /\ wset[table[s].index].addr = table[s].key
        /\ wset[table[s].index].val = last[table[s].key]
        /\ wset[table[s].index].buf = "live"
    BY DEF Indexed
  <2>3. w[table[s].index] = wset[table[s].index] /\ table[s].index \in DOMAIN w
    BY <1>3, <1>5, <1>10, <2>2
  <2> QED
    BY <1>6, <1>10, <2>1, <2>2, <2>3
<1>11. CASE h = table /\ \A s \in 0..c - 1 : table[s].key \notin {a, NoAddr}
  <2>1. Occupied(h) = DOMAIN h /\ Occupied(table) = DOMAIN table
    BY <1>4, <1>11 DEF Occupied
  <2>2. Indexed(h, w, l)
    BY <1>4, <1>10, <1>11, <2>1 DEF Indexed
  <2>3. grows + 1 >= Len(Primes)
    BY <2>1 DEF NothingLost
  <2> QED
    BY <1>1, <1>2, <1>7, <2>1, <2>2, <2>3 DEF n, w, l, h
<1>12. ASSUME NEW t \in 0..c - 1, table[t].key \in {a, NoAddr}, h = [table EXCEPT ![t] = e],
              \A s \in 0..c - 1 : s # t => table[s].key # a
       PROVE  /\ Indexed(h, w, l)
              /\ \A d \in Addrs : l[d] # NoVal =>
                   (\E s \in DOMAIN h : h[s].key = d) \/ Occupied(table) = DOMAIN table
              /\ Occupied(table) = DOMAIN table => Occupied(h) = DOMAIN h /\ grows + 1 >= Len(Primes)
  <2>1. h[t] = e /\ \A s \in 0..c - 1 : s # t => h[s] = table[s]
    BY <1>4, <1>12
  <2>2. ASSUME NEW s \in Occupied(h)
        PROVE  /\ h[s].index \in DOMAIN w
               /\ w[h[s].index].addr = h[s].key /\ w[h[s].index].val = l[h[s].key]
               /\ w[h[s].index].buf = "live"
    <3>1. s \in 0..c - 1 /\ h[s].key # NoAddr
      BY <1>9 DEF Occupied
    <3>2. CASE s = t
      BY <1>3, <1>5, <1>6, <1>8, <2>1, <3>2
    <3>3. CASE s # t
      <4>1. h[s] = table[s] /\ table[s].key # a /\ s \in Occupied(table)
        BY <1>4, <1>12, <2>1, <3>1, <3>3 DEF Occupied
      <4> QED
        BY <1>10, <4>1
    <3> QED
      BY <3>2, <3>3
  <2>3. Occupied(table) = DOMAIN table => Occupied(h) = DOMAIN h
    BY <1>4, <1>8, <1>9, <2>1 DEF Occupied
  <2>4. ASSUME NEW d \in Addrs, l[d] # NoVal, Occupied(table) # DOMAIN table
        PROVE  \E s \in DOMAIN h : h[s].key = d
    <3>1. CASE d = a
      BY <1>8, <1>9, <2>1, <3>1
    <3>2. CASE d # a
      <4>1. last[d] # NoVal /\ Occupied(table) # DOMAIN table
        BY <1>6, <2>4, <3>2
      <4>2. PICK s \in DOMAIN table : table[s].key = d
        BY <4>1 DEF NothingLost
      <4>3. s # t
        BY <1>12, <3>2, <4>2, ConstAssumption
      <4> QED
        BY <1>4, <1>9, <2>1, <4>2, <4>3
    <3> QED
      BY <3>1, <3>2
  <2>5. Occupied(table) = DOMAIN table => grows + 1 >= Len(Primes)
    BY DEF NothingLost
  <2> QED
    BY <2>2, <2>3, <2>4, <2>5 DEF Indexed
<1> QED
  BY <1>1, <1>2, <1>7, <1>11, <1>12 DEF n, w, l, h
(* A full table that can grow will.                                         *)
LEMMA FullGrows ==
  ASSUME NEW h, NEW d, NEW n, NEW g \in Nat, IsTable(h, d, n), Occupied(h) = DOMAIN h
  PROVE  MustGrow(h, g) \/ g + 1 >= Len(Primes)
<1>1. Len(Primes) \in Nat /\ d \in Nat /\ Capacity(h) = d
  <2>1. d \in Nat
    BY DEF IsTable
  <2> QED
    BY <2>1, CapacityIs, ConstAssumption
<1>2. Cardinality(Occupied(h)) = d
  BY <1>1 DEF Capacity
<1>3. 4 * d >= 3 * d
  BY <1>1
<1> QED
  BY <1>1, <1>2, <1>3 DEF MustGrow

(* A larger table has every key, leads to the same entries, and is not full.*)
Grown(h, new, c, n, w, l) ==
  /\ IsTable(new, c, n) /\ Reachable(new) /\ Indexed(new, w, l)
  /\ Occupied(new) # DOMAIN new
  /\ \A s \in DOMAIN h : h[s].key # NoAddr => \E t \in DOMAIN new : new[t] = h[s]

(* tx_hash_resize keeps what a table says, in a table with room.            *)
LEMMA GrowKeeps ==
  ASSUME NEW h, NEW d, NEW n, IsTable(h, d, n), Reachable(h), NEW c \in Nat, d < c,
         NEW w, NEW l, Indexed(h, w, l)
  PROVE  Grown(h, Rehash(h, c), c, n, w, l)
<1>1. PICK new : new = Rehash(h, c)
  OBVIOUS
<1>2. Refilled(h, c, n, d, new) /\ DOMAIN h = 0..d - 1 /\ d \in Nat
  BY <1>1, CapacityIs, RehashIs DEF IsTable
<1>3. IsTable(new, c, n) /\ Reachable(new) /\ Cardinality(Occupied(new)) <= d
  BY <1>2 DEF Refilled
<1>4. \A t \in 0..c - 1 : new[t].key # NoAddr => \E s \in 0..d - 1 : h[s] = new[t]
  BY <1>2 DEF Refilled
<1>5. \A s \in 0..d - 1 : h[s].key # NoAddr => \E t \in 0..c - 1 : new[t] = h[s]
  BY <1>2 DEF Refilled
<1>6. DOMAIN new = 0..c - 1 /\ IsFiniteSet(0..c - 1)
  BY <1>3, CapacityIs
<1>7. Indexed(new, w, l)
  <2> SUFFICES ASSUME NEW t \in Occupied(new)
               PROVE  /\ new[t].index \in DOMAIN w
                      /\ w[new[t].index].addr = new[t].key
                      /\ w[new[t].index].val = l[new[t].key]
                      /\ w[new[t].index].buf = "live"
    BY DEF Indexed
  <2>1. t \in 0..c - 1 /\ new[t].key # NoAddr
    BY <1>6 DEF Occupied
  <2>2. PICK s \in 0..d - 1 : h[s] = new[t]
    BY <1>4, <2>1
  <2>3. s \in Occupied(h)
    BY <1>2, <2>1, <2>2 DEF Occupied
  <2> QED
    BY <2>2, <2>3 DEF Indexed
<1>8. Occupied(new) # DOMAIN new
  <2>1. Occupied(new) \subseteq 0..c - 1
    BY <1>6 DEF Occupied
  <2>2. Cardinality(Occupied(new)) \in Nat
    BY <1>6, <2>1, FS_Subset, FS_CardinalityType
  <2>3. Cardinality(Occupied(new)) < c
    BY <1>2, <1>3, <2>2
  <2>4. PICK s \in 0..c - 1 : new[s].key = NoAddr
    BY <1>3, <2>3, HasRoom
  <2> QED
    BY <1>6, <2>4 DEF Occupied
<1>9. Grown(h, new, c, n, w, l)
  BY <1>2, <1>3, <1>5, <1>6, <1>7, <1>8 DEF Grown
<1> QED
  BY <1>1, <1>9

(* norec_tx_write *)
LEMMA WriteInv ==
  ASSUME IInv, NEW a \in Addrs, NEW v \in Vals, Write(a, v)
  PROVE  IInv'
<1> DEFINE n == Len(wset)
           w == Append(Overwritten(a), Entry(a, v, "live"))
           l == [last EXCEPT ![a] = v]
           h == Insert(table, a, n + 1, TRUE)
<1>1. /\ WellTyped /\ Reachable(table) /\ stage = "work" /\ mem = before
      /\ Indexed(table, wset, last) /\ NewestKept(wset, last)
      /\ NothingLost(table, grows, last) /\ FreedIsGone(wset, wrote2)
      /\ double => wrote2
  BY DEF IInv, Write
<1>2. /\ wset' = w /\ last' = l /\ wrote2' = (wrote2 \/ last[a] # NoVal)
      /\ vcap' = IF Fills THEN 2 * vcap ELSE vcap
      /\ stage' = stage /\ mem' = mem /\ double' = double /\ before' = before
  BY DEF Write
<1>3. /\ w \in Seq(Entries) /\ Len(w) = n + 1 /\ DOMAIN w = 1..n + 1
      /\ w[n + 1] = Entry(a, v, "live")
      /\ \A i \in DOMAIN wset :
           \/ /\ i \in Found(table, a)
              /\ wset[i].addr = a /\ w[i].addr = NoAddr /\ w[i].buf = "freed"
           \/ i \notin Found(table, a) /\ w[i] = wset[i]
      /\ NewestKept(w, l)
  BY <1>1, AppendKeeps
<1>4. /\ \E i \in 1..grows + 1 : IsTable(h, Primes[i], n + 1)
      /\ Reachable(h) /\ Indexed(h, w, l)
      /\ \A d \in Addrs : l[d] # NoVal =>
           (\E s \in DOMAIN h : h[s].key = d) \/ Occupied(table) = DOMAIN table
      /\ Occupied(table) = DOMAIN table => Occupied(h) = DOMAIN h /\ grows + 1 >= Len(Primes)
  BY <1>1, PutKeeps
<1>5. n \in Nat /\ DOMAIN wset = 1..n /\ grows \in 0..Len(Primes) - 1 /\ Len(Primes) \in Nat
  BY <1>1, ConstAssumption DEF WellTyped
<1>6. \/ MustGrow(h, grows) /\ table' = Rehash(h, Primes[grows + 2]) /\ grows' = grows + 1
      \/ ~MustGrow(h, grows) /\ table' = h /\ grows' = grows
  BY <1>2, <1>3 DEF Write
<1>7. FreedIsGone(w, wrote2')
  <2> SUFFICES ASSUME NEW i \in 1..n + 1, w[i].buf = "freed"
               PROVE  w[i].addr = NoAddr /\ wrote2'
    BY <1>3 DEF FreedIsGone
  <2>1. i # n + 1
    BY <1>3 DEF Entry
  <2>2. i \in DOMAIN wset
    BY <1>5, <2>1
  <2>3. CASE wset[i].addr = a /\ w[i].addr = NoAddr
    <3>1. last[a] # NoVal
      BY <1>1, <2>2, <2>3 DEF NewestKept
    <3> QED
      BY <1>2, <2>3, <3>1
  <2>4. CASE w[i] = wset[i]
    BY <1>1, <1>2, <2>2, <2>4 DEF FreedIsGone
  <2> QED
    BY <1>3, <2>2, <2>3, <2>4
<1>8. l \in [Addrs -> Vals \cup {NoVal}]
  BY <1>1 DEF WellTyped
<1>9. vcap' \in Nat /\ vcap' >= 2 /\ n + 1 < vcap'
  BY <1>1, <1>2, <1>5 DEF WellTyped, Fills
<1> HIDE DEF n, w, l, h
<1>10. PICK i \in 1..grows + 1 : IsTable(h, Primes[i], n + 1)
  BY <1>4
<1>11. /\ grows' \in 0..Len(Primes) - 1
       /\ \E j \in 1..grows' + 1 : IsTable(table', Primes[j], Len(wset'))
       /\ Reachable(table') /\ Indexed(table', wset', last') /\ NothingLost(table', grows', last')
  <2>1. CASE MustGrow(h, grows) /\ table' = Rehash(h, Primes[grows + 2]) /\ grows' = grows + 1
    <3>1. /\ grows' \in 0..Len(Primes) - 1 /\ grows + 2 \in 1..grows' + 1
          /\ IsTable(table', Primes[grows + 2], n + 1)
          /\ Reachable(table') /\ Indexed(table', w, l)
          /\ Occupied(table') # DOMAIN table'
          /\ \A d \in Addrs : (\E s \in DOMAIN h : h[s].key = d) =>
               \E s \in DOMAIN table' : table'[s].key = d
      <4>1. grows + 1 < Len(Primes)
        BY <2>1 DEF MustGrow
      <4>2. /\ grows' \in 0..Len(Primes) - 1 /\ grows + 2 \in 1..grows' + 1
            /\ i \in DOMAIN Primes /\ grows + 2 \in DOMAIN Primes /\ i < grows + 2
        BY <1>5, <1>10, <2>1, <4>1, ConstAssumption
      <4>3. PICK d \in Nat, c \in Nat : d = Primes[i] /\ c = Primes[grows + 2]
        BY <4>2, ConstAssumption
      <4>4. d < c
        BY <4>2, <4>3, ConstAssumption
      <4>5. IsTable(h, d, n + 1) /\ table' = Rehash(h, c)
        BY <1>10, <2>1, <4>3
      <4>6. Grown(h, table', c, n + 1, w, l)
        BY <1>4, <4>4, <4>5, GrowKeeps
      <4> QED
        BY <4>2, <4>3, <4>6, ConstAssumption DEF Grown
    <3>2. Occupied(table) # DOMAIN table
      BY <1>4, <1>5, <2>1 DEF MustGrow
    <3>3. NothingLost(table', grows', l)
      BY <1>4, <3>1, <3>2 DEF NothingLost
    <3> QED
      BY <1>2, <1>3, <3>1, <3>3
  <2>2. CASE ~MustGrow(h, grows) /\ table' = h /\ grows' = grows
    <3>1. Occupied(h) = DOMAIN h => grows + 1 >= Len(Primes)
      BY <1>5, <1>10, <2>2, FullGrows
    <3>2. NothingLost(h, grows, l)
      BY <1>4, <3>1 DEF NothingLost
    <3> QED
      BY <1>2, <1>3, <1>4, <1>5, <2>2, <3>2
  <2> QED
    BY <1>6, <2>1, <2>2
<1>12. WellTyped'
  <2>1. wset' \in Seq(Entries) /\ Len(wset') = n + 1 /\ wrote2' \in BOOLEAN
    BY <1>1, <1>2, <1>3 DEF WellTyped
  <2> QED
    BY <1>1, <1>2, <1>8, <1>9, <1>11, <2>1 DEF WellTyped
<1> QED
  BY <1>1, <1>2, <1>3, <1>7, <1>11, <1>12 DEF IInv
(* No room for the entry, or for a larger table: the transaction aborts.    *)
LEMMA NoEntryInv ==
  ASSUME IInv, NEW a \in Addrs, NEW v \in Vals, NoEntry(a, v)
  PROVE  IInv'
<1> DEFINE w == Append(Overwritten(a), Entry(a, v, "freed"))
<1>1. /\ WellTyped /\ Reachable(table) /\ Indexed(table, wset, last) /\ NewestKept(wset, last)
      /\ double => wrote2
  BY DEF IInv, NoEntry
<1>2. /\ wset' = w /\ stage' = "aborted" /\ wrote2' = TRUE /\ double' = double
      /\ vcap' = vcap /\ table' = table /\ grows' = grows
      /\ mem' = mem /\ last' = last /\ before' = before
  BY DEF NoEntry
<1>3. w \in Seq(Entries) /\ Len(w) = Len(wset) + 1
  BY <1>1, AppendKeeps
<1> HIDE DEF w
<1>4. \E i \in 1..grows + 1 : IsTable(table, Primes[i], Len(w))
  <2>1. PICK i \in 1..grows + 1 : IsTable(table, Primes[i], Len(wset))
    BY <1>1 DEF WellTyped
  <2>2. Len(wset) \in Nat /\ Len(w) \in Nat /\ Len(wset) <= Len(w)
    BY <1>1, <1>3 DEF WellTyped
  <2> QED
    BY <2>1, <2>2, MoreIndices
<1>5. WellTyped'
  BY <1>1, <1>2, <1>3, <1>4 DEF WellTyped
<1> QED
  BY <1>1, <1>2, <1>5 DEF IInv

(* The entry is in the vector, and the table had no memory to grow.         *)
LEMMA NoTableInv ==
  ASSUME IInv, NEW a \in Addrs, NEW v \in Vals, NoTable(a, v)
  PROVE  IInv'
<1> DEFINE w == Append(Overwritten(a), Entry(a, v, "freed"))
           h == Insert(table, a, Len(wset) + 1, TRUE)
<1>1. /\ WellTyped /\ Reachable(table) /\ Indexed(table, wset, last) /\ NewestKept(wset, last)
      /\ NothingLost(table, grows, last)
      /\ double => wrote2
  BY DEF IInv, NoTable
<1>2. w \in Seq(Entries) /\ Len(w) = Len(wset) + 1
  BY <1>1, AppendKeeps
<1>3. /\ wset' = w /\ stage' = "aborted" /\ wrote2' = TRUE /\ double' = double
      /\ vcap' = (IF Fills THEN 2 * vcap ELSE vcap) /\ grows' = grows + 1
      /\ mem' = mem /\ last' = last /\ before' = before
      /\ table' = h /\ MustGrow(h, grows)
  BY <1>2 DEF NoTable
<1>4. (\E i \in 1..grows + 1 : IsTable(h, Primes[i], Len(wset) + 1)) /\ Reachable(h)
  BY <1>1, PutKeeps
<1> HIDE DEF w, h
<1>5. grows' \in 0..Len(Primes) - 1 /\ 1..grows + 1 \subseteq 1..grows' + 1
  BY <1>1, <1>3, ConstAssumption DEF MustGrow, WellTyped
<1>6. vcap' \in Nat /\ vcap' >= 2
  BY <1>1, <1>3 DEF WellTyped
<1>7. \E i \in 1..grows' + 1 : IsTable(table', Primes[i], Len(wset'))
  BY <1>2, <1>3, <1>4, <1>5
<1>8. WellTyped'
  BY <1>1, <1>2, <1>3, <1>5, <1>6, <1>7 DEF WellTyped
<1> QED
  BY <1>1, <1>3, <1>4, <1>8 DEF IInv

(* No buffer, an abort, and steps that change nothing.                      *)
LEMMA StopInv ==
  ASSUME IInv, NoBuffer \/ Abort
  PROVE  IInv'
<1>1. /\ stage' = "aborted"
      /\ UNCHANGED <<wset, vcap, table, grows, mem, double, last, before, wrote2>>
  BY DEF NoBuffer, Abort
<1>2. WellTyped'
  BY <1>1 DEF IInv, WellTyped
<1>3. \A i \in DOMAIN wset : wset[i].buf = "freed" => wrote2
  BY DEF IInv, FreedIsGone, NoBuffer, Abort
<1> QED
  BY <1>1, <1>2, <1>3 DEF IInv

(* The commit replays the vector.                                           *)
LEMMA CommitInv ==
  ASSUME IInv, Commit
  PROVE  IInv'
<1>1. /\ WellTyped /\ stage = "work" /\ mem = before /\ Reachable(table)
      /\ Indexed(table, wset, last) /\ NewestKept(wset, last)
      /\ NothingLost(table, grows, last) /\ FreedIsGone(wset, wrote2)
      /\ double => wrote2
  BY DEF IInv, Commit
<1>2. /\ stage' = "committed" /\ mem' = Replay(mem)
      /\ UNCHANGED <<wset, vcap, table, grows, double, last, before, wrote2>>
  BY DEF Commit
<1>3. Replayed(wset, mem, Len(wset), mem')
  BY <1>1, <1>2, ReplayIs DEF WellTyped
<1>4. wset \in Seq(Entries) /\ DOMAIN wset = 1..Len(wset) /\ Len(wset) \in Nat
  BY <1>1 DEF WellTyped
<1>5. mem' \in [Addrs -> Vals]
  BY <1>3 DEF Replayed
<1>6. ASSUME NEW a \in Addrs
      PROVE  mem'[a] = IF last[a] = NoVal THEN before[a] ELSE last[a]
  <2>1. CASE last[a] = NoVal
    <3>1. \A i \in 1..Len(wset) : wset[i].addr # a
      BY <1>1, <1>4, <2>1 DEF NewestKept
    <3> QED
      BY <1>1, <1>3, <2>1, <3>1 DEF Replayed
  <2>2. CASE last[a] # NoVal
    <3>1. PICK i \in 1..Len(wset) :
            /\ wset[i].addr = a /\ wset[i].val = last[a]
            /\ \A j \in 1..Len(wset) : j > i => wset[j].addr # a
      BY <1>1, <1>4, <2>2 DEF NewestKept
    <3>2. \A j \in i + 1..Len(wset) : wset[j].addr # a
      BY <1>4, <3>1
    <3> QED
      BY <1>3, <2>2, <3>1, <3>2 DEF Replayed
  <2> QED
    BY <2>1, <2>2
<1>7. mem' = Overlay(before, last)
  BY <1>5, <1>6 DEF Overlay
<1>8. WellTyped'
  BY <1>1, <1>2, <1>5 DEF WellTyped
<1> QED
  BY <1>1, <1>2, <1>7, <1>8 DEF IInv

(* The end empties the vector and the table.                                *)
LEMMA EndInv ==
  ASSUME IInv, End
  PROVE  IInv'
<1>1. /\ WellTyped /\ stage \in {"aborted", "committed"}
      /\ \A i \in DOMAIN wset : wset[i].buf = "freed" => wrote2
  BY DEF IInv, End, FreedIsGone
<1>2. /\ stage' = "out" /\ wset' = <<>> /\ table' = EmptyTable(Capacity(table))
      /\ double' = \E i \in DOMAIN wset : wset[i].buf = "freed"
      /\ UNCHANGED <<vcap, grows, mem, last, before, wrote2>>
  BY DEF End
<1>3. PICK i \in 1..grows + 1 : IsTable(table, Primes[i], Len(wset))
  BY <1>1 DEF WellTyped
<1>4. PICK c \in Nat \ {0} : c = Primes[i] /\ Capacity(table) = c
  BY <1>3, CapacityIs DEF IsTable
<1>5. /\ IsTable(table', Primes[i], 0) /\ Reachable(table') /\ Occupied(table') = {}
  <2>1. PICK n \in Nat : n = 0
    OBVIOUS
  <2>2. IsTable(EmptyTable(c), c, n) /\ Reachable(EmptyTable(c)) /\ Occupied(EmptyTable(c)) = {}
    BY EmptyIs
  <2> QED
    BY <1>2, <1>4, <2>1, <2>2
<1>6. wset' \in Seq(Entries) /\ Len(wset') = 0
  BY <1>2
<1>7. WellTyped'
  BY <1>1, <1>2, <1>5, <1>6 DEF WellTyped
<1> QED
  BY <1>1, <1>2, <1>5, <1>7 DEF IInv

(* The next transaction begins with both empty.                             *)
LEMMA BeginInv ==
  ASSUME IInv, Begin
  PROVE  IInv'
<1>1. WellTyped /\ Reachable(table) /\ wset = <<>> /\ Occupied(table) = {} /\ double = FALSE
  BY DEF IInv, Begin, WellTyped
<1>2. /\ stage' = "work" /\ last' = NoWrites /\ before' = mem /\ wrote2' = FALSE
      /\ UNCHANGED <<wset, vcap, table, grows, mem, double>>
  BY DEF Begin
<1>3. WellTyped'
  <2>1. last' \in [Addrs -> Vals \cup {NoVal}]
    BY <1>2 DEF NoWrites
  <2>2. Len(wset) < vcap
    BY <1>1 DEF WellTyped
  <2> QED
    BY <1>1, <1>2, <2>1, <2>2 DEF WellTyped
<1>4. Indexed(table, wset, last')
  BY <1>1 DEF Indexed
<1>5. \A a \in Addrs : last'[a] = NoVal
  BY <1>2 DEF NoWrites
<1>6. DOMAIN wset = {}
  BY <1>1
<1>7. NewestKept(wset, last') /\ FreedIsGone(wset, FALSE)
  BY <1>5, <1>6 DEF NewestKept, FreedIsGone
<1>8. NothingLost(table, grows, last')
  <2>1. PICK i \in 1..grows + 1 : IsTable(table, Primes[i], Len(wset))
    BY <1>1 DEF WellTyped
  <2>2. DOMAIN table # {}
    <3>1. PICK c \in Nat \ {0} : DOMAIN table = 0..c - 1
      BY <2>1, CapacityIs DEF IsTable
    <3>2. 0 \in 0..c - 1
      OBVIOUS
    <3> QED
      BY <3>1, <3>2
  <2> QED
    BY <1>1, <1>5, <2>2 DEF NothingLost
<1> QED
  BY <1>1, <1>2, <1>3, <1>4, <1>7, <1>8 DEF IInv

(* A thread begins with an empty vector and an empty table.                 *)
LEMMA InitInv == Init => IInv
<1> SUFFICES ASSUME Init PROVE IInv
  OBVIOUS
<1>1. /\ stage = "out" /\ wset = <<>> /\ vcap = VecInit /\ table = EmptyTable(Primes[1])
      /\ grows = 0 /\ double = FALSE /\ last = NoWrites /\ before = mem /\ wrote2 = FALSE
      /\ mem \in [Addrs -> {CHOOSE v \in Vals : TRUE}]
  BY DEF Init
<1>2. (CHOOSE v \in Vals : TRUE) \in Vals
  BY ConstAssumption
<1>3. Len(Primes) \in Nat /\ Len(Primes) >= 1 /\ Primes[1] \in Nat \ {0}
  BY ConstAssumption
<1>4. IsTable(table, Primes[1], Len(wset)) /\ Reachable(table) /\ Occupied(table) = {}
  <2>1. PICK n \in Nat, c \in Nat \ {0} : n = Len(wset) /\ c = Primes[1]
    BY <1>1, <1>3
  <2>2. IsTable(EmptyTable(c), c, n) /\ Reachable(EmptyTable(c)) /\ Occupied(EmptyTable(c)) = {}
    BY EmptyIs
  <2> QED
    BY <1>1, <2>1, <2>2
<1>5. mem \in [Addrs -> Vals] /\ last \in [Addrs -> Vals \cup {NoVal}]
  BY <1>1, <1>2 DEF NoWrites
<1>6. 1 \in 1..grows + 1 /\ grows \in 0..Len(Primes) - 1
  BY <1>1, <1>3
<1>7. WellTyped
  <2>1. \E i \in 1..grows + 1 : IsTable(table, Primes[i], Len(wset))
    BY <1>4, <1>6
  <2>2. vcap \in Nat /\ vcap >= 2
    BY <1>1, ConstAssumption
  <2>3a. <<>> \in Seq(Entries)
    OBVIOUS
  <2>3b. wset \in Seq(Entries)
    BY <1>1, <2>3a
  <2>3c. double \in BOOLEAN
    BY <1>1
  <2>3d. wrote2 \in BOOLEAN
    BY <1>1
  <2>3. wset \in Seq(Entries) /\ double \in BOOLEAN /\ wrote2 \in BOOLEAN /\ stage # "work"
    BY <1>1, <2>3b, <2>3c, <2>3d
  <2>4. stage \in {"out", "work", "aborted", "committed"} /\ before \in [Addrs -> Vals]
    BY <1>1, <1>5
  <2> QED
    BY <1>5, <1>6, <2>1, <2>2, <2>3, <2>4 DEF WellTyped
<1> QED
  BY <1>1, <1>4, <1>7 DEF IInv

(* Every step keeps the invariant.                                          *)
LEMMA NextInv == IInv /\ [Next]_vars => IInv'
<1> SUFFICES ASSUME IInv, [Next]_vars PROVE IInv'
  OBVIOUS
<1>1. CASE UNCHANGED vars
  BY <1>1 DEF vars, IInv, WellTyped
<1>2. ASSUME NEW a \in Addrs, NEW v \in Vals, Write(a, v) \/ NoEntry(a, v) \/ NoTable(a, v)
      PROVE  IInv'
  BY <1>2, WriteInv, NoEntryInv, NoTableInv
<1>3. CASE Begin
  BY <1>3, BeginInv
<1>4. CASE NoBuffer \/ Abort
  BY <1>4, StopInv
<1>5. CASE Commit
  BY <1>5, CommitInv
<1>6. CASE End
  BY <1>6, EndInv
<1> QED
  BY <1>1, <1>2, <1>3, <1>4, <1>5, <1>6 DEF Next, Dead

--------------------------------------------------------------------------------
(* The theorems.                                                            *)

(* What a lookup finds, by the invariant.                                   *)
LEMMA LookupIs ==
  ASSUME IInv, stage \in {"work", "committed"}, NEW a \in Addrs
  PROVE  \/ \E s \in Occupied(table) : table[s].key = a /\ Found(table, a) = {table[s].index}
         \/ /\ Found(table, a) = {}
            /\ last[a] # NoVal => Occupied(table) = DOMAIN table
<1>1. PICK c \in Nat : IsTable(table, c, Len(wset))
  BY DEF IInv, WellTyped, IsTable
<1>2. DOMAIN table = 0..c - 1
  BY <1>1, CapacityIs
<1>3. Reachable(table) /\ NothingLost(table, grows, last)
  BY DEF IInv
<1>4. CASE \E s \in 0..c - 1 : table[s].key = a
  <2>1. PICK s \in 0..c - 1 : table[s].key = a
    BY <1>4
  <2>2. Found(table, a) = {table[s].index} /\ s \in Occupied(table)
    BY <1>1, <1>2, <1>3, <2>1, FoundIs, ConstAssumption DEF Occupied
  <2> QED
    BY <2>1, <2>2
<1>5. CASE \A s \in 0..c - 1 : table[s].key # a
  <2>1. Found(table, a) = {}
    BY <1>1, <1>3, <1>5, FoundIs
  <2> QED
    BY <1>2, <1>3, <1>5, <2>1 DEF NothingLost
<1> QED
  BY <1>4, <1>5

(* The types are a part of the invariant.                                   *)
LEMMA InvImpliesTypes == IInv => TypeOK
<1> SUFFICES ASSUME IInv PROVE TypeOK
  OBVIOUS
<1>1. WellTyped
  BY DEF IInv
<1>2. PICK i \in 1..grows + 1 : IsTable(table, Primes[i], Len(wset))
  BY <1>1 DEF WellTyped
<1>3. DOMAIN table = 0..Primes[i] - 1 /\ \A s \in DOMAIN table : table[s] \in Slots(Len(wset))
  BY <1>2, CapacityIs DEF IsTable
<1> QED
  BY <1>1, <1>3 DEF WellTyped, TypeOK, Slots

(* What was written has a slot unless the table is full, and the slot names *)
(* its newest entry.                                                        *)
LEMMA InvImpliesLookup == IInv => LookupFailsOnlyWhenFull
<1> SUFFICES ASSUME IInv, stage = "work", NEW a \in Addrs, Occupied(table) # DOMAIN table
             PROVE  FindsLastWrite(a)
  BY InvImpliesTypes DEF LookupFailsOnlyWhenFull
<1>1. WellTyped /\ Indexed(table, wset, last)
  BY DEF IInv
<1>2. ASSUME NEW s \in Occupied(table), table[s].key = a, Found(table, a) = {table[s].index}
      PROVE  FindsLastWrite(a)
  <2>1. (CHOOSE i \in Found(table, a) : TRUE) = table[s].index /\ Found(table, a) # {}
    BY <1>2
  <2>2. Value(a) = wset[table[s].index].val
    BY <2>1 DEF Value
  <2>3. table[s].index \in DOMAIN wset /\ wset[table[s].index].val = last[a]
    BY <1>1, <1>2 DEF Indexed
  <2>4. wset[table[s].index] \in Entries
    BY <1>1, <2>3 DEF WellTyped
  <2>5. last[a] # NoVal
    BY <2>3, <2>4, ConstAssumption DEF Entries
  <2> QED
    BY <2>2, <2>3, <2>5 DEF FindsLastWrite, Overlay
<1>3. CASE Found(table, a) = {} /\ last[a] = NoVal
  BY <1>3 DEF FindsLastWrite, Value, Overlay
<1> QED
  BY <1>2, <1>3, LookupIs

(* A slot names an entry with a live buffer, and the replay skips those     *)
(* without an address.                                                      *)
LEMMA InvImpliesOutOfReach == IInv => FreedIsOutOfReach
<1> SUFFICES ASSUME IInv, stage \in {"work", "committed"},
                    NEW i \in DOMAIN wset, wset[i].buf = "freed"
             PROVE  /\ wset[i].addr = NoAddr
                    /\ \A a \in Addrs : i \notin Found(table, a)
  BY DEF FreedIsOutOfReach
<1>1. Indexed(table, wset, last) /\ FreedIsGone(wset, wrote2)
  BY DEF IInv
<1>2. ASSUME NEW a \in Addrs, i \in Found(table, a) PROVE FALSE
  <2>1. PICK s \in Occupied(table) : i = table[s].index
    BY <1>2, LookupIs
  <2> QED
    BY <1>1, <2>1 DEF Indexed
<1> QED
  BY <1>1, <1>2 DEF FreedIsGone

(* IInv holds in every state the write set comes to.                        *)
THEOREM WriteSetInvariance == Spec => []IInv
<1>1. Init => IInv
  BY InitInv
<1>2. IInv /\ [Next]_vars => IInv'
  BY NextInv
<1> QED
  BY <1>1, <1>2, PTL DEF Spec

(* However often the table has grown, what a transaction wrote last to a    *)
(* location is what it reads back, until every slot is taken.               *)
THEOREM WriteSetLookup == Spec => []LookupFailsOnlyWhenFull
<1>1. IInv => LookupFailsOnlyWhenFull
  BY InvImpliesLookup
<1> QED
  BY <1>1, WriteSetInvariance, PTL

(* The replay leaves in every location the last value written to it, also   *)
(* when the table was full.                                                 *)
THEOREM WriteSetReplay == Spec => []ReplayIsLastWrite
<1>1. IInv => ReplayIsLastWrite
  BY DEF IInv, ReplayIsLastWrite
<1> QED
  BY <1>1, WriteSetInvariance, PTL

(* Neither a lookup nor the replay comes to a buffer that was freed early.  *)
THEOREM WriteSetFreed == Spec => []FreedIsOutOfReach
<1>1. IInv => FreedIsOutOfReach
  BY InvImpliesOutOfReach
<1> QED
  BY <1>1, WriteSetInvariance, PTL

(* The end frees no buffer twice as long as no location was written again   *)
(* and no write failed half way.                                            *)
THEOREM WriteSetFrees == Spec => []DoubleFreeNeedsRewrite
<1>1. IInv => DoubleFreeNeedsRewrite
  BY DEF IInv, DoubleFreeNeedsRewrite
<1> QED
  BY <1>1, WriteSetInvariance, PTL
================================================================================
